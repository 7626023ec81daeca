CONSTANTS
  d1 = d1
  d2 = d2
  d3 = d3
  g1 = g1
  g2 = g2
  i1 = i1
  Devices <- MCDevices
  Groups <- MCGroups
  Items <- MCItems
  Kinds = {"text"}
  Kind <- MCKind
  DefaultAllow = {"text"}
  Sinks <- MCDevices
  SinkOf <- MCSinkOf
  NoGroup = NoGroup
  NoSink = NoSink
  MaxBindAttempts = 1
  BindTtl = 1
  OfflineTtl = 1
  MaxDevicesPerGroup = 3
  SeenWindow = 1
  MaxNow = 1
  MaxIds = 2
  MaxPushes = 2
  MaxPolicyVersion = 0
SPECIFICATION Spec
SYMMETRY Symmetry
INVARIANTS
  AcceptedItemAccounted
PROPERTIES
  SentWithinGroup
  RemovedForGood
