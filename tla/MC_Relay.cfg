\* The items are files the default policy has no room for: one member must relax it first.
CONSTANTS
  d1 = d1
  d2 = d2
  g1 = g1
  i1 = i1
  i2 = i2
  i3 = i3
  Devices <- MCDevices
  Groups = {g1}
  Items <- MCItems
  Kinds = {"bigfile"}
  Kind <- MCKind
  DefaultAllow = {}
  Sinks <- MCDevices
  SinkOf <- MCSinkOf
  NoGroup = NoGroup
  NoSink = NoSink
  MaxBindAttempts = 1
  BindTtl = 1
  OfflineTtl = 1
  MaxDevicesPerGroup = 3
  SeenWindow = 2
  MaxNow = 1
  MaxIds = 0
  MaxPushes = 4
  MaxPolicyVersion = 2
SPECIFICATION Spec
SYMMETRY Symmetry
INVARIANTS
  DedupWindow
  AcceptedItemAccounted
PROPERTIES
  ImplementsMailboxes
