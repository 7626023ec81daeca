\* No item exists, so no policy matters; two callers race for groups of two.
CONSTANTS
  d1 = d1
  d2 = d2
  d3 = d3
  g1 = g1
  g2 = g2
  Devices <- MCDevices
  Groups <- MCGroups
  Items = {}
  Kinds = {}
  Kind <- MCKind
  DefaultAllow = {}
  Sinks <- MCDevices
  SinkOf <- MCSinkOf
  NoGroup = NoGroup
  NoSink = NoSink
  MaxBindAttempts = 2
  BindTtl = 1
  OfflineTtl = 1
  MaxDevicesPerGroup = 2
  SeenWindow = 1
  MaxNow = 1
  MaxIds = 3
  MaxPushes = 0
  MaxPolicyVersion = 0
SPECIFICATION Spec
SYMMETRY Symmetry
INVARIANTS
  TypeOK
  MembershipAgrees
  CapacityRespected
  AttemptsAccounted
PROPERTIES
  MovedOnlyWithConsent
  RotationAnnounced
  ImplementsMembership
