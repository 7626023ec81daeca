CONSTANTS
  i1 = i1
  i2 = i2
  own = own
  Items <- MCItems
  Own = {}
  Approves = FALSE
  SeenSize = 1
  NoStream = NoStream
  MaxKey = 2
  MaxStreams = 2
  MaxSilent = 0
  MaxRuns = 2
SPECIFICATION Spec
SYMMETRY Symmetry
INVARIANTS
  TypeOK
  NothingVanishes
  NoPresenceAfterEnd
PROPERTIES
  ServerIsMailbox
  AppliedOncePerWindow
  AckedWasRead
CHECK_DEADLOCK FALSE
