CONSTANTS
  i1 = i1
  i2 = i2
  own = own
  Items = {i1}
  Own = {}
  Approves = FALSE
  SeenSize = 1
  NoStream = NoStream
  MaxKey = 1
  MaxStreams = 2
  MaxSilent = 0
  MaxRuns = 2
SPECIFICATION Spec
INVARIANTS
  ReconnectionRestoresPresence
CHECK_DEADLOCK FALSE
