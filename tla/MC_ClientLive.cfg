\* One item: the question is whether the loop finds its way back.
CONSTANTS
  i1 = i1
  i2 = i2
  own = own
  Items = {i1}
  Own = {own}
  Approves = TRUE
  SeenSize = 1
  NoStream = NoStream
  MaxKey = 2
  MaxStreams = 2
  MaxSilent = 1
  MaxRuns = 2
SPECIFICATION FairSpec
PROPERTIES
  LoopRecovers
CHECK_DEADLOCK FALSE
