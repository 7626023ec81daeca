CONSTANTS
  k1 = k1
  k2 = k2
  i1 = i1
  i2 = i2
  i3 = i3
  Slots = {k1, k2}
  Loops = {i1, i2, i3}
  NoSlot = NoSlot
  NoLoop = NoLoop
  ResetStale = TRUE
  MaxDevices = 2
  MaxClicks = 3
  MaxTimeOuts = 1
  MaxDeaths = 1
SPECIFICATION Spec
INVARIANTS
  TypeOK
  OneLoop
  LoopsCounted
  PageInStep
  LoopServesDevice
CHECK_DEADLOCK FALSE
PROPERTIES
  StopCompletes
