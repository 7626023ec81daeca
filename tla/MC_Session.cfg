CONSTANTS
  command = command
  run = run
  h1 = h1
  h2 = h2
  Commands = {command}
  Run = run
  Handlers = {h1, h2}
  ResetStale = TRUE
  MaxDevices = 2
  MaxKey = 3
  MaxKills = 1
SYMMETRY Symmetry
SPECIFICATION Spec
INVARIANTS
  TypeOK
  FileFit
  SeatsAccounted
  NewestKeyKept
CHECK_DEADLOCK FALSE
