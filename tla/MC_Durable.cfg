CONSTANTS
  b1 = b1
  b2 = b2
  b3 = b3
  u1 = u1
  p1 = p1
  Limited <- MCLimited
  Plain <- MCPlain
  Presence = {p1}
  NoSnapshot = NoSnapshot
  MaxPerMinute = 2
  MaxCrashes = 1
SPECIFICATION Spec
SYMMETRY Symmetry
INVARIANTS
  TypeOK
  SnapshotsOfThePast
  ConfirmedWasSaved
  OnlyOvertakingLoses
  LimitKept
CHECK_DEADLOCK FALSE
