CONSTANTS
  t1 = t1
  t2 = t2
  p1 = p1
  p2 = p2
  Texts = {t1, t2}
  NoText = NoText
  Polls = {p1, p2}
  MaxCopies = 2
  MaxSends = 2
  MaxStops = 1
  MaxRestarts = 1
  MaxReads = 2
SYMMETRY Symmetry
SPECIFICATION Spec
INVARIANTS
  TypeOK
  EchoNeedsRestart
  EchoNeedsOverlap
  SwallowedOncePerWrite
  PollingGoesOn
CHECK_DEADLOCK FALSE
