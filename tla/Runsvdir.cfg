SPECIFICATION Spec
CONSTANTS
  a = a
  b = b
  c = c
  d1 = d1
  d2 = d2
  None = None
  p1 = p1
  p2 = p2
  p3 = p3
  p4 = p4
  Service <- Two
  Dir <- TwoDirs
  Pid <- FourPids
  MAXSERVICES = 2
  MaxTime = 1
  Signals = {}
  Faults = {"fork", "opendir"}
CHECK_DEADLOCK FALSE
INVARIANTS
  EntriesTrue
  NothingMissed
  AllStarted
PROPERTY SparesOthers
SYMMETRY Symmetry
