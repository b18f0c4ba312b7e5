SPECIFICATION FairSpec
CONSTANTS
  a = a
  b = b
  c = c
  d1 = d1
  d2 = d2
  None = None
  p1 = p1
  p2 = p2
  p3 = p3
  p4 = p4
  Service <- Two
  Dir = {d1}
  Pid <- ThreePids
  MAXSERVICES = 1
  MaxTime = 1
  Signals = {1, 2}
  Faults = {"readdir"}
CHECK_DEADLOCK FALSE
INVARIANT TypeOK
PROPERTIES
  KeepsRunning
  LetsGo
