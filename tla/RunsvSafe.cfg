SPECIFICATION Spec
CONSTANTS
  p1 = p1
  p2 = p2
  p3 = p3
  Pid <- TwoPids
  HasLog = TRUE
  HasFinish = TRUE
  MainDown = FALSE
  LogDown = FALSE
  QueueCap = 1
  Shutdown = TRUE
  Commands = {"u", "d", "x", "o"}
  LogCommands = {"u", "d", "x"}
  Custom = {}
CHECK_DEADLOCK FALSE
SYMMETRY Symmetry
INVARIANTS
  TypeOK
  NoLostChild
  FilesCurrent
  RecordsTrue
  CleanExit
PROPERTIES
  FinishAfterRun
  LogClosedLast
  LifeSafety
