SPECIFICATION SvSpec
CONSTANTS
  p1 = p1
  p2 = p2
  a = a
  Pid <- TwoPids
  HasLog = FALSE
  HasFinish = TRUE
  MainDown = FALSE
  LogDown = FALSE
  QueueCap = 1
  Shutdown = FALSE
  Commands = {}
  LogCommands = {}
  Custom = {}
  Client = {a}
  Actions <- Mixed
  HasCheck = TRUE
CHECK_DEADLOCK FALSE
SYMMETRY Symmetry
INVARIANTS
  SvTypeOK
  StopUnderWay
  OnlyChildrenSignalled
PROPERTIES
  OkTrue
