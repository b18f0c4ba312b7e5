SPECIFICATION SvSpec
CONSTANTS
  p1 = p1
  p2 = p2
  a = a
  Pid <- TwoPids
  HasLog = FALSE
  HasFinish = TRUE
  MainDown = FALSE
  LogDown = FALSE
  QueueCap = 1
  Shutdown = FALSE
  Commands = {}
  LogCommands = {}
  Custom = {}
  Client = {a}
  Actions <- UpDown
  HasCheck = FALSE
CHECK_DEADLOCK FALSE
SYMMETRY Symmetry
INVARIANT LastWins
