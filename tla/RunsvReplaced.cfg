SPECIFICATION Spec
CONSTANTS
  p1 = p1
  p2 = p2
  p3 = p3
  Pid <- TwoPids
  HasLog = FALSE
  HasFinish = TRUE
  MainDown = FALSE
  LogDown = FALSE
  QueueCap = 1
  Shutdown = FALSE
  Commands = {"u", "k"}
  LogCommands = {}
  Custom = {}
CHECK_DEADLOCK FALSE
SYMMETRY Symmetry
PROPERTY NeverReplaced
