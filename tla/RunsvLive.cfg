SPECIFICATION FairSpec
CONSTANTS
  p1 = p1
  p2 = p2
  p3 = p3
  Pid <- TwoPids
  HasLog = TRUE
  HasFinish = TRUE
  MainDown = FALSE
  LogDown = FALSE
  QueueCap = 1
  Shutdown = FALSE
  Commands = {"x", "p", "d"}
  LogCommands = {"t"}
  Custom = {}
CHECK_DEADLOCK FALSE
PROPERTIES
  ExitHappens
  DownHappens
  FinishStarts
