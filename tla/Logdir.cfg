SPECIFICATION FairSpec
CONSTANTS
  Configs <- PlainOrProcessed
  Pid = {1, 2}
  MaxData = 3
  MaxOpen = 2
  Events = {"ok", "fail", "HUP", "kill", "power", "full"}
CHECK_DEADLOCK FALSE
INVARIANTS
  TypeOK
  LogInOrder
  OldBounded
  StateFollows
PROPERTIES
  LogKept
  ExitClean
  WriteEnds
