SPECIFICATION FairSpec
CONSTANTS
  Halters = {h}
  Rebooters = {r}
  Exits = {0, 25600, 28416}
  Keys = {"INT"}
CHECK_DEADLOCK FALSE
INVARIANTS
  TypeOK
  OneStage
  ShutdownAsked
  RebootKept
PROPERTIES
  RequestHonoured
