SPECIFICATION Spec
CONSTANTS
  Halters = {h}
  Rebooters = {}
  Exits = {0, 9}
  Keys = {}
CHECK_DEADLOCK FALSE
PROPERTY CrashHandled
