SPECIFICATION Spec
CONSTANTS
  d1 = d1
  d2 = d2
  NL = "nl"
  Texts <- MCTexts
  Dir = {d1, d2}
  Inst <- MCInst
  Patterns = {}
  Flaky = {}
  LineMax = 2
  BufLen = 3
  Signals = {"TERM"}
CHECK_DEADLOCK FALSE
INVARIANT NothingLost
