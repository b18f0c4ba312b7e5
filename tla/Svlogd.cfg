SPECIFICATION FairSpec
CONSTANTS
  d1 = d1
  d2 = d2
  NL = "nl"
  Texts <- MCTexts
  Dir = {d1, d2}
  Inst <- MCInst
  Patterns <- MCPatterns
  Flaky = {d1}
  LineMax = 2
  BufLen = 3
  Signals = {"TERM", "HUP"}
CHECK_DEADLOCK FALSE
INVARIANTS
  TypeOK
  WholeLines
  OnlyLastLost
  PmatchFits
PROPERTIES
  TermExits
  Logged
