SPECIFICATION Spec
CONSTANTS
  Constants = {c, p, w}
  Malformed = {p}
  Wild = {w}
  NoConst = none
  PairCounts = {0, 2}
  MaxLines = 4
INVARIANTS RulesMatch OrderlyWorks
CHECK_DEADLOCK FALSE
