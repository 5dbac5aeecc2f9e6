SPECIFICATION Spec
CONSTANTS
  a = a
  b = b
  c = c
  d = d
  sub = sub
  deep = deep
  Files = {a, b, c, d}
  Root = root
  Folders = {root, sub, deep}
  Listing <- MCListing
  Stem <- MCStem
  Header <- MCHeader
  Blank = {c}
  Unfit = {d}
  Nobody = Nobody
  NoHeader = NoHeader
  MaxRuns = 2
  MaxTime = 3
INVARIANTS WholeTexts NothingLost OneOfEach
CHECK_DEADLOCK FALSE
