SPECIFICATION Spec
CONSTANTS
  hoc = hoc
  hoclong = hoclong
  est = est
  ea = ea
  abiegno = abiegno
  Forms <- MCForms
  Plains = {0, 1, 2, 3}
  PlainOf <- MCPlainOf
  MaxPar = 2
  Headers = {1, 2, 3}
  Text <- TextsDistinct
  ManualWords = {abiegno}
  UserActs = {"manual", "clear", "restore", "kill"}
  MaxMishaps = 2
INVARIANTS TypeOK CountsExact SourcesExact RunsSucceed ManualKept UniqueForms NoGaps WellFormed
PROPERTIES SavedBeforeListed AccountKept
CHECK_DEADLOCK FALSE
