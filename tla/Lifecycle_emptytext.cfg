SPECIFICATION Spec
CONSTANTS
  hoc = hoc
  hoclong = hoclong
  est = est
  ea = ea
  abiegno = abiegno
  Forms <- MCForms
  Plains = {0, 1, 2, 3}
  PlainOf <- MCPlainOf
  MaxPar = 2
  Headers = {1, 2}
  Text <- TextsEmpty
  ManualWords = {abiegno}
  UserActs = {}
  MaxMishaps = 0
INVARIANTS KeyLoads
CHECK_DEADLOCK FALSE
