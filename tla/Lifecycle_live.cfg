SPECIFICATION FairSpec
CONSTANTS
  hoc = hoc
  hoclong = hoclong
  est = est
  ea = ea
  abiegno = abiegno
  Forms <- MCForms
  Plains = {0, 1, 2, 3}
  PlainOf <- MCPlainOf
  MaxPar = 2
  Headers = {1, 2, 3}
  Text <- TextsDistinct
  ManualWords = {abiegno}
  UserActs = {"manual", "drop", "delete"}
  MaxMishaps = 2
INVARIANTS NeverUnderCounted
PROPERTIES RunsEnd EventuallyListed
CHECK_DEADLOCK FALSE
