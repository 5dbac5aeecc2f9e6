SPECIFICATION Spec
CONSTANTS
  comis = comis
  comisdat = comisdat
  comisboth = comisboth
  tectum = tectum
  tectumlong = tectumlong
  quo = quo
  quolong = quolong
  quoque = quoque
  quoquelong = quoquelong
  oralong = oralong
  ora = ora
  Forms <- MCForms
  Plains = {1, 2, 3, 4, 5}
  PlainOf <- MCPlainOf
  MaxPar = 3
  Headers = {1, 2}
  WithEnc <- MCWithEnc
  MacronFirst <- MCMacronFirst
  StartKey <- MCKey
  StartTexts <- TextsComment
  RepairFiles <- FilesTectum
  UserActs = {}
  MaxRuns = 1
INVARIANTS TextsAgree
CHECK_DEADLOCK FALSE
