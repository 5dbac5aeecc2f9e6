SPECIFICATION Spec
CONSTANTS
  comis = comis
  comisdat = comisdat
  comisboth = comisboth
  tectum = tectum
  tectumlong = tectumlong
  quo = quo
  quolong = quolong
  quoque = quoque
  quoquelong = quoquelong
  oralong = oralong
  ora = ora
  Forms <- MCForms
  Plains = {1, 2, 3, 4, 5}
  PlainOf <- MCPlainOf
  MaxPar = 3
  Headers = {1, 2}
  WithEnc <- MCWithEnc
  MacronFirst <- MCMacronFirst
  StartKey <- MCKey
  StartTexts <- MCTexts
  RepairFiles <- FilesChain
  UserActs = {}
  MaxRuns = 1
INVARIANTS CorrectionsMade
CHECK_DEADLOCK FALSE
