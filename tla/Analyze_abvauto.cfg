SPECIFICATION Spec
CONSTANTS
  absque = absque
  absquelong = absquelong
  tectumque = tectumque
  tectumquelong = tectumquelong
  ceperis = ceperis
  ceperislong = ceperislong
  kal = kal
  kallong = kallong
  Forms <- MCForms
  Plains = {1, 2, 3, 4}
  PlainOf <- MCPlainOf
  Keys <- MCKeys
  IssueTables <- MCIssues
  OkLists <- MCOk
  AutoTables <- AutoKal
  OrthOptions = {FALSE}
INVARIANTS AnalyzeSucceeds
CHECK_DEADLOCK FALSE
