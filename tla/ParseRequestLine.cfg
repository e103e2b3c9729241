SPECIFICATION Spec
CONSTANT MaxRun = 1
INVARIANTS
  ParseTypeOK
  FieldsCoverLine
  GrammarAccepted
  StaleWhereLeftOut
CHECK_DEADLOCK FALSE
