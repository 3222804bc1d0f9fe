CONSTANTS
  Programs <- AllPrograms
  Iterations = 2
SPECIFICATION Spec
INVARIANTS
  TypeOK
  FactsSound
  MeaningKept
  ResetValuesShown
CHECK_DEADLOCK FALSE
