CONSTANTS
  Programs <- Functions
SPECIFICATION BeirSpec
CHECK_DEADLOCK FALSE
INVARIANTS
  SsaKeepsMeaning
  DefsDominateUses
  RefusedExactly
  GuardsExact
  OnlyLateSwitchRejected
  GraphComputesProgram
