CONSTANTS
  Programs <- Functions
SPECIFICATION Spec
INVARIANTS
  HoistingKeepsMeaning
  HoistingKeepsAssigned
  NothingLeftToHoist
