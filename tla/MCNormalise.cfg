CONSTANTS
  Programs <- Functions
  MaxSymbols = 16
  MaxMagicWidth = 5
SPECIFICATION Spec
INVARIANTS
  NormalisingKeepsMeaning
  NormalForm
