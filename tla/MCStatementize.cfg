SPECIFICATION ValidateSpec
CONSTANT Programs <- Functions
INVARIANTS
  ValidatedExactly
  StatementizingKeepsMeaning
