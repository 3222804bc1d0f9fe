\* Up to five calls per run.
CONSTANTS
  Length = 5
  Fuel = 4
  Programs <- Functions
  Statements <- AllStatements
  Oracles <- AllOracles
SPECIFICATION Spec
INVARIANTS
  SameBehaviour
  RegionsSound
  OnlyFallThroughFails
PROPERTY ClosedBlocksStay
