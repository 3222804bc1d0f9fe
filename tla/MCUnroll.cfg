\* Up to four iterations per loop.
CONSTANTS
  Length = 12
  Fuel = 9
  MaxIterations = 4
  MaxClonedBlocks = 40
  Starts = "start"
  Programs <- Functions
  Statements <- AllStatements
  Oracles <- FewChanges
SPECIFICATION UnrollSpec
INVARIANTS
  UnrollingKeepsMeaning
  RegionsSound
  CountableLoopsGo
