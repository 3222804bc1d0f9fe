CONSTANTS
  Programs <- SelfIndexing
  MaxInlineDepth = 5
  MaxClonedBlocks = 22
  MaxLeaves = 40
SPECIFICATION Spec
INVARIANT FlatteningKeepsMeaning
