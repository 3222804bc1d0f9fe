CONSTANTS
  Programs <- Clashing
  MaxInlineDepth = 5
  MaxClonedBlocks = 22
  MaxLeaves = 40
SPECIFICATION Spec
INVARIANT InliningKeepsMeaning
