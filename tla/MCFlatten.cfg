\* Three levels of calls, and about four inlined calls, fit.
CONSTANTS
  Programs <- Sound
  MaxInlineDepth = 5
  MaxClonedBlocks = 22
  MaxLeaves = 40
SPECIFICATION Spec
INVARIANTS
  InliningKeepsMeaning
  InlinableExactly
  FlatteningKeepsMeaning
