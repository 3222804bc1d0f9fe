\* One input, three operations; zero, one and two register stages.
CONSTANTS
  Scale = 4
  Delays = {1, 3}
  RelaxPercent = 50
  StageCounts = {0, 1, 2}
  Programs <- SmallPrograms
SPECIFICATION Spec
INVARIANTS
  BuildSucceeds
  FeasibilityMonotone
  BaselineOptimal
  RelaxationBounded
  LatencyBalanced
  ChainsShared
PROPERTY BuildProgresses
