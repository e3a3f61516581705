SPECIFICATION Spec
CONSTANTS
  Grid <- MCGrid
  Check <- MCCheck
  Prefill = 1
  Repeats = 2
  GenTokens = 6
  WarmTokens = 1
  TailTokens = 1
  MinSteps = 1
  MinGen = 5
  Pool = 28
  MaxPreempt = 1
  MaxFail = 1
INVARIANTS CleanPointsAreExact
