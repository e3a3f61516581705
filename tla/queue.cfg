SPECIFICATION Spec
CONSTANTS
  n1 = n1
  n2 = n2
  l1 = l1
  Drivers <- TwoNoise
  Script <- NoiseScripts
  Repeats = 1
  MaxConsecSkip = 2
  MaxSignals = 2
INVARIANTS TypeOK OneAtTheServer PromotedIsClean CountsMatch NoServerLeft
SYMMETRY Alike
CHECK_DEADLOCK FALSE
