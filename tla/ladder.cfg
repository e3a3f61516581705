SPECIFICATION FairSpec
CONSTANTS
  n1 = n1
  n2 = n2
  l1 = l1
  Drivers <- OneLadder
  Script <- LadderScripts
  Repeats = 2
  MaxConsecSkip = 3
  MaxSignals = 2
PROPERTIES PairFinished Ends LockGivenBack
CHECK_DEADLOCK FALSE
