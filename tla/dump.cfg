SPECIFICATION Spec
CONSTANTS
  n1 = n1
  n2 = n2
  l1 = l1
  Drivers <- OneLadder
  Script <- LadderScripts
  Repeats = 1
  MaxConsecSkip = 2
  MaxSignals = 1
INVARIANT DumpForEveryRun
CHECK_DEADLOCK FALSE
