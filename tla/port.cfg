SPECIFICATION Spec
CONSTANTS
  n1 = n1
  n2 = n2
  l1 = l1
  Drivers <- Both
  Script <- BothScripts
  Repeats = 1
  MaxConsecSkip = 2
  MaxSignals = 0
INVARIANT OneAtTheServer
CHECK_DEADLOCK FALSE
