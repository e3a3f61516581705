SPECIFICATION Spec
CONSTANTS
  Configs = {A, B}
  Base = A
  Pairs = 1
  MaxRuns = 2
  MaxBreaks = 1
  MaxKills = 1
CHECK_DEADLOCK FALSE
INVARIANT
  ServerStopped
