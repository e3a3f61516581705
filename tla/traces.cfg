SPECIFICATION Spec
CONSTANTS
  Sessions = 2
  Turns = 2
  SysLen = 2
  UserLen = 1
  Growth = 1
  N = 3
  Lens = {1, 2}
  TmplLen = 2
  QLen = 1
  Sizes <- MCSizes
  Outs = {1, 2}
  Gaps = {0, 5}
  Near = {0, 1}
  Bursts = {1, 2}
  Scales = {2, 3}
  Jitter = 3
  Space = 2
  DropFirst = 2
INVARIANTS PrefixesShared SameRequestsScored
