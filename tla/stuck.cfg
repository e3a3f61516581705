SPECIFICATION Spec
CONSTANTS
  BlockSize = 2
  NumBlocks = 4
  MaxNumSeqs = 2
  MaxBatchedTokens = 4
  PrefixCaching = TRUE
  Traces <- PreemptedInBatch
INVARIANT NeverStuck
