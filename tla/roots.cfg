SPECIFICATION Spec
CONSTANTS
  BlockSize = 2
  NumBlocks = 4
  MaxNumSeqs = 3
  MaxBatchedTokens = 4
  PrefixCaching = TRUE
  Traces <- ColdChain
INVARIANT ChainsAreRooted
