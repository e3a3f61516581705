SPECIFICATION FairSpec
CONSTANTS
  BlockSize = 2
  NumBlocks = 6
  MaxNumSeqs = 3
  MaxBatchedTokens = 3
  PrefixCaching = FALSE
  Traces <- SteadyTraces
PROPERTIES Returns
