SPECIFICATION FairSpec
CONSTANTS
  BlockSize = 3
  NumBlocks = 4
  MaxNumSeqs = 3
  MaxBatchedTokens = 6
  PrefixCaching = TRUE
  Traces <- SteadyTraces
INVARIANTS PinsAreHolders PoolWithinCapacity TokensHaveBlocks NeverStuck
PROPERTIES Returns
