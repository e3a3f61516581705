SPECIFICATION FairSpec
CONSTANTS
  BlockSize = 3
  NumBlocks = 4
  MaxNumSeqs = 3
  MaxBatchedTokens = 6
  PrefixCaching = TRUE
  Traces <- Burst
PROPERTY Ends
