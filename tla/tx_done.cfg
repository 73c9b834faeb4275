CONSTANTS
  Buffers <- MCBuffers
  Bodies <- MCBodies
  MayTimeOut = FALSE
  ClearsDone = TRUE
  MayDisable = FALSE
  None = None
SPECIFICATION FairSpec
INVARIANTS TxTypeOK WireIntact CountedIsOnWire ChecksumHonest
PROPERTY NeverBlocks
