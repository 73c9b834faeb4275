CONSTANTS
  Buffers <- MCBuffers
  Bodies <- MCBodies
  MayTimeOut = FALSE
  ClearsDone = TRUE
  MayDisable = TRUE
  None = None
SPECIFICATION Spec
INVARIANT ChecksumHonest
