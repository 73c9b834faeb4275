CONSTANTS
  Buffers <- MCBuffers
  Bodies <- MCBodies
  MayTimeOut = TRUE
  ClearsDone = TRUE
  MayDisable = FALSE
  None = None
SPECIFICATION Spec
INVARIANT WireIntact
