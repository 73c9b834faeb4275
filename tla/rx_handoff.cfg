CONSTANTS
  Buffers <- MCBuffers
  MaxFrames = 4
  MayHoist = FALSE
  None = None
SPECIFICATION FairSpec
INVARIANTS RxTypeOK FrameIsWhole
PROPERTIES BufferComesBack ImplementsMailbox
