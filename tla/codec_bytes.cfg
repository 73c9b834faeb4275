CONSTANTS
  Base <- MCBase
  Size <- MCSize
  SwapMax <- MCSwapMax
  None = None
SPECIFICATION Spec
INVARIANTS CodecTypeOK ChecksumCompensates ComputedIsNotSentinel SwapIsBeToHost
