CONSTANTS
  PackageId = 1
  ChannelId = 0
  MaxFilters = 2
  MaxMacNumber = 2
  Macs <- MCMacs
  ZeroMac = "zero"
  Words <- MCWords
  StatModulus = 2
  Requests <- GateFrames
  None = None
SPECIFICATION PassSpec
INVARIANT PolledWhileTxEnabled
