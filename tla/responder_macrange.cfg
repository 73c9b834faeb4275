CONSTANTS
  PackageId = 2
  ChannelId = 0
  MaxFilters = 2
  MaxMacNumber = 3
  Macs <- MCMacs
  ZeroMac = "zero"
  Words <- MCWords
  StatModulus = 1
  Requests <- FilterFrames
  None = None
SPECIFICATION Spec
INVARIANT CompletedFilterIsTracked
