CONSTANTS
  PackageId = 0
  MaxFilters = 1
  MaxMacNumber = 1
  Macs <- MCMacs
  ZeroMac = "zero"
  Words <- MCWords
  StatModulus = 1
  Requests <- PackageFrames
  None = None
SPECIFICATION Spec
INVARIANT OneResponder
