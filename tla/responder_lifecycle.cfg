CONSTANTS
  PackageId = 2
  ChannelId = 1
  MaxFilters = 1
  MaxMacNumber = 2
  Macs <- MCMacs
  ZeroMac = "zero"
  Words <- MCWords
  StatModulus = 1
  Requests <- LifecycleFrames
  None = None
SPECIFICATION Spec
INVARIANTS TypeOK InitialStateClean AnswerMatches CompletedIsInForce FiltersProgrammed LinkReportAgrees
PROPERTIES InitialStateInert RefusedChangesNothing RetryIsIdempotent ImplementsContract
