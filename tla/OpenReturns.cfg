CONSTANTS
  MaxCalls = 0
  MaxRemote = 0
  MaxDescriptors = 2
  SetupMayFail = FALSE
  SpuriousWakeups = FALSE
  AckReplySizes = {0, 1}
SPECIFICATION FairSpec
PROPERTY OpenReturns
CHECK_DEADLOCK FALSE
