CONSTANTS
  MaxCalls = 3
  MaxRemote = 2
  MaxDescriptors = 2
  SetupMayFail = TRUE
  SpuriousWakeups = TRUE
  AckReplySizes = {0, 1}
SPECIFICATION FairSpec
INVARIANTS
  TypeOK
  WaitNeedsInterrupt
  StopIsNoticed
PROPERTIES
  InterruptEndsWait
  SoftInterruptReturns
\* The program ends; dev_open (run OpenReturns) and dev_close may also hang.
CHECK_DEADLOCK FALSE
