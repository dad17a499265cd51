\* The adaptor, a client with three requests, one SIGINT.
CONSTANTS
  OsThread = OsThread
  Sysc = Sysc
  NoOwner = NoOwner
  MaxRequests = 3
  MaxInterrupts = 1
SPECIFICATION FairSpec
INVARIANTS
  TypeOK
  ShouldBeReady
  WokenWithRequest
  PayloadExclusive
  OnlyFirstRequestCanBeMissed
  NeverStarves
PROPERTIES
  ServesRequests
  UsesChannel
  TimedWaitEnds
  InterruptStops
  PutReturns
  ListeningInitiatorServes
