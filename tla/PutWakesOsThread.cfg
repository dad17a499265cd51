CONSTANTS
  OsThread = OsThread
  Sysc = Sysc
  NoOwner = NoOwner
  MaxRequests = 1
  MaxInterrupts = 0
SPECIFICATION FairSpec
PROPERTY PutWakesOsThread
