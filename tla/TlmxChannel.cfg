\* Two threads race on the channel with one SystemC side.
CONSTANTS
  t1 = t1
  t2 = t2
  p1 = p1
  p2 = p2
  Sysc = Sysc
  NoOwner = NoOwner
  Threads <- MCThreads
  Packets <- MCPackets
  MaxQueue = 2
SYMMETRY MCSymmetry
SPECIFICATION Spec
INVARIANTS
  TypeOK
  Handshake
  WakeSeesResponse
  NoLostNotification
\* A get() that waits is not resumed by a push (Get in TlmxChannel), so with full
\* queues the most general client may come to a stop.
CHECK_DEADLOCK FALSE
