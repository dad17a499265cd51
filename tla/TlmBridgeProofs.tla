-------------------------- MODULE TlmBridgeProofs --------------------------
(***************************************************************************)
(* Proofs about TlmBridge and Dev for every size of the device, every      *)
(* width of the bus, every address and every payload.                      *)
(***************************************************************************)
EXTENDS TlmBridge, TLAPS

----------------------------------------------------------------------------
(* Arithmetic and the checks of b_transport.                               *)

\* A quotient that is small enough bounds the dividend (the reason why the
\* test of dev.cpp:103 may compare word numbers instead of addresses).
LEMMA QuotientBounds ==
  ASSUME NEW x \in Nat, NEW n \in Nat, NEW w \in Nat \ {0}, x \div w < n
  PROVE  x < n * w
<1> DEFINE q == x \div w
<1>1. q \in Nat /\ x % w \in Nat /\ x % w < w /\ x = w * q + (x % w)
  OBVIOUS
<1>2. x < w * (q + 1)
  BY <1>1
<1>3. q + 1 \in Nat /\ q + 1 <= n
  BY <1>1
<1> HIDE DEF q
<1>4. w * (q + 1) <= w * n
  BY <1>1, <1>3
<1> QED
  BY <1>1, <1>2, <1>4

\* What b_transport accepts lies within the registers (dev.cpp:90-107).
LEMMA AcceptedIsInRange ==
  ASSUME NEW t \in Transactions, BStatus(t) = "ok"
  PROVE  InRange(t)
<1> DEFINE last == t.address + Len(t.data)
<1>1. ~(last \div ByteWidth >= RegisterCount)
  BY DEF BStatus, BurstError
<1>2. t.address \in Nat /\ Len(t.data) \in Nat
  BY DEF Transactions
<1>3. last \in Nat /\ RegisterCount \in Nat /\ ByteWidth \in Nat \ {0}
  BY <1>2, DevAssumption
<1> HIDE DEF last
<1>4. last \div ByteWidth < RegisterCount
  BY <1>1, <1>3
<1>5. last < RegisterCount * ByteWidth
  BY <1>3, <1>4, QuotientBounds
<1>6. \A a \in Touched(t) : a \in Int /\ 0 <= a /\ a <= t.address + Len(t.data) - 1
  BY <1>2 DEF Touched
<1>7. RegisterCount * ByteWidth \in Int
  BY DevAssumption
<1>8. \A a \in Touched(t) : a \in 0 .. (RegisterCount * ByteWidth - 1)
  BY <1>2, <1>5, <1>6, <1>7 DEF last
<1> QED
  BY <1>8 DEF InRange, Size

\* An accepted transaction has at least one word, so it has a latency
\* (dev.cpp:102-103, 117).
LEMMA AcceptedTakesTime ==
  ASSUME NEW t \in Transactions, BStatus(t) = "ok"
  PROVE  Latency(t) > 0
<1> DEFINE n == Len(t.data)
<1>1. n \in Nat /\ ByteWidth \in Nat \ {0}
  BY DevAssumption DEF Transactions
<1>2. n % ByteWidth = 0 /\ n # 0
  BY DEF BStatus, BurstError
<1> HIDE DEF n
<1>3. n = ByteWidth * (n \div ByteWidth) + (n % ByteWidth)
  BY <1>1
<1>4. n \div ByteWidth \in Nat
  BY <1>1
<1>5. n \div ByteWidth # 0
  BY <1>1, <1>2, <1>3
<1> QED
  BY <1>4, <1>5 DEF Latency, n

----------------------------------------------------------------------------
(* What one packet does.  Each fact about Serve is split along its four    *)
(* outcomes: refused or copied, by b_transport or by transport_dbg.        *)

\* A packet makes a transaction, whatever command the payload still holds
\* (async_adaptor.cpp:354-369).
LEMMA Tlm2Facts ==
  ASSUME TypeOK, NEW p \in Packets
  PROVE  Tlm2(p) \in Transactions
<1>1. p.address \in Nat /\ p.data \in Seq(Byte) /\ p.command \in TlmxCommands
  BY BridgeAssumption DEF Packets
<1>2. Len(p.data) \in Nat
  BY <1>1
<1>3. Tlm2Command(p.command) \in TlmCommands
  BY DEF TypeOK, Transactions, Tlm2Command, TlmCommands
<1> QED
  BY <1>1, <1>2, <1>3 DEF Tlm2, Transactions, TlmStatuses

\* The packet that is returned is the one that was served, with the data of
\* the transaction and a status that is "ok" exactly if the target's is
\* (async_adaptor.cpp:391-397).
LEMMA ServedPacket ==
  ASSUME NEW p \in Packets, Serve(p)
  PROVE  /\ packet'.command = p.command
         /\ packet'.address = p.address
         /\ packet'.data = trans'.data
         /\ packet'.status = TlmxStatus(trans'.status)
         /\ (packet'.status = "ok") <=> (trans'.status = "ok")
BY DEF Serve, Packets, TlmxStatus

\* A transaction is either refused, with one of the target's errors, or
\* copied; b_transport copies only what lies within the registers.
LEMMA ServeOutcome ==
  ASSUME TypeOK, NEW p \in Packets, Serve(p)
  PROVE  \/ Refuse(Tlm2(p), BStatus(Tlm2(p))) /\ BStatus(Tlm2(p)) # "ok"
              /\ ~IsDebug(p)
         \/ Refuse(Tlm2(p), DbgStatus(Tlm2(p))) /\ DbgStatus(Tlm2(p)) # "ok"
              /\ IsDebug(p)
         \/ Copy(Tlm2(p), "ok") /\ (~IsDebug(p) => InRange(Tlm2(p)))
<1>1. CASE IsDebug(p)
  BY <1>1 DEF Serve, TransportDbg
<1>2. CASE ~IsDebug(p)
  <2>1. BTransport(Tlm2(p))
    BY <1>2 DEF Serve
  <2>2. CASE BStatus(Tlm2(p)) = "ok"
    BY <2>1, <2>2, Tlm2Facts, AcceptedIsInRange DEF BTransport
  <2>3. CASE BStatus(Tlm2(p)) # "ok"
    BY <1>2, <2>1, <2>3 DEF BTransport
  <2> QED
    BY <2>2, <2>3
<1> QED
  BY <1>1, <1>2

\* A refusal leaves its status in the transaction and in the packet.
LEMMA RefusedStatus ==
  ASSUME NEW p \in Packets, Serve(p), NEW s, s # "ok", Refuse(Tlm2(p), s)
  PROVE  trans'.status = s /\ packet'.status # "ok"
<1>1. trans'.status = s
  BY DEF Refuse, Tlm2
<1> QED
  BY <1>1, ServedPacket

\* A copy ends with the status "ok".
LEMMA CopiedStatus ==
  ASSUME NEW p \in Packets, Serve(p), Copy(Tlm2(p), "ok")
  PROVE  /\ trans'.status = "ok" /\ packet'.status = "ok"
         /\ trans'.command = Tlm2(p).command
<1>1. trans'.status = "ok" /\ trans'.command = Tlm2(p).command
  BY DEF Copy, Tlm2
<1> QED
  BY <1>1, ServedPacket

\* A copy keeps the types: what is read and what is stored are bytes.
LEMMA CopyTypes ==
  ASSUME TypeOK, NEW t \in Transactions, Copy(t, "ok")
  PROVE  /\ trans' \in Transactions
         /\ register' \in [0 .. (Size - 1) -> Byte]
         /\ overrun' \in BOOLEAN
<1>1. /\ t.address \in Nat /\ t.data \in Seq(Byte) /\ Len(t.data) \in Nat
      /\ "ok" \in TlmStatuses
  BY DEF Transactions, TlmStatuses
<1>2. trans' \in Transactions
  <2>1. CASE t.command = "read"
    <3>1. PICK d \in Loaded(t) : trans' = [t EXCEPT !.data = d, !.status = "ok"]
      BY <2>1 DEF Copy
    <3>2. d \in Seq(Byte)
      BY <1>1 DEF Loaded
    <3> QED
      BY <1>1, <3>1, <3>2 DEF Transactions
  <2>2. CASE t.command # "read"
    BY <1>1, <2>2 DEF Copy, Transactions
  <2> QED
    BY <2>1, <2>2
<1>3. register' \in [0 .. (Size - 1) -> Byte]
  <2>1. Stored(t) \in [0 .. (Size - 1) -> Byte]
    <3>1. ASSUME NEW a \in 0 .. (Size - 1)
          PROVE  (IF a \in Touched(t) THEN t.data[a - t.address + 1]
                                      ELSE register[a]) \in Byte
      <4>1. CASE a \in Touched(t)
        <5>1. a - t.address + 1 \in 1 .. Len(t.data)
          BY <1>1, <4>1 DEF Touched
        <5> QED
          BY <1>1, <4>1, <5>1
      <4>2. CASE a \notin Touched(t)
        BY <4>2 DEF TypeOK
      <4> QED
        BY <4>1, <4>2
    <3> QED
      BY <3>1 DEF Stored
  <2> QED
    BY <2>1 DEF Copy, TypeOK
<1>4. overrun' \in BOOLEAN
  BY DEF Copy
<1> QED
  BY <1>2, <1>3, <1>4

\* Every variable has its type, for every device and every packet.
THEOREM Typing == Spec => []TypeOK
<1>1. Init => TypeOK
  <2> SUFFICES ASSUME Init
               PROVE  TypeOK
    OBVIOUS
  <2>1. trans \in Transactions
    BY DEF Init, Transactions, TlmCommands, TlmStatuses
  <2>2. packet \in [command : TlmxCommands, address : Nat, data : Seq(Byte),
                    status : TlmxStatuses]
    BY DEF Init, TlmxCommands, TlmxStatuses
  <2> QED
    BY <2>1, <2>2 DEF Init, TypeOK
<1>2. ASSUME TypeOK, NEW p \in Packets, Serve(p)
      PROVE  TypeOK'
  <2> DEFINE t == Tlm2(p)
  <2>1. t \in Transactions
    BY <1>2, Tlm2Facts
  <2> HIDE DEF t
  <2>2. /\ trans' \in Transactions
        /\ register' \in [0 .. (Size - 1) -> Byte]
        /\ overrun' \in BOOLEAN
    <3>1. ASSUME NEW s \in TlmStatuses, Refuse(t, s)
          PROVE  trans' \in Transactions /\ UNCHANGED <<register, overrun>>
      BY <2>1, <3>1 DEF Refuse, Transactions
    <3>2. ASSUME Copy(t, "ok")
          PROVE  /\ trans' \in Transactions
                 /\ register' \in [0 .. (Size - 1) -> Byte]
                 /\ overrun' \in BOOLEAN
      BY <1>2, <2>1, <3>2, CopyTypes
    <3>3. BStatus(t) \in TlmStatuses /\ DbgStatus(t) \in TlmStatuses
      BY DEF BStatus, DbgStatus, TlmStatuses
    <3> QED
      BY <1>2, <3>1, <3>2, <3>3, ServeOutcome DEF TypeOK, t
  <2>3. delay' \in Nat /\ transferred' \in Nat
    <3>1. Len(t.data) \in Nat /\ Latency(t) \in Nat
      BY <2>1, DevAssumption DEF Transactions, Latency
    <3> QED
      BY <1>2, <3>1 DEF TypeOK, Serve, BTransport, TransportDbg, t
  <2>4. packet' \in [command : TlmxCommands, address : Nat, data : Seq(Byte),
                     status : TlmxStatuses]
    <3>1. /\ p.command \in TlmxCommands /\ p.address \in Nat
          /\ packet' = [p EXCEPT !.data = trans'.data,
                                 !.status = TlmxStatus(trans'.status)]
      BY <1>2, BridgeAssumption DEF Packets, Serve
    <3>2. trans'.data \in Seq(Byte) /\ TlmxStatus(trans'.status) \in TlmxStatuses
      BY <2>2 DEF Transactions, TlmxStatus, TlmxStatuses
    <3> QED
      BY <3>1, <3>2 DEF Packets
  <2> QED
    BY <2>2, <2>3, <2>4 DEF TypeOK
<1>3. TypeOK /\ [Next]_vars => TypeOK'
  BY <1>2 DEF Next, vars, devVars, TypeOK
<1> QED
  BY <1>1, <1>3, PTL DEF Spec

----------------------------------------------------------------------------
(* The action properties.                                                  *)

\* No packet makes b_transport touch memory beyond the registers, whatever
\* the size of the device and of the packet (dev.cpp:76-121).
THEOREM BTransportInRange == Spec => BTransportStaysInRange
<1>1. ASSUME TypeOK, NEW p \in Packets, Serve(p)
      PROVE  ~IsDebug(packet') => overrun' = overrun
  <2>1. IsDebug(packet') <=> IsDebug(p)
    BY <1>1, ServedPacket DEF IsDebug
  <2>2. CASE UNCHANGED overrun
    BY <2>2
  <2>3. CASE Copy(Tlm2(p), "ok") /\ (~IsDebug(p) => InRange(Tlm2(p)))
    <3>1. overrun' = (overrun \/ (Tlm2(p).command # "ignore" /\ ~InRange(Tlm2(p))))
      BY <2>3 DEF Copy
    <3> QED
      BY <1>1, <2>1, <2>3, <3>1 DEF TypeOK
  <2> QED
    BY <1>1, <2>2, <2>3, ServeOutcome DEF Refuse
<1>2. TypeOK /\ [Next]_vars => [~IsDebug(packet') => overrun' = overrun]_vars
  BY <1>1 DEF Next
<1> QED
  BY <1>2, Typing, PTL DEF Spec, BTransportStaysInRange

\* A packet that is answered with an error has changed neither the registers
\* nor anything else (dev.cpp:90-107, 149-156; async_adaptor.cpp:391-397).
THEOREM RefusalsChangeNothing == Spec => RefusedPacketChangesNothing
<1>1. ASSUME TypeOK, NEW p \in Packets, Serve(p), packet'.status # "ok"
      PROVE  register' = register /\ overrun' = overrun
  BY <1>1, ServeOutcome, CopiedStatus DEF Refuse
<1>2. TypeOK /\ [Next]_vars
        => [packet'.status # "ok" => register' = register /\ overrun' = overrun]_vars
  BY <1>1 DEF Next
<1> QED
  BY <1>2, Typing, PTL DEF Spec, RefusedPacketChangesNothing

\* Packets that read or ask for nothing leave the registers as they are, in
\* spite of the command that the payload keeps from the packet before
\* (async_adaptor.cpp:362-369, dev.cpp:110-114, 159-165).
THEOREM ReadsNeverStore == Spec => ReadsDoNotStore
<1>1. ASSUME TypeOK, NEW p \in Packets, Serve(p),
             packet'.command \in {"read", "debug_read", "ignore"}
      PROVE  register' = register
  <2>1. p.command \in {"read", "debug_read", "ignore"}
    BY <1>1, ServedPacket
  <2>2. Tlm2(p).command \in {"read", "ignore"}
    BY <2>1 DEF Tlm2, Tlm2Command
  <2> QED
    BY <1>1, <2>2, ServeOutcome DEF Refuse, Copy
<1>2. TypeOK /\ [Next]_vars => [packet'.command \in {"read", "debug_read", "ignore"}
                        => register' = register]_vars
  BY <1>1 DEF Next
<1> QED
  BY <1>2, Typing, PTL DEF Spec, ReadsDoNotStore

----------------------------------------------------------------------------
(* The contents of the registers.                                          *)

\* After a copy the data of the transaction and the registers it names agree
\* (the memcpy of dev.cpp:110-114 and 159-165).
LEMMA CopyAgrees ==
  ASSUME NEW t \in Transactions, t.command # "ignore", Copy(t, "ok"),
         NEW i \in 1 .. Len(trans'.data), t.address + i - 1 < Size
  PROVE  trans'.data[i] = register'[t.address + i - 1]
<1>1. CASE t.command = "read"
  <2>1. PICK d \in Loaded(t) :
          trans' = [t EXCEPT !.data = d, !.status = "ok"] /\ register' = register
    BY <1>1 DEF Copy
  <2>2. trans'.data = d
    BY <2>1
  <2> QED
    BY <2>1, <2>2 DEF Loaded
<1>2. CASE t.command = "write"
  <2>1. register' = Stored(t) /\ trans' = [t EXCEPT !.status = "ok"]
    BY <1>2 DEF Copy
  <2>2. trans'.data = t.data
    BY <2>1 DEF Transactions
  <2>3. i \in 1 .. Len(t.data) /\ t.address \in Nat /\ Len(t.data) \in Nat
    BY <2>2 DEF Transactions
  <2> DEFINE a == t.address + i - 1
  <2>4. a \in 0 .. (Size - 1) /\ a \in Touched(t) /\ a - t.address + 1 = i
    BY <2>3, DevAssumption DEF Touched, Size
  <2>5. register'[a] = t.data[a - t.address + 1]
    BY <2>1, <2>4 DEF Stored
  <2> QED
    BY <2>2, <2>4, <2>5
<1> QED
  BY <1>1, <1>2 DEF Copy

\* After every packet that is answered with "ok", the bytes it carries are
\* those of the registers it names, for single words and bursts, by
\* b_transport and by transport_dbg (dev.cpp:109-120, 158-169).
THEOREM DataIsExact == Spec => []DataMovesExactly
<1>1. Init => DataMovesExactly
  BY DEF Init, DataMovesExactly
<1>2. ASSUME TypeOK, NEW p \in Packets, Serve(p)
      PROVE  DataMovesExactly'
  <2> DEFINE t == Tlm2(p)
  <2> SUFFICES ASSUME packet'.status = "ok", trans'.command # "ignore",
                      NEW i \in 1 .. Len(packet'.data),
                      packet'.address + i - 1 < Size
               PROVE  packet'.data[i] = register'[packet'.address + i - 1]
    BY DEF DataMovesExactly
  <2>1. Copy(t, "ok")
    BY <1>2, ServeOutcome, RefusedStatus
  <2>2. t \in Transactions /\ t.address = p.address
    BY <1>2, Tlm2Facts DEF Tlm2
  <2>3. packet'.data = trans'.data /\ packet'.address = t.address
    BY <1>2, <2>2, ServedPacket
  <2>4. t.command # "ignore"
    BY <1>2, <2>1, CopiedStatus
  <2> HIDE DEF t
  <2> QED
    BY <2>1, <2>2, <2>3, <2>4, CopyAgrees
<1>3. TypeOK /\ DataMovesExactly /\ [Next]_vars => DataMovesExactly'
  BY <1>2 DEF Next, vars, devVars, DataMovesExactly
<1> QED
  BY <1>1, <1>3, Typing, PTL DEF Spec

\* wait(delay) takes simulated time exactly after the packets that
\* b_transport has carried out (dev.cpp:116-120, async_adaptor.cpp:384-386).
THEOREM CarriedOutTakesTime == Spec => []OkTakesTime
<1>1. Init => OkTakesTime
  BY DEF Init, OkTakesTime
<1>2. ASSUME TypeOK, NEW p \in Packets, Serve(p)
      PROVE  OkTakesTime'
  <2> DEFINE t == Tlm2(p)
  <2> SUFFICES ASSUME ~IsDebug(packet')
               PROVE  (delay' > 0) <=> (packet'.status = "ok")
    BY DEF OkTakesTime
  <2>1. BTransport(t)
    BY <1>2, ServedPacket DEF IsDebug, Serve
  <2>2. t \in Transactions
    BY <1>2, Tlm2Facts
  <2>3. CASE BStatus(t) = "ok"
    BY <1>2, <2>1, <2>2, <2>3, AcceptedTakesTime, CopiedStatus DEF BTransport
  <2>4. CASE BStatus(t) # "ok"
    BY <1>2, <2>1, <2>4, RefusedStatus DEF BTransport
  <2> QED
    BY <2>3, <2>4
<1>3. TypeOK /\ OkTakesTime /\ [Next]_vars => OkTakesTime'
  BY <1>2 DEF Next, vars, devVars, OkTakesTime
<1> QED
  BY <1>1, <1>3, Typing, PTL DEF Spec
=============================================================================
