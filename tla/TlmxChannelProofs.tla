------------------------- MODULE TlmxChannelProofs -------------------------
(***************************************************************************)
(* Proofs about TlmxChannel for every set of threads, every set of packets *)
(* and every bound of the queues.                                          *)
(***************************************************************************)
EXTENDS TlmxChannel, TLAPS

\* Every variable of the channel has its type, for any number of threads.
THEOREM Typing == Spec => []TypeOK
<1> USE ActorsAssumption, MaxQueueAssumption
<1>1. Init => TypeOK
  <2> SUFFICES ASSUME Init
               PROVE  TypeOK
    OBVIOUS
  <2>1. queue_to_sysc \in Seq(Packets) /\ queue_fm_sysc \in Seq(Packets)
    BY DEF Init
  <2>2. op \in [Actors -> Ops]
    BY DEF Init, Ops
  <2> QED
    BY <2>1, <2>2 DEF Init, TypeOK, Actors
<1>2. TypeOK /\ [Next]_vars => TypeOK'
  <2> SUFFICES ASSUME TypeOK, [Next]_vars
               PROVE  TypeOK'
    OBVIOUS
  <2> USE DEF TypeOK, Actors, Ops, queues, flags, events, mutexes, kernel
  <2>1. ASSUME NEW t \in Threads, ThreadStep(t)
        PROVE  TypeOK'
    <3>1. ASSUME NEW p \in Packets, Push(t, p)
          PROVE  TypeOK'
      BY <3>1 DEF Push
    <3>2. CASE WaitForGet(t)
      BY <3>2 DEF WaitForGet
    <3>3. CASE WaitForPutLock(t)
      BY <3>3 DEF WaitForPutLock
    <3>4. CASE WaitForPutUnlock(t)
      BY <3>4 DEF WaitForPutUnlock
    <3>5. CASE NbPull(t)
      <4>1. queue_fm_sysc' \in Seq(Packets)
        BY <3>5 DEF NbPull, can_pull
      <4> QED
        BY <3>5, <4>1 DEF NbPull
    <3> QED
      BY <2>1, <3>1, <3>2, <3>3, <3>4, <3>5 DEF ThreadStep
  <2>2. CASE SyscStep
    <3>1. CASE NbGet
      BY <3>1 DEF NbGet, can_get
    <3>2. CASE NbGetRelock
      BY <3>2 DEF NbGetRelock
    <3>3. CASE Get
      BY <3>3 DEF Get
    <3>4. ASSUME NEW p \in Packets, NbPut(p)
          PROVE  TypeOK'
      BY <3>4 DEF NbPut
    <3>5. CASE NbPutRelock
      BY <3>5 DEF NbPutRelock
    <3> QED
      BY <2>2, <3>1, <3>2, <3>3, <3>4, <3>5 DEF SyscStep
  <2>3. CASE KernelStep
    <3>1. CASE AcceptUpdates
      BY <3>1 DEF AcceptUpdates
    <3>2. CASE UpdatePush
      BY <3>2 DEF UpdatePush
    <3>3. CASE UpdatePull
      BY <3>3 DEF UpdatePull
    <3>4. CASE Notify
      BY <3>4 DEF Notify
    <3> QED
      BY <2>3, <3>1, <3>2, <3>3, <3>4 DEF KernelStep
  <2>4. CASE UNCHANGED vars
    BY <2>4 DEF vars
  <2> QED
    BY <2>1, <2>2, <2>3, <2>4 DEF Next
<1> QED
  BY <1>1, <1>2, PTL DEF Spec

----------------------------------------------------------------------------
(* The handover of the wait mutexes.                                       *)

\* The strengthening that makes WakeSeesResponse inductive: it is nb_put that
\* guarantees the packet, from its push_front to its second lock.
ResponseHeld ==
  (op[Sysc] = "nb_put") => (queue_fm_sysc # <<>> /\ sysc_did_put)

HandshakeInv == TypeOK /\ Handshake /\ ResponseHeld

\* No call of a thread disturbs the handover (tlmx_channel.cpp:47-54, 90-94,
\* 108-137).
LEMMA ThreadKeepsHandshake ==
  ASSUME HandshakeInv, TypeOK', NEW t \in Threads, ThreadStep(t)
  PROVE  Handshake' /\ ResponseHeld'
<1> USE ActorsAssumption
<1> USE DEF HandshakeInv, TypeOK, Actors, Ops, queues, flags, events, mutexes,
            kernel
<1>1. ASSUME NEW p \in Packets, Push(t, p)
      PROVE  Handshake' /\ ResponseHeld'
  BY <1>1 DEF Push, Handshake, ResponseHeld
<1>2. CASE WaitForGet(t)
  <2>1. ResponseHeld'
    BY <1>2 DEF WaitForGet, ResponseHeld
  <2>2. Handshake'
    BY <1>2 DEF WaitForGet, Handshake
  <2> QED
    BY <2>1, <2>2
<1>3. CASE WaitForPutLock(t)
  BY <1>3 DEF WaitForPutLock, Handshake, ResponseHeld
<1>4. CASE WaitForPutUnlock(t)
  BY <1>4 DEF WaitForPutUnlock, Handshake, ResponseHeld
<1>5. CASE NbPull(t)
  \* A pull needs m_mutex_fm_sysc, so nb_put is not waking anybody.
  <2>1. op[Sysc] # "nb_put"
    BY <1>5 DEF NbPull, Handshake
  <2> QED
    BY <1>5, <2>1 DEF NbPull, Handshake, ResponseHeld
<1> QED
  BY <1>1, <1>2, <1>3, <1>4, <1>5 DEF ThreadStep

\* No call of the SystemC side disturbs the handover (tlmx_channel.cpp:57-106).
LEMMA SyscKeepsHandshake ==
  ASSUME HandshakeInv, TypeOK', SyscStep
  PROVE  Handshake' /\ ResponseHeld'
<1> USE ActorsAssumption
<1> USE DEF HandshakeInv, TypeOK, Actors, Ops, queues, flags, events, mutexes,
            kernel
<1>1. CASE NbGet
  BY <1>1 DEF NbGet, Handshake, ResponseHeld
<1>2. CASE NbGetRelock
  BY <1>2 DEF NbGetRelock, Handshake, ResponseHeld
<1>3. CASE Get
  BY <1>3 DEF Get, Handshake, ResponseHeld
<1>4. ASSUME NEW p \in Packets, NbPut(p)
      PROVE  Handshake' /\ ResponseHeld'
  <2>1. queue_fm_sysc' # <<>>
    BY <1>4 DEF NbPut
  <2> QED
    BY <1>4, <2>1 DEF NbPut, Handshake, ResponseHeld
<1>5. CASE NbPutRelock
  BY <1>5 DEF NbPutRelock, Handshake, ResponseHeld
<1> QED
  BY <1>1, <1>2, <1>3, <1>4, <1>5 DEF SyscStep

\* Neither the kernel nor update() disturbs the handover.
LEMMA KernelKeepsHandshake ==
  ASSUME HandshakeInv, TypeOK', KernelStep
  PROVE  Handshake' /\ ResponseHeld'
<1> USE ActorsAssumption
<1> USE DEF HandshakeInv, TypeOK, Actors, Ops, queues, flags, events, mutexes,
            kernel
<1>1. CASE AcceptUpdates
  BY <1>1 DEF AcceptUpdates, Handshake, ResponseHeld
<1>2. CASE UpdatePush
  BY <1>2 DEF UpdatePush, Handshake, ResponseHeld
<1>3. CASE UpdatePull
  BY <1>3 DEF UpdatePull, Handshake, ResponseHeld
<1>4. CASE Notify
  BY <1>4 DEF Notify, ProcessesSuspended, Handshake, ResponseHeld
<1> QED
  BY <1>1, <1>2, <1>3, <1>4 DEF KernelStep

\* The inductive invariant behind the two theorems that follow.
LEMMA HandshakeInvariant == Spec => []HandshakeInv
<1>1. Init => Handshake /\ ResponseHeld
  BY ActorsAssumption DEF Init, Handshake, ResponseHeld, Actors
<1>2. HandshakeInv /\ TypeOK' /\ [Next]_vars => Handshake' /\ ResponseHeld'
  <2> SUFFICES ASSUME HandshakeInv, TypeOK', [Next]_vars
               PROVE  Handshake' /\ ResponseHeld'
    OBVIOUS
  <2>1. CASE UNCHANGED vars
    BY <2>1 DEF vars, HandshakeInv, Handshake, ResponseHeld
  <2> QED
    BY <2>1, ThreadKeepsHandshake, SyscKeepsHandshake, KernelKeepsHandshake
    DEF Next
<1> QED
  BY <1>1, <1>2, Typing, PTL DEF Spec, HandshakeInv

\* The SystemC side owns both wait mutexes except in the middle of nb_get and
\* nb_put, and a thread holds one only on its way out of the matching wait,
\* however many threads wait (tlmx_channel.cpp:85-86, 90-94, 104-105, 108-114).
THEOREM HandshakeHolds == Spec => []Handshake
BY HandshakeInvariant, PTL DEF HandshakeInv

\* A thread that is woken by nb_put finds a packet that no other thread can
\* take before it has left wait_for_put (tlmx_channel.cpp:98-105, 110-114).
THEOREM WokenThreadSeesResponse == Spec => []WakeSeesResponse
<1>1. HandshakeInv => WakeSeesResponse
  BY ActorsAssumption DEF HandshakeInv, Handshake, ResponseHeld, WakeSeesResponse
<1> QED
  BY <1>1, HandshakeInvariant, PTL

----------------------------------------------------------------------------
(* The update flags.                                                       *)

\* Every push and every pull is followed by an update() that sees its flag,
\* at whatever point of the kernel's update phase the thread makes the call
\* (tlmx_channel.cpp:52-54, 132-134, 149-165).
THEOREM NotificationsAreNotLost == Spec => []NoLostNotification
<1>1. Init => NoLostNotification
  BY DEF Init, NoLostNotification
<1>2. NoLostNotification /\ [Next]_vars => NoLostNotification'
  <2> SUFFICES ASSUME NoLostNotification, [Next]_vars
               PROVE  NoLostNotification'
    OBVIOUS
  <2> USE DEF NoLostNotification, flags, kernel
  <2>1. ASSUME NEW t \in Threads, ThreadStep(t)
        PROVE  NoLostNotification'
    BY <2>1 DEF ThreadStep, Push, WaitForGet, WaitForPutLock, WaitForPutUnlock,
                NbPull
  <2>2. CASE SyscStep
    BY <2>2 DEF SyscStep, NbGet, NbGetRelock, Get, NbPut, NbPutRelock
  <2>3. CASE KernelStep
    BY <2>3 DEF KernelStep, AcceptUpdates, UpdatePush, UpdatePull, Notify
  <2>4. CASE UNCHANGED vars
    BY <2>4 DEF vars
  <2> QED
    BY <2>1, <2>2, <2>3, <2>4 DEF Next
<1> QED
  BY <1>1, <1>2, PTL DEF Spec
=============================================================================
