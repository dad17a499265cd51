---------------------------- MODULE DriverProofs ----------------------------
(***************************************************************************)
(* Safety of the embedded driver's two threads, for any number of calls,   *)
(* interrupts and descriptors, with or without spurious wakeups and        *)
(* failures, whatever the uninitialised buffer holds.                      *)
(***************************************************************************)
EXTENDS Driver, SequenceTheorems, TLAPS

\* What TypeOK needs of the counters: a dev_wait that is under way has been
\* counted among the calls, and the server has accepted a connection only with
\* a descriptor to spare.
CountersOK ==
  /\ waits <= calls
  /\ main \in {"wait_lock", "wait_blocking", "wait_blocked", "wait_woken"}
       => waits < calls
  /\ server \in {"check", "raise", "ack"} => leaked < MaxDescriptors

\* The flag stands for an interrupt that has been raised.
FlagMeansRaised ==
  /\ interrupt_flag => raised > 0
  /\ waits > 0 => raised > 0

\* From the connection of dev_close on, the server has something to accept or
\* is about to see server_stop: a server that is past its check comes back to
\* a backlog which still holds that connection.
StopIsPending ==
  (server_stop /\ main \in {"irq_read", "exited"})
    => server \in {"check", "stopped"} \/ backlog # <<>>

DriverInv == TypeOK /\ CountersOK /\ FlagMeansRaised /\ StopIsPending

USE DriverAssumption
    DEF main_vars, accepted, server_vars, ready_vars, irq_vars, net_vars,
        counters, Alive, Foreign, DriverInv, TypeOK, CountersOK,
        FlagMeansRaised, StopIsPending

\* The initial state satisfies the invariant.
LEMMA InitInv == Init => DriverInv
<1> SUFFICES ASSUME Init PROVE DriverInv
  OBVIOUS
<1>1. backlog \in Seq(0 .. (MaxCalls + 1))
  BY DEF Init
<1>2. TypeOK
  <2>1. /\ calls \in 0 .. MaxCalls /\ waits \in 0 .. MaxCalls
        /\ incoming \in 0 .. (MaxCalls + 1) /\ leaked \in 0 .. MaxDescriptors
        /\ remote \in 0 .. MaxRemote /\ raised \in Nat
    BY DEF Init
  <2>2. /\ server_ready \in BOOLEAN /\ server_stop \in BOOLEAN
        /\ interrupt_flag \in BOOLEAN /\ listening \in BOOLEAN
        /\ acked \in BOOLEAN
    BY DEF Init
  <2>3. /\ main = "start" /\ server = "none" /\ ack_reply_size = 0
        /\ server_mutex = "free" /\ interrupt_mutex = "free"
    BY DEF Init
  <2> QED BY <1>1, <2>1, <2>2, <2>3
<1>3. CountersOK /\ FlagMeansRaised /\ StopIsPending
  BY DEF Init
<1> QED BY <1>2, <1>3

\* A connection that joins the backlog leaves it a sequence, and not empty.
LEMMA Joined ==
  ASSUME TypeOK, NEW c \in 0 .. (MaxCalls + 1)
  PROVE  /\ Append(backlog, c) \in Seq(0 .. (MaxCalls + 1))
         /\ Append(backlog, c) # <<>>
<1> DEFINE S == 0 .. (MaxCalls + 1)
<1>1. backlog \in Seq(S) /\ c \in S
  OBVIOUS
<1> HIDE DEF S
<1> SUFFICES Append(backlog, c) \in Seq(S) /\ Append(backlog, c) # <<>>
  BY DEF S
<1> QED BY <1>1, AppendProperties

\* The steps of the main thread preserve the invariant.
LEMMA MainInv == ASSUME DriverInv, MainStep PROVE DriverInv'
<1>1. CASE CreateServer
  BY <1>1 DEF CreateServer
<1>2. CASE OpenWait
  BY <1>2 DEF OpenWait
<1>3. CASE OpenReturn
  BY <1>3 DEF OpenReturn
<1>4. CASE IrqConnect
  <2>1. Connection \in 0 .. (MaxCalls + 1)
    BY DEF Connection
  <2>2. CASE leaked >= MaxDescriptors
    BY <1>4, <2>2 DEF IrqConnect
  <2>3. CASE leaked < MaxDescriptors
    <3>1. /\ backlog' \in Seq(0 .. (MaxCalls + 1)) /\ backlog' # <<>>
          /\ ack_reply_size' \in AckReplySizes /\ acked' = FALSE
          /\ main' = "irq_read"
      BY <1>4, <2>1, <2>3, Joined, SMTT(30) DEF IrqConnect
    <3>2. UNCHANGED <<calls, server_vars, ready_vars, server_stop, irq_vars,
                      listening, remote, counters>>
      BY <1>4 DEF IrqConnect
    <3> QED BY <2>3, <3>1, <3>2, ZenonT(40)
  <2> QED BY <2>2, <2>3
<1>5. CASE IrqRead
  BY <1>5 DEF IrqRead
<1>6. CASE WaitTest
  BY <1>6 DEF WaitTest
<1>7. CASE WaitBlock
  BY <1>7 DEF WaitBlock
<1> QED BY <1>1, <1>2, <1>3, <1>4, <1>5, <1>6, <1>7 DEF MainStep

\* So do the calls of the program and the environment.
LEMMA CallInv ==
  ASSUME DriverInv, Call \/ SpuriousWakeup \/ RemoteInterrupt
  PROVE  DriverInv'
<1>1. CASE CallSoftInterrupt
  BY <1>1 DEF CallSoftInterrupt
<1>2. CASE CallWait
  BY <1>2 DEF CallWait
<1>3. CASE DevClose
  BY <1>3 DEF DevClose
<1>4. CASE SpuriousWakeup
  BY <1>4 DEF SpuriousWakeup
<1>5. CASE RemoteInterrupt
  <2>1. backlog' \in Seq(0 .. (MaxCalls + 1)) /\ backlog' # <<>>
    BY <1>5, Joined DEF RemoteInterrupt
  <2> QED BY <1>5, <2>1 DEF RemoteInterrupt
<1> QED BY <1>1, <1>2, <1>3, <1>4, <1>5 DEF Call

\* So do the steps of interrupt_server.
LEMMA ServerInv == ASSUME DriverInv, ServerStep PROVE DriverInv'
<1>1. CASE ServerLock
  BY <1>1 DEF ServerLock
<1>2. CASE ServerSetup
  <2>1. /\ server' \in {"signal", "failed"} /\ listening' \in BOOLEAN
        /\ UNCHANGED <<main_vars, accepted, ready_vars, server_stop, irq_vars,
                       backlog, acked, remote, counters>>
        /\ server = "setup"
    BY <1>2 DEF ServerSetup
  <2> QED BY <2>1
<1>3. CASE ServerReady
  BY <1>3 DEF ServerReady
<1>4. CASE ServerAccept
  <2>1. backlog \in Seq(0 .. (MaxCalls + 1)) /\ backlog # <<>>
    BY <1>4 DEF ServerAccept
  <2>2. /\ Head(backlog) \in 0 .. (MaxCalls + 1)
        /\ Tail(backlog) \in Seq(0 .. (MaxCalls + 1))
    BY <2>1, HeadTailProperties
  <2> QED BY <1>4, <2>2 DEF ServerAccept
<1>5. CASE ServerCheck
  BY <1>5 DEF ServerCheck
<1>6. CASE ServerRaise
  BY <1>6 DEF ServerRaise
<1>7. CASE ServerAck
  <2>1. acked' \in BOOLEAN
    BY <1>7, ZenonT(30) DEF ServerAck
  <2>2. CASE leaked' = leaked + 1 /\ UNCHANGED <<main, acked>> /\ server' = "accept"
    BY <1>7, <2>1, <2>2 DEF ServerAck
  <2>3. CASE leaked' = leaked /\ main' = main /\ server' = "accept"
    BY <1>7, <2>1, <2>3 DEF ServerAck
  <2>4. CASE main' = "dead" /\ UNCHANGED <<server, leaked, acked>>
    BY <1>7, <2>1, <2>4 DEF ServerAck
  <2> QED BY <1>7, <2>2, <2>3, <2>4 DEF ServerAck
<1> QED BY <1>1, <1>2, <1>3, <1>4, <1>5, <1>6, <1>7 DEF ServerStep

\* The invariant holds in every reachable state.
THEOREM DriverInvariant == Spec => []DriverInv
<1>1. DriverInv /\ [Next]_vars => DriverInv'
  <2> SUFFICES ASSUME DriverInv, [Next]_vars PROVE DriverInv'
    OBVIOUS
  <2>1. CASE Next
    BY <2>1, MainInv, CallInv, ServerInv DEF Next
  <2>2. CASE UNCHANGED vars
    BY <2>2 DEF vars
  <2> QED BY <2>1, <2>2
<1> QED BY InitInv, <1>1, PTL DEF Spec

\* Type correctness of the driver.
THEOREM Typing == Spec => []TypeOK
<1>1. DriverInv => TypeOK
  OBVIOUS
<1> QED BY <1>1, DriverInvariant, PTL

\* dev_wait does not return before an interrupt has been raised.
THEOREM WaitsForInterrupt == Spec => []WaitNeedsInterrupt
<1>1. DriverInv => WaitNeedsInterrupt
  BY DEF WaitNeedsInterrupt
<1> QED BY <1>1, DriverInvariant, PTL

\* The server never sleeps through the shutdown.
THEOREM StopCannotBeMissed == Spec => []StopIsNoticed
<1>1. DriverInv => StopIsNoticed
  BY DEF StopIsNoticed
<1> QED BY <1>1, DriverInvariant, PTL
=============================================================================
