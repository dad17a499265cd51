------------------------------- MODULE Driver -------------------------------
(***************************************************************************)
(* The threads of the embedded driver (zedboard/driver.c): the main thread *)
(* in dev_open, dev_soft_interrupt, dev_wait and dev_close, and the thread *)
(* interrupt_server that turns connections on PORT+1 into interrupts.      *)
(* dev_transport, which only the main thread runs, is the client of module *)
(* AsyncAdaptor.                                                           *)
(*                                                                         *)
(* pthread_cond_signal wakes a thread that is blocked in the matching wait *)
(* and is lost when there is none.  POSIX lets pthread_cond_wait return    *)
(* without a signal; SpuriousWakeups says whether it does.                 *)
(***************************************************************************)
EXTENDS Naturals, Sequences

CONSTANTS
  MaxCalls,         \* bound on the calls between dev_open and dev_close
  MaxRemote,        \* bound on the interrupts other programs send
  SetupMayFail,     \* whether socket or bind of the server may fail
  MaxDescriptors,   \* the descriptors there are for sockets
  SpuriousWakeups,  \* whether pthread_cond_wait may return by itself
  AckReplySizes     \* the values of strlen(ack_reply), which is uninitialised

ASSUME DriverAssumption ==
  /\ MaxCalls \in Nat /\ MaxRemote \in Nat /\ MaxDescriptors \in Nat \ {0}
  /\ SetupMayFail \in BOOLEAN /\ SpuriousWakeups \in BOOLEAN
  /\ AckReplySizes \subseteq Nat

VARIABLES
  main,             \* where the main thread is
  calls,            \* number of calls it has made
  ack_reply_size,   \* how much dev_soft_interrupt reads
  server,           \* where interrupt_server is
  incoming,         \* the connection it has accepted
  leaked,           \* number of connections it has not closed
  server_mutex,     \* owner of server_mutex
  server_ready,
  server_stop,
  interrupt_mutex,  \* owner of interrupt_mutex
  interrupt_flag,
  listening,        \* the server's socket accepts connections
  backlog,          \* the connections waiting to be accepted
  acked,            \* the main thread's connection has been answered
  remote,           \* number of interrupts sent by other programs
  raised,           \* history: number of interrupts signalled
  waits             \* history: number of calls of dev_wait that have returned

main_vars   == <<main, calls, ack_reply_size>>
accepted    == <<incoming, leaked>>
server_vars == <<server, accepted>>
ready_vars  == <<server_mutex, server_ready>>
irq_vars    == <<interrupt_mutex, interrupt_flag>>
net_vars    == <<listening, backlog, acked, remote>>
counters    == <<raised, waits>>

vars == <<main_vars, server_vars, ready_vars, server_stop, irq_vars, net_vars,
          counters>>

\* A connection of another program.
Foreign == 0

Init ==
  /\ main = "start" /\ calls = 0 /\ ack_reply_size = 0
  /\ server = "none" /\ incoming = Foreign /\ leaked = 0
  /\ server_mutex = "free" /\ server_ready = FALSE /\ server_stop = FALSE
  /\ interrupt_mutex = "free" /\ interrupt_flag = FALSE
  /\ listening = FALSE /\ backlog = <<>> /\ acked = FALSE
  /\ remote = 0 /\ raised = 0 /\ waits = 0

\* When main returns the process ends and interrupt_server with it; exit(1)
\* and signals end both as well.
Alive == main \notin {"exited", "dead"}

\* The connection of the main thread: each call has its own, and dev_close.
Connection == IF server_stop THEN calls + 1 ELSE calls

----------------------------------------------------------------------------
(* dev_open, from pthread_create on.                                       *)

CreateServer ==
  /\ main = "start"
  /\ main' = "open_lock"
  /\ server' = "lock"
  /\ UNCHANGED <<calls, ack_reply_size, accepted, ready_vars, server_stop,
                 irq_vars, net_vars, counters>>

\* pthread_mutex_lock and pthread_cond_wait, which releases the mutex.
OpenWait ==
  /\ main = "open_lock"
  /\ server_mutex = "free"
  /\ main' = "open_wait"
  /\ UNCHANGED <<calls, ack_reply_size, server_vars, ready_vars, server_stop,
                 irq_vars, net_vars, counters>>

\* Mutant: dev_open does not unlock server_mutex.
OpenReturnKeepsLock ==
  /\ main = "open_woken"
  /\ server_mutex = "free"
  /\ server_mutex' = "main"
  /\ main' = "ready"
  /\ UNCHANGED <<calls, ack_reply_size, server_vars, server_ready, server_stop,
                 irq_vars, net_vars, counters>>

\* The return of pthread_cond_wait with the mutex, and its unlock.
OpenReturn ==
  /\ main = "open_woken"
  /\ server_mutex = "free"
  /\ main' = "ready"
  /\ UNCHANGED <<calls, ack_reply_size, server_vars, ready_vars, server_stop,
                 irq_vars, net_vars, counters>>

----------------------------------------------------------------------------
(* interrupt_server.                                                       *)

ServerLock ==
  /\ Alive /\ server = "lock"
  /\ server_mutex = "free"
  /\ server_mutex' = "server"
  /\ server' = "setup"
  /\ UNCHANGED <<main_vars, accepted, server_ready, server_stop, irq_vars,
                 net_vars, counters>>

\* socket, bind and listen.  The error paths leave the thread with
\* server_mutex still locked.
ServerSetup ==
  /\ Alive /\ server = "setup"
  /\ \/ server' = "signal" /\ listening' = TRUE
     \/ SetupMayFail /\ server' = "failed" /\ UNCHANGED listening
  /\ UNCHANGED <<main_vars, accepted, ready_vars, server_stop, irq_vars,
                 backlog, acked, remote, counters>>

\* server_ready, pthread_cond_signal, pthread_mutex_unlock.
ServerReady ==
  /\ Alive /\ server = "signal"
  /\ server_ready' = TRUE
  /\ main' = IF main = "open_wait" THEN "open_woken" ELSE main
  /\ server_mutex' = "free"
  /\ server' = "accept"
  /\ UNCHANGED <<calls, ack_reply_size, accepted, server_stop, irq_vars,
                 net_vars, counters>>

\* accept, which fails for ever when there is no descriptor left.
ServerAccept ==
  /\ Alive /\ server = "accept"
  /\ backlog # <<>> /\ leaked < MaxDescriptors
  /\ incoming' = Head(backlog)
  /\ backlog' = Tail(backlog)
  /\ server' = "check"
  /\ UNCHANGED <<main_vars, leaked, ready_vars, server_stop, irq_vars,
                 listening, acked, remote, counters>>

\* Mutant: the shutdown request is not looked at.
ServerCheckMissing ==
  /\ Alive /\ server = "check"
  /\ server' = "raise"
  /\ UNCHANGED <<main_vars, accepted, ready_vars, server_stop, irq_vars,
                 net_vars, counters>>

\* The shutdown check.  Leaving the loop closes nothing.
ServerCheck ==
  /\ Alive /\ server = "check"
  /\ server' = IF server_stop THEN "stopped" ELSE "raise"
  /\ UNCHANGED <<main_vars, accepted, ready_vars, server_stop, irq_vars,
                 net_vars, counters>>

\* Mutant: the flag is set and the condition signalled without the mutex.
ServerRaiseUnlocked ==
  /\ Alive /\ server = "raise"
  /\ interrupt_flag' = TRUE
  /\ raised' = raised + 1
  /\ main' = IF main = "wait_blocked" THEN "wait_woken" ELSE main
  /\ server' = "ack"
  /\ UNCHANGED <<calls, ack_reply_size, accepted, ready_vars, server_stop,
                 interrupt_mutex, net_vars, waits>>

\* interrupt_flag and pthread_cond_signal, with interrupt_mutex.
ServerRaise ==
  /\ Alive /\ server = "raise"
  /\ interrupt_mutex = "free"
  /\ interrupt_flag' = TRUE
  /\ raised' = raised + 1
  /\ main' = IF main = "wait_blocked" THEN "wait_woken" ELSE main
  /\ server' = "ack"
  /\ UNCHANGED <<calls, ack_reply_size, accepted, ready_vars, server_stop,
                 interrupt_mutex, net_vars, waits>>

\* Mutant: the connection is not answered.
ServerAckMissing ==
  /\ Alive /\ server = "ack"
  /\ server' = "accept"
  /\ UNCHANGED <<main_vars, accepted, ready_vars, server_stop, irq_vars,
                 net_vars, counters>>

\* Nobody reads the answer to the accepted connection, or may have stopped to.
PeerMayBeGone == ~(main = "irq_read" /\ incoming = Connection)

\* The acknowledgement.  If the peer has gone the write may fail, which leaves
\* the connection open, or its SIGPIPE ends the process.
ServerAck ==
  /\ Alive /\ server = "ack"
  /\ \/ /\ acked' = (acked \/ ~PeerMayBeGone)
        /\ server' = "accept"
        /\ UNCHANGED <<main, leaked>>
     \/ /\ PeerMayBeGone
        /\ leaked' = leaked + 1
        /\ server' = "accept"
        /\ UNCHANGED <<main, acked>>
     \/ /\ PeerMayBeGone
        /\ main' = "dead"
        /\ UNCHANGED <<server, leaked, acked>>
  /\ UNCHANGED <<calls, ack_reply_size, incoming, ready_vars, server_stop,
                 irq_vars, listening, backlog, remote, counters>>

ServerStep ==
  \/ ServerLock
  \/ ServerSetup
  \/ ServerReady
  \/ ServerAccept
  \/ ServerCheck
  \/ ServerRaise
  \/ ServerAck

----------------------------------------------------------------------------
(* dev_soft_interrupt and dev_close.                                       *)

CallSoftInterrupt ==
  /\ main = "ready" /\ calls < MaxCalls
  /\ calls' = calls + 1
  /\ main' = "irq_connect"
  /\ UNCHANGED <<ack_reply_size, server_vars, ready_vars, server_stop,
                 irq_vars, net_vars, counters>>

\* Connect, retried while the server does not listen, and write.  Without a
\* descriptor it ends with exit(1).
IrqConnect ==
  /\ main = "irq_connect"
  /\ \/ /\ listening /\ leaked < MaxDescriptors
        /\ backlog' = Append(backlog, Connection)
        /\ acked' = FALSE
        /\ ack_reply_size' \in AckReplySizes
        /\ main' = "irq_read"
     \/ /\ leaked >= MaxDescriptors
        /\ main' = "dead"
        /\ UNCHANGED <<backlog, acked, ack_reply_size>>
  /\ UNCHANGED <<calls, server_vars, ready_vars, server_stop, irq_vars,
                 listening, remote, counters>>

\* read, which waits for the answer unless it asks for no byte, and close.
\* The call is the last one of dev_close when server_stop is set.
IrqRead ==
  /\ main = "irq_read"
  /\ ack_reply_size = 0 \/ acked
  /\ main' = IF server_stop THEN "exited" ELSE "ready"
  /\ UNCHANGED <<calls, ack_reply_size, server_vars, ready_vars, server_stop,
                 irq_vars, net_vars, counters>>

\* dev_close up to its soft interrupt.
DevClose ==
  /\ main = "ready"
  /\ server_stop' = TRUE
  /\ main' = "irq_connect"
  /\ UNCHANGED <<calls, ack_reply_size, server_vars, ready_vars, irq_vars,
                 net_vars, counters>>

----------------------------------------------------------------------------
(* dev_wait.                                                               *)

CallWait ==
  /\ main = "ready" /\ calls < MaxCalls
  /\ calls' = calls + 1
  /\ main' = "wait_lock"
  /\ UNCHANGED <<ack_reply_size, server_vars, ready_vars, server_stop,
                 irq_vars, net_vars, counters>>

\* Mutant: the flag is tested by an if instead of a while.
WaitTestOnce ==
  /\ main \in {"wait_lock", "wait_woken"}
  /\ interrupt_mutex = "free"
  /\ IF interrupt_flag \/ main = "wait_woken"
     THEN /\ main' = "ready"
          /\ waits' = waits + 1
          /\ UNCHANGED interrupt_mutex
     ELSE /\ main' = "wait_blocking"
          /\ interrupt_mutex' = "main"
          /\ UNCHANGED waits
  /\ UNCHANGED <<calls, ack_reply_size, server_vars, ready_vars, server_stop,
                 interrupt_flag, net_vars, raised>>

\* With interrupt_mutex, at the call or back from pthread_cond_wait: return
\* if the flag is set, which stays set, or go on to wait.
WaitTest ==
  /\ main \in {"wait_lock", "wait_woken"}
  /\ interrupt_mutex = "free"
  /\ IF interrupt_flag
     THEN /\ main' = "ready"
          /\ waits' = waits + 1
          /\ UNCHANGED interrupt_mutex
     ELSE /\ main' = "wait_blocking"
          /\ interrupt_mutex' = "main"
          /\ UNCHANGED waits
  /\ UNCHANGED <<calls, ack_reply_size, server_vars, ready_vars, server_stop,
                 interrupt_flag, net_vars, raised>>

\* pthread_cond_wait releases the mutex and blocks.
WaitBlock ==
  /\ main = "wait_blocking"
  /\ main' = "wait_blocked"
  /\ interrupt_mutex' = "free"
  /\ UNCHANGED <<calls, ack_reply_size, server_vars, ready_vars, server_stop,
                 interrupt_flag, net_vars, counters>>

\* What the main thread does by itself, and what the program decides to call.
MainStep ==
  \/ CreateServer
  \/ OpenWait
  \/ OpenReturn
  \/ IrqConnect
  \/ IrqRead
  \/ WaitTest
  \/ WaitBlock

Call == CallSoftInterrupt \/ CallWait \/ DevClose

----------------------------------------------------------------------------
(* The environment.                                                        *)

SpuriousWakeup ==
  /\ SpuriousWakeups
  /\ main \in {"open_wait", "wait_blocked"}
  /\ main' = IF main = "open_wait" THEN "open_woken" ELSE "wait_woken"
  /\ UNCHANGED <<calls, ack_reply_size, server_vars, ready_vars, server_stop,
                 irq_vars, net_vars, counters>>

RemoteInterrupt ==
  /\ Alive /\ listening /\ remote < MaxRemote
  /\ backlog' = Append(backlog, Foreign)
  /\ remote' = remote + 1
  /\ UNCHANGED <<main_vars, server_vars, ready_vars, server_stop, irq_vars,
                 listening, acked, counters>>

Next == MainStep \/ Call \/ ServerStep \/ SpuriousWakeup \/ RemoteInterrupt

Spec == Init /\ [][Next]_vars

\* Both threads run; the program need not make another call, except that it
\* finishes what it is in.
FairSpec == Spec /\ WF_vars(MainStep) /\ WF_vars(ServerStep)

----------------------------------------------------------------------------
(* Properties.                                                             *)

\* Every variable has its type.
TypeOK ==
  /\ main \in {"start", "open_lock", "open_wait", "open_woken", "ready",
               "irq_connect", "irq_read", "wait_lock", "wait_blocking",
               "wait_blocked", "wait_woken", "exited", "dead"}
  /\ calls \in 0 .. MaxCalls
  /\ ack_reply_size \in AckReplySizes \cup {0}
  /\ server \in {"none", "lock", "setup", "signal", "accept", "check", "raise",
                 "ack", "failed", "stopped"}
  /\ incoming \in 0 .. (MaxCalls + 1) /\ leaked \in 0 .. MaxDescriptors
  /\ server_mutex \in {"free", "server"}
  /\ interrupt_mutex \in {"free", "main"}
  /\ server_ready \in BOOLEAN /\ server_stop \in BOOLEAN
  /\ interrupt_flag \in BOOLEAN /\ listening \in BOOLEAN /\ acked \in BOOLEAN
  /\ backlog \in Seq(0 .. (MaxCalls + 1))
  /\ remote \in 0 .. MaxRemote /\ raised \in Nat /\ waits \in 0 .. MaxCalls

\* dev_wait returns only when an interrupt has been raised, also when
\* pthread_cond_wait returns by itself.
WaitNeedsInterrupt == waits > 0 => raised > 0

\* The shutdown of dev_close cannot be overlooked: when its connection has
\* been made, the server is not back at accept with nothing to accept, even
\* if it has accepted an interrupt of another program at the same time.
StopIsNoticed ==
  (server_stop /\ main \in {"irq_read", "exited"})
    => ~(server = "accept" /\ backlog = <<>>)

\* A dev_wait during which, or before which, an interrupt is raised returns.
InterruptEndsWait ==
  (main \in {"wait_lock", "wait_blocking", "wait_blocked", "wait_woken"}
     /\ raised > 0) ~> (main \in {"ready", "dead"})

\* A soft interrupt that is not the one of dev_close returns, whatever size it
\* reads and whoever else interrupts, or the process ends, as long as the
\* connections that have not been closed leave the server a descriptor.
SoftInterruptReturns ==
  (main = "irq_read" /\ ~server_stop)
    ~> (main \in {"ready", "dead"} \/ leaked = MaxDescriptors)

----------------------------------------------------------------------------
(* What the repository says of the program and the code does not do.       *)

\* driver.c:250, "allow interrupt server to start": dev_open waits for the
\* server's signal and returns.
OpenReturns == main = "open_lock" ~> main = "ready"
=============================================================================
