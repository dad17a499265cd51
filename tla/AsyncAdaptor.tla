---------------------------- MODULE AsyncAdaptor ----------------------------
(***************************************************************************)
(* async_adaptor_module (sysc/async_adaptor.h, sysc/async_adaptor.cpp): it *)
(* turns TLMX packets that arrive on a TCP connection into TLM 2.0         *)
(* transactions of a SystemC simulation and sends the responses back.      *)
(*                                                                         *)
(* Actors: async_os_thread (an operating-system thread that owns the       *)
(* connection), the SystemC kernel thread, which runs the two processes    *)
(* initiator_sysc_thread_process and keep_alive_process one at a time, the *)
(* remote client, and the SIGINT handler.  The two sides meet in the       *)
(* channel of module TlmxChannel, whose actions are used as they are.      *)
(*                                                                         *)
(* A TLMX packet is its command class, the number of the request and its   *)
(* status; what it does to the target's registers is in module TlmBridge.  *)
(* The connection delivers whole packets.                                  *)
(***************************************************************************)
EXTENDS Naturals, Sequences

CONSTANTS
  OsThread,       \* m_pthread
  Sysc,           \* the SystemC kernel thread
  NoOwner,        \* the owner of a mutex nobody holds
  MaxRequests,    \* bound on the requests the client makes
  MaxInterrupts   \* bound on the SIGINTs

ASSUME AdaptorActorsAssumption ==
  /\ Sysc # OsThread
  /\ NoOwner \notin {Sysc, OsThread}

ASSUME BoundsAssumption == MaxRequests \in Nat /\ MaxInterrupts \in Nat

Commands == {"transport", "debug"}  \* TLMX_READ, WRITE, ...; TLMX_DEBUG_*
Statuses == {"none", "ok", "error"}

\* The local packet of the initiator, and the packet TLMX_EXIT.
IgnorePacket == [command |-> "ignore", id |-> 0, status |-> "none"]
ExitPacket   == [command |-> "exit",   id |-> 0, status |-> "none"]

\* Mutant: the status of a new packet is left unset.
RequestNoStatus(c, n) == [command |-> c, id |-> n, status |-> "unset"]

Request(c, n) == [command |-> c, id |-> n, status |-> "none"]

Packets == [command : Commands \cup {"ignore", "exit"}, id : 0..MaxRequests,
            status : Statuses]

VARIABLES
  (* tlmx_channel *)
  queue_to_sysc, thread_did_push, queue_fm_sysc, sysc_did_put,
  thread_did_pull, put_event, get_event, mutex_to_sysc, mutex_fm_sysc,
  mutex_wait_get, mutex_wait_put, update_requested, updating, op,
  (* the SystemC kernel *)
  phase,          \* what the kernel is doing
  initialized,    \* the initialization phase is over
  runnable,       \* the processes that run in this evaluation phase
  stop_requested, \* sc_stop has been called
  process,        \* the operating-system process: running, or how it ended
  (* the module *)
  keep_alive_signal,  \* m_keep_alive_signal: its value and its next value
  signal_event,       \* its value-changed event is pending
  allow_pthread,      \* m_allow_pthread: held by SystemC, or free
  stop_requests,      \* s_stop_requests
  initiator,          \* where initiator_sysc_thread_process is
  initiator_trans,    \* its tlmx_trans_ptr
  keep_alive,         \* where keep_alive_process is
  os_thread,          \* where async_os_thread is
  os_trans,           \* its tlmx_trans_ptr
  (* the outside *)
  client,         \* the remote client
  sent,           \* number of requests the client has written
  wire_in,        \* packets on their way to async_os_thread
  wire_out,       \* packets on their way to the client
  (* history *)
  executed,       \* ids of the requests transported to the target
  answered        \* ids of the responses written to the client

Ch == INSTANCE TlmxChannel WITH Threads <- {OsThread}, MaxQueue <- 1

channel  == <<queue_to_sysc, thread_did_push, queue_fm_sysc, sysc_did_put,
              thread_did_pull, put_event, get_event, mutex_to_sysc,
              mutex_fm_sysc, mutex_wait_get, mutex_wait_put,
              update_requested, updating, op>>
kernel   == <<phase, initialized, runnable, stop_requested>>
signals  == <<keep_alive_signal, signal_event>>
init_vars == <<initiator, initiator_trans>>
os_vars  == <<os_thread, os_trans>>
wires    == <<wire_in, wire_out>>
outside  == <<client, sent, wires>>
history  == <<executed, answered>>

inside   == <<channel, kernel, process, signals, allow_pthread,
              stop_requests, init_vars, keep_alive, os_vars, history>>

vars == <<inside, outside>>

Processes == {"initiator", "keep_alive"}

\* Every step is one of a process that has not ended.
Running == process = "running"

----------------------------------------------------------------------------
(* The module has been constructed: m_pthread already runs, the gate it    *)
(* will wait at is locked, the kernel has not started.                     *)

Init ==
  /\ Ch!Init
  /\ phase = "elaborate" /\ initialized = FALSE /\ runnable = {}
  /\ stop_requested = FALSE /\ process = "running"
  /\ keep_alive_signal = [cur |-> FALSE, next |-> FALSE]
  /\ signal_event = FALSE
  /\ allow_pthread = Sysc
  /\ stop_requests = 0
  /\ initiator = "start" /\ initiator_trans = IgnorePacket
  /\ keep_alive = "check"
  /\ os_thread = "setup" /\ os_trans = IgnorePacket
  /\ client = "unconnected" /\ sent = 0
  /\ wire_in = <<>> /\ wire_out = <<>>
  /\ executed = <<>> /\ answered = <<>>

----------------------------------------------------------------------------
(* async_os_thread.  REPORT_FATAL ends the process.                        *)

\* Socket, bind and listen; each of them may fail.
SetupSocket ==
  /\ Running
  /\ os_thread = "setup"
  /\ \/ process' = process /\ os_thread' = "gate"
     \/ process' = "setup_failed" /\ os_thread' = os_thread
  /\ UNCHANGED <<channel, kernel, signals, allow_pthread, stop_requests,
                 init_vars, keep_alive, os_trans, outside, history>>

\* The lock_guard of m_allow_pthread, held by SystemC until it starts.
PassGate ==
  /\ Running
  /\ os_thread = "gate"
  /\ allow_pthread = NoOwner
  /\ os_thread' = "accept"
  /\ UNCHANGED <<channel, kernel, process, signals, allow_pthread,
                 stop_requests, init_vars, keep_alive, os_trans, outside,
                 history>>

\* accept, which may fail.
Accept ==
  /\ Running
  /\ os_thread = "accept"
  /\ \/ client # "unconnected" /\ process' = process /\ os_thread' = "read"
     \/ process' = "setup_failed" /\ os_thread' = os_thread
  /\ UNCHANGED <<channel, kernel, signals, allow_pthread, stop_requests,
                 init_vars, keep_alive, os_trans, outside, history>>

\* read and unpack.  A connection the client has closed reads as less than a
\* packet header, which is fatal.
Read ==
  /\ Running
  /\ os_thread = "read"
  /\ \/ /\ wire_in # <<>>
        /\ wire_in' = Tail(wire_in)
        /\ os_trans' = Head(wire_in)
        /\ os_thread' = IF Head(wire_in).command = "exit" THEN "close"
                                                          ELSE "push"
        /\ process' = process
     \/ /\ wire_in = <<>> /\ client = "gone"
        /\ process' = "connection_lost"
        /\ UNCHANGED <<wire_in, os_vars>>
  /\ UNCHANGED <<channel, kernel, signals, allow_pthread, stop_requests,
                 init_vars, keep_alive, client, sent, wire_out, history>>

PushRequest ==
  /\ Running
  /\ os_thread = "push"
  /\ Ch!Push(OsThread, os_trans)
  /\ os_thread' = "wait_for_put"
  /\ UNCHANGED <<kernel, process, signals, allow_pthread, stop_requests,
                 init_vars, keep_alive, os_trans, outside, history>>

\* Mutant: the thread goes on to pull without waiting.
WaitForPutSkipped ==
  /\ Running
  /\ os_thread = "wait_for_put"
  /\ os_thread' = "pull"
  /\ UNCHANGED <<channel, kernel, process, signals, allow_pthread,
                 stop_requests, init_vars, keep_alive, os_trans, outside,
                 history>>

\* Mutant: wait_for_put does not release the mutex.
WaitForPutKeepsLock ==
  /\ Running
  /\ \/ /\ os_thread = "wait_for_put"
        /\ Ch!WaitForPutLock(OsThread)
        /\ os_thread' = "awake"
     \/ /\ os_thread = "awake"
        /\ os_thread' = "pull"
        /\ UNCHANGED channel
  /\ UNCHANGED <<kernel, process, signals, allow_pthread, stop_requests,
                 init_vars, keep_alive, os_trans, outside, history>>

WaitForPut ==
  /\ Running
  /\ \/ /\ os_thread = "wait_for_put"
        /\ Ch!WaitForPutLock(OsThread)
        /\ os_thread' = "awake"
     \/ /\ os_thread = "awake"
        /\ Ch!WaitForPutUnlock(OsThread)
        /\ os_thread' = "pull"
  /\ UNCHANGED <<kernel, process, signals, allow_pthread, stop_requests,
                 init_vars, keep_alive, os_trans, outside, history>>

\* Mutant: the response is read and left in the channel.
PullResponsePeek ==
  /\ Running
  /\ os_thread = "pull"
  /\ mutex_fm_sysc = NoOwner
  /\ Ch!can_pull
  /\ os_trans' = Head(queue_fm_sysc)
  /\ os_thread' = "send"
  /\ UNCHANGED <<channel, kernel, process, signals, allow_pthread,
                 stop_requests, init_vars, keep_alive, outside, history>>

PullResponse ==
  /\ Running
  /\ os_thread = "pull"
  /\ mutex_fm_sysc = NoOwner
  /\ IF Ch!can_pull
     THEN /\ Ch!NbPull(OsThread)
          /\ os_trans' = Head(queue_fm_sysc)
          /\ os_thread' = "send"
          /\ process' = process
     ELSE /\ process' = "missing_response"
          /\ UNCHANGED <<channel, os_vars>>
  /\ UNCHANGED <<kernel, signals, allow_pthread, stop_requests, init_vars,
                 keep_alive, outside, history>>

\* pack, write and its assertion.  Once the client is gone a write may still
\* succeed, or it ends the process (SIGPIPE, or the assertion).
SendResponse ==
  /\ Running
  /\ os_thread = "send"
  /\ \/ /\ wire_out' = Append(wire_out, os_trans)
        /\ answered' = Append(answered, os_trans.id)
        /\ os_thread' = "read"
        /\ process' = process
     \/ /\ client = "gone"
        /\ process' = "connection_lost"
        /\ UNCHANGED <<wire_out, answered, os_thread>>
  /\ UNCHANGED <<channel, kernel, signals, allow_pthread, stop_requests,
                 init_vars, keep_alive, os_trans, client, sent, wire_in,
                 executed>>

CloseConnection ==
  /\ Running
  /\ os_thread = "close"
  /\ os_thread' = "done"
  /\ UNCHANGED <<channel, kernel, process, signals, allow_pthread,
                 stop_requests, init_vars, keep_alive, os_trans, outside,
                 history>>

OsStep ==
  \/ SetupSocket
  \/ PassGate
  \/ Accept
  \/ Read
  \/ PushRequest
  \/ WaitForPut
  \/ PullResponse
  \/ SendResponse
  \/ CloseConnection

----------------------------------------------------------------------------
(* initiator_sysc_thread_process.  It is one coroutine of the kernel       *)
(* thread: between two waits no other process runs, and the steps below    *)
(* are the points at which it meets async_os_thread.                       *)

InitiatorRunning ==
  initiator \in {"get", "get_relock", "transport", "put", "put_relock"}

\* The kernel may pick p from the runnable processes.
Schedulable(p) ==
  phase = "evaluate" /\ p \in runnable /\ ~InitiatorRunning

WriteSignal(v) == keep_alive_signal' = [keep_alive_signal EXCEPT !.next = v]

\* The first run: write the signal and wait for m_sysc_put_event.
InitiatorStart ==
  /\ Running
  /\ initiator = "start" /\ Schedulable("initiator")
  /\ WriteSignal(TRUE)
  /\ initiator' = "wait_put"
  /\ runnable' = runnable \ {"initiator"}
  /\ UNCHANGED <<channel, phase, initialized, stop_requested, process,
                 signal_event, allow_pthread, stop_requests, initiator_trans,
                 keep_alive, os_vars, outside, history>>

\* Mutant: the initiator does not lower m_keep_alive_signal.
InitiatorWakeKeepsAlive ==
  /\ Running
  /\ initiator = "wait_put" /\ Schedulable("initiator")
  /\ initiator' = "get"
  /\ initiator_trans' = IgnorePacket
  /\ UNCHANGED <<channel, kernel, process, signals, allow_pthread,
                 stop_requests, keep_alive, os_vars, outside, history>>

\* The put event has resumed it.
InitiatorWake ==
  /\ Running
  /\ initiator = "wait_put" /\ Schedulable("initiator")
  /\ WriteSignal(FALSE)
  /\ initiator' = "get"
  /\ initiator_trans' = IgnorePacket
  /\ UNCHANGED <<channel, kernel, process, signal_event, allow_pthread,
                 stop_requests, keep_alive, os_vars, outside, history>>

\* nb_get.  With an empty queue it reports an error and goes on with the
\* packet it has just made.
InitiatorGet ==
  /\ Running
  /\ \/ /\ initiator = "get"
        /\ mutex_to_sysc = NoOwner
        /\ IF Ch!can_get
           THEN /\ Ch!NbGet
                /\ initiator_trans' = Head(queue_to_sysc)
                /\ initiator' = "get_relock"
           ELSE /\ initiator' = "transport"
                /\ UNCHANGED <<channel, initiator_trans>>
     \/ /\ initiator = "get_relock"
        /\ Ch!NbGetRelock
        /\ initiator' = "transport"
        /\ UNCHANGED initiator_trans
  /\ UNCHANGED <<kernel, process, signals, allow_pthread, stop_requests,
                 keep_alive, os_vars, outside, history>>

\* The transport call and the status it returns.  transport_dbg takes no
\* time.  b_transport is followed by wait(delay): the delay is zero, which
\* waits for the next delta cycle, when the target refused the access.
Transport ==
  /\ Running
  /\ initiator = "transport"
  /\ \E s \in {"ok", "error"} :
       /\ initiator_trans' = [initiator_trans EXCEPT !.status = s]
       /\ initiator' = IF initiator_trans.command = "debug" THEN "put"
                       ELSE IF s = "ok" THEN "wait_timed" ELSE "wait_delta"
  /\ executed' = Append(executed, initiator_trans.id)
  /\ runnable' = IF initiator_trans.command = "debug"
                 THEN runnable ELSE runnable \ {"initiator"}
  /\ UNCHANGED <<channel, phase, initialized, stop_requested, process,
                 signals, allow_pthread, stop_requests, keep_alive, os_vars,
                 outside, answered>>

\* nb_put; then the loop starts over: write the signal, wait for the event.
InitiatorPut ==
  /\ Running
  /\ \/ /\ \/ initiator = "put"
           \/ initiator \in {"wait_delta", "wait_timed"}
                /\ Schedulable("initiator")
        /\ Ch!NbPut(initiator_trans)
        /\ initiator' = "put_relock"
        /\ UNCHANGED <<keep_alive_signal, runnable>>
     \/ /\ initiator = "put_relock"
        /\ Ch!NbPutRelock
        /\ WriteSignal(TRUE)
        /\ initiator' = "wait_put"
        /\ runnable' = runnable \ {"initiator"}
  /\ UNCHANGED <<phase, initialized, stop_requested, process, signal_event,
                 allow_pthread, stop_requests, initiator_trans, keep_alive,
                 os_vars, outside, history>>

----------------------------------------------------------------------------
(* keep_alive_process.  Each run goes from one wait to the next.           *)

\* Mutant: the stop requests are looked at before the loop only.
KeepAliveChecksOnce ==
  /\ Running
  /\ Schedulable("keep_alive")
  /\ runnable' = runnable \ {"keep_alive"}
  /\ \/ /\ keep_alive \in {"check", "wait_delta"}
        /\ keep_alive' = IF stop_requests > 0 /\ keep_alive = "check"
                         THEN "wait_second"
                         ELSE IF ~keep_alive_signal.cur THEN "wait_change"
                         ELSE "wait_delta"
        /\ UNCHANGED stop_requested
     \/ /\ keep_alive = "wait_change"
        /\ keep_alive' = "wait_delta"
        /\ UNCHANGED stop_requested
     \/ /\ keep_alive = "wait_second"
        /\ keep_alive' = "exited"
        /\ stop_requested' = TRUE
  /\ UNCHANGED <<channel, phase, initialized, process, signals, allow_pthread,
                 stop_requests, init_vars, os_vars, outside, history>>

KeepAlive ==
  /\ Running
  /\ Schedulable("keep_alive")
  /\ runnable' = runnable \ {"keep_alive"}
  /\ \/ /\ keep_alive \in {"check", "wait_delta"}
        /\ keep_alive' = IF stop_requests > 0 THEN "wait_second"
                         ELSE IF ~keep_alive_signal.cur THEN "wait_change"
                         ELSE "wait_delta"
        /\ UNCHANGED stop_requested
     \/ /\ keep_alive = "wait_change"
        /\ keep_alive' = "wait_delta"
        /\ UNCHANGED stop_requested
     \/ /\ keep_alive = "wait_second"
        /\ keep_alive' = "exited"
        /\ stop_requested' = TRUE
  /\ UNCHANGED <<channel, phase, initialized, process, signals, allow_pthread,
                 stop_requests, init_vars, os_vars, outside, history>>

----------------------------------------------------------------------------
(* The kernel: initialization, then evaluation, update and delta           *)
(* notification phases, and an advance of time when nothing is runnable.   *)

\* start_of_simulation of the module: it opens the gate of async_os_thread
\* before the initialization phase.
StartOfSimulation ==
  /\ Running
  /\ phase = "elaborate"
  /\ WriteSignal(TRUE)
  /\ allow_pthread' = NoOwner
  /\ phase' = "update"
  /\ UNCHANGED <<channel, initialized, runnable, stop_requested, process,
                 signal_event, stop_requests, init_vars, keep_alive, os_vars,
                 outside, history>>

EvaluationDone ==
  /\ Running
  /\ phase = "evaluate" /\ runnable = {}
  /\ phase' = "update"
  /\ UNCHANGED <<channel, initialized, runnable, stop_requested, process,
                 signals, allow_pthread, stop_requests, init_vars, keep_alive,
                 os_vars, outside, history>>

\* The update phase accepts the asynchronous requests made so far, updates
\* the signal and, if it has been asked to, the channel.
Update ==
  /\ Running
  /\ phase = "update"
  /\ keep_alive_signal' = [keep_alive_signal EXCEPT !.cur = keep_alive_signal.next]
  /\ signal_event' = (keep_alive_signal.cur # keep_alive_signal.next)
  /\ IF update_requested
     THEN Ch!AcceptUpdates /\ phase' = "update_channel"
     ELSE UNCHANGED channel /\ phase' = "notify"
  /\ UNCHANGED <<initialized, runnable, stop_requested, process, allow_pthread,
                 stop_requests, init_vars, keep_alive, os_vars, outside,
                 history>>

UpdateChannel ==
  /\ Running
  /\ phase = "update_channel"
  /\ \/ Ch!UpdatePush /\ phase' = phase
     \/ Ch!UpdatePull /\ phase' = "notify"
  /\ UNCHANGED <<initialized, runnable, stop_requested, process, signals,
                 allow_pthread, stop_requests, init_vars, keep_alive, os_vars,
                 outside, history>>

\* Mutant: the initiator waits for both events of the channel.
InitiatorNotifiedByBothEvents ==
  \/ initiator = "wait_delta"
  \/ initiator = "wait_put" /\ (put_event \/ get_event)

\* The initiator waits for sysc_put_event, or for the delay of a transport
\* that took no time.
InitiatorNotified ==
  initiator = "wait_delta" \/ (initiator = "wait_put" /\ put_event)

\* Mutant: keep_alive_process waits for the falling edge of the signal.
KeepAliveNotifiedByFallingEdge ==
  \/ keep_alive = "wait_delta"
  \/ keep_alive = "wait_change" /\ signal_event /\ ~keep_alive_signal.cur

\* keep_alive_process waits for a change of the signal, or for a delta cycle.
KeepAliveNotified ==
  keep_alive = "wait_delta" \/ (keep_alive = "wait_change" /\ signal_event)

\* The processes resumed by the pending delta notifications.
Notified ==
  {p \in Processes : IF p = "initiator" THEN InitiatorNotified
                                        ELSE KeepAliveNotified}

\* The end of a delta cycle: an earlier sc_stop takes effect, otherwise the
\* pending events are triggered.  The initialization phase makes every
\* process runnable instead; no process waits for an event yet.
Notify ==
  /\ Running
  /\ phase = "notify"
  /\ IF stop_requested
     THEN /\ process' = "stopped"
          /\ UNCHANGED <<channel, signal_event, kernel>>
     ELSE /\ IF put_event \/ get_event THEN Ch!Notify ELSE UNCHANGED channel
          /\ signal_event' = FALSE
          /\ initialized' = TRUE
          /\ runnable' = IF initialized THEN Notified ELSE Processes
          /\ phase' = IF runnable' = {} THEN "time" ELSE "evaluate"
          /\ UNCHANGED <<process, stop_requested>>
  /\ UNCHANGED <<keep_alive_signal, allow_pthread, stop_requests, init_vars,
                 keep_alive, os_vars, outside, history>>

\* The processes in a timed wait.
TimedWaiters ==
  {p \in Processes : IF p = "initiator" THEN initiator = "wait_timed"
                                        ELSE keep_alive = "wait_second"}

\* Time advances to the earliest timed waits.  Without any the simulation
\* starves: sc_start returns and nothing has called sc_stop.
AdvanceTime ==
  /\ Running
  /\ phase = "time"
  /\ IF TimedWaiters = {}
     THEN /\ process' = "starved"
          /\ UNCHANGED <<runnable, phase>>
     ELSE /\ \E S \in SUBSET TimedWaiters : S # {} /\ runnable' = S
          /\ phase' = "evaluate"
          /\ UNCHANGED process
  /\ UNCHANGED <<channel, initialized, stop_requested, signals, allow_pthread,
                 stop_requests, init_vars, keep_alive, os_vars, outside,
                 history>>

SyscStep ==
  \/ InitiatorStart
  \/ InitiatorWake
  \/ InitiatorGet
  \/ Transport
  \/ InitiatorPut
  \/ KeepAlive
  \/ StartOfSimulation
  \/ EvaluationDone
  \/ Update
  \/ UpdateChannel
  \/ Notify
  \/ AdvanceTime

----------------------------------------------------------------------------
(* The remote client, in the way driver.c uses the connection: one request *)
(* at a time.  It may also send TLMX_EXIT, which the adaptor understands,  *)
(* and close the connection or disappear at any moment.                    *)

Connect ==
  /\ Running
  /\ client = "unconnected" /\ os_thread # "setup"
  /\ client' = "idle"
  /\ UNCHANGED <<inside, sent, wires>>

SendRequest ==
  /\ Running
  /\ client = "idle" /\ sent < MaxRequests
  /\ \E c \in Commands : wire_in' = Append(wire_in, Request(c, sent + 1))
  /\ sent' = sent + 1
  /\ client' = "awaiting"
  /\ UNCHANGED <<inside, wire_out>>

ReceiveResponse ==
  /\ Running
  /\ client = "awaiting" /\ wire_out # <<>>
  /\ wire_out' = Tail(wire_out)
  /\ client' = "idle"
  /\ UNCHANGED <<inside, sent, wire_in>>

SendExit ==
  /\ Running
  /\ client = "idle"
  /\ wire_in' = Append(wire_in, ExitPacket)
  /\ client' = "exiting"
  /\ UNCHANGED <<inside, sent, wire_out>>

Disconnect ==
  /\ Running
  /\ client \in {"idle", "awaiting", "exiting"}
  /\ client' = "gone"
  /\ UNCHANGED <<inside, sent, wires>>

ClientStep ==
  \/ Connect
  \/ SendRequest
  \/ ReceiveResponse
  \/ SendExit
  \/ Disconnect

\* sighandler.
Interrupt ==
  /\ Running
  /\ stop_requests < MaxInterrupts
  /\ stop_requests' = stop_requests + 1
  /\ UNCHANGED <<channel, kernel, process, signals, allow_pthread, init_vars,
                 keep_alive, os_vars, outside, history>>

\* The process has ended.
Ended == process # "running" /\ UNCHANGED vars

Next == OsStep \/ SyscStep \/ ClientStep \/ Interrupt \/ Ended

\* The operating system runs both threads; a thread blocked at a mutex gets
\* it only if it stays free.  The client and the user owe nothing.
Fairness == WF_vars(OsStep) /\ WF_vars(SyscStep)

Spec == Init /\ [][Next]_vars
FairSpec == Spec /\ Fairness

----------------------------------------------------------------------------
(* Properties.                                                             *)

\* Every variable of the module has its type (Ch!TypeOK types the channel).
TypeOK ==
  /\ Ch!TypeOK
  /\ phase \in {"elaborate", "update", "update_channel", "notify", "evaluate", "time"}
  /\ initialized \in BOOLEAN /\ stop_requested \in BOOLEAN
  /\ runnable \in SUBSET Processes
  /\ process \in {"running", "stopped", "starved", "setup_failed",
                  "connection_lost", "missing_response"}
  /\ keep_alive_signal \in [cur : BOOLEAN, next : BOOLEAN]
  /\ signal_event \in BOOLEAN
  /\ allow_pthread \in {Sysc, NoOwner}
  /\ stop_requests \in Nat
  /\ initiator \in {"start", "wait_put", "get", "get_relock", "transport",
                    "wait_delta", "wait_timed", "put", "put_relock"}
  /\ initiator_trans \in Packets
  /\ keep_alive \in {"check", "wait_delta", "wait_change", "wait_second", "exited"}
  /\ os_thread \in {"setup", "gate", "accept", "read", "push", "wait_for_put",
                    "awake", "pull", "send", "close", "done"}
  /\ os_trans \in Packets
  /\ client \in {"unconnected", "idle", "awaiting", "exiting", "gone"}
  /\ sent \in 0..MaxRequests
  /\ wire_in \in Seq(Packets) /\ wire_out \in Seq(Packets)
  /\ executed \in Seq(Nat) /\ answered \in Seq(Nat)

\* "ASSERTION: Should be ready" (async_adaptor.cpp:287): when wait_for_put has
\* returned, the response to the very request this thread pushed is there,
\* carried out and alone, so nb_pull never fails with "Missing response".
ShouldBeReady ==
  /\ os_thread = "pull" =>
       /\ Len(queue_fm_sysc) = 1
       /\ Head(queue_fm_sysc).id = os_trans.id
       /\ Head(queue_fm_sysc).status # "none"
  /\ process # "missing_response"

\* The initiator is resumed only for a request that is still queued, so its
\* nb_get never fails ("Missing response", async_adaptor.cpp:350-352) and it
\* never transports the empty packet it has at hand.
WokenWithRequest ==
  /\ (initiator = "wait_put" /\ "initiator" \in runnable) => Ch!can_get
  /\ initiator = "get" => Ch!can_get
  /\ initiator \in {"get_relock", "transport", "wait_delta", "wait_timed", "put"}
       => initiator_trans.id = os_trans.id

\* The data of a request lives in data_ptr, an array on the stack of
\* async_os_thread, that the packet points to and the target reads and
\* writes.  The thread uses it only while the SystemC side has no access to
\* it, although no mutex protects it.
PayloadExclusive ==
  initiator \in {"get_relock", "transport", "wait_delta", "wait_timed", "put"}
    => os_thread = "wait_for_put"

\* A queued request is on its way to the initiator: its push has not been
\* noticed by update() yet, the event is pending, or the initiator has been
\* resumed.  The only exception is the first request, which may arrive
\* before the initiator waits for the first time.
OnlyFirstRequestCanBeMissed ==
  (Ch!can_get /\ Head(queue_to_sysc).id # 1)
    => \/ thread_did_push \/ put_event
       \/ initiator = "wait_put" /\ "initiator" \in runnable
       \/ initiator = "get"

\* keep_alive_process "will keep the simulator from starving"
\* (async_adaptor.cpp:408): sc_start never returns for want of activity.
NeverStarves == process # "starved"

\* The promise of RequestResponse.
RR == INSTANCE RequestResponse WITH requested <- sent
ServesRequests == RR!Spec

\* The adaptor is a client of the channel as TlmxChannel describes them, and
\* of queues of one element: the channel's properties hold here too.
UsesChannel == Ch!Spec

\* The keep-alive process gives way to simulated time: it does not spin
\* through delta cycles while the initiator is in a timed wait.
TimedWaitEnds ==
  initiator = "wait_timed" ~> (initiator # "wait_timed" \/ process # "running")

\* An interrupt ends the simulation, whatever the client and the OS thread
\* are doing.
InterruptStops == stop_requests > 0 ~> process # "running"

\* nb_put returns: the OS thread never keeps the wait mutex it was woken
\* with, so the kernel thread cannot be blocked in the middle of a put.
PutReturns ==
  initiator = "put_relock" ~> (initiator = "wait_put" \/ process # "running")

\* A request that is pushed while the initiator waits is taken.
ListeningInitiatorServes ==
  (thread_did_push /\ initiator = "wait_put")
    ~> (~Ch!can_get \/ process # "running")

----------------------------------------------------------------------------
(* What the repository says of the program and the code does not do.       *)

\* async_adaptor.cpp:13-16: a push "generates a SystemC event", at which the
\* "initiator_thread wakes up, gets the data from the async_channel".
PushWakesInitiator == Ch!can_get ~> (~Ch!can_get \/ process # "running")

\* async_adaptor.cpp:19-22: a put "generates an OS event", at which
\* "async_os_thread wakes up and pulls the data from async_channel".
PutWakesOsThread == Ch!can_pull ~> (~Ch!can_pull \/ process # "running")
=============================================================================
