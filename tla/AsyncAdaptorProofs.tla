------------------------- MODULE AsyncAdaptorProofs -------------------------
(***************************************************************************)
(* Safety of the adaptor for any number of requests and interrupts: its    *)
(* invariants, that it uses the channel as TlmxChannel describes, and that *)
(* it keeps the promise of RequestResponse.                                *)
(*                                                                         *)
(* The argument is in three parts.  Scheduling is about the kernel and the *)
(* two processes only.  Whereabouts says, for each step of                 *)
(* async_os_thread, where the one packet is and what announces it.         *)
(* Exchange counts the requests.                                           *)
(***************************************************************************)
EXTENDS AsyncAdaptor, TLAPS

----------------------------------------------------------------------------
(* The kernel and its processes.                                           *)

\* A process that is in the middle of a run is runnable, and only in the
\* evaluation phase is there one.
Phases ==
  /\ InitiatorRunning => phase = "evaluate" /\ "initiator" \in runnable
  /\ phase # "evaluate" => runnable = {}
  /\ ~initialized =>
       /\ phase \in {"elaborate", "update", "update_channel", "notify"}
       /\ initiator = "start" /\ keep_alive = "check"
  /\ phase = "elaborate" => ~initialized
  /\ (initialized /\ initiator = "start") => "initiator" \in runnable
  /\ (initialized /\ keep_alive = "check") => "keep_alive" \in runnable
  /\ keep_alive = "exited" => stop_requested

\* The signal is up while the initiator waits for a packet, and
\* keep_alive_process waits for a change only while the signal is down.
SignalFollows ==
  /\ phase # "elaborate" =>
       (keep_alive_signal.next <=> initiator \in {"start", "wait_put"})
  /\ phase \in {"update_channel", "notify", "time"}
       => keep_alive_signal.cur = keep_alive_signal.next
  /\ keep_alive = "wait_change" =>
       \/ ~keep_alive_signal.cur
       \/ phase \in {"update_channel", "notify"} /\ signal_event
       \/ "keep_alive" \in runnable
  /\ phase = "time" => initiator = "wait_timed" \/ keep_alive = "wait_second"

Scheduling == Phases /\ SignalFollows /\ NeverStarves

----------------------------------------------------------------------------
(* The packet.                                                             *)

\* The initiator has been resumed for a packet and has not run yet.
Resumed == initiator = "wait_put" /\ "initiator" \in runnable

\* Nothing announces a packet to the initiator.
NoNews == ~thread_did_push /\ ~put_event /\ ~Resumed

\* async_os_thread has no request in the channel.
NoRequest ==
  /\ queue_to_sysc = <<>> /\ queue_fm_sysc = <<>>
  /\ initiator \in {"start", "wait_put"} /\ NoNews
  /\ mutex_wait_put = Sysc

\* The request is in the queue, and announced once at most.
Queued ==
  /\ queue_to_sysc = <<os_trans>> /\ queue_fm_sysc = <<>>
  /\ initiator \in {"start", "wait_put", "get"}
  /\ put_event => ~thread_did_push
  /\ initiator = "get" \/ Resumed => ~thread_did_push /\ ~put_event
  /\ mutex_wait_put = Sysc

\* The initiator has it.
Served ==
  /\ queue_to_sysc = <<>> /\ queue_fm_sysc = <<>>
  /\ initiator \in {"get_relock", "transport", "wait_delta", "wait_timed",
                    "put"}
  /\ initiator \in {"wait_delta", "wait_timed", "put"}
       => initiator_trans.status # "none"
  /\ initiator_trans.id = os_trans.id /\ NoNews
  /\ mutex_wait_put = Sysc

\* The response is in the channel.
Answered ==
  /\ queue_to_sysc = <<>> /\ queue_fm_sysc = <<initiator_trans>>
  /\ initiator \in {"wait_put", "put_relock"}
  /\ initiator = "wait_put" => mutex_wait_put = Sysc
  /\ initiator = "put_relock" => mutex_fm_sysc = Sysc
  /\ initiator_trans.id = os_trans.id /\ initiator_trans.status # "none"
  /\ NoNews

Whereabouts ==
  /\ os_thread \in {"setup", "gate", "accept", "read", "push", "send", "close",
                    "done"} => NoRequest
  /\ os_thread = "wait_for_put" => Queued \/ Served \/ Answered
  /\ os_thread = "awake" =>
       Answered /\ initiator = "put_relock" /\ mutex_wait_put = OsThread
  /\ os_thread = "pull" => Answered
  /\ process # "missing_response"

----------------------------------------------------------------------------
(* The requests.                                                           *)

\* A request is on its way to async_os_thread.
Asked ==
  /\ os_thread \in {"gate", "accept", "read"}
  /\ \E p \in Packets :
       wire_in = <<p>> /\ p.command # "exit" /\ p.id = sent
  /\ wire_out = <<>>
  /\ Len(executed) = Len(answered) /\ sent = Len(answered) + 1

\* The request has been transported to the target.
Executed ==
  \/ os_thread \in {"awake", "pull", "send"}
  \/ os_thread = "wait_for_put"
       /\ initiator \in {"wait_delta", "wait_timed", "put", "put_relock"}
  \/ os_thread = "wait_for_put" /\ queue_fm_sysc # <<>>

\* async_os_thread has it.
InService ==
  /\ os_thread \in {"push", "wait_for_put", "awake", "pull", "send"}
  /\ wire_in = <<>> /\ wire_out = <<>>
  /\ os_trans.id = sent /\ sent = Len(answered) + 1
  /\ Len(executed) = IF Executed THEN sent ELSE sent - 1

\* Every request has been answered; async_os_thread waits for another one or
\* for a client, or it has been told to exit.
AllAnswered ==
  /\ Len(executed) = sent /\ Len(answered) = sent

AtRest ==
  /\ os_thread \in {"setup", "gate", "accept", "read"}
  /\ wire_in = <<>> /\ Len(wire_out) <= 1 /\ AllAnswered

Leaving ==
  /\ \/ os_thread \in {"gate", "accept", "read"} /\ wire_in = <<ExitPacket>>
     \/ os_thread \in {"close", "done"} /\ wire_in = <<>>
  /\ wire_out = <<>> /\ AllAnswered

Exchange ==
  /\ Asked \/ InService \/ AtRest \/ Leaving
  /\ client \in {"unconnected", "idle"} => AtRest /\ wire_out = <<>>
  /\ os_thread = "setup" => client = "unconnected"
  /\ client = "awaiting" => ~Leaving
  /\ \A i \in 1 .. Len(executed) : executed[i] = i
  /\ \A i \in 1 .. Len(answered) : answered[i] = i

\* Only the first request can be queued without being announced.
MissedIsFirst ==
  /\ initiator = "start" => executed = <<>> /\ os_thread # "send"
  /\ (initiator = "wait_put" /\ queue_to_sysc # <<>> /\ NoNews)
       => os_trans.id = 1

----------------------------------------------------------------------------
(* What the steps of each actor leave alone.                               *)

\* async_os_thread: the kernel, the processes and their signals.
LEMMA OsFrame ==
  OsStep => /\ UNCHANGED <<kernel, signals, stop_requests, init_vars,
                           keep_alive, client, sent, executed>>
            /\ UNCHANGED allow_pthread /\ process' # "starved"
BY DEF OsStep, Running, SetupSocket, PassGate, Accept, Read, PushRequest,
   WaitForPut, PullResponse, SendResponse, CloseConnection, outside, wires,
   history

\* The kernel thread: async_os_thread, its clients and their wires.
LEMMA SyscFrame ==
  SyscStep => UNCHANGED <<os_vars, outside, answered, stop_requests>>
BY DEF SyscStep, InitiatorStart, InitiatorWake, InitiatorGet, Transport,
   InitiatorPut, KeepAlive, StartOfSimulation, EvaluationDone, Update,
   UpdateChannel, Notify, AdvanceTime, history

\* The client: everything but the wires.
LEMMA ClientFrame == ClientStep => UNCHANGED inside
BY DEF ClientStep, Connect, SendRequest, ReceiveResponse, SendExit, Disconnect

\* The SIGINT handler: everything but its counter.
LEMMA InterruptFrame ==
  Interrupt => /\ UNCHANGED <<channel, kernel, process, signals, allow_pthread,
                              init_vars, keep_alive, os_vars, outside, history>>
               /\ stop_requests' = stop_requests + 1
BY DEF Interrupt

----------------------------------------------------------------------------
(* Types, a group of variables at a time.                                  *)

KernelTypes ==
  /\ phase \in {"elaborate", "update", "update_channel", "notify", "evaluate",
                "time"}
  /\ initialized \in BOOLEAN /\ stop_requested \in BOOLEAN
  /\ runnable \in SUBSET Processes

SignalTypes ==
  /\ keep_alive_signal \in [cur : BOOLEAN, next : BOOLEAN]
  /\ signal_event \in BOOLEAN
  /\ allow_pthread \in {Sysc, NoOwner}
  /\ stop_requests \in Nat

PlaceTypes ==
  /\ process \in {"running", "stopped", "starved", "setup_failed",
                  "connection_lost", "missing_response"}
  /\ initiator \in {"start", "wait_put", "get", "get_relock", "transport",
                    "wait_delta", "wait_timed", "put", "put_relock"}
  /\ keep_alive \in {"check", "wait_delta", "wait_change", "wait_second",
                     "exited"}
  /\ os_thread \in {"setup", "gate", "accept", "read", "push", "wait_for_put",
                    "awake", "pull", "send", "close", "done"}
  /\ client \in {"unconnected", "idle", "awaiting", "exiting", "gone"}

PacketTypes ==
  /\ initiator_trans \in Packets /\ os_trans \in Packets
  /\ sent \in 0..MaxRequests
  /\ wire_in \in Seq(Packets) /\ wire_out \in Seq(Packets)
  /\ executed \in Seq(Nat) /\ answered \in Seq(Nat)

\* The groups are TypeOK.
LEMMA TypeGroups ==
  TypeOK <=> /\ Ch!TypeOK /\ KernelTypes /\ SignalTypes /\ PlaceTypes
             /\ PacketTypes
BY DEF TypeOK, KernelTypes, SignalTypes, PlaceTypes, PacketTypes

\* Each group is kept by every step.
LEMMA KernelTypesKept == KernelTypes /\ [Next]_vars => KernelTypes'
<1> SUFFICES ASSUME KernelTypes, [Next]_vars
             PROVE  KernelTypes'
  OBVIOUS
<1> USE DEF KernelTypes, kernel, Processes
<1>1. CASE OsStep
  BY <1>1, OsFrame
<1>2. CASE SyscStep
  BY <1>2 DEF SyscStep, InitiatorStart, InitiatorWake, InitiatorGet,
     Transport, InitiatorPut, KeepAlive, StartOfSimulation, EvaluationDone,
     Update, UpdateChannel, Notify, Notified, AdvanceTime, TimedWaiters
<1>3. CASE ClientStep
  BY <1>3, ClientFrame DEF inside
<1>4. CASE UNCHANGED kernel
  BY <1>4
<1> QED
  BY <1>1, <1>2, <1>3, <1>4, InterruptFrame
  DEF Next, Ended, vars, inside

LEMMA SignalTypesKept == SignalTypes /\ [Next]_vars => SignalTypes'
<1> SUFFICES ASSUME SignalTypes, [Next]_vars
             PROVE  SignalTypes'
  OBVIOUS
<1> USE DEF SignalTypes, signals
<1>1. CASE OsStep
  BY <1>1, OsFrame
<1>2. CASE SyscStep
  <2>1. signal_event' \in BOOLEAN /\ allow_pthread' \in {Sysc, NoOwner}
    BY <1>2 DEF SyscStep, InitiatorStart, InitiatorWake, InitiatorGet,
       Transport, InitiatorPut, KeepAlive, StartOfSimulation, EvaluationDone,
       Update, UpdateChannel, Notify, AdvanceTime
  <2>2. keep_alive_signal' \in [cur : BOOLEAN, next : BOOLEAN]
    BY <1>2 DEF SyscStep, InitiatorStart, InitiatorWake, InitiatorGet,
       Transport, InitiatorPut, KeepAlive, StartOfSimulation, EvaluationDone,
       Update, UpdateChannel, Notify, AdvanceTime, WriteSignal
  <2> QED
    BY <1>2, <2>1, <2>2, SyscFrame
<1>3. CASE ClientStep
  BY <1>3, ClientFrame DEF inside
<1>4. CASE Interrupt
  BY <1>4, InterruptFrame
<1>5. CASE UNCHANGED inside
  BY <1>5 DEF inside
<1> QED
  BY <1>1, <1>2, <1>3, <1>4, <1>5 DEF Next, Ended, vars

LEMMA PlaceTypesKept == PlaceTypes /\ [Next]_vars => PlaceTypes'
<1> SUFFICES ASSUME PlaceTypes, [Next]_vars
             PROVE  PlaceTypes'
  OBVIOUS
<1> USE DEF PlaceTypes, os_vars, init_vars
<1>1. CASE OsStep
  <2>1. process' \in {"running", "setup_failed", "connection_lost",
                      "missing_response", process}
        /\ os_thread' \in {"gate", "accept", "read", "close", "push",
                           "wait_for_put", "awake", "pull", "send", "done",
                           os_thread}
    BY <1>1 DEF OsStep, SetupSocket, PassGate, Accept, Read, PushRequest,
       WaitForPut, PullResponse, SendResponse, CloseConnection
  <2> QED
    BY <1>1, <2>1, OsFrame
<1>2. CASE SyscStep
  <2>1. process' \in {"running", "stopped", "starved", process}
        /\ initiator' \in {"wait_put", "get", "get_relock", "transport",
                           "put", "wait_timed", "wait_delta", "put_relock",
                           initiator}
        /\ keep_alive' \in {"wait_second", "wait_change", "wait_delta",
                            "exited", keep_alive}
    BY <1>2 DEF SyscStep, InitiatorStart, InitiatorWake, InitiatorGet,
       Transport, InitiatorPut, KeepAlive, StartOfSimulation, EvaluationDone,
       Update, UpdateChannel, Notify, AdvanceTime
  <2> QED
    BY <1>2, <2>1, SyscFrame DEF outside
<1>3. CASE ClientStep
  <2>1. client' \in {"idle", "awaiting", "exiting", "gone"}
    BY <1>3 DEF ClientStep, Connect, SendRequest, ReceiveResponse, SendExit,
       Disconnect
  <2> QED
    BY <1>3, <2>1, ClientFrame DEF inside
<1>4. CASE Interrupt
  BY <1>4, InterruptFrame DEF outside
<1>5. CASE UNCHANGED vars
  BY <1>5 DEF vars, inside, outside
<1> QED
  BY <1>1, <1>2, <1>3, <1>4, <1>5 DEF Next, Ended

\* What the head and the tail of a sequence are.
LEMMA Ends ==
  ASSUME NEW S, NEW s \in Seq(S), s # <<>>
  PROVE  Head(s) \in S /\ Tail(s) \in Seq(S)
OBVIOUS

\* The packets the program makes are packets.
LEMMA PacketsMade ==
  /\ IgnorePacket \in Packets /\ ExitPacket \in Packets
  /\ \A c \in Commands, n \in 0 .. MaxRequests : Request(c, n) \in Packets
  /\ \A p \in Packets, s \in Statuses : [p EXCEPT !.status = s] \in Packets
  /\ \A p \in Packets : p.id \in 0 .. MaxRequests
BY BoundsAssumption DEF IgnorePacket, ExitPacket, Request, Packets, Commands,
   Statuses

\* The channel holds packets as long as the adaptor puts packets into it,
\* and the adaptor has packets as long as the channel does.
LEMMA ChannelTypesKept ==
  ASSUME Ch!TypeOK, PacketTypes, [Next]_vars
  PROVE  Ch!TypeOK'
<1> USE AdaptorActorsAssumption
<1> USE DEF Ch!TypeOK, Ch!Actors, Ch!Ops, Ch!queues, Ch!flags, Ch!events,
            Ch!mutexes, Ch!kernel
<1>1. CASE UNCHANGED channel
  BY <1>1 DEF channel
<1>2. CASE PushRequest
  BY <1>2 DEF PushRequest, Ch!Push, PacketTypes
<1>3. CASE WaitForPut
  BY <1>3 DEF WaitForPut, Ch!WaitForPutLock, Ch!WaitForPutUnlock
<1>4. CASE PullResponse /\ ~UNCHANGED channel
  <2>1. Ch!NbPull(OsThread) /\ Tail(queue_fm_sysc) \in Seq(Packets)
    BY <1>4, Ends DEF PullResponse, Ch!NbPull, Ch!can_pull
  <2> QED
    BY <2>1 DEF Ch!NbPull
<1>5. CASE InitiatorGet /\ ~UNCHANGED channel
  <2>1. CASE Ch!NbGet
    <3>1. Tail(queue_to_sysc) \in Seq(Packets)
      BY <2>1, Ends DEF Ch!NbGet, Ch!can_get
    <3> QED
      BY <2>1, <3>1 DEF Ch!NbGet
  <2>2. CASE Ch!NbGetRelock
    BY <2>2 DEF Ch!NbGetRelock
  <2> QED
    BY <1>5, <2>1, <2>2 DEF InitiatorGet
<1>6. CASE InitiatorPut
  <2>1. CASE Ch!NbPut(initiator_trans)
    BY <2>1 DEF Ch!NbPut, PacketTypes
  <2>2. CASE Ch!NbPutRelock
    BY <2>2 DEF Ch!NbPutRelock
  <2> QED
    BY <1>6, <2>1, <2>2 DEF InitiatorPut
<1>7. CASE Update /\ ~UNCHANGED channel
  <2>1. Ch!AcceptUpdates
    BY <1>7 DEF Update
  <2> QED
    BY <2>1, ZenonT(40) DEF Ch!AcceptUpdates
<1>8. CASE UpdateChannel
  <2>1. CASE Ch!UpdatePush
    BY <2>1 DEF Ch!UpdatePush
  <2>2. CASE Ch!UpdatePull
    BY <2>2 DEF Ch!UpdatePull
  <2> QED
    BY <1>8, <2>1, <2>2 DEF UpdateChannel
<1>9. CASE Notify /\ ~UNCHANGED channel
  <2>1. Ch!Notify
    BY <1>9 DEF Notify, channel
  <2>2. op' = op \/ op' = [op EXCEPT ![Sysc] = "get"]
    BY <2>1 DEF Ch!Notify
  <2>3. op' \in [Ch!Actors -> Ch!Ops]
    BY <2>2
  <2> QED
    BY <2>1, <2>3 DEF Ch!Notify
<1>10. CASE OsStep
  BY <1>1, <1>2, <1>3, <1>4, <1>10
  DEF OsStep, SetupSocket, PassGate, Accept, Read, SendResponse,
      CloseConnection
<1>11. CASE SyscStep
  BY <1>1, <1>5, <1>6, <1>7, <1>8, <1>9, <1>11
  DEF SyscStep, InitiatorStart, InitiatorWake, Transport, KeepAlive,
      StartOfSimulation, EvaluationDone, AdvanceTime
<1> QED
  BY <1>1, <1>10, <1>11, ClientFrame, InterruptFrame DEF Next, Ended, vars, inside

LEMMA PacketTypesKept ==
  ASSUME Ch!TypeOK, PacketTypes, [Next]_vars
  PROVE  PacketTypes'
<1> USE DEF PacketTypes, os_vars, init_vars, outside, wires, history
<1>1. CASE Read
  <2>1. wire_in # <<>> => Head(wire_in) \in Packets /\ Tail(wire_in) \in Seq(Packets)
    BY Ends
  <2> QED
    BY <1>1, <2>1 DEF Read
<1>2. CASE PullResponse
  <2>1. Ch!can_pull => Head(queue_fm_sysc) \in Packets
    BY Ends DEF Ch!can_pull, Ch!TypeOK
  <2> QED
    BY <1>2, <2>1 DEF PullResponse
<1>3. CASE SendResponse
  <2>1. Append(wire_out, os_trans) \in Seq(Packets)
        /\ Append(answered, os_trans.id) \in Seq(Nat)
    BY PacketsMade
  <2> QED
    BY <1>3, <2>1 DEF SendResponse
<1>4. CASE InitiatorWake
  BY <1>4, PacketsMade DEF InitiatorWake
<1>5. CASE InitiatorGet
  <2>1. Ch!can_get => Head(queue_to_sysc) \in Packets
    BY Ends DEF Ch!can_get, Ch!TypeOK
  <2> QED
    BY <1>5, <2>1 DEF InitiatorGet
<1>6. CASE Transport
  <2>1. PICK s \in {"ok", "error"} :
          initiator_trans' = [initiator_trans EXCEPT !.status = s]
    BY <1>6 DEF Transport
  <2>2. initiator_trans' \in Packets
    BY <2>1, PacketsMade DEF Statuses
  <2>3. Append(executed, initiator_trans.id) \in Seq(Nat)
    BY PacketsMade
  <2> QED
    BY <1>6, <2>2, <2>3 DEF Transport
<1>7. CASE SendRequest
  <2>1. PICK c \in Commands :
          wire_in' = Append(wire_in, Request(c, sent + 1))
    BY <1>7 DEF SendRequest
  <2>2. sent' \in 0 .. MaxRequests /\ sent' = sent + 1
    BY <1>7, BoundsAssumption DEF SendRequest
  <2>3. wire_in' \in Seq(Packets)
    BY <2>1, <2>2, PacketsMade
  <2> QED
    BY <1>7, <2>2, <2>3 DEF SendRequest, inside
<1>8. CASE ReceiveResponse
  <2>1. wire_out # <<>> => Tail(wire_out) \in Seq(Packets)
    BY Ends
  <2> QED
    BY <1>8, <2>1 DEF ReceiveResponse, inside
<1>9. CASE SendExit
  BY <1>9, PacketsMade DEF SendExit, inside
<1>10. CASE UNCHANGED <<initiator_trans, os_trans, sent, wires, history>>
  BY <1>10
<1>11. CASE OsStep
  BY <1>1, <1>2, <1>3, <1>10, <1>11
  DEF OsStep, SetupSocket, PassGate, Accept, PushRequest, WaitForPut,
      CloseConnection
<1>12. CASE SyscStep
  BY <1>4, <1>5, <1>6, <1>10, <1>12
  DEF SyscStep, InitiatorStart, InitiatorPut, KeepAlive, StartOfSimulation,
      EvaluationDone, Update, UpdateChannel, Notify, AdvanceTime
<1>13. CASE ClientStep
  BY <1>7, <1>8, <1>9, <1>10, <1>13 DEF ClientStep, Connect, Disconnect, inside
<1> QED
  BY <1>10, <1>11, <1>12, <1>13 DEF Next, Interrupt, Ended, vars, inside

\* Every variable of the adaptor and of its channel has its type, for any
\* number of requests and of interrupts.
THEOREM Typing == Spec => []TypeOK
<1>1. Init => TypeOK
  <2> SUFFICES ASSUME Init
               PROVE  TypeOK
    OBVIOUS
  <2>1. Ch!TypeOK
    <3>1. Ch!Init
      BY DEF Init
    <3>2. op \in [Ch!Actors -> Ch!Ops]
      BY <3>1 DEF Ch!Init, Ch!Ops
    <3>3. mutex_wait_get \in Ch!Actors /\ mutex_wait_put \in Ch!Actors
      BY <3>1 DEF Ch!Init, Ch!Actors
    <3>4. queue_to_sysc \in Seq(Packets) /\ queue_fm_sysc \in Seq(Packets)
      BY <3>1 DEF Ch!Init
    <3> HIDE DEF Packets
    <3> QED
      BY <3>1, <3>2, <3>3, <3>4 DEF Ch!Init, Ch!TypeOK
  <2>2. KernelTypes /\ SignalTypes /\ PlaceTypes
    BY DEF Init, KernelTypes, SignalTypes, PlaceTypes, Processes
  <2>3. PacketTypes
    BY PacketsMade, BoundsAssumption DEF Init, PacketTypes
  <2> QED
    BY <2>1, <2>2, <2>3, TypeGroups
<1>2. TypeOK /\ [Next]_vars => TypeOK'
  <2>1. TypeOK' <=> /\ Ch!TypeOK' /\ KernelTypes' /\ SignalTypes'
                    /\ PlaceTypes' /\ PacketTypes'
    BY DEF TypeOK, KernelTypes, SignalTypes, PlaceTypes, PacketTypes
  <2> QED
    BY <2>1, TypeGroups, KernelTypesKept, SignalTypesKept, PlaceTypesKept,
       PacketTypesKept, ChannelTypesKept
<1> QED
  BY <1>1, <1>2, PTL DEF Spec

----------------------------------------------------------------------------
(* The kernel and its processes.                                           *)

\* The steps of the kernel and of its processes keep Scheduling.
LEMMA SchedulingKept ==
  ASSUME KernelTypes, SignalTypes, PlaceTypes, Scheduling, SyscStep
  PROVE  Scheduling'
<1> USE DEF Scheduling, Phases, SignalFollows, NeverStarves, Running,
            Schedulable, InitiatorRunning, WriteSignal, KernelTypes,
            SignalTypes, PlaceTypes, Processes, signals, kernel, init_vars
<1>1. CASE InitiatorStart
  BY <1>1 DEF InitiatorStart
<1>2. CASE InitiatorWake
  BY <1>2 DEF InitiatorWake
<1>3. CASE InitiatorGet
  BY <1>3 DEF InitiatorGet
<1>4. CASE Transport
  BY <1>4 DEF Transport
<1>5. CASE InitiatorPut
  BY <1>5 DEF InitiatorPut
<1>6. CASE KeepAlive
  BY <1>6 DEF KeepAlive
<1>7. CASE StartOfSimulation
  BY <1>7 DEF StartOfSimulation
<1>8. CASE EvaluationDone
  BY <1>8 DEF EvaluationDone
<1>9. CASE Update
  BY <1>9 DEF Update
<1>10. CASE UpdateChannel
  BY <1>10 DEF UpdateChannel
<1>11. CASE Notify
  BY <1>11 DEF Notify, Notified, InitiatorNotified, KeepAliveNotified
<1>12. CASE AdvanceTime
  BY <1>12 DEF AdvanceTime, TimedWaiters
<1> QED
  BY <1>1, <1>2, <1>3, <1>4, <1>5, <1>6, <1>7, <1>8, <1>9, <1>10, <1>11,
     <1>12 DEF SyscStep

\* No other step can disturb it.
LEMMA SchedulingInvariant == Spec => []Scheduling
<1>1. Init => Scheduling
  BY DEF Init, Scheduling, Phases, SignalFollows, NeverStarves, InitiatorRunning
<1>2. TypeOK /\ Scheduling /\ [Next]_vars => Scheduling'
  <2> SUFFICES ASSUME TypeOK, Scheduling, [Next]_vars
               PROVE  Scheduling'
    OBVIOUS
  <2>1. CASE SyscStep
    BY <2>1, TypeGroups, SchedulingKept
  <2>2. CASE ~SyscStep
    <3>1. UNCHANGED <<kernel, signals, initiator, keep_alive>>
          /\ (process' = process \/ process' # "starved")
      BY <2>2, OsFrame, ClientFrame, InterruptFrame
      DEF Next, Ended, vars, inside, init_vars
    <3> QED
      BY <3>1 DEF Scheduling, Phases, SignalFollows, NeverStarves,
         InitiatorRunning, kernel, signals
  <2> QED
    BY <2>1, <2>2
<1> QED
  BY <1>1, <1>2, Typing, PTL DEF Spec

\* keep_alive_process keeps the simulation going: whatever the client, the
\* user and async_os_thread do, the kernel always finds a process to resume
\* (async_adaptor.cpp:405-433).
THEOREM KeptFromStarving == Spec => []NeverStarves
BY SchedulingInvariant, PTL DEF Scheduling

----------------------------------------------------------------------------
(* The packet.                                                             *)

\* Queues of one packet.
LEMMA Singletons ==
  ASSUME NEW x
  PROVE  /\ Append(<<>>, x) = <<x>> /\ Len(<<x>>) = 1 /\ <<x>> # <<>>
         /\ Head(<<x>>) = x /\ Tail(<<x>>) = <<>>
OBVIOUS

\* The steps of async_os_thread move the packet as Whereabouts says.
LEMMA OsWhereabouts ==
  ASSUME TypeOK, Whereabouts, OsStep
  PROVE  Whereabouts'
<1> USE AdaptorActorsAssumption
<1> USE DEF Whereabouts, NoRequest, Queued, Served, Answered, NoNews, Resumed,
            kernel, init_vars, os_vars, channel
<1> DEFINE Idle == os_thread \in {"setup", "gate", "accept", "read", "push",
                                  "send", "close", "done"}
<1>1. CASE SetupSocket \/ PassGate \/ Accept \/ Read \/ SendResponse
           \/ CloseConnection
  <2>1. /\ UNCHANGED channel /\ Idle /\ Idle'
        /\ process' # "missing_response"
    BY <1>1 DEF SetupSocket, PassGate, Accept, Read, SendResponse,
       CloseConnection, Running
  <2> QED
    BY <2>1, OsFrame
<1>2. CASE PushRequest
  BY <1>2, Singletons, OsFrame
  DEF PushRequest, Running, Ch!Push, Ch!events, Ch!mutexes
<1>3. CASE WaitForPut
  BY <1>3, OsFrame DEF WaitForPut, Running, Ch!WaitForPutLock,
     Ch!WaitForPutUnlock, Ch!queues, Ch!flags, Ch!events, Ch!kernel
<1>4. CASE PullResponse
  <2>1. Answered /\ initiator = "wait_put" /\ Ch!can_pull
    BY <1>4, Singletons DEF PullResponse, Ch!can_pull
  <2> QED
    BY <1>4, <2>1, Singletons, OsFrame
    DEF PullResponse, Running, Ch!NbPull, Ch!events, Ch!mutexes
<1> QED
  BY <1>1, <1>2, <1>3, <1>4 DEF OsStep

\* So do the steps of the kernel thread: each one finds the packet where the
\* program counter of the initiator says.
LEMMA SyscWhereabouts ==
  ASSUME TypeOK, Phases, Whereabouts, SyscStep
  PROVE  Whereabouts'
<1> USE AdaptorActorsAssumption
<1> USE DEF Whereabouts, NoNews, Resumed, Phases, Running, Schedulable
<1> DEFINE Idle == os_thread \in {"setup", "gate", "accept", "read", "push",
                                  "send", "close", "done"}
<1>0. UNCHANGED <<os_thread, os_trans>>
  BY SyscFrame DEF os_vars
<1>1. /\ process # "missing_response" /\ process' # "missing_response"
      /\ \/ Idle /\ NoRequest
         \/ os_thread = "wait_for_put" /\ (Queued \/ Served \/ Answered)
         \/ os_thread \in {"awake", "pull"} /\ Answered
  <2>1. process' \in {"stopped", "starved", process}
    BY DEF SyscStep, InitiatorStart, InitiatorWake, InitiatorGet, Transport,
       InitiatorPut, KeepAlive, StartOfSimulation, EvaluationDone, Update,
       UpdateChannel, Notify, AdvanceTime
  <2> QED
    BY <2>1, TypeGroups DEF PlaceTypes
<1>2. CASE /\ UNCHANGED <<queue_to_sysc, queue_fm_sysc, thread_did_push,
                          put_event, mutex_fm_sysc, mutex_wait_put,
                          init_vars>>
           /\ Resumed' => Resumed
  BY <1>0, <1>1, <1>2 DEF NoRequest, Queued, Served, Answered, init_vars
<1>3. CASE InitiatorStart \/ KeepAlive \/ StartOfSimulation \/ EvaluationDone
           \/ AdvanceTime
  <2>1. /\ UNCHANGED <<channel, initiator_trans>>
        /\ ~InitiatorStart => UNCHANGED initiator
        /\ Resumed' => Resumed
    BY <1>3 DEF InitiatorStart, KeepAlive, StartOfSimulation, EvaluationDone,
       AdvanceTime, TimedWaiters, init_vars
  <2>2. CASE InitiatorStart
    BY <1>0, <1>1, <2>1, <2>2
    DEF InitiatorStart, NoRequest, Queued, Served, Answered, channel
  <2> QED
    BY <1>2, <2>1, <2>2 DEF channel, init_vars
<1>4. CASE InitiatorWake
  <2>1. Queued /\ Resumed /\ UNCHANGED channel /\ initiator' = "get"
    BY <1>1, <1>4 DEF InitiatorWake, NoRequest, Served, Answered
  <2> QED
    BY <1>0, <1>1, <2>1 DEF Queued, channel, NoRequest, Served, Answered
<1>5. CASE InitiatorGet
  <2>1. CASE initiator = "get"
    <3>1. Queued /\ os_thread = "wait_for_put"
      BY <1>1, <2>1 DEF NoRequest, Served, Answered
    <3>2. Ch!NbGet /\ initiator_trans' = os_trans /\ initiator' = "get_relock"
      BY <1>5, <2>1, <3>1, Singletons DEF InitiatorGet, Queued, Ch!can_get
    <3>3. Served'
      BY <1>0, <2>1, <3>1, <3>2, Singletons
      DEF Queued, Served, Ch!NbGet, Ch!flags, Ch!events
    <3> QED
      BY <1>0, <1>1, <3>1, <3>3
  <2>2. CASE initiator = "get_relock"
    <3>1. Served /\ os_thread = "wait_for_put"
      BY <1>1, <2>2 DEF NoRequest, Queued, Answered
    <3>2. Served'
      BY <1>0, <1>5, <2>2, <3>1
      DEF Served, InitiatorGet, Ch!NbGetRelock, Ch!queues, Ch!flags, Ch!events
    <3> QED
      BY <1>0, <1>1, <3>1, <3>2
  <2> QED
    BY <1>5, <2>1, <2>2 DEF InitiatorGet
<1>6. CASE Transport
  <2>1. Served /\ os_thread = "wait_for_put"
    BY <1>1, <1>6 DEF Transport, NoRequest, Queued, Answered
  <2>2. initiator_trans'.id = initiator_trans.id
        /\ initiator_trans'.status # "none"
    BY <1>6, TypeGroups DEF Transport, PacketTypes, Packets
  <2>3. UNCHANGED channel /\ initiator' \in {"put", "wait_timed", "wait_delta"}
    BY <1>6 DEF Transport
  <2>4. Served'
    BY <1>0, <2>1, <2>2, <2>3 DEF Served, channel
  <2> QED
    BY <1>0, <1>1, <2>1, <2>4
<1>7. CASE InitiatorPut
  <2>1. CASE initiator = "put_relock"
    <3>1. Answered /\ ~Idle
      BY <1>1, <2>1 DEF NoRequest, Queued, Served
    <3>2. Ch!NbPutRelock /\ initiator' = "wait_put" /\ ~Resumed'
          /\ UNCHANGED initiator_trans
      BY <1>7, <2>1 DEF InitiatorPut
    <3>3. Answered' /\ mutex_wait_put = NoOwner
      BY <1>0, <3>1, <3>2
      DEF Answered, Ch!NbPutRelock, Ch!queues, Ch!flags, Ch!events
    <3> QED
      BY <1>0, <1>1, <3>1, <3>3
  <2>2. CASE initiator # "put_relock"
    <3>1. Served /\ os_thread = "wait_for_put"
      BY <1>1, <1>7, <2>2 DEF InitiatorPut, NoRequest, Queued, Answered
    <3>2. Ch!NbPut(initiator_trans) /\ initiator' = "put_relock"
          /\ UNCHANGED initiator_trans
      BY <1>7, <2>2 DEF InitiatorPut
    <3>3. initiator_trans.status # "none"
      BY <1>7, <2>2, <3>1 DEF InitiatorPut, Served
    <3>4. Answered'
      BY <1>0, <3>1, <3>2, <3>3, Singletons
      DEF Served, Answered, Ch!NbPut, Ch!events
    <3> QED
      BY <1>0, <1>1, <3>1, <3>4
  <2> QED
    BY <2>1, <2>2
<1>8. CASE Update
  <2>1. UNCHANGED <<queue_to_sysc, queue_fm_sysc, thread_did_push, put_event,
                    mutex_wait_put, mutex_fm_sysc, init_vars, runnable>>
    BY <1>8 DEF Update, Ch!AcceptUpdates, Ch!queues, Ch!flags, Ch!events,
       Ch!mutexes, channel
  <2> QED
    BY <1>2, <2>1 DEF init_vars
<1>9. CASE UpdateChannel
  <2>1. /\ UNCHANGED <<queue_to_sysc, queue_fm_sysc, mutex_wait_put,
                       mutex_fm_sysc, init_vars, runnable>>
        /\ \/ UNCHANGED <<thread_did_push, put_event>>
           \/ ~thread_did_push' /\ (put_event' => put_event \/ thread_did_push)
    BY <1>9 DEF UpdateChannel, Ch!UpdatePush, Ch!UpdatePull, Ch!queues,
       Ch!mutexes
  <2> QED
    BY <1>0, <1>1, <2>1
    DEF NoRequest, Queued, Served, Answered, init_vars
<1>10. CASE Notify
  <2>1. /\ UNCHANGED <<queue_to_sysc, queue_fm_sysc, mutex_wait_put,
                       mutex_fm_sysc, thread_did_push, init_vars>>
        /\ runnable = {}
        /\ \/ UNCHANGED <<put_event, runnable>>
           \/ ~put_event' /\ (Resumed' => put_event)
    BY <1>10 DEF Notify, Ch!Notify, Notified, InitiatorNotified, Ch!queues,
       Ch!flags, Ch!mutexes, channel, kernel, init_vars
  <2> QED
    BY <1>0, <1>1, <2>1
    DEF NoRequest, Queued, Served, Answered, init_vars
<1> QED
  BY <1>3, <1>4, <1>5, <1>6, <1>7, <1>8, <1>9, <1>10 DEF SyscStep

\* The packet is where the step of async_os_thread says, always.
LEMMA WhereaboutsInvariant == Spec => []Whereabouts
<1>1. Init => Whereabouts
  BY DEF Init, Ch!Init, Whereabouts, NoRequest, NoNews, Resumed
<1>2. TypeOK /\ Scheduling /\ Whereabouts /\ [Next]_vars => Whereabouts'
  <2> SUFFICES ASSUME TypeOK, Scheduling, Whereabouts, [Next]_vars
               PROVE  Whereabouts'
    OBVIOUS
  <2>1. CASE UNCHANGED <<channel, process, init_vars, os_vars, runnable>>
    BY <2>1 DEF Whereabouts, NoRequest, Queued, Served, Answered, NoNews,
       Resumed, channel, init_vars, os_vars
  <2>2. OsStep \/ SyscStep \/ UNCHANGED <<channel, process, init_vars, os_vars,
                                          runnable>>
    BY ClientFrame, InterruptFrame DEF Next, Ended, vars, inside, kernel
  <2> QED
    BY <2>1, <2>2, OsWhereabouts, SyscWhereabouts DEF Scheduling
<1> QED
  BY <1>1, <1>2, Typing, SchedulingInvariant, PTL DEF Spec

\* When wait_for_put returns the response is there, so that "Missing
\* response" is never reported to the client (async_adaptor.cpp:284-293).
THEOREM ResponseIsReady == Spec => []ShouldBeReady
<1>1. Whereabouts => ShouldBeReady
  BY Singletons DEF Whereabouts, Answered, ShouldBeReady
<1> QED
  BY <1>1, WhereaboutsInvariant, PTL

\* The initiator is resumed only for a packet it will find, whichever of the
\* pushes and notifications come in between (async_adaptor.cpp:345-352).
THEOREM ResumedForRequest == Spec => []WokenWithRequest
<1>1. TypeOK /\ Whereabouts => WokenWithRequest
  <2> SUFFICES ASSUME TypeOK, Whereabouts
               PROVE  WokenWithRequest
    OBVIOUS
  <2>1. NoRequest \/ Queued \/ Served \/ Answered
    BY TypeGroups DEF Whereabouts, PlaceTypes
  <2> QED
    BY <2>1, Singletons
    DEF NoRequest, Queued, Served, Answered, NoNews, Resumed,
        WokenWithRequest, Ch!can_get
<1> QED
  BY <1>1, Typing, WhereaboutsInvariant, PTL

\* async_os_thread is inside wait_for_put as long as the SystemC side works
\* on the request, whose data is on the stack of that thread
\* (async_adaptor.cpp:249, 268-291, 357-392).
THEOREM PayloadIsExclusive == Spec => []PayloadExclusive
<1>1. TypeOK /\ Whereabouts => PayloadExclusive
  BY TypeGroups
  DEF Whereabouts, NoRequest, Answered, PlaceTypes, PayloadExclusive
<1> QED
  BY <1>1, Typing, WhereaboutsInvariant, PTL

\* The adaptor uses the channel as TlmxChannel describes its clients, and its
\* queues never hold a second packet, so that what is proved of the channel
\* holds of the adaptor's (async_adaptor.cpp:271-293, 345-398).
THEOREM AdaptorUsesChannel == Spec => UsesChannel
<1>1. Init => Ch!Init
  BY DEF Init
<1>2. TypeOK /\ Whereabouts /\ [Next]_vars => [Ch!Next]_(Ch!vars)
  <2> SUFFICES ASSUME TypeOK, Whereabouts, Next
               PROVE  Ch!Next \/ UNCHANGED channel
    BY DEF vars, inside, channel, Ch!vars
  <2> USE DEF Ch!Next
  <2>1. CASE PushRequest
    <3>1. Ch!Push(OsThread, os_trans) /\ os_trans \in Packets
          /\ Len(queue_to_sysc) < 1
      BY <2>1, TypeGroups
      DEF PushRequest, Whereabouts, NoRequest, PacketTypes
    <3> QED
      BY <3>1 DEF Ch!ThreadStep
  <2>2. CASE WaitForPut
    BY <2>2 DEF WaitForPut, Ch!ThreadStep
  <2>3. CASE PullResponse
    BY <2>3 DEF PullResponse, Ch!ThreadStep
  <2>4. CASE InitiatorGet
    BY <2>4 DEF InitiatorGet, Ch!SyscStep
  <2>5. CASE InitiatorPut
    <3>1. CASE initiator = "put_relock"
      BY <2>5, <3>1 DEF InitiatorPut, Ch!SyscStep
    <3>2. CASE initiator # "put_relock"
      <4>1. initiator \in {"put", "wait_delta", "wait_timed"}
            /\ Ch!NbPut(initiator_trans)
        BY <2>5, <3>2 DEF InitiatorPut
      <4>2. initiator_trans \in Packets /\ Len(queue_fm_sysc) < 1
        BY <4>1, TypeGroups
        DEF Whereabouts, PlaceTypes, NoRequest, Queued, Served, Answered,
            PacketTypes
      <4> QED
        BY <4>1, <4>2 DEF Ch!SyscStep
    <3> QED
      BY <3>1, <3>2
  <2>6. CASE Update \/ UpdateChannel \/ Notify
    BY <2>6 DEF Update, UpdateChannel, Notify, Ch!KernelStep
  <2>7. CASE UNCHANGED channel
    BY <2>7
  <2>8. CASE OsStep
    BY <2>1, <2>2, <2>3, <2>7, <2>8
    DEF OsStep, SetupSocket, PassGate, Accept, Read, SendResponse,
        CloseConnection
  <2>9. CASE SyscStep
    BY <2>4, <2>5, <2>6, <2>7, <2>9
    DEF SyscStep, InitiatorStart, InitiatorWake, Transport, KeepAlive,
        StartOfSimulation, EvaluationDone, AdvanceTime
  <2> QED
    BY <2>7, <2>8, <2>9, ClientFrame, InterruptFrame DEF Next, Ended, vars, inside
<1> QED
  BY <1>1, <1>2, Typing, WhereaboutsInvariant, PTL DEF Spec, UsesChannel, Ch!Spec

----------------------------------------------------------------------------
(* The requests.                                                           *)

\* A list of the first ids, and the next one.
LEMMA Counting ==
  ASSUME NEW s \in Seq(Nat), \A i \in 1 .. Len(s) : s[i] = i,
         NEW n \in Nat, n = Len(s) + 1
  PROVE  /\ Append(s, n) \in Seq(Nat) /\ Len(Append(s, n)) = n
         /\ \A i \in 1 .. Len(Append(s, n)) : Append(s, n)[i] = i
OBVIOUS

\* async_os_thread takes a request only when the last one is answered.
LEMMA OsExchange ==
  ASSUME TypeOK, Whereabouts, Exchange, OsStep
  PROVE  Exchange'
<1>0. /\ UNCHANGED <<client, sent, executed, init_vars, initiator>>
      /\ sent \in Nat /\ executed \in Seq(Nat) /\ answered \in Seq(Nat)
  BY OsFrame, TypeGroups, BoundsAssumption DEF PacketTypes, init_vars
<1> USE DEF Exchange
<1>1. CASE SetupSocket \/ PassGate \/ Accept \/ CloseConnection
  <2>1. UNCHANGED <<wires, answered, queue_fm_sysc>>
    BY <1>1 DEF SetupSocket, PassGate, Accept, CloseConnection, outside,
       history, channel
  <2>2. \/ UNCHANGED os_thread
        \/ os_thread \in {"setup", "gate", "accept"}
           /\ os_thread' \in {"gate", "accept", "read"}
        \/ os_thread = "close" /\ os_thread' = "done"
    BY <1>1 DEF SetupSocket, PassGate, Accept, CloseConnection
  <2>3. UNCHANGED os_trans
    BY <1>1 DEF SetupSocket, PassGate, Accept, CloseConnection
  <2> QED
    BY <1>0, <2>1, <2>2, <2>3
    DEF Asked, InService, Executed, AtRest, Leaving, AllAnswered, wires
<1>2. CASE Read
  <2>1. UNCHANGED <<wire_out, answered, queue_fm_sysc>> /\ os_thread = "read"
    BY <1>2 DEF Read, history, channel
  <2>2. CASE wire_in = <<>>
    BY <1>0, <1>2, <2>1, <2>2
    DEF Read, os_vars, Asked, InService, AtRest, Leaving, AllAnswered
  <2>3. CASE wire_in # <<>>
    <3>1. wire_in' = Tail(wire_in) /\ os_trans' = Head(wire_in)
          /\ os_thread' = IF Head(wire_in).command = "exit" THEN "close"
                                                            ELSE "push"
      BY <1>2, <2>3 DEF Read
    <3>2. CASE Asked
      <4>1. PICK p \in Packets :
              wire_in = <<p>> /\ p.command # "exit" /\ p.id = sent
        BY <3>2 DEF Asked
      <4>2. wire_in' = <<>> /\ os_trans' = p /\ os_thread' = "push"
        BY <3>1, <4>1, Singletons
      <4>3. InService'
        BY <1>0, <2>1, <3>2, <4>1, <4>2 DEF Asked, InService, Executed
      <4>4. client \notin {"unconnected", "idle"}
        BY <2>3 DEF AtRest
      <4> QED
        BY <1>0, <2>1, <4>2, <4>3, <4>4 DEF Leaving
    <3>3. CASE Leaving
      <4>1. wire_in = <<ExitPacket>>
        BY <2>1, <3>3 DEF Leaving
      <4>2. wire_in' = <<>> /\ os_thread' = "close"
        BY <3>1, <4>1, Singletons DEF ExitPacket
      <4>3. Leaving'
        BY <1>0, <2>1, <3>3, <4>2 DEF Leaving, AllAnswered
      <4>4. client \notin {"unconnected", "idle", "awaiting"}
        BY <2>3, <3>3 DEF AtRest
      <4> QED
        BY <1>0, <2>1, <4>2, <4>3, <4>4
    <3> QED
      BY <2>1, <2>3, <3>2, <3>3 DEF InService, AtRest
  <2> QED
    BY <2>2, <2>3
<1>3. CASE PushRequest \/ WaitForPut \/ PullResponse
  <2>1. os_thread \in {"push", "wait_for_put", "awake", "pull"}
        /\ os_thread' \in {"wait_for_put", "awake", "pull", "send", os_thread}
        /\ UNCHANGED <<wires, answered>>
    BY <1>3 DEF PushRequest, WaitForPut, PullResponse, outside, history, os_vars
  <2>2. InService /\ client \notin {"unconnected", "idle"}
    BY <2>1 DEF Asked, AtRest, Leaving
  <2>3. os_trans'.id = os_trans.id
    <3>1. CASE PullResponse
      BY <3>1, <1>0, Singletons
      DEF PullResponse, Whereabouts, Answered, os_vars
    <3> QED
      BY <1>3, <3>1 DEF PushRequest, WaitForPut
  <2>4. Executed' <=> Executed
    <3>1. CASE PushRequest
      BY <1>0, <3>1
      DEF PushRequest, Ch!Push, Whereabouts, NoRequest, Executed
    <3>2. CASE WaitForPut
      BY <1>0, <3>2, Singletons, AdaptorActorsAssumption
      DEF WaitForPut, Ch!WaitForPutLock, Ch!WaitForPutUnlock, Whereabouts,
          Queued, Served, Answered, Executed, Ch!queues
    <3>3. CASE PullResponse
      BY <3>3 DEF PullResponse, Executed, os_vars
    <3> QED
      BY <1>3, <3>1, <3>2, <3>3
  <2>5. InService'
    BY <1>0, <2>1, <2>2, <2>3, <2>4 DEF InService, wires
  <2> QED
    BY <1>0, <2>1, <2>2, <2>5 DEF Leaving
<1>4. CASE SendResponse
  <2>1. InService /\ client \notin {"unconnected", "idle"} /\ Executed
        /\ os_thread = "send"
    BY <1>4 DEF SendResponse, Asked, AtRest, Leaving, Executed
  <2>2. CASE UNCHANGED os_thread
    BY <1>0, <1>4, <2>1, <2>2
    DEF SendResponse, InService, Leaving, Executed
  <2>3. CASE os_thread' = "read"
    <3>1. wire_out' = Append(wire_out, os_trans) /\ UNCHANGED wire_in
          /\ answered' = Append(answered, os_trans.id)
      BY <1>4, <2>1, <2>3 DEF SendResponse
    <3>2. wire_out' = <<os_trans>> /\ Len(wire_out') = 1
      BY <2>1, <3>1, Singletons DEF InService
    <3>3. /\ Len(answered') = sent
          /\ \A i \in 1 .. Len(answered') : answered'[i] = i
      BY <1>0, <2>1, <3>1, Counting DEF InService
    <3>4. AtRest' /\ ~Leaving'
      BY <1>0, <2>1, <2>3, <3>1, <3>2, <3>3
      DEF InService, AtRest, AllAnswered, Leaving
    <3> QED
      BY <1>0, <2>1, <2>3, <3>3, <3>4
  <2> QED
    BY <1>4, <2>2, <2>3 DEF SendResponse
<1> QED
  BY <1>1, <1>2, <1>3, <1>4 DEF OsStep

\* The request is executed once, while async_os_thread waits for it.
LEMMA SyscExchange ==
  ASSUME TypeOK, Whereabouts, Exchange, SyscStep
  PROVE  Exchange'
<1>0. /\ UNCHANGED <<os_thread, os_trans, client, sent, wire_in, wire_out,
                     answered>>
      /\ sent \in Nat /\ executed \in Seq(Nat)
  BY SyscFrame, TypeGroups, BoundsAssumption
  DEF PacketTypes, os_vars, outside, wires
<1>1. \/ NoRequest
      \/ os_thread = "wait_for_put" /\ (Queued \/ Served)
      \/ os_thread \in {"wait_for_put", "awake", "pull"} /\ Answered
  BY TypeGroups DEF Whereabouts, PlaceTypes
<1> USE DEF Exchange
<1>2. CASE Transport
  <2>1. Served /\ os_thread = "wait_for_put" /\ initiator = "transport"
    BY <1>1, <1>2 DEF Transport, NoRequest, Queued, Answered
  <2>2. InService /\ ~Executed
    BY <2>1 DEF Asked, AtRest, Leaving, Executed, Served
  <2>3. executed' = Append(executed, sent) /\ sent = Len(executed) + 1
    BY <1>0, <1>2, <2>1, <2>2 DEF Transport, Served, InService
  <2>4. /\ Len(executed') = sent
        /\ \A i \in 1 .. Len(executed') : executed'[i] = i
    BY <1>0, <2>3, Counting
  <2>5. Executed'
    BY <1>0, <1>2, <2>1 DEF Transport, Executed
  <2>6. InService'
    BY <1>0, <2>2, <2>4, <2>5 DEF InService
  <2> QED
    BY <1>0, <2>1, <2>4, <2>6 DEF AtRest, Leaving
<1>3. CASE ~Transport
  <2>1. UNCHANGED executed
    BY <1>3
    DEF SyscStep, InitiatorStart, InitiatorWake, InitiatorGet, InitiatorPut,
        KeepAlive, StartOfSimulation, EvaluationDone, Update, UpdateChannel,
        Notify, AdvanceTime, history
  <2>2. os_thread = "wait_for_put" => (Executed' <=> Executed)
    <3>1. CASE InitiatorGet
      BY <1>0, <3>1
      DEF InitiatorGet, Ch!NbGet, Ch!NbGetRelock, Ch!queues, Executed, channel
    <3>2. CASE InitiatorPut
      <4>1. CASE initiator = "put_relock"
        BY <1>0, <1>1, <3>2, <4>1, Singletons
        DEF InitiatorPut, NoRequest, Queued, Served, Answered, Ch!NbPutRelock,
            Ch!queues, Executed
      <4>2. CASE initiator # "put_relock"
        BY <1>0, <3>2, <4>2 DEF InitiatorPut, Executed
      <4> QED
        BY <4>1, <4>2
    <3>3. CASE ~InitiatorGet /\ ~InitiatorPut
      <4>1. UNCHANGED queue_fm_sysc
        <5>1. CASE Update \/ UpdateChannel \/ Notify
          BY <5>1
          DEF Update, UpdateChannel, Notify, Ch!AcceptUpdates, Ch!UpdatePush,
              Ch!UpdatePull, Ch!Notify, Ch!queues, channel
        <5> QED
          BY <1>3, <3>3, <5>1
          DEF SyscStep, InitiatorStart, InitiatorWake, KeepAlive,
              StartOfSimulation, EvaluationDone, AdvanceTime, channel
      <4>2. \/ UNCHANGED initiator
            \/ /\ initiator \in {"start", "wait_put"}
               /\ initiator' \in {"wait_put", "get"}
        BY <1>3, <3>3
        DEF SyscStep, InitiatorStart, InitiatorWake, KeepAlive,
            StartOfSimulation, EvaluationDone, Update, UpdateChannel, Notify,
            AdvanceTime, init_vars
      <4> QED
        BY <1>0, <4>1, <4>2 DEF Executed
    <3> QED
      BY <3>1, <3>2, <3>3
  <2>3. os_thread # "wait_for_put" => (Executed' <=> Executed)
    BY <1>0 DEF Executed
  <2> QED
    BY <1>0, <2>1, <2>2, <2>3 DEF Asked, InService, AtRest, Leaving, AllAnswered
<1> QED
  BY <1>2, <1>3

\* The client asks only after the answer.
LEMMA ClientExchange ==
  ASSUME TypeOK, Exchange, ClientStep
  PROVE  Exchange'
<1>0. /\ UNCHANGED <<os_thread, os_trans, initiator, queue_fm_sysc, executed,
                     answered>>
      /\ sent \in Nat /\ executed \in Seq(Nat) /\ answered \in Seq(Nat)
  BY ClientFrame, TypeGroups, BoundsAssumption
  DEF PacketTypes, inside, os_vars, init_vars, channel, history
<1>1. Executed' <=> Executed
  BY <1>0 DEF Executed
<1> USE DEF Exchange
<1>2. CASE Connect
  BY <1>0, <1>1, <1>2
  DEF Connect, Asked, InService, AtRest, Leaving, AllAnswered, wires
<1>3. CASE SendRequest
  <2>1. AtRest /\ wire_out = <<>> /\ client = "idle"
        /\ os_thread \in {"gate", "accept", "read"}
    BY <1>3 DEF SendRequest, AtRest
  <2>2. PICK c \in Commands : wire_in' = Append(wire_in, Request(c, sent + 1))
    BY <1>3 DEF SendRequest
  <2>3. sent' = sent + 1 /\ sent' \in 0 .. MaxRequests /\ UNCHANGED wire_out
        /\ client' = "awaiting"
    BY <1>0, <1>3, BoundsAssumption DEF SendRequest
  <2>4. Request(c, sent + 1) \in Packets
    BY <2>3, PacketsMade
  <2>5. Request(c, sent + 1).command # "exit" /\ Request(c, sent + 1).id = sent'
    BY <2>3 DEF Request, Commands
  <2>6. wire_in' = <<Request(c, sent + 1)>>
    BY <2>1, <2>2, Singletons DEF AtRest
  <2>7. Asked'
    BY <1>0, <2>1, <2>3, <2>4, <2>5, <2>6 DEF Asked, AtRest, AllAnswered
  <2>8. ~Leaving'
    BY <2>1, <1>0, <2>5, <2>6, Singletons DEF Leaving, ExitPacket
  <2> QED
    BY <1>0, <2>1, <2>3, <2>7, <2>8
<1>4. CASE ReceiveResponse
  <2>1. AtRest
    BY <1>4 DEF ReceiveResponse, Asked, InService, Leaving
  <2>2. wire_out' = <<>> /\ UNCHANGED <<wire_in, sent>> /\ client' = "idle"
    <3>1. Tail(wire_out) = <<>>
      <4>1. wire_out \in Seq(Packets) /\ wire_out # <<>> /\ Len(wire_out) <= 1
        BY <1>4, <2>1, TypeGroups DEF ReceiveResponse, AtRest, PacketTypes
      <4> HIDE DEF Packets
      <4> QED
        BY <4>1
    <3> QED
      BY <1>4, <3>1 DEF ReceiveResponse
  <2>3. os_thread # "setup"
    BY <1>4 DEF ReceiveResponse
  <2> QED
    BY <1>0, <2>1, <2>2, <2>3 DEF AtRest, AllAnswered
<1>5. CASE SendExit
  <2>1. AtRest /\ wire_out = <<>> /\ os_thread \in {"gate", "accept", "read"}
    BY <1>5 DEF SendExit, AtRest
  <2>2. wire_in' = <<ExitPacket>> /\ client' = "exiting"
        /\ UNCHANGED <<sent, wire_out>>
    BY <1>5, <2>1, Singletons DEF SendExit, AtRest
  <2> QED
    BY <1>0, <2>1, <2>2 DEF AtRest, Leaving, AllAnswered
<1>6. CASE Disconnect
  BY <1>0, <1>1, <1>6
  DEF Disconnect, Asked, InService, AtRest, Leaving, AllAnswered, wires
<1> QED
  BY <1>2, <1>3, <1>4, <1>5, <1>6 DEF ClientStep

\* The requests are asked, executed and answered in turn.
LEMMA ExchangeInvariant == Spec => []Exchange
<1>1. Init => Exchange
  BY DEF Init, Exchange, AtRest, AllAnswered, Leaving
<1>2. TypeOK /\ Whereabouts /\ Exchange /\ [Next]_vars => Exchange'
  <2> SUFFICES ASSUME TypeOK, Whereabouts, Exchange, [Next]_vars
               PROVE  Exchange'
    OBVIOUS
  <2>1. CASE UNCHANGED <<queue_fm_sysc, initiator, os_vars, outside, history>>
    BY <2>1
    DEF Exchange, Asked, InService, Executed, AtRest, Leaving, AllAnswered,
        os_vars, outside, wires, history
  <2> QED
    BY <2>1, OsExchange, SyscExchange, ClientExchange, InterruptFrame
    DEF Next, Ended, vars, inside, channel, init_vars
<1> QED
  BY <1>1, <1>2, Typing, WhereaboutsInvariant, PTL DEF Spec

\* Every response answers the request made last, which has been carried out
\* once: async_os_thread and the initiator never get out of step, although
\* the only thing that keeps them together is m_mutex_wait_put
\* (async_adaptor.cpp:252-319, 345-398).
THEOREM AdaptorServesRequests == Spec => ServesRequests
<1>1. Init => RR!Init
  BY DEF Init, RR!Init
<1>2. ASSUME TypeOK, Whereabouts, Exchange, [Next]_vars
      PROVE  [RR!Next]_(RR!vars)
  <2> USE DEF RR!Next, RR!vars
  <2>0. sent \in Nat /\ executed \in Seq(Nat) /\ answered \in Seq(Nat)
    BY <1>2, TypeGroups, BoundsAssumption DEF PacketTypes
  <2>1. CASE SendRequest
    <3>1. Len(answered) = sent /\ sent' = sent + 1
          /\ UNCHANGED <<executed, answered>>
      BY <1>2, <2>1 DEF SendRequest, Exchange, AtRest, AllAnswered, inside, history
    <3> QED
      BY <3>1 DEF RR!Ask
  <2>2. CASE Transport
    <3>1. Served /\ os_thread = "wait_for_put" /\ initiator = "transport"
      BY <1>2, <2>2, TypeGroups
      DEF Transport, Whereabouts, PlaceTypes, NoRequest, Queued, Answered
    <3>2. InService /\ ~Executed
      BY <1>2, <3>1
      DEF Exchange, Asked, AtRest, Leaving, Executed, Served
    <3>3. executed' = Append(executed, sent) /\ Len(executed) = sent - 1
      BY <2>2, <3>1, <3>2 DEF Transport, Served, InService
    <3>4. UNCHANGED <<sent, answered>>
      BY <2>2 DEF Transport, outside
    <3> QED
      BY <2>0, <3>3, <3>4 DEF RR!Execute
  <2>3. CASE SendResponse /\ os_thread' # os_thread
    <3>1. InService /\ Executed
      BY <1>2, <2>3 DEF SendResponse, Exchange, Asked, AtRest, Leaving, Executed
    <3>2. answered' = Append(answered, sent) /\ UNCHANGED <<sent, executed>>
      BY <2>3, <3>1 DEF SendResponse, InService
    <3>3. Len(executed) = sent /\ sent = Len(answered) + 1
          /\ executed[Len(answered) + 1] = sent
      BY <1>2, <2>0, <3>1 DEF InService, Exchange
    <3> QED
      BY <2>0, <3>2, <3>3 DEF RR!Answer
  <2>4. CASE SendResponse /\ os_thread' = os_thread
    BY <2>4 DEF SendResponse
  <2>5. CASE OsStep /\ ~SendResponse
    BY <2>5
    DEF OsStep, SetupSocket, PassGate, Accept, Read, PushRequest, WaitForPut,
        PullResponse, CloseConnection, outside, history
  <2>6. CASE SyscStep /\ ~Transport
    BY <2>6
    DEF SyscStep, InitiatorStart, InitiatorWake, InitiatorGet, InitiatorPut,
        KeepAlive, StartOfSimulation, EvaluationDone, Update, UpdateChannel,
        Notify, AdvanceTime, outside, history
  <2>7. CASE ClientStep /\ ~SendRequest
    BY <2>7
    DEF ClientStep, Connect, ReceiveResponse, SendExit, Disconnect, inside,
        history
  <2>8. CASE UNCHANGED <<outside, history>>
    BY <2>8 DEF outside, history
  <2> QED
    BY <1>2, <2>1, <2>2, <2>3, <2>4, <2>5, <2>6, <2>7, <2>8, InterruptFrame
    DEF Next, Ended, vars, inside
<1> QED
  BY <1>1, <1>2, Typing, WhereaboutsInvariant, ExchangeInvariant, PTL
  DEF Spec, ServesRequests, RR!Spec

----------------------------------------------------------------------------
(* The first request.                                                      *)

\* The kernel thread loses no announcement but that of the first request.
LEMMA SyscMissed ==
  ASSUME TypeOK, Phases, Whereabouts, Exchange, MissedIsFirst, SyscStep
  PROVE  MissedIsFirst'
<1>0. UNCHANGED <<os_thread, os_trans>>
  BY SyscFrame DEF os_vars
<1> USE DEF MissedIsFirst, NoNews, Resumed
<1>1. CASE InitiatorStart
  <2>1. /\ UNCHANGED <<channel, executed>>
        /\ initiator' # "start" /\ initiator = "start"
    BY <1>1 DEF InitiatorStart, history
  <2>2. CASE queue_to_sysc = <<>>
    BY <2>1, <2>2 DEF channel
  <2>3. CASE queue_to_sysc # <<>>
    <3>1. Queued /\ os_thread = "wait_for_put"
      BY <2>3, TypeGroups
      DEF Whereabouts, PlaceTypes, NoRequest, Served, Answered
    <3>2. InService /\ ~Executed
      BY <2>1, <3>1 DEF Queued, Exchange, Asked, AtRest, Leaving, Executed
    <3>3. os_trans.id = 1
      BY <2>1, <3>2, TypeGroups, BoundsAssumption
      DEF InService, PacketTypes
    <3> QED
      BY <1>0, <2>1, <3>3
  <2> QED
    BY <2>2, <2>3
<1>2. CASE InitiatorGet \/ Transport
  BY <1>2 DEF InitiatorGet, Transport
<1>3. CASE InitiatorWake
  BY <1>3 DEF InitiatorWake
<1>4. CASE InitiatorPut
  <2>1. \/ initiator' = "put_relock"
        \/ initiator = "put_relock" /\ UNCHANGED queue_to_sysc
    BY <1>4 DEF InitiatorPut, Ch!NbPutRelock, Ch!queues
  <2>2. initiator = "put_relock" => queue_to_sysc = <<>>
    BY TypeGroups
    DEF Whereabouts, PlaceTypes, NoRequest, Queued, Served, Answered
  <2>3. initiator' # "start"
    BY <1>4 DEF InitiatorPut
  <2> QED
    BY <2>1, <2>2, <2>3
<1>5. CASE /\ UNCHANGED <<queue_to_sysc, executed, initiator>>
           /\ NoNews' => NoNews
  BY <1>0, <1>5
<1>6. CASE KeepAlive \/ StartOfSimulation \/ EvaluationDone
  BY <1>5, <1>6 DEF KeepAlive, StartOfSimulation, EvaluationDone, channel,
     init_vars, history
<1>7. CASE Update
  <2>1. UNCHANGED <<queue_to_sysc, thread_did_push, put_event>>
    BY <1>7
    DEF Update, Ch!AcceptUpdates, Ch!queues, Ch!flags, Ch!events, channel
  <2> QED
    BY <1>5, <1>7, <2>1 DEF Update, init_vars, history
<1>8. CASE UpdateChannel
  <2>1. UNCHANGED queue_to_sysc
        /\ (~thread_did_push' /\ ~put_event' => ~thread_did_push /\ ~put_event)
    BY <1>8, TypeGroups
    DEF UpdateChannel, Ch!UpdatePush, Ch!UpdatePull, Ch!queues, Ch!TypeOK
  <2> QED
    BY <1>5, <1>8, <2>1 DEF UpdateChannel, init_vars, history
<1>9. CASE Notify
  <2>1. UNCHANGED <<queue_to_sysc, thread_did_push, executed, initiator>>
        /\ runnable = {}
    BY <1>9
    DEF Notify, Ch!Notify, Ch!queues, Ch!flags, channel, init_vars, history,
        Phases
  <2>2. (initiator = "wait_put" /\ put_event)
          => UNCHANGED <<put_event, runnable>> \/ "initiator" \in runnable'
    BY <1>9
    DEF Notify, Notified, InitiatorNotified, Processes, Phases, kernel, channel
  <2> QED
    BY <1>0, <2>1, <2>2
<1>10. CASE AdvanceTime
  BY <1>5, <1>10 DEF AdvanceTime, channel, init_vars, history, Phases
<1> QED
  BY <1>1, <1>2, <1>3, <1>4, <1>6, <1>7, <1>8, <1>9, <1>10 DEF SyscStep

\* async_os_thread announces every request it pushes.
LEMMA OsMissed ==
  ASSUME TypeOK, Whereabouts, MissedIsFirst, OsStep
  PROVE  MissedIsFirst'
<1>0. UNCHANGED <<initiator, executed, runnable>>
  BY OsFrame DEF init_vars, kernel
<1> USE DEF MissedIsFirst, NoNews, Resumed
<1>1. CASE Read \/ SendResponse
  <2>1. queue_to_sysc = <<>>
    BY <1>1 DEF Read, SendResponse, Whereabouts, NoRequest
  <2>2. UNCHANGED channel /\ (os_thread' = "send" => os_thread = "send")
    BY <1>1 DEF Read, SendResponse, os_vars
  <2> QED
    BY <1>0, <2>1, <2>2 DEF channel
<1>2. CASE PushRequest
  BY <1>0, <1>2 DEF PushRequest, Ch!Push
<1>3. CASE PullResponse
  <2>1. Answered /\ initiator # "start"
    BY <1>3 DEF PullResponse, Whereabouts, Answered
  <2>2. queue_to_sysc' = <<>>
    BY <1>3, <2>1 DEF PullResponse, Answered, Ch!NbPull, channel
  <2> QED
    BY <1>0, <2>1, <2>2
<1>4. CASE WaitForPut
  BY <1>0, <1>4
  DEF WaitForPut, Ch!WaitForPutLock, Ch!WaitForPutUnlock, Ch!queues,
      Ch!flags, Ch!events
<1>5. CASE SetupSocket \/ PassGate \/ Accept \/ CloseConnection
  BY <1>0, <1>5
  DEF SetupSocket, PassGate, Accept, CloseConnection, channel
<1> QED
  BY <1>1, <1>2, <1>3, <1>4, <1>5 DEF OsStep

\* A request other than the first is never queued without a notification on
\* its way to the initiator: an update, an event, or a process resumed
\* (async_adaptor.cpp:345-350, tlmx_channel.cpp:47-54, 149-156).
THEOREM LaterRequestsAreAnnounced == Spec => []OnlyFirstRequestCanBeMissed
<1>1. Init => MissedIsFirst
  BY DEF Init, Ch!Init, MissedIsFirst
<1>2. TypeOK /\ Scheduling /\ Whereabouts /\ Exchange /\ MissedIsFirst
        /\ [Next]_vars => MissedIsFirst'
  <2> SUFFICES ASSUME TypeOK, Scheduling, Whereabouts, Exchange,
                      MissedIsFirst, [Next]_vars
               PROVE  MissedIsFirst'
    OBVIOUS
  <2>1. CASE UNCHANGED <<channel, runnable, initiator, os_vars, executed>>
    BY <2>1 DEF MissedIsFirst, NoNews, Resumed, channel, os_vars
  <2> QED
    BY <2>1, OsMissed, SyscMissed, ClientFrame, InterruptFrame
    DEF Next, Ended, vars, inside, init_vars, kernel, history, Scheduling
<1>3. TypeOK /\ Whereabouts /\ Exchange /\ MissedIsFirst
        => OnlyFirstRequestCanBeMissed
  <2> SUFFICES ASSUME TypeOK, Whereabouts, Exchange, MissedIsFirst,
                      Ch!can_get, Head(queue_to_sysc).id # 1
               PROVE  \/ thread_did_push \/ put_event
                      \/ initiator = "wait_put" /\ "initiator" \in runnable
                      \/ initiator = "get"
    BY DEF OnlyFirstRequestCanBeMissed
  <2>1. Queued /\ os_thread = "wait_for_put"
    BY TypeGroups
    DEF Whereabouts, PlaceTypes, NoRequest, Served, Answered, Ch!can_get
  <2>2. os_trans.id # 1
    BY <2>1, Singletons DEF Queued
  <2>3. initiator # "start"
    <3> SUFFICES ASSUME initiator = "start"
                 PROVE  FALSE
      OBVIOUS
    <3>1. InService /\ ~Executed
      BY <2>1 DEF Queued, Exchange, Asked, AtRest, Leaving, Executed
    <3> QED
      BY <2>2, <3>1, TypeGroups, BoundsAssumption
      DEF InService, MissedIsFirst, PacketTypes
  <2> QED
    BY <2>1, <2>2, <2>3 DEF Queued, MissedIsFirst, NoNews, Resumed
<1> QED
  BY <1>1, <1>2, <1>3, Typing, SchedulingInvariant, WhereaboutsInvariant,
     ExchangeInvariant, PTL DEF Spec

==============================================================================
