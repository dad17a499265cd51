---------------------------- MODULE TlmxChannel ----------------------------
(***************************************************************************)
(* tlmx_channel (sysc/tlmx_channel.h, sysc/tlmx_channel.cpp): the only     *)
(* object that is shared by operating-system threads and by the SystemC    *)
(* kernel thread.  Threads call push, wait_for_get, wait_for_put and       *)
(* nb_pull; the SystemC side (one kernel thread, Sysc) calls nb_get, get   *)
(* and nb_put, and the kernel calls update().                              *)
(*                                                                         *)
(* A std::mutex is the variable that holds its owner.  Nothing is assumed  *)
(* about the order in which blocked lockers obtain it, since std::mutex    *)
(* promises none: the thread that releases a mutex may take it back first. *)
(* A std::list is a sequence with the oldest element first: push_front is  *)
(* Append, back() is Head and pop_back is Tail.                            *)
(*                                                                         *)
(* Grain: a body that runs from its lock to its unlock without touching    *)
(* another mutex (push, nb_pull, each half of update) is one step.  nb_get *)
(* and nb_put release and take back a wait mutex while they hold a queue   *)
(* mutex, so they are two steps with the queue mutex held in between, and  *)
(* wait_for_get and wait_for_put are two steps each.                       *)
(***************************************************************************)
EXTENDS Naturals, Sequences

CONSTANTS
  Threads,   \* the operating-system threads that use async_thread_if
  Sysc,      \* the SystemC kernel thread, which uses async_sysc_if
  NoOwner,   \* the owner of a mutex nobody holds
  Packets,   \* what a tlmx_packet_ptr points to
  MaxQueue   \* bound on the two queues, which the code does not bound

ASSUME ActorsAssumption ==
  /\ Sysc \notin Threads
  /\ NoOwner \notin Threads \cup {Sysc}

ASSUME MaxQueueAssumption == MaxQueue \in Nat

VARIABLES
  queue_to_sysc,     \* m_queue_to_sysc
  thread_did_push,   \* m_thread_did_push
  queue_fm_sysc,     \* m_queue_fm_sysc
  sysc_did_put,      \* m_sysc_did_put
  thread_did_pull,   \* m_thread_did_pull
  put_event,         \* m_sysc_put_event has a pending delta notification
  get_event,         \* m_sysc_get_event has a pending delta notification
  mutex_to_sysc,     \* owner of m_mutex_to_sysc
  mutex_fm_sysc,     \* owner of m_mutex_fm_sysc
  mutex_wait_get,    \* owner of m_mutex_wait_get
  mutex_wait_put,    \* owner of m_mutex_wait_put
  update_requested,  \* the channel is in the kernel's list of async updates
  updating,          \* the half of update() the kernel is about to run
  op                 \* the channel call each actor is in the middle of

vars == <<queue_to_sysc, thread_did_push, queue_fm_sysc, sysc_did_put,
          thread_did_pull, put_event, get_event, mutex_to_sysc, mutex_fm_sysc,
          mutex_wait_get, mutex_wait_put, update_requested, updating, op>>

queues  == <<queue_to_sysc, queue_fm_sysc>>
flags   == <<thread_did_push, sysc_did_put, thread_did_pull>>
events  == <<put_event, get_event>>
mutexes == <<mutex_to_sysc, mutex_fm_sysc, mutex_wait_get, mutex_wait_put>>
kernel  == <<update_requested, updating>>

Actors == Threads \cup {Sysc}

Ops == {"idle", "wait_for_get", "wait_for_put", "nb_get", "nb_put",
        "get", "get_wait"}

----------------------------------------------------------------------------
(* The constructor: both wait mutexes are locked by the SystemC side.      *)

\* Mutant: a constructor that leaves the wait mutexes free.
InitUnlocked ==
  /\ queue_to_sysc = <<>> /\ queue_fm_sysc = <<>>
  /\ thread_did_push = FALSE /\ sysc_did_put = FALSE /\ thread_did_pull = FALSE
  /\ put_event = FALSE /\ get_event = FALSE
  /\ mutex_to_sysc = NoOwner /\ mutex_fm_sysc = NoOwner
  /\ mutex_wait_get = NoOwner /\ mutex_wait_put = NoOwner
  /\ update_requested = FALSE /\ updating = "none"
  /\ op = [a \in Actors |-> "idle"]

Init ==
  /\ queue_to_sysc = <<>> /\ queue_fm_sysc = <<>>
  /\ thread_did_push = FALSE /\ sysc_did_put = FALSE /\ thread_did_pull = FALSE
  /\ put_event = FALSE /\ get_event = FALSE
  /\ mutex_to_sysc = NoOwner /\ mutex_fm_sysc = NoOwner
  /\ mutex_wait_get = Sysc /\ mutex_wait_put = Sysc
  /\ update_requested = FALSE /\ updating = "none"
  /\ op = [a \in Actors |-> "idle"]

----------------------------------------------------------------------------
(* The operations of the threads: async_thread_if.                         *)

\* Mutant: push does not call async_request_update.
PushNoRequest(t, p) ==
  /\ op[t] = "idle"
  /\ mutex_to_sysc = NoOwner
  /\ queue_to_sysc' = Append(queue_to_sysc, p)
  /\ thread_did_push' = TRUE
  /\ UNCHANGED <<queue_fm_sysc, sysc_did_put, thread_did_pull, events,
                 mutexes, kernel, op>>

\* Mutant: push returns without releasing its mutex.
PushKeepsLock(t, p) ==
  /\ op[t] = "idle"
  /\ mutex_to_sysc = NoOwner
  /\ mutex_to_sysc' = t
  /\ queue_to_sysc' = Append(queue_to_sysc, p)
  /\ thread_did_push' = TRUE
  /\ update_requested' = TRUE
  /\ UNCHANGED <<queue_fm_sysc, sysc_did_put, thread_did_pull, events,
                 mutex_fm_sysc, mutex_wait_get, mutex_wait_put, updating, op>>

Push(t, p) ==
  /\ op[t] = "idle"
  /\ mutex_to_sysc = NoOwner
  /\ queue_to_sysc' = Append(queue_to_sysc, p)
  /\ thread_did_push' = TRUE
  /\ update_requested' = TRUE
  /\ UNCHANGED <<queue_fm_sysc, sysc_did_put, thread_did_pull, events,
                 mutexes, updating, op>>

WaitForGet(t) ==
  \/ /\ op[t] = "idle"
     /\ mutex_wait_get = NoOwner
     /\ mutex_wait_get' = t
     /\ op' = [op EXCEPT ![t] = "wait_for_get"]
     /\ UNCHANGED <<queues, flags, events, mutex_to_sysc, mutex_fm_sysc,
                    mutex_wait_put, kernel>>
  \/ /\ op[t] = "wait_for_get"
     /\ mutex_wait_get' = NoOwner
     /\ op' = [op EXCEPT ![t] = "idle"]
     /\ UNCHANGED <<queues, flags, events, mutex_to_sysc, mutex_fm_sysc,
                    mutex_wait_put, kernel>>

\* wait_for_put is two operators because the adaptor's program counter tells
\* the two apart: blocked at the lock, and awake but still holding it.
WaitForPutLock(t) ==
  /\ op[t] = "idle"
  /\ mutex_wait_put = NoOwner
  /\ mutex_wait_put' = t
  /\ op' = [op EXCEPT ![t] = "wait_for_put"]
  /\ UNCHANGED <<queues, flags, events, mutex_to_sysc, mutex_fm_sysc,
                 mutex_wait_get, kernel>>

WaitForPutUnlock(t) ==
  /\ op[t] = "wait_for_put"
  /\ mutex_wait_put' = NoOwner
  /\ op' = [op EXCEPT ![t] = "idle"]
  /\ UNCHANGED <<queues, flags, events, mutex_to_sysc, mutex_fm_sysc,
                 mutex_wait_get, kernel>>

can_pull == queue_fm_sysc # <<>>

\* nb_pull that returns true; with an empty queue it changes nothing.
NbPull(t) ==
  /\ op[t] = "idle"
  /\ mutex_fm_sysc = NoOwner
  /\ can_pull
  /\ queue_fm_sysc' = Tail(queue_fm_sysc)
  /\ thread_did_pull' = TRUE
  /\ sysc_did_put' = FALSE
  /\ update_requested' = TRUE
  /\ UNCHANGED <<queue_to_sysc, thread_did_push, events, mutexes, updating, op>>

----------------------------------------------------------------------------
(* The operations of the SystemC side: async_sysc_if.                      *)

can_get == queue_to_sysc # <<>>

\* Mutant: nb_get reads the oldest packet and leaves it in the queue.
NbGetPeek ==
  /\ op[Sysc] \in {"idle", "get"}
  /\ updating = "none"
  /\ mutex_to_sysc = NoOwner
  /\ can_get
  /\ mutex_to_sysc' = Sysc
  /\ mutex_wait_get' = NoOwner
  /\ op' = [op EXCEPT ![Sysc] = "nb_get"]
  /\ UNCHANGED <<queues, flags, events, mutex_fm_sysc, mutex_wait_put, kernel>>

\* nb_get that returns true, up to its unlock of m_mutex_wait_get; with an
\* empty queue it changes nothing.  It is called directly or from get().
NbGet ==
  /\ op[Sysc] \in {"idle", "get"}
  /\ updating = "none"
  /\ mutex_to_sysc = NoOwner
  /\ can_get
  /\ mutex_to_sysc' = Sysc
  /\ queue_to_sysc' = Tail(queue_to_sysc)
  /\ mutex_wait_get' = NoOwner
  /\ op' = [op EXCEPT ![Sysc] = "nb_get"]
  /\ UNCHANGED <<queue_fm_sysc, flags, events, mutex_fm_sysc, mutex_wait_put,
                 kernel>>

\* The second lock of nb_get and its return, which releases m_mutex_to_sysc.
NbGetRelock ==
  /\ op[Sysc] = "nb_get"
  /\ mutex_wait_get = NoOwner
  /\ mutex_wait_get' = Sysc
  /\ mutex_to_sysc' = NoOwner
  /\ op' = [op EXCEPT ![Sysc] = "idle"]
  /\ UNCHANGED <<queues, flags, events, mutex_fm_sysc, mutex_wait_put, kernel>>

\* get(): a loop around nb_get that waits for m_sysc_get_event in between.
Get ==
  /\ updating = "none"
  /\ \/ op[Sysc] = "idle" /\ op' = [op EXCEPT ![Sysc] = "get"]
     \/ /\ op[Sysc] = "get" /\ mutex_to_sysc = NoOwner /\ ~can_get
        /\ op' = [op EXCEPT ![Sysc] = "get_wait"]
  /\ UNCHANGED <<queues, flags, events, mutexes, kernel>>

\* Mutant: nb_put releases m_mutex_fm_sysc before it wakes the threads.
NbPutUnprotected(p) ==
  /\ op[Sysc] = "idle"
  /\ updating = "none"
  /\ mutex_fm_sysc = NoOwner
  /\ queue_fm_sysc' = Append(queue_fm_sysc, p)
  /\ sysc_did_put' = TRUE
  /\ mutex_wait_put' = NoOwner
  /\ op' = [op EXCEPT ![Sysc] = "nb_put"]
  /\ UNCHANGED <<queue_to_sysc, thread_did_push, thread_did_pull, events,
                 mutex_to_sysc, mutex_fm_sysc, mutex_wait_get, kernel>>

\* nb_put up to its unlock of m_mutex_wait_put.
NbPut(p) ==
  /\ op[Sysc] = "idle"
  /\ updating = "none"
  /\ mutex_fm_sysc = NoOwner
  /\ mutex_fm_sysc' = Sysc
  /\ queue_fm_sysc' = Append(queue_fm_sysc, p)
  /\ sysc_did_put' = TRUE
  /\ mutex_wait_put' = NoOwner
  /\ op' = [op EXCEPT ![Sysc] = "nb_put"]
  /\ UNCHANGED <<queue_to_sysc, thread_did_push, thread_did_pull, events,
                 mutex_to_sysc, mutex_wait_get, kernel>>

\* The second lock of nb_put and its return, which releases m_mutex_fm_sysc.
NbPutRelock ==
  /\ op[Sysc] = "nb_put"
  /\ mutex_wait_put = NoOwner
  /\ mutex_wait_put' = Sysc
  /\ mutex_fm_sysc' = NoOwner
  /\ op' = [op EXCEPT ![Sysc] = "idle"]
  /\ UNCHANGED <<queues, flags, events, mutex_to_sysc, mutex_wait_get, kernel>>

----------------------------------------------------------------------------
(* The kernel.  It empties the list of asynchronous update requests before *)
(* it calls update(), so a request made while update() runs is kept for    *)
(* the next update phase.  It runs on the thread of the SystemC processes, *)
(* so none of them is inside a call other than a waiting get().            *)

ProcessesSuspended == op[Sysc] \in {"idle", "get_wait"}

AcceptUpdates ==
  /\ ProcessesSuspended
  /\ updating = "none"
  /\ update_requested
  /\ update_requested' = FALSE
  /\ updating' = "push"
  /\ UNCHANGED <<queues, flags, events, mutexes, op>>

UpdatePush ==
  /\ updating = "push"
  /\ mutex_to_sysc = NoOwner
  /\ put_event' = (put_event \/ thread_did_push)
  /\ thread_did_push' = FALSE
  /\ updating' = "pull"
  /\ UNCHANGED <<queues, sysc_did_put, thread_did_pull, get_event, mutexes,
                 update_requested, op>>

\* Mutant: the second half of update() clears the flag of the first.
UpdatePullWrongFlag ==
  /\ updating = "pull"
  /\ mutex_fm_sysc = NoOwner
  /\ get_event' = (get_event \/ thread_did_pull)
  /\ thread_did_push' = FALSE
  /\ updating' = "none"
  /\ UNCHANGED <<queues, thread_did_pull, sysc_did_put, put_event, mutexes,
                 update_requested, op>>

UpdatePull ==
  /\ updating = "pull"
  /\ mutex_fm_sysc = NoOwner
  /\ get_event' = (get_event \/ thread_did_pull)
  /\ thread_did_pull' = FALSE
  /\ updating' = "none"
  /\ UNCHANGED <<queues, thread_did_push, sysc_did_put, put_event, mutexes,
                 update_requested, op>>

\* The delta notification phase triggers both events; a process in get() is
\* resumed by m_sysc_get_event only.
Notify ==
  /\ ProcessesSuspended
  /\ updating = "none"
  /\ put_event \/ get_event
  /\ put_event' = FALSE
  /\ get_event' = FALSE
  /\ op' = IF get_event /\ op[Sysc] = "get_wait"
           THEN [op EXCEPT ![Sysc] = "get"]
           ELSE op
  /\ UNCHANGED <<queues, flags, mutexes, kernel>>

----------------------------------------------------------------------------
(* The most general client: any thread and the SystemC side may make any   *)
(* call at any time.  MaxQueue bounds the two queues.                      *)

ThreadStep(t) ==
  \/ Len(queue_to_sysc) < MaxQueue /\ \E p \in Packets : Push(t, p)
  \/ WaitForGet(t)
  \/ WaitForPutLock(t)
  \/ WaitForPutUnlock(t)
  \/ NbPull(t)

SyscStep ==
  \/ NbGet
  \/ NbGetRelock
  \/ Get
  \/ Len(queue_fm_sysc) < MaxQueue /\ \E p \in Packets : NbPut(p)
  \/ NbPutRelock

KernelStep == AcceptUpdates \/ UpdatePush \/ UpdatePull \/ Notify

Next == (\E t \in Threads : ThreadStep(t)) \/ SyscStep \/ KernelStep

Spec == Init /\ [][Next]_vars

----------------------------------------------------------------------------
(* Properties.                                                             *)

\* Every variable has its type.
TypeOK ==
  /\ queue_to_sysc \in Seq(Packets)
  /\ queue_fm_sysc \in Seq(Packets)
  /\ thread_did_push \in BOOLEAN
  /\ sysc_did_put \in BOOLEAN
  /\ thread_did_pull \in BOOLEAN
  /\ put_event \in BOOLEAN
  /\ get_event \in BOOLEAN
  /\ mutex_to_sysc \in {NoOwner, Sysc}
  /\ mutex_fm_sysc \in {NoOwner, Sysc}
  /\ mutex_wait_get \in Actors \cup {NoOwner}
  /\ mutex_wait_put \in Actors \cup {NoOwner}
  /\ update_requested \in BOOLEAN
  /\ updating \in {"none", "push", "pull"}
  /\ op \in [Actors -> Ops]

\* The wait mutexes hand over as nb_get and nb_put intend: the SystemC side
\* has given one up only in the middle of the call that wakes the threads
\* waiting for it, and a thread holds one exactly while it returns from the
\* matching wait (the unlock/lock pairs of tlmx_channel.cpp:85-86, 104-105).
Handshake ==
  /\ (mutex_wait_get # Sysc) => (op[Sysc] = "nb_get")
  /\ (mutex_wait_put # Sysc) => (op[Sysc] = "nb_put")
  /\ (mutex_to_sysc = Sysc) <=> (op[Sysc] = "nb_get")
  /\ (mutex_fm_sysc = Sysc) <=> (op[Sysc] = "nb_put")
  /\ \A t \in Threads :
       /\ (op[t] = "wait_for_get") <=> (mutex_wait_get = t)
       /\ (op[t] = "wait_for_put") <=> (mutex_wait_put = t)

\* A thread that wait_for_put has woken finds what it was woken for: as long
\* as it holds the wait mutex there is a packet to pull, which no other
\* thread can take, because nb_put keeps m_mutex_fm_sysc until it has its
\* wait mutex back.
WakeSeesResponse ==
  \A t \in Threads :
    (op[t] = "wait_for_put") => (queue_fm_sysc # <<>> /\ sysc_did_put)

\* No push and no pull goes unnoticed by update(): while its flag is up, the
\* kernel still has an update request or has not reached the half of
\* update() that reads the flag.  The thread sets the flag and asks for the
\* update at any point of the kernel's two-step acceptance of requests.
NoLostNotification ==
  /\ thread_did_push => (update_requested \/ updating = "push")
  /\ thread_did_pull => (update_requested \/ updating \in {"push", "pull"})
=============================================================================
