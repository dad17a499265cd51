----------------------------- MODULE Lifecycle -----------------------------
(***************************************************************************)
(* The life of the simulator's process: sc_main (sysc/main.cpp), the       *)
(* construction and destruction of top_module (sysc/top.cpp) and of the    *)
(* adaptor with its thread (sysc/async_adaptor.cpp), the signal handlers,  *)
(* and the summary of the report module (sysc/report.cpp).                 *)
(*                                                                         *)
(* async_os_thread starts in the middle of the construction.  What it does *)
(* once it serves a client, and what the kernel does while it simulates,   *)
(* is in AsyncAdaptor.                                                     *)
(***************************************************************************)
EXTENDS Naturals, FiniteSets

CONSTANTS
  DefaultPort,         \* 4000
  ConfiguredPorts,     \* what -port= may say
  NoPort,              \* no port: m_tcpip_port before its initialization
  ConstructionMayFail, \* whether a constructor may throw
  SimulationMayFail,   \* whether an exception may leave sc_start
  MaxInterrupts        \* bound on the SIGINTs that are counted

ASSUME LifecycleAssumption ==
  /\ NoPort \notin {DefaultPort} \cup ConfiguredPorts
  /\ ConstructionMayFail \in BOOLEAN /\ SimulationMayFail \in BOOLEAN
  /\ MaxInterrupts \in Nat

VARIABLES
  main,           \* where sc_main is
  process,        \* the process runs, or how it has ended
  int_handler,    \* what SIGINT does
  alive,          \* the constructed members of top_module and of the adaptor
  gate,           \* who holds m_allow_pthread
  tcpip_port,     \* m_tcpip_port
  bound,          \* the port that async_os_thread has bound
  os_thread,      \* where async_os_thread is
  simulation,     \* its callbacks: none, start_of_simulation, end_of_simulation
  stop_requests,  \* s_stop_requests
  summaries       \* history: number of summaries printed

ports == <<tcpip_port, bound>>
user  == <<int_handler, stop_requests>>

vars == <<main, process, user, alive, gate, ports, os_thread, simulation,
          summaries>>

\* The members of async_adaptor_module that async_os_thread uses, in the
\* order of their declaration, and m_pthread, the last one.
ThreadUses == {"m_async_channel", "m_tcpip_port", "m_allow_pthread"}
AdaptorMembers == ThreadUses \cup {"m_pthread"}

Running == process = "running"

Init ==
  /\ main = "begin" /\ process = "running"
  /\ int_handler = "default" /\ stop_requests = 0
  /\ alive = {} /\ gate = "free"
  /\ tcpip_port = NoPort /\ bound = NoPort
  /\ os_thread = "none" /\ simulation = "none" /\ summaries = 0

----------------------------------------------------------------------------
(* Destruction.  A std::thread that is joinable when it is destroyed calls *)
(* std::terminate: abort, SIGABRT, whose handler calls exit(1).  m_pthread *)
(* goes before the members declared above it, setup, which prints the      *)
(* summary, goes last.                                                     *)

\* Mutant: the thread is left to itself.
DestroyDetached(next) ==
  /\ alive' = {} /\ main' = next
  /\ summaries' = IF "setup" \in alive THEN summaries + 1 ELSE summaries
  /\ UNCHANGED process

Destroy(next) ==
  IF "m_pthread" \in alive
  THEN process' = "exit" /\ UNCHANGED <<alive, main, summaries>>
  ELSE /\ alive' = {} /\ main' = next
       /\ summaries' = IF "setup" \in alive THEN summaries + 1 ELSE summaries
       /\ UNCHANGED process

\* An exception that leaves a constructor.
Unwind ==
  /\ ConstructionMayFail
  /\ Destroy("report_error")
  /\ UNCHANGED <<user, gate, ports, os_thread, simulation>>

----------------------------------------------------------------------------
(* sc_main, up to the simulation.                                          *)

\* if_windows: the signal handlers of pause_on_exit.
ConstructPauseOnExit ==
  /\ Running /\ main = "begin"
  /\ int_handler' = "exit"
  /\ main' = "setup"
  /\ UNCHANGED <<process, stop_requests, alive, gate, ports, os_thread,
                 simulation, summaries>>

\* setup, the first member of top_module.
ConstructSetup ==
  /\ Running /\ main = "setup"
  /\ alive' = {"setup"}
  /\ main' = "members"
  /\ UNCHANGED <<process, user, gate, ports, os_thread, simulation, summaries>>

\* Mutant: the permission is not locked.
ConstructMembersUnlocked ==
  /\ Running /\ main = "members"
  /\ alive' = alive \cup ThreadUses
  /\ tcpip_port' = DefaultPort
  /\ main' = "spawn"
  /\ UNCHANGED <<process, user, gate, bound, os_thread, simulation, summaries>>

\* The members of the adaptor up to m_lock_permission.
ConstructMembers ==
  /\ Running /\ main = "members"
  /\ alive' = alive \cup ThreadUses
  /\ tcpip_port' = DefaultPort
  /\ gate' = "SystemC"
  /\ main' = "spawn"
  /\ UNCHANGED <<process, user, bound, os_thread, simulation, summaries>>

\* m_pthread, whose constructor may fail to create the thread.
ConstructThread ==
  /\ Running /\ main = "spawn"
  /\ \/ /\ alive' = alive \cup {"m_pthread"}
        /\ os_thread' = "setup"
        /\ main' = "signal"
        /\ UNCHANGED <<process, user, gate, ports, simulation, summaries>>
     \/ Unwind

\* The body of the constructor: the signal handler, and the arguments.
InstallHandler ==
  /\ Running /\ main = "signal"
  /\ int_handler' = "count"
  /\ main' = "arguments"
  /\ UNCHANGED <<process, stop_requests, alive, gate, ports, os_thread,
                 simulation, summaries>>

ParseArguments ==
  /\ Running /\ main = "arguments"
  /\ tcpip_port' \in ConfiguredPorts \cup {tcpip_port}
  /\ main' = "dev"
  /\ UNCHANGED <<process, user, alive, gate, bound, os_thread, simulation,
                 summaries>>

\* dev_instance, and the rest of top_module.
ConstructDev ==
  /\ Running /\ main = "dev"
  /\ \/ /\ alive' = alive \cup {"dev_instance"}
        /\ main' = "start"
        /\ UNCHANGED <<process, user, gate, ports, os_thread, simulation,
                       summaries>>
     \/ Unwind

\* The report in the catch block throws itself, out of sc_main.
ReportElaborationError ==
  /\ Running /\ main = "report_error"
  /\ process' = "failed"
  /\ UNCHANGED <<main, user, alive, gate, ports, os_thread, simulation,
                 summaries>>

----------------------------------------------------------------------------
(* sc_main, from sc_start on.                                              *)

\* sc_start calls start_of_simulation, which opens the gate.
StartSimulation ==
  /\ Running /\ main = "start"
  /\ simulation' = "start_of_simulation"
  /\ gate' = "free"
  /\ main' = "simulate"
  /\ UNCHANGED <<process, user, alive, ports, os_thread, summaries>>

\* Mutant: keep_alive_process waits for exactly one interrupt.
EndSimulationAtOne ==
  /\ Running /\ main = "simulate" /\ stop_requests = 1
  /\ simulation' = "end_of_simulation"
  /\ main' = "stop"
  /\ UNCHANGED <<process, user, alive, gate, ports, os_thread, summaries>>

\* The sc_stop of keep_alive_process.
EndSimulation ==
  /\ Running /\ main = "simulate" /\ stop_requests > 0
  /\ simulation' = "end_of_simulation"
  /\ main' = "stop"
  /\ UNCHANGED <<process, user, alive, gate, ports, os_thread, summaries>>

\* An exception leaves sc_start and is caught; the report of one that is no
\* std::exception throws again, out of sc_main.
SimulationThrows ==
  /\ SimulationMayFail
  /\ Running /\ main = "simulate"
  /\ \/ main' = "stop" /\ UNCHANGED process
     \/ process' = "failed" /\ UNCHANGED main
  /\ UNCHANGED <<user, alive, gate, ports, os_thread, simulation, summaries>>

\* sc_stop, unless it has been called.
EnsureStopped ==
  /\ Running /\ main = "stop"
  /\ simulation' = "end_of_simulation"
  /\ main' = "delete"
  /\ UNCHANGED <<process, user, alive, gate, ports, os_thread, summaries>>

DeleteTop ==
  /\ Running /\ main = "delete"
  /\ Destroy("return")
  /\ UNCHANGED <<user, gate, ports, os_thread, simulation>>

MainStep ==
  \/ ConstructPauseOnExit \/ ConstructSetup \/ ConstructMembers
  \/ ConstructThread \/ InstallHandler \/ ParseArguments \/ ConstructDev
  \/ ReportElaborationError \/ StartSimulation \/ EndSimulation
  \/ EnsureStopped \/ DeleteTop

----------------------------------------------------------------------------
(* async_os_thread.                                                        *)

\* REPORT_FATAL: the report handler prints the summary and aborts.
Fatal ==
  /\ Running /\ os_thread \in {"setup", "serve"}
  /\ summaries' = summaries + 1
  /\ process' = "exit"
  /\ UNCHANGED <<main, user, alive, gate, ports, os_thread, simulation>>

\* socket, bind to m_tcpip_port, listen.
Bind ==
  /\ Running /\ os_thread = "setup"
  /\ bound' = tcpip_port
  /\ os_thread' = "gate"
  /\ UNCHANGED <<main, process, user, alive, gate, tcpip_port, simulation,
                 summaries>>

\* Mutant: request_permission lives as long as the thread.
PassGateKeepsLock ==
  /\ Running /\ os_thread = "gate" /\ gate = "free"
  /\ os_thread' = "serve" /\ gate' = "async_os_thread"
  /\ UNCHANGED <<main, process, user, alive, ports, simulation, summaries>>

\* The lock of m_allow_pthread, and its release at once.
PassGate ==
  /\ Running /\ os_thread = "gate" /\ gate = "free"
  /\ os_thread' = "serve"
  /\ UNCHANGED <<main, process, user, alive, gate, ports, simulation, summaries>>

\* TLMX_EXIT ends the thread, and nothing else.
LeaveLoop ==
  /\ Running /\ os_thread = "serve"
  /\ os_thread' = "done"
  /\ UNCHANGED <<main, process, user, alive, gate, ports, simulation, summaries>>

ThreadStep == Fatal \/ Bind \/ PassGate \/ LeaveLoop

----------------------------------------------------------------------------
(* The user.                                                               *)

Interrupt ==
  /\ Running
  /\ \/ /\ int_handler = "count" /\ stop_requests < MaxInterrupts
        /\ stop_requests' = stop_requests + 1
        /\ UNCHANGED process
     \/ /\ int_handler # "count"
        /\ process' = IF int_handler = "exit" THEN "exit" ELSE "killed"
        /\ UNCHANGED stop_requests
  /\ UNCHANGED <<main, int_handler, alive, gate, ports, os_thread, simulation,
                 summaries>>

Next == MainStep \/ SimulationThrows \/ ThreadStep \/ Interrupt

Spec == Init /\ [][Next]_vars

\* The main thread runs; that an interrupt ends sc_start is InterruptStops of
\* AsyncAdaptor.
FairSpec == Spec /\ WF_vars(MainStep)

----------------------------------------------------------------------------
(* Properties.                                                             *)

\* Every variable has its type.
TypeOK ==
  /\ main \in {"begin", "setup", "members", "spawn", "signal", "arguments",
               "dev", "report_error", "start", "simulate", "stop", "delete",
               "return"}
  /\ process \in {"running", "killed", "exit", "failed"}
  /\ int_handler \in {"default", "exit", "count"} /\ stop_requests \in Nat
  /\ alive \subseteq AdaptorMembers \cup {"setup", "dev_instance"}
  /\ gate \in {"free", "SystemC"}
  /\ tcpip_port \in {NoPort, DefaultPort} \cup ConfiguredPorts
  /\ bound \in {NoPort, DefaultPort} \cup ConfiguredPorts
  /\ os_thread \in {"none", "setup", "gate", "serve", "done"}
  /\ simulation \in {"none", "start_of_simulation", "end_of_simulation"}
  /\ summaries \in Nat

\* "must be declared before m_pthread": while async_os_thread runs, the
\* members it uses and the report module are constructed and not destroyed,
\* also when a constructor fails and when sc_main deletes the top.
UsesLiveMembers ==
  (Running /\ os_thread \notin {"none", "done"})
    => ThreadUses \cup {"setup"} \subseteq alive

\* The gate: no client is served before start_of_simulation, whenever the
\* thread gets to the lock, and it binds a port that has been set.
ServesSimulation ==
  os_thread \in {"serve", "done"} => simulation # "none" /\ bound # NoPort

\* The summary is printed once at most, although a fatal report of the thread
\* and the destructor of the report module both print it.
SummaryOnce == summaries <= 1

\* An interrupt that is counted, during the construction or later, ends the
\* process.
InterruptEnds == stop_requests > 0 ~> ~Running

----------------------------------------------------------------------------
(* What the repository says of the program and the code does not do.       *)

\* README.md:116, "SystemC main including report summary": a process whose
\* simulation an interrupt has ended prints the summary before it ends.
SummaryAtEnd ==
  (process = "exit" /\ simulation = "end_of_simulation" /\ stop_requests > 0)
    => summaries = 1
=============================================================================
