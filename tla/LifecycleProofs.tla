-------------------------- MODULE LifecycleProofs --------------------------
(***************************************************************************)
(* Safety of the life of the process, for any ports and any number of      *)
(* interrupts, whether constructors fail or not.                           *)
(***************************************************************************)
EXTENDS Lifecycle, TLAPS

\* The thread exists exactly when m_pthread does, and that is constructed
\* last and never destroyed: ~thread would end the process.
ThreadHasItsMembers ==
  /\ os_thread # "none" <=> "m_pthread" \in alive
  /\ "m_pthread" \in alive => ThreadUses \cup {"setup"} \subseteq alive
  /\ main \in {"spawn", "signal", "arguments", "dev", "start", "simulate",
               "stop", "delete"}
       => ThreadUses \cup {"setup"} \subseteq alive
  /\ main = "members" => "setup" \in alive
  /\ main \in {"begin", "setup", "members", "spawn", "report_error", "return"}
       => os_thread = "none"

\* Until start_of_simulation the gate is closed for a thread that exists, and
\* the port has been set before there is one.
GateIsClosed ==
  /\ (simulation = "none" /\ main \notin {"begin", "setup", "members"})
       => gate = "SystemC"
  /\ main \notin {"begin", "setup", "members"} => tcpip_port # NoPort
  /\ os_thread \in {"gate", "serve", "done"} => bound # NoPort

\* A process that is still running has printed a summary only if top_module
\* is gone.
SummaryIsLast ==
  /\ Running /\ main \notin {"report_error", "return"} => summaries = 0
  /\ summaries <= 1

LifecycleInv ==
  /\ TypeOK
  /\ ThreadHasItsMembers
  /\ GateIsClosed /\ ServesSimulation
  /\ SummaryIsLast

USE DEF ports, user, Running, ThreadUses, AdaptorMembers

\* The initial state satisfies the invariant.
LEMMA InitInv == Init => LifecycleInv
  BY LifecycleAssumption
  DEF Init, LifecycleInv, TypeOK, ThreadHasItsMembers, GateIsClosed,
      ServesSimulation, SummaryIsLast

\* The steps of sc_main up to the simulation preserve the invariant.
LEMMA ConstructionInv ==
  ASSUME LifecycleInv,
         \/ ConstructPauseOnExit \/ ConstructSetup \/ ConstructMembers
         \/ ConstructThread \/ InstallHandler \/ ParseArguments
         \/ ConstructDev \/ ReportElaborationError
  PROVE  LifecycleInv'
<1> USE DEF LifecycleInv, TypeOK, ThreadHasItsMembers, GateIsClosed,
            ServesSimulation, SummaryIsLast
<1>1. CASE ConstructPauseOnExit
  BY <1>1 DEF ConstructPauseOnExit
<1>2. CASE ConstructSetup
  BY <1>2 DEF ConstructSetup
<1>3. CASE ConstructMembers
  BY <1>3, LifecycleAssumption DEF ConstructMembers
<1>4. CASE ConstructThread
  <2>1. CASE Unwind
    BY <1>4, <2>1 DEF ConstructThread, Unwind, Destroy
  <2>2. CASE ~ Unwind
    BY <1>4, <2>2 DEF ConstructThread
  <2> QED BY <2>1, <2>2
<1>5. CASE InstallHandler
  BY <1>5 DEF InstallHandler
<1>6. CASE ParseArguments
  BY <1>6, LifecycleAssumption DEF ParseArguments
<1>7. CASE ConstructDev
  <2>1. CASE Unwind
    <3>1. Destroy("report_error")
      BY <2>1 DEF Unwind
    <3>2. CASE "m_pthread" \in alive
      BY <1>7, <2>1, <3>1, <3>2, ZenonT(40) DEF ConstructDev, Unwind, Destroy
    <3>3. CASE "m_pthread" \notin alive
      BY <1>7, <2>1, <3>1, <3>3 DEF ConstructDev, Unwind, Destroy
    <3> QED BY <3>2, <3>3
  <2>2. CASE ~ Unwind
    BY <1>7, <2>2 DEF ConstructDev
  <2> QED BY <2>1, <2>2
<1>8. CASE ReportElaborationError
  BY <1>8 DEF ReportElaborationError
<1> QED
  BY <1>1, <1>2, <1>3, <1>4, <1>5, <1>6, <1>7, <1>8

\* So do the simulation, its end and the destruction.
LEMMA SimulationInv ==
  ASSUME LifecycleInv,
         \/ StartSimulation \/ EndSimulation \/ SimulationThrows
         \/ EnsureStopped \/ DeleteTop
  PROVE  LifecycleInv'
<1> USE DEF LifecycleInv, TypeOK, ThreadHasItsMembers, GateIsClosed,
            ServesSimulation, SummaryIsLast
<1>1. CASE StartSimulation
  BY <1>1 DEF StartSimulation
<1>2. CASE EndSimulation
  BY <1>2 DEF EndSimulation
<1>3. CASE SimulationThrows
  BY <1>3 DEF SimulationThrows
<1>4. CASE EnsureStopped
  BY <1>4 DEF EnsureStopped
<1>5. CASE DeleteTop
  <2>1. CASE "m_pthread" \in alive
    BY <1>5, <2>1, ZenonT(40) DEF DeleteTop, Destroy
  <2>2. CASE "m_pthread" \notin alive
    BY <1>5, <2>2 DEF DeleteTop, Destroy
  <2> QED BY <2>1, <2>2
<1> QED
  BY <1>1, <1>2, <1>3, <1>4, <1>5

\* So do async_os_thread and the user.
LEMMA ThreadInv ==
  ASSUME LifecycleInv, ThreadStep \/ Interrupt
  PROVE  LifecycleInv'
<1> USE DEF LifecycleInv, TypeOK, ThreadHasItsMembers, GateIsClosed,
            ServesSimulation, SummaryIsLast
<1>1. CASE Fatal
  BY <1>1 DEF Fatal
<1>2. CASE Bind
  BY <1>2 DEF Bind
<1>3. CASE PassGate
  BY <1>3 DEF PassGate
<1>4. CASE LeaveLoop
  BY <1>4 DEF LeaveLoop
<1>5. CASE Interrupt
  BY <1>5 DEF Interrupt
<1> QED
  BY <1>1, <1>2, <1>3, <1>4, <1>5 DEF ThreadStep

\* The invariant holds in every reachable state.
THEOREM LifecycleInvariant == Spec => []LifecycleInv
<1>1. LifecycleInv /\ [Next]_vars => LifecycleInv'
  <2> SUFFICES ASSUME LifecycleInv, [Next]_vars PROVE LifecycleInv'
    OBVIOUS
  <2>1. CASE Next
    BY <2>1, ConstructionInv, SimulationInv, ThreadInv DEF Next, MainStep
  <2>2. CASE UNCHANGED vars
    BY <2>2 DEF vars, LifecycleInv, TypeOK, ThreadHasItsMembers, GateIsClosed,
                ServesSimulation, SummaryIsLast
  <2> QED BY <2>1, <2>2
<1> QED BY InitInv, <1>1, PTL DEF Spec

\* Type correctness of the process.
THEOREM Typing == Spec => []TypeOK
<1>1. LifecycleInv => TypeOK
  BY DEF LifecycleInv
<1> QED BY <1>1, LifecycleInvariant, PTL

\* async_os_thread never runs on members that do not exist yet or any more:
\* the only destructor that could take them away is that of the joinable
\* m_pthread, which ends the process first.
THEOREM ThreadUsesLiveMembers == Spec => []UsesLiveMembers
<1>1. LifecycleInv => UsesLiveMembers
  BY DEF LifecycleInv, TypeOK, ThreadHasItsMembers, UsesLiveMembers
<1> QED BY <1>1, LifecycleInvariant, PTL

\* async_os_thread serves nobody before start_of_simulation, and binds a port
\* that has been set.
THEOREM NothingServedEarly == Spec => []ServesSimulation
<1>1. LifecycleInv => ServesSimulation
  BY DEF LifecycleInv
<1> QED BY <1>1, LifecycleInvariant, PTL

\* No interleaving of fatal reports and destructors prints two summaries.
THEOREM OneSummary == Spec => []SummaryOnce
<1>1. LifecycleInv => SummaryOnce
  BY DEF LifecycleInv, SummaryIsLast, SummaryOnce
<1> QED BY <1>1, LifecycleInvariant, PTL
=============================================================================
