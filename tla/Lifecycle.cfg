\* Construction, simulation and destruction, with exceptions everywhere, fatal
\* reports and two interrupts, in every order.
CONSTANTS
  DefaultPort = 4000
  NoPort = 0
  ConfiguredPorts = {2000, 4001}
  ConstructionMayFail = TRUE
  SimulationMayFail = TRUE
  MaxInterrupts = 2
SPECIFICATION FairSpec
INVARIANTS
  TypeOK
  UsesLiveMembers
  ServesSimulation
  SummaryOnce
PROPERTIES
  InterruptEnds
CHECK_DEADLOCK FALSE
