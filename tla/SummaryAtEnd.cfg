\* A simulation that an interrupt ends, and nothing else does: no exceptions.
CONSTANTS
  DefaultPort = 4000
  NoPort = 0
  ConfiguredPorts = {2000}
  ConstructionMayFail = FALSE
  SimulationMayFail = FALSE
  MaxInterrupts = 1
SPECIFICATION Spec
INVARIANTS
  SummaryAtEnd
CHECK_DEADLOCK FALSE
