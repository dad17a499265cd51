\* Two threads in the report handler at the same time.
CONSTANTS
  Sysc = Sysc
  OsThread = OsThread
  Reporters <- MCReporters
  Nonwarnings <- MCNonwarnings
  MaxReports = 3
  Word = 256
SPECIFICATION Spec
SYMMETRY MCSymmetry
INVARIANTS
  TypeOK
  VerdictIsRight
  MessageIsOwn
  SummaryIsExact
CHECK_DEADLOCK FALSE
