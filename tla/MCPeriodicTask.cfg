\* Two goroutines close a task that is started twice.
SPECIFICATION FairSpec
CONSTANTS
  c1 = c1
  c2 = c2
  Closers <- MCClosers
  MaxGen = 2
  HasReload = TRUE
INVARIANTS
  TypeOK
  NoOverlap
  NoOrphan
PROPERTIES
  CloseReturns
  KeepsRunning
  ContractSpec
CHECK_DEADLOCK FALSE
