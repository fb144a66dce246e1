\* Concurrent clients and clients that take turns, with a restart.
SPECIFICATION FairSpec
CONSTANTS
  f1 = f1  f2 = f2  e1 = e1  e2 = e2  x1 = x1  x2 = x2
  Requests <- MCRequests
  Edits <- MCEdits
  Elements <- MCElements
  MaxCrashes = 1
CHECK_DEADLOCK FALSE
INVARIANTS
  HistoryWellFormed
  EditExtendsParent
  ReportsAreTrue
PROPERTIES
  RowsImmutable
  SerialChain
  VersionAudited
