\* Two requests that read the same latest version.
SPECIFICATION Spec
CONSTANTS
  f1 = f1  f2 = f2  e1 = e1  e2 = e2  x1 = x1  x2 = x2
  Requests <- MCLostRequests
  Edits <- MCLostEdits
  Elements <- MCOneElement
  MaxCrashes = 0
CHECK_DEADLOCK FALSE
INVARIANTS
  LinearHistory
