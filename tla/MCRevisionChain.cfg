\* Requests at once and in turn, with uploads, refreshes and a restart.
SPECIFICATION Spec
CONSTANTS
  r1 = r1  r2 = r2  r3 = r3  p1 = p1  none = none
  Requests <- MCRequests
  Intel <- MCIntel
  Profiles <- MCProfiles
  None <- none
  MaxModel = 1
  MaxKB = 1
  MaxCrashes = 1
SYMMETRY MCSymmetry
CHECK_DEADLOCK FALSE
INVARIANTS
  ParentResolves
  PinsNotOlder
  LinearChain
  Attributable
