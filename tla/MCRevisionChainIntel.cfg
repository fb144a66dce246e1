\* Two revisions one after the other, the second with intel.
SPECIFICATION Spec
CONSTANTS
  r1 = r1  r2 = r2  r3 = r3  p1 = p1  none = none
  Requests <- MCRequests
  Intel <- MCIntel
  Profiles <- MCProfiles
  None <- none
  MaxModel = 2
  MaxKB = 1
  MaxCrashes = 0
SYMMETRY MCSymmetry
CHECK_DEADLOCK FALSE
INVARIANTS
  IntelInherits
