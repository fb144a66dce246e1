\* A refresh of the knowledge base in the middle of a revision.
SPECIFICATION Spec
CONSTANTS
  r1 = r1  r2 = r2  r3 = r3  p1 = p1  none = none
  Requests <- MCRequests
  Intel <- MCIntel
  Profiles <- MCProfiles
  None <- none
  MaxModel = 1
  MaxKB = 1
  MaxCrashes = 0
SYMMETRY MCSymmetry
CHECK_DEADLOCK FALSE
INVARIANTS
  CorpusAttributed
