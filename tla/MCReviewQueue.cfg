\* Racing decisions and critiques next to another revision, with a restart.
SPECIFICATION QueueSpec
CONSTANTS
  i1 = i1  d1 = d1  d2 = d2  r1 = r1  g1 = g1  g2 = g2  none = none
  Items <- MCItems
  Decisions <- MCDecisions
  Requests <- MCRequests
  Intel <- MCNothing
  Generations <- MCGenerations
  Profiles <- MCNothing
  None <- none
  MaxModel = 1
  MaxKB = 0
  MaxCrashes = 1
CHECK_DEADLOCK FALSE
SYMMETRY MCSymmetry
INVARIANTS
  OneRevisionPerAcceptance
  RecordsAreTrue
PROPERTIES
  DecisionIsFinal
