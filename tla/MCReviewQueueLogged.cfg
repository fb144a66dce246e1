\* An acceptance whose revision fails.
SPECIFICATION QueueSpec
CONSTANTS
  i1 = i1  d1 = d1  d2 = d2  r1 = r1  g1 = g1  g2 = g2  none = none
  Items <- MCItems
  Decisions <- MCDecisions
  Requests <- MCDecisions
  Intel <- MCNothing
  Generations <- MCOneGeneration
  Profiles <- MCNothing
  None <- none
  MaxModel = 1
  MaxKB = 0
  MaxCrashes = 0
CHECK_DEADLOCK FALSE
SYMMETRY MCSymmetry
INVARIANTS
  DecisionsLogged
