--------------------------- MODULE MCReviewQueue ---------------------------
(* One finding, two decisions that race for it, another revision, two      *)
(* passes of the critique.                                                 *)
EXTENDS ReviewQueue, TLC

CONSTANTS i1, d1, d2, r1, g1, g2, none

MCItems == {i1}
MCDecisions == {d1, d2}
MCRequests == {d1, d2, r1}
MCGenerations == {g1, g2}
MCOneGeneration == {g1}
MCNothing == {}

MCSymmetry == Permutations(Decisions) \cup Permutations(Generations)
=============================================================================
