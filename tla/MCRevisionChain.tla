-------------------------- MODULE MCRevisionChain --------------------------
(* One project, three requests for a revision, one of them with intel. *)
EXTENDS RevisionChain, TLC

CONSTANTS r1, r2, r3, p1, none

MCRequests == {r1, r2, r3}
MCIntel == {r3}
MCProfiles == {p1}

(* The requests without intel are interchangeable. *)
MCSymmetry == Permutations({r1, r2})
=============================================================================
