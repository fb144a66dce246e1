---------------------------- MODULE MCRunService ----------------------------
(* One run with one stage, three requests, one follower. *)
EXTENDS RunService

CONSTANTS run, s1, r1, r2, r3, c1, nobody

MCStages == {s1}
MCRequests == {r1, r2, r3}
MCStreams == {c1}
=============================================================================
