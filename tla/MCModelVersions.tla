--------------------------- MODULE MCModelVersions ---------------------------
(* One freeze and two edits over two model elements; for the               *)
(* counterexample, two freezes and an edit.                                *)
EXTENDS ModelVersions

CONSTANTS f1, f2, e1, e2, x1, x2

MCRequests == {f1, e1, e2}
MCEdits == {e1, e2}
MCElements == {x1, x2}

MCLostRequests == {f1, f2, e1}
MCLostEdits == {e1}
MCOneElement == {x1}
=============================================================================
