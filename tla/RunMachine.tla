----------------------------- MODULE RunMachine -----------------------------
(***************************************************************************)
(* The run and stage state machine as src/backend/app/orchestrator/        *)
(* state_machine.py lays it down: a legal transition at a time, and        *)
(* complete and failed "accept no further transitions" (line 11).          *)
(* A run and its stages have the same transitions, apart from the name of  *)
(* the first status.                                                       *)
(***************************************************************************)
CONSTANTS Run,    \* the run
          Stages  \* its stages

VARIABLE status   \* status of the run and of every stage

Objects == {Run} \cup Stages

First(o) == IF o = Run THEN "queued" ELSE "pending"

Active   == {"running", "needs_input"}
Terminal == {"complete", "failed"}

StatusOf(o) == {First(o)} \cup Active \cup Terminal

(* RUN_TRANSITIONS and STAGE_TRANSITIONS *)
Successors(current) ==
  CASE current \in {"queued", "pending"} -> {"running", "failed"}
    [] current = "running"               -> {"needs_input", "complete", "failed"}
    [] current = "needs_input"           -> {"running", "failed"}
    [] OTHER                             -> {}

Transition(o) ==
  \E target \in Successors(status[o]) : status' = [status EXCEPT ![o] = target]

MachineInit == status = [o \in Objects |-> First(o)]

MachineNext == \E o \in Objects : Transition(o)

MachineSpec == MachineInit /\ [][MachineNext]_status
=============================================================================
