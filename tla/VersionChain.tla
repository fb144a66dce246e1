---------------------------- MODULE VersionChain ----------------------------
(***************************************************************************)
(* What a project's system-model store promises a team that works on it    *)
(* one request at a time: a linear history.  A freeze appends a model      *)
(* drafted by the agent; an edit appends the LAST model with the edited    *)
(* elements re-attributed to the request, so no earlier edit is dropped    *)
(* until the next freeze.                                                  *)
(*                                                                         *)
(* src/backend/app/services/systemmodel/db_service.py:28-31 states it:     *)
(* "draft -> ... -> version N+1, diffed against N ... user edits (also     *)
(* version N+1, diffed) ... never mutated once written".                   *)
(***************************************************************************)
EXTENDS Naturals, Sequences

CONSTANTS Requests,  \* the requests clients may send, each at most once
          Edits,     \* those of them that are user edits
          Elements   \* the ids of components, flows, assets, trust zones

VARIABLE chain       \* the versions, chain[v] is version v

(* Who asserted each element of a model: nobody (it is absent), the agent, *)
(* or the request of a user edit.                                          *)
Models == [Elements -> {"absent", "agent"} \cup Edits]

AppendFreeze ==
  \E r \in Requests \ Edits, drafted \in SUBSET Elements :
    chain' = Append(chain,
               [author |-> r,
                model  |-> [e \in Elements |->
                              IF e \in drafted THEN "agent" ELSE "absent"]])

AppendEdit ==
  /\ chain # <<>>
  /\ \E r \in Edits, touched \in SUBSET Elements :
       LET last == chain[Len(chain)].model IN
         /\ \A e \in touched : last[e] # "absent"
         /\ chain' = Append(chain,
                       [author |-> r,
                        model  |-> [e \in Elements |->
                                      IF e \in touched THEN r ELSE last[e]]])

ChainInit == chain = <<>>

ChainNext == AppendFreeze \/ AppendEdit

ChainSpec == ChainInit /\ [][ChainNext]_chain
=============================================================================
