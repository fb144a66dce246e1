----------------------------- MODULE Invalidation -----------------------------
(***************************************************************************)
(* The invalidation graph: given the artifact types that changed, which    *)
(* agents must run again.  compute_affected propagates in rounds through   *)
(* the artifact types that each registered agent declares to consume and   *)
(* to produce, cycles included, until a round adds no agent.               *)
(***************************************************************************)
EXTENDS FiniteSets

CONSTANTS Agents,         \* names in the registry
          ArtifactTypes,
          Registries      \* the registries considered

ASSUME RegistriesAssumption ==
  Registries \subseteq [Agents -> [inputs : SUBSET ArtifactTypes, outputs : SUBSET ArtifactTypes]]

VARIABLES
  registry,   \* what each agent consumes and produces
  changed,    \* the argument of compute_affected
  dirty,      \* dirty_types
  affected,   \* affected_agents
  returned    \* has compute_affected returned

invalidation == <<registry, changed, dirty, affected, returned>>

InvalidationInit ==
  /\ registry \in Registries
  /\ changed \in SUBSET ArtifactTypes
  /\ dirty = changed
  /\ affected = {}
  /\ returned = FALSE

(* The types that some agent of S produces. *)
Produced(S) == UNION {registry[a].outputs : a \in S}

NewlyAffected == {a \in Agents \ affected : registry[a].inputs \cap dirty # {}}

(* A programming error: one round only (the agents that consume what       *)
(* changed, but not the ones fed by those).                                *)
BugOneRound ==
  /\ ~returned /\ NewlyAffected # {}
  /\ affected' = affected \cup NewlyAffected
  /\ returned' = TRUE
  /\ UNCHANGED <<registry, changed, dirty>>

(* IF some agent that is not affected yet consumes a dirty type            *)
(* THEN all such agents are, and what they produce is dirty.               *)
Propagate ==
  /\ ~returned /\ NewlyAffected # {}
  /\ affected' = affected \cup NewlyAffected
  /\ dirty' = dirty \cup Produced(NewlyAffected)
  /\ UNCHANGED <<registry, changed, returned>>

(* A round that adds nobody ends the propagation. *)
ReturnAffected ==
  /\ ~returned /\ NewlyAffected = {}
  /\ returned' = TRUE
  /\ UNCHANGED <<registry, changed, dirty, affected>>

InvalidationNext == Propagate \/ ReturnAffected
InvalidationSpec == InvalidationInit /\ [][InvalidationNext]_invalidation

-----------------------------------------------------------------------------

(* A set of agents is closed when it has every agent that consumes a       *)
(* changed type or one produced in the set.                                *)
Closed(S) ==
  \A a \in Agents : registry[a].inputs \cap (changed \cup Produced(S)) # {} => a \in S

(* compute_affected returns the least closed set: every agent downstream   *)
(* of a change is in it, and no agent is that need not run again.          *)
AffectedIsLeast ==
  /\ \A S \in SUBSET Agents : Closed(S) => affected \subseteq S
  /\ returned => Closed(affected)
=============================================================================
