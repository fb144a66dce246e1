---------------------------- MODULE Enumeration ----------------------------
(***************************************************************************)
(* Threat enumeration (services/enumeration): candidates from a ruleset,   *)
(* the techniques that retrieval finds for a category, grounding and       *)
(* adjudication.  Pure functions of a system model and of the knowledge    *)
(* base; what reaches an element is computed in AttackGraph.               *)
(*                                                                         *)
(* Lists whose order no result depends on are sets; element and category   *)
(* name a candidate, as in its id.  Retrieval ranks by the category alone  *)
(* here; the code's query also names the element's kind and tags.          *)
(***************************************************************************)
EXTENDS Integers, Sequences, FiniteSets, SequencesExt, FiniteSetsExt

CONSTANTS
  Rules,            \* element_rules: [kind, tag, categories]
  AnyTag,           \* a rule without match_tag
  LinddunCategories,
  PersonalClasses,  \* linddun.personal_data_classifications
  PersonalTags,     \* linddun.personal_data_tags
  Retrieved,        \* category -> the techniques retrieval ranks for it
  MatrixOf,         \* technique -> "enterprise" or "atlas"
  CapecOf,          \* technique -> its CAPEC references
  Score,            \* technique -> its fused score
  TopK,             \* top_k
  Threshold         \* DEFAULT_CITATION_THRESHOLD

Kinds == {"external_entity", "process", "datastore", "dataflow"}
StrideCategoriesOfRules == UNION {r.categories : r \in Rules}

(* parse_ruleset refuses anything else at load. *)
ASSUME RulesetAssumption ==
  /\ Rules # {} /\ IsFiniteSet(Rules) /\ IsFiniteSet(LinddunCategories)
  /\ \A r \in Rules : r.kind \in Kinds /\ r.categories # {} /\ IsFiniteSet(r.categories)
  /\ LinddunCategories # {} /\ LinddunCategories \cap StrideCategoriesOfRules = {}

ASSUME CorpusAssumption ==
  /\ \A c \in StrideCategoriesOfRules \cup LinddunCategories : Retrieved[c] \in Seq(DOMAIN Score)
  /\ Score \in [DOMAIN Score -> Nat]
  /\ DOMAIN MatrixOf = DOMAIN Score /\ DOMAIN CapecOf = DOMAIN Score
  /\ TopK \in Nat \ {0} /\ Threshold \in Nat \ {0}

-----------------------------------------------------------------------------
(* A model: components and flows by id, assets with their owners, trust   *)
(* ratings by zone, and what each declared control applies to.             *)

(* Ids have a prefix each; nothing but a flow is of the kind of flows.     *)
WellFormed(m) ==
  /\ {"components", "flows"} \subseteq DOMAIN m
  /\ IsFiniteSet(DOMAIN m.components) /\ IsFiniteSet(DOMAIN m.flows)
  /\ DOMAIN m.components \cap DOMAIN m.flows = {}
  /\ \A c \in DOMAIN m.components : m.components[c].kind \in Kinds \ {"dataflow"}
  /\ \A z \in DOMAIN m.rating : m.rating[z] \in Int

OutOfScope(m) == {c \in DOMAIN m.components : m.components[c].outOfScope}

StrideCategories(kind, tags) ==
  UNION {r.categories : r \in {r \in Rules : r.kind = kind /\ r.tag \in tags \cup {AnyTag}}}

PersonalData(m) ==
  {c \in DOMAIN m.components : m.components[c].tags \cap PersonalTags # {}} \cup
  {a.owner : a \in {a \in m.assets : a.class \in PersonalClasses}}

CandidatesOn(element, kind, tags, personal) ==
  {[element |-> element, kind |-> kind, framework |-> "stride", category |-> c] :
     c \in StrideCategories(kind, tags)} \cup
  IF personal
  THEN {[element |-> element, kind |-> kind, framework |-> "linddun", category |-> c] :
          c \in LinddunCategories}
  ELSE {}

(* enumerate_threats: components that are in scope, and flows unless both  *)
(* ends are out of scope.                                                  *)
Candidates(m) ==
  LET onComponents ==
        {CandidatesOn(c, m.components[c].kind, m.components[c].tags, c \in PersonalData(m)) :
           c \in DOMAIN m.components \ OutOfScope(m)}
      onFlows ==
        {CandidatesOn(f, "dataflow", {}, {m.flows[f].source, m.flows[f].destination} \cap PersonalData(m) # {}) :
           f \in {f \in DOMAIN m.flows : ~({m.flows[f].source, m.flows[f].destination} \subseteq OutOfScope(m))}}
  IN UNION (onComponents \cup onFlows)

(* build_enumeration_result: a row for every element, also without any. *)
Matrix(m) ==
  [x \in DOMAIN m.components \cup DOMAIN m.flows |->
     [stride  |-> {c.category : c \in {c \in Candidates(m) : c.element = x /\ c.framework = "stride"}},
      linddun |-> {c.category : c \in {c \in Candidates(m) : c.element = x /\ c.framework = "linddun"}}]]

(* build_capec_bridge: of what retrieval ranks, the first top_k in an      *)
(* allowed matrix and with a CAPEC reference.                              *)
Allowed(atlas) == IF atlas THEN {"enterprise", "atlas"} ELSE {"enterprise"}

Bridge(category, atlas, k) ==
  LET ranked == Retrieved[category]
      fits(t) == MatrixOf[t] \in Allowed(atlas) /\ CapecOf[t] # {}
      bridged[i \in 0..Len(ranked)] ==
        IF i = 0 THEN <<>>
        ELSE LET sofar == bridged[i - 1] IN
             IF Len(sofar) < k /\ fits(ranked[i]) THEN Append(sofar, ranked[i]) ELSE sofar
  IN bridged[Len(ranked)]

-----------------------------------------------------------------------------
(* Grounding and adjudication of one candidate.                            *)

Endpoints(c, m) == {m.flows[c.element].source, m.flows[c.element].destination}

(* check_grounding: the reason of a rejection, or "ok". *)
Grounding(c, m, bridged) ==
  CASE c.kind = "dataflow" /\ c.element \notin DOMAIN m.flows -> "no_entity_binding"
    [] c.kind = "dataflow" /\ c.element \in DOMAIN m.flows
         /\ ~(Endpoints(c, m) \subseteq DOMAIN m.components) -> "no_flow_binding"
    [] c.kind # "dataflow" /\ c.element \notin DOMAIN m.components -> "no_entity_binding"
    [] OTHER -> IF \E t \in Range(bridged) : Score[t] >= Threshold THEN "ok" ELSE "no_citation"

(* A programming error: the first in retrieval order is cited. *)
BugFirstEvidence(bridged) == bridged[1]

(* _best_evidence: max keeps the first of the best. *)
BestEvidence(bridged) ==
  bridged[SelectInSeq(bridged, LAMBDA t : \A u \in Range(bridged) : Score[u] =< Score[t])]

(* _out_of_scope_entity, _unreachable_entity: what stands against it. *)
OutOfScopeEntities(c, m) ==
  (IF c.kind = "dataflow" THEN Endpoints(c, m) ELSE {c.element}) \cap OutOfScope(m)

UnreachableEntities(c, m, reachable) ==
  IF c.framework # "stride" THEN {}
  ELSE (IF c.kind = "dataflow" THEN {m.flows[c.element].source} ELSE {c.element}) \ reachable

Adjudicate(c, m, bridged, reachable) ==
  [candidate |-> c,
   evidence  |-> BestEvidence(bridged),
   condition |-> IF OutOfScopeEntities(c, m) # {} THEN "out_of_scope_status_change"
                 ELSE IF UnreachableEntities(c, m, reachable) # {} THEN "reachability" ELSE "none"]

Applicable(a) == a.condition = "none"

(* The agent's loop: what is not grounded is rejected, the rest is         *)
(* adjudicated.  Without a snapshot nothing is bridged.                    *)
Bridged(c, atlas, index) == IF index THEN Bridge(c.category, atlas, TopK) ELSE <<>>

Grounded(m, atlas, index) ==
  {c \in Candidates(m) : Grounding(c, m, Bridged(c, atlas, index)) = "ok"}
Rejections(m, atlas, index) ==
  {[candidate |-> c, reason |-> Grounding(c, m, Bridged(c, atlas, index))] :
     c \in Candidates(m) \ Grounded(m, atlas, index)}
Adjudications(m, atlas, index, reachable) ==
  {Adjudicate(c, m, Bridged(c, atlas, index), reachable) : c \in Grounded(m, atlas, index)}

(* validate_enumeration_grounding, over candidate ids. *)
PassesGroundingGate(adjudications, rejections, count) ==
  LET kept == {<<a.candidate.element, a.candidate.category>> : a \in adjudications}
      dropped == {<<r.candidate.element, r.candidate.category>> : r \in rejections} IN
  /\ \A a \in adjudications : Score[a.evidence] >= Threshold
  /\ kept \cap dropped = {}
  /\ Cardinality(kept) + Cardinality(dropped) = count
=============================================================================
