------------------------------ MODULE Revision ------------------------------
(***************************************************************************)
(* The content of a revision (services/revision): compute_snapshot runs    *)
(* the whole analysis of one model under the intel articles of a request,  *)
(* compute_diff compares two snapshots.  Two revisions of one model and    *)
(* one corpus are made one after the other, so that whatever differs comes *)
(* from the articles.                                                      *)
(***************************************************************************)
EXTENDS AttackPaths, Risk

CONSTANTS
  EntityTokens,  \* component -> the tokens of its name and tags
  Posture        \* the project: [tier, profile, criticality]

ASSUME PostureAssumption ==
  /\ Posture.tier \in 0..4 /\ Posture.criticality \in DOMAIN CriticalityWeight
  /\ IsFiniteSet(Posture.profile)

VARIABLE revisions

revisionVars == <<attackVars, revisions>>

-----------------------------------------------------------------------------
(* What an article says about a model. *)

(* compute_relevance: the components that share a token with a product.    *)
MatchedEntities(a, m) == {c \in DOMAIN m.components : EntityTokens[c] \cap a.products # {}}

(* A programming error: every matched entity, whatever the technique.      *)
BugWidensAll(intel, t, m) == UNION {MatchedEntities(a, m) : a \in intel}

(* intel_widened_entities *)
WidenedEntities(intel, t, m) == UNION {MatchedEntities(a, m) : a \in {a \in intel : t \in a.techniques}}

Widened(intel, bridged, m) == UNION {WidenedEntities(intel, t, m) : t \in Range(bridged)}

(* existing_candidate_keys and build_intel_candidates: the pairs of an     *)
(* entity and a technique that no candidate of the rules has.              *)
ExistingKeys(m) ==
  UNION {{<<c.element, t>> : t \in Range(Bridge(c.category, atlas, TopK))} : c \in Candidates(m)}
IntelCandidates(intel, m) ==
  (UNION {MatchedEntities(a, m) \X a.techniques : a \in intel}) \ ExistingKeys(m)

(* intel_bridged_techniques: its citation is as strong as can be. *)
InCorpus(t) == t \in DOMAIN Score

-----------------------------------------------------------------------------
(* compute_snapshot.  A verdict goes by the id of its candidate.           *)

Id(c) == <<c.element, c.category>>
IntelId(k) == <<"intel", k[1], k[2]>>

VerdictOn(c, intel, m) ==
  LET bridged == Bridge(c.category, atlas, TopK) IN
  Adjudicate(c, m, bridged, ReachableEntities \cup Widened(intel, bridged, m)).condition

(* An intel candidate is adjudicated like a privacy threat: its entity may *)
(* be out of scope, nothing else.                                          *)
IntelVerdict(k, m) == IF k[1] \in OutOfScope(m) THEN "out_of_scope_status_change" ELSE "none"

(* An id of the rules goes before one of an article. *)
Verdicts(intel, m) ==
  LET grounded == Grounded(m, atlas, index)
      ids == {Id(c) : c \in grounded}
      reported == {IntelId(k) : k \in {k \in IntelCandidates(intel, m) : InCorpus(k[2])}}
  IN [id \in ids \cup reported |->
        IF id \in ids THEN VerdictOn(CHOOSE c \in grounded : Id(c) = id, intel, m)
        ELSE IntelVerdict(<<id[2], id[3]>>, m)]

RejectionCount(intel, m) ==
  Cardinality(Rejections(m, atlas, index)) +
  Cardinality({k \in IntelCandidates(intel, m) : ~InCorpus(k[2])})

(* Steps, and the id that _path_id makes of them: no state is part of it.  *)
StepOf(p, i) ==
  [technique |-> simple[<<p[i], p[i + 1]>>][3], source |-> p[i].entity, target |-> p[i + 1].entity]
PathId(p) == [i \in 1..(Len(p) - 1) |-> StepOf(p, i)]

Found == [p \in paths |-> [steps |-> Range(PathId(p)), likelihood |-> Likelihood(p, MaxDepth)]]
GapsFound ==
  TechniqueGaps(TechniquesInPaths(Found), Inventory(DOMAIN model.controls, Posture.profile),
                Posture.profile, Posture.tier)
RegisterFound == RiskRegister(Found, GapsFound, Posture.criticality, Posture.tier)

EmptySnapshot(intel) ==
  [articles |-> intel, paths |-> <<>>, verdicts |-> <<>>, rejections |-> 0, risk |-> 0, rollup |-> <<>>]

(* Without a snapshot of the corpus nothing is computed. *)
Snapshot ==
  IF ~index THEN EmptySnapshot(articles)
  ELSE [articles   |-> articles,
        paths      |-> [p \in paths |-> [id |-> PathId(p), likelihood |-> Likelihood(p, MaxDepth)]],
        verdicts   |-> Verdicts(articles, model),
        rejections |-> RejectionCount(articles, model),
        risk       |-> TotalScore(RegisterFound),
        rollup     |-> RegisterFound.rollup]

MaxRevisions == 2

Revise ==
  /\ built = "done"
  /\ revisions' = Append(revisions, Snapshot)
  /\ built' = "built" /\ paths' = {} /\ capped' = FALSE
  /\ UNCHANGED <<model, atlas, index, nodes, edges, queue, current, todo, articles, simple, pairs, ranked, looked, found>>

RevisionInit == PathsInit /\ revisions = <<>>
RevisionNext ==
  /\ Len(revisions) < MaxRevisions
  /\ \/ PathsNext /\ UNCHANGED revisions
     \/ Revise
RevisionSpec == RevisionInit /\ [][RevisionNext]_revisionVars

-----------------------------------------------------------------------------
(* compute_diff *)

PathIds(s) == {s.paths[p].id : p \in DOMAIN s.paths}

(* Of two paths with one id the dictionary holds one, the later in the     *)
(* code's order, which is not that of likelihoods.                         *)
LikelihoodOf(s, id) == s.paths[CHOOSE p \in DOMAIN s.paths : s.paths[p].id = id].likelihood

Density(s, f) ==
  IF f \in DOMAIN s.rollup THEN (DensityUnit * s.rollup[f].unsatisfied) \div s.rollup[f].inTier ELSE 0

Reopened(parent, child) ==
  {c \in DOMAIN parent.verdicts \cap DOMAIN child.verdicts :
     parent.verdicts[c] # "none" /\ child.verdicts[c] = "none"}

Diff(parent, child) ==
  [new      |-> PathIds(child) \ PathIds(parent),
   removed  |-> PathIds(parent) \ PathIds(child),
   changed  |-> {[id |-> i, previous |-> LikelihoodOf(parent, i), next |-> LikelihoodOf(child, i)] :
                   i \in {i \in PathIds(parent) \cap PathIds(child) : LikelihoodOf(parent, i) # LikelihoodOf(child, i)}},
   reopened |-> Reopened(parent, child),
   risk     |-> child.risk - parent.risk,
   movement |-> [f \in DOMAIN parent.rollup \cup DOMAIN child.rollup |-> <<Density(parent, f), Density(child, f)>>]]

-----------------------------------------------------------------------------

Applies(s, id) == id \in DOMAIN s.verdicts /\ s.verdicts[id] = "none"
Names(a, t, e) == t \in a.techniques /\ e \in MatchedEntities(a, model)
Best(s, from, to) == Max({0} \cup {s.paths[p].likelihood : p \in {p \in DOMAIN s.paths : p[1] = from /\ Last(p) = to}})
Uplifted(s) == {t \in {k[3] : k \in DOMAIN edges} : \E a \in s.articles : t \in a.techniques}

(* What articles do to a verdict: one that a revision reopens waited for   *)
(* reach of an entity in scope, and a new article names that entity with a *)
(* technique of the threat.                                                *)
ReopenedByNews(parent, child) ==
  \A id \in Diff(parent, child).reopened :
    \E c \in Candidates(model) :
      /\ id = Id(c) /\ OutOfScopeEntities(c, model) = {}
      /\ \A e \in UnreachableEntities(c, model, ReachableEntities) :
           \E a \in child.articles \ parent.articles :
             \E t \in Range(Bridge(c.category, atlas, TopK)) : Names(a, t, e)

(* More articles withdraw no verdict and make no target less likely; what  *)
(* they add rests on the corpus and on an article that says so.            *)
IntelOnlyWidens(parent, child) ==
  parent.articles \subseteq child.articles =>
    /\ \A id \in DOMAIN parent.verdicts : Applies(parent, id) => Applies(child, id)
    /\ \A id \in DOMAIN child.verdicts \ DOMAIN parent.verdicts :
         InCorpus(id[3]) /\ \E a \in child.articles \ parent.articles : Names(a, id[3], id[2])
    /\ \A from, to \in nodes : Best(parent, from, to) =< Best(child, from, to)

(* A target's likelihood only moves for a technique that is on an edge.    *)
LikelihoodByNews(parent, child) ==
  Uplifted(parent) = Uplifted(child) =>
    \A from, to \in nodes : Best(parent, from, to) = Best(child, from, to)

(* The diff carries the parent to the child, and back.                     *)
DiffAddsUp(parent, child) ==
  LET d == Diff(parent, child)
      back == Diff(child, parent)
  IN /\ (PathIds(parent) \ d.removed) \cup d.new = PathIds(child) /\ d.new = back.removed
     /\ \A i \in PathIds(parent) \cap PathIds(child) :
          LikelihoodOf(child, i) = LikelihoodOf(parent, i) \/
          \E x \in d.changed, y \in back.changed :
            x.id = i /\ y.id = i /\ x.next = LikelihoodOf(child, i) /\ y.next = LikelihoodOf(parent, i)
     /\ parent.risk + d.risk = child.risk /\ DOMAIN d.movement = DOMAIN back.movement

(* Of two revisions of one model, whatever the articles of each.           *)
RevisionsExplained ==
  Len(revisions) = MaxRevisions =>
    LET parent == revisions[1]
        child == revisions[2] IN
    /\ ReopenedByNews(parent, child) /\ IntelOnlyWidens(parent, child)
    /\ LikelihoodByNews(parent, child) /\ DiffAddsUp(parent, child)
=============================================================================
