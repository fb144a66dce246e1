----------------------------- MODULE Mitigation -----------------------------
(***************************************************************************)
(* The control-gap, risk-register and mitigation-plan requests             *)
(* (api/mitigation.py, api/risk.py, services/mitigation): one              *)
(* recommendation of the model for every open countermeasure, checked      *)
(* against the gap it answers, then a roadmap of phases.                   *)
(*                                                                         *)
(* A recommendation goes by <<technique, defence>>, as in its id.  What    *)
(* the language model answers is any choice that parses; a name that is    *)
(* not one of the candidate entities' is dropped.                          *)
(***************************************************************************)
EXTENDS Risk

CONSTANTS
  PathResults,     \* the results enumerate_paths may give
  Projects,        \* [controls, tier, profile, criticality]
  DefenceCatalog,  \* the d3fend catalog of the snapshot
  EntityName,      \* component -> its name; actors have none here
  Efforts,         \* 1..5 in the code
  PhaseSize

ASSUME MitigationAssumption ==
  /\ PhaseSize \in Nat \ {0} /\ Efforts \subseteq 1..5
  /\ \A paths \in PathResults :
       IsFiniteSet(DOMAIN paths) /\ \A p \in DOMAIN paths : paths[p].likelihood \in Nat
  /\ \A x \in Projects :
       /\ x.criticality \in DOMAIN CriticalityWeight /\ x.tier \in NoTier..4
       /\ IsFiniteSet(x.profile) /\ x.profile \subseteq DOMAIN Statements

VARIABLES
  wanted,     \* "gaps", "register" or "plan"
  project,    \* the project, its model's controls and its profile
  snapshot,   \* whether there is a knowledge base snapshot
  pathsFound, \* path_result
  gaps,
  todoGaps,   \* the open <<technique, defence>> not asked about yet
  advised,    \* <<technique, defence>> -> [statements, entities, effort]
  refused,    \* <<technique, defence>> -> reason code
  toPhase,    \* the rest of ordered_recs: ids not in a phase yet
  phases,
  answer      \* "" until the request is answered

mitigationVars ==
  <<wanted, project, snapshot, pathsFound, gaps, todoGaps, advised, refused, toPhase, phases, answer>>

MitigationInit ==
  /\ wanted \in {"gaps", "register", "plan"} /\ project \in Projects /\ snapshot \in BOOLEAN
  /\ pathsFound = <<>> /\ gaps = <<>> /\ todoGaps = {}
  /\ advised = <<>> /\ refused = <<>> /\ toPhase = {} /\ phases = <<>>
  /\ answer = ""

Before(a, b) == a[1] < b[1] \/ (a[1] = b[1] /\ a[2] < b[2])
OpenDefences(g) == UNION {{<<t, d>> : d \in g[t].defences} : t \in DOMAIN g}

(* _gather_gap_context: without a snapshot there are no paths. *)
GatherGapContext ==
  /\ answer = "" /\ gaps = <<>> /\ pathsFound = <<>>
  /\ pathsFound' \in (IF snapshot THEN PathResults ELSE {<<>>})
  /\ gaps' = TechniqueGaps(TechniquesInPaths(pathsFound'), Inventory(project.controls, project.profile),
                           project.profile, project.tier)
  /\ todoGaps' = OpenDefences(gaps')
  /\ answer' = IF wanted = "plan" /\ gaps' # <<>> THEN "" ELSE "served"
  /\ UNCHANGED <<wanted, project, snapshot, advised, refused, toPhase, phases>>

(* The attack graph or the search runs out of its budget: 422. *)
BudgetExceeded ==
  /\ answer = "" /\ gaps = <<>> /\ snapshot
  /\ answer' = "exceeded"
  /\ UNCHANGED <<wanted, project, snapshot, pathsFound, gaps, todoGaps, advised, refused, toPhase, phases>>

-----------------------------------------------------------------------------
(* The mitigation agent, one open countermeasure at a time.                *)

Touched(t) == EntitiesOf(pathsFound, t)

(* name_to_id: of two candidates with one name the later stands for both.  *)
ResolveNames(t, names) ==
  {Max({e \in Touched(t) \cap DOMAIN EntityName : EntityName[e] = n}) :
     n \in names \cap {EntityName[e] : e \in Touched(t) \cap DOMAIN EntityName}}

(* A programming error: any statement of the profile may be cited. *)
BugTrustsCitations(t, d, rec) == IF rec.entities \subseteq Touched(t) THEN "ok" ELSE "uncited_entity"

(* check_recommendation_grounding: the reason of a rejection, or "ok". *)
RecommendationGrounding(t, d, rec) ==
  CASE d \notin gaps[t].defences -> "uncited_d3fend"
    [] d \in gaps[t].defences /\ ~(rec.statements \subseteq gaps[t].statements) -> "uncited_cri_statement"
    [] OTHER -> IF rec.entities \subseteq Touched(t) THEN "ok" ELSE "uncited_entity"

Advising == answer = "" /\ gaps # <<>> /\ todoGaps # {}

(* By technique, then by countermeasure. *)
IsNext(id) == id \in todoGaps /\ \A other \in todoGaps \ {id} : Before(id, other)

Entered(f, id, value) == [x \in DOMAIN f \cup {id} |-> IF x = id THEN value ELSE f[x]]
Refuse(id, reason) == refused' = Entered(refused, id, reason) /\ UNCHANGED advised

Recommend(id, statements, names, effort) ==
  /\ Advising /\ IsNext(id)
  /\ LET rec == [statements |-> statements, entities |-> ResolveNames(id[1], names), effort |-> effort]
         reason == RecommendationGrounding(id[1], id[2], rec)
     IN IF id[2] \notin DefenceCatalog THEN Refuse(id, "missing_reference_data")
        ELSE IF reason # "ok" THEN Refuse(id, reason)
        ELSE advised' = Entered(advised, id, rec) /\ UNCHANGED refused
  /\ todoGaps' = todoGaps \ {id}
  /\ UNCHANGED <<wanted, project, snapshot, pathsFound, gaps, toPhase, phases, answer>>

(* The gateway gives up on one of them: the request fails as a whole. *)
RecommendationFails ==
  /\ Advising /\ \E id \in todoGaps : IsNext(id) /\ id[2] \in DefenceCatalog
  /\ answer' = "failed"
  /\ UNCHANGED <<wanted, project, snapshot, pathsFound, gaps, todoGaps, advised, refused, toPhase, phases>>

-----------------------------------------------------------------------------

(* A programming error: what is closed for one technique is closed for all. *)
BugClosesForAll(g, recs) ==
  [t \in DOMAIN g |->
     [g[t] EXCEPT !.defences = @ \ {id[2] : id \in recs},
                  !.statements = @ \ UNION {advised[id].statements : id \in recs}]]

(* apply_mitigations *)
ApplyMitigations(g, recs) ==
  LET mine(t) == {id \in recs : id[1] = t} IN
  [t \in DOMAIN g |->
     [g[t] EXCEPT !.defences = @ \ {id[2] : id \in mine(t)},
                  !.statements = @ \ UNION {advised[id].statements : id \in mine(t)}]]

Register(g) == RiskRegister(pathsFound, g, project.criticality, project.tier)
Total(g) == TotalScore(Register(g))

(* compute_residual_risk *)
RiskReduction == Total(gaps) - Total(ApplyMitigations(gaps, DOMAIN advised))

(* build_roadmap: by marginal reduction for the effort, then by id. *)
Marginal(id) == Total(gaps) - Total(ApplyMitigations(gaps, {id}))
Ranks(a, b) ==
  LET left == Marginal(a) * advised[b].effort
      right == Marginal(b) * advised[a].effort
  IN left > right \/ (left = right /\ Before(a, b))

(* validate_mitigation_grounding, then the ranking. *)
Rank ==
  /\ answer = "" /\ gaps # <<>> /\ todoGaps = {} /\ toPhase = {} /\ phases = <<>>
  /\ IF DOMAIN advised \cap DOMAIN refused # {} THEN answer' = "failed" /\ UNCHANGED toPhase
     ELSE toPhase' = DOMAIN advised
          /\ answer' = IF advised = <<>> THEN "served" ELSE ""
  /\ UNCHANGED <<wanted, project, snapshot, pathsFound, gaps, todoGaps, advised, refused, phases>>

Planned == UNION {phases[i].recommendations : i \in DOMAIN phases}
HasGap(gap) == gap.defences # {} \/ gap.statements # {}
HasPathGap(p, g) == \E t \in TechniquesOf(pathsFound[p]) : HasGap(g[t])

(* The next PhaseSize of the ranking. *)
Foremost(recs) ==
  /\ Cardinality(recs) = Min({PhaseSize, Cardinality(toPhase)})
  /\ \A a \in recs, b \in toPhase \ recs : Ranks(a, b)

Phase(recs) ==
  /\ answer = "" /\ toPhase # {} /\ Foremost(recs)
  /\ LET before == ApplyMitigations(gaps, Planned)
         after == ApplyMitigations(gaps, Planned \cup recs)
     IN phases' = Append(phases,
          [recommendations |-> recs,
           cumulative |-> Total(gaps) - Total(after),
           reduction |-> Total(before) - Total(after),
           statements |-> UNION {before[t].statements \ after[t].statements : t \in DOMAIN gaps},
           closed |-> {p \in DOMAIN pathsFound : HasPathGap(p, before) /\ ~HasPathGap(p, after)}])
  /\ toPhase' = toPhase \ recs
  /\ answer' = IF toPhase' = {} THEN "served" ELSE ""
  /\ UNCHANGED <<wanted, project, snapshot, pathsFound, gaps, todoGaps, advised, refused>>

EntityNames == {EntityName[e] : e \in DOMAIN EntityName}

MitigationNext ==
  \/ GatherGapContext \/ BudgetExceeded \/ RecommendationFails \/ Rank
  \/ \E recs \in SUBSET toPhase : Phase(recs)
  \/ \E id \in todoGaps, statements \in SUBSET DOMAIN Statements, names \in SUBSET EntityNames, effort \in Efforts :
       Recommend(id, statements, names, effort)

MitigationSpec == MitigationInit /\ [][MitigationNext]_mitigationVars

-----------------------------------------------------------------------------
(* What is owed, said of the inputs alone: a countermeasure of a technique *)
(* on a path, or one of its statements, that no declared control answers.  *)

OwesDefence(p, t, d) ==
  /\ t \in TechniquesOf(pathsFound[p]) /\ d \in Required(t)
  /\ \A c \in project.controls : d \notin Matched[c].defences

OwesStatement(p, t, s) ==
  /\ t \in TechniquesOf(pathsFound[p]) /\ s \in project.profile
  /\ t \in Statements[s].techniques
  /\ project.tier = NoTier \/ project.tier \in Statements[s].tiers
  /\ \A c \in project.controls : s \notin Matched[c].statements

Owes(p) ==
  \E t \in TechniquesOf(pathsFound[p]) :
    \/ \E d \in Required(t) : OwesDefence(p, t, d)
    \/ \E s \in DOMAIN Statements : OwesStatement(p, t, s)

(* What is left of it once every recommendation is carried out. *)
StillOwes(p) ==
  \E t \in TechniquesOf(pathsFound[p]) :
    \/ \E d \in Required(t) : OwesDefence(p, t, d) /\ <<t, d>> \notin DOMAIN advised
    \/ \E s \in DOMAIN Statements : OwesStatement(p, t, s) /\
         ~\E d \in Required(t) : <<t, d>> \in DOMAIN advised /\ s \in advised[<<t, d>>].statements

Served == answer = "served" /\ wanted = "plan" /\ snapshot

(* Every open countermeasure of a path is recommended or rejected, once;   *)
(* what a recommendation claims is owed, and it names what the technique   *)
(* touches.                                                                *)
AdviceGrounded ==
  /\ DOMAIN advised \cup DOMAIN refused =
       {id \in UNION {{<<t, d>> : d \in Required(t)} : t \in TechniquesInPaths(pathsFound)} :
          \E p \in DOMAIN pathsFound : OwesDefence(p, id[1], id[2])}
  /\ DOMAIN advised \cap DOMAIN refused = {}
  /\ \A id \in DOMAIN advised :
       /\ \A s \in advised[id].statements : \E p \in DOMAIN pathsFound : OwesStatement(p, id[1], s)
       /\ \A e \in advised[id].entities : \E p \in DOMAIN pathsFound : \E s \in pathsFound[p].steps :
            s.technique = id[1] /\ e \in {s.source, s.target}

ReductionOf(roadmap) == FoldSet(LAMBDA i, sum : roadmap[i].reduction + sum, 0, DOMAIN roadmap)

(* The phases hold every recommendation once; their reductions are never   *)
(* negative and sum to the residual comparison's; a path is closed in one  *)
(* phase if the whole roadmap leaves it owing nothing, in none otherwise.  *)
RoadmapAddsUp ==
  /\ \A id \in DOMAIN advised : Cardinality({i \in DOMAIN phases : id \in phases[i].recommendations}) = 1
  /\ Planned = DOMAIN advised
  /\ \A i \in DOMAIN phases : phases[i].reduction >= 0
  /\ ReductionOf(phases) = RiskReduction
  /\ \A p \in DOMAIN pathsFound :
       Cardinality({i \in DOMAIN phases : p \in phases[i].closed}) =
         IF Owes(p) /\ ~StillOwes(p) THEN 1 ELSE 0

(* Carrying out the plan leaves no finding with a higher score, with a     *)
(* document it was not exposed to, or a function with more unsatisfied.    *)
ResidualIsLess ==
  LET baseline == Register(gaps)
      residual == Register(ApplyMitigations(gaps, DOMAIN advised)) IN
  /\ \A p \in DOMAIN pathsFound :
       /\ residual.findings[p].score =< baseline.findings[p].score
       /\ residual.findings[p].exposure \subseteq baseline.findings[p].exposure
       /\ (residual.findings[p].defences \cup residual.findings[p].statements = {}) <=> ~StillOwes(p)
  /\ \A f \in DOMAIN baseline.rollup : residual.rollup[f].unsatisfied =< baseline.rollup[f].unsatisfied

(* The three of them, of every plan that is served. *)
PlanHolds == Served => AdviceGrounded /\ RoadmapAddsUp /\ ResidualIsLess
=============================================================================
