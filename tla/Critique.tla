------------------------------ MODULE Critique ------------------------------
(***************************************************************************)
(* The critique of a finished threat model (services/assurance): five      *)
(* detectors over the model, its verdicts, gaps and assumptions, each      *)
(* issue with the ids it cites; the language model adds a severity; what   *)
(* is grounded becomes a review item.  ReviewQueue takes it from there.    *)
(***************************************************************************)
EXTENDS Revision

CONSTANT Assumptions  \* of the draft: [subject, low]; low confidence is below 0.5

VARIABLES
  issues,   \* what the detectors found
  allowed   \* those that were given a severity of the four

critiqueVars == <<revisionVars, issues, allowed>>

Issue(category, elements, statements, about) ==
  [category |-> category, elements |-> elements, statements |-> statements, about |-> about]

(* _item_id: two weak mitigations of the same entities have one id. *)
ItemId(i) == <<i.category, i.elements, i.statements>>

-----------------------------------------------------------------------------
(* The detectors *)

CritiquedVerdicts == IF index THEN Adjudications(model, atlas, index, ReachableEntities) ELSE {}
ConditionsOn(f) == {a.condition : a \in {a \in CritiquedVerdicts : a.candidate.element = f}}

Ends(f) == <<model.flows[f].source, model.flows[f].destination>>
ZoneAt(c) == model.components[c].zone
CrossesZones(f) ==
  Range(Ends(f)) \subseteq DOMAIN model.components /\ ZoneAt(Ends(f)[1]) # ZoneAt(Ends(f)[2])
CrossesUp(f) ==
  /\ Range(Ends(f)) \subseteq DOMAIN model.components
  /\ {ZoneAt(Ends(f)[1]), ZoneAt(Ends(f)[2])} \subseteq DOMAIN model.rating
  /\ model.rating[ZoneAt(Ends(f)[2])] > model.rating[ZoneAt(Ends(f)[1])]

DetectMissedThreats ==
  {Issue("missed_threat", {f} \cup Range(Ends(f)), {}, <<>>) :
     f \in {f \in DOMAIN model.flows : CrossesZones(f) /\ ConditionsOn(f) = {}}}

(* A programming error: only what an attacker cannot reach is questioned.  *)
BugReachOnly ==
  {Issue("over_trusted_boundary", {f, Ends(f)[2]}, {}, <<>>) :
     f \in {f \in DOMAIN model.flows : CrossesUp(f) /\ ConditionsOn(f) = {"reachability"}}}

(* Verdicts of every framework count, not of STRIDE alone. *)
DetectOverTrustedBoundaries ==
  {Issue("over_trusted_boundary", {f, Ends(f)[2]}, {}, <<>>) :
     f \in {f \in DOMAIN model.flows : CrossesUp(f) /\ ConditionsOn(f) # {} /\ "none" \notin ConditionsOn(f)}}

Covered(c, t) == model.controls[c] \cap EntitiesOf(Found, t)
OpenGap(t) == GapsFound[t].defences # {} \/ GapsFound[t].statements # {}

DetectWeakMitigations ==
  {Issue("weak_mitigation", Covered(x[1], x[2]), {}, x) :
     x \in {x \in (DOMAIN model.controls) \X (DOMAIN GapsFound) : OpenGap(x[2]) /\ Covered(x[1], x[2]) # {}}}

DetectQuestionableAssumptions ==
  {Issue("questionable_assumption", {a.subject}, {}, <<>>) : a \in {a \in Assumptions : a.low}}

DetectUnderScopedTiering ==
  {Issue("under_scoped_tiering", {}, {s}, <<>>) :
     s \in {s \in Posture.profile :
              /\ Posture.tier # NoTier /\ Posture.tier \notin Statements[s].tiers
              /\ \E t \in Statements[s].tiers : t < Posture.tier}}

Issues ==
  DetectMissedThreats \cup DetectOverTrustedBoundaries \cup DetectWeakMitigations \cup
  DetectQuestionableAssumptions \cup DetectUnderScopedTiering

-----------------------------------------------------------------------------
(* The critique agent.  The language model may answer any severity; here   *)
(* at most one that is not of the four.                                    *)

KnownElements == DOMAIN model.components \cup DOMAIN model.flows \cup DOMAIN model.controls

(* check_review_item_grounding: the reason of a rejection, or "ok". *)
ItemGrounding(i) ==
  CASE i.elements = {} /\ i.statements = {} -> "no_citation"
    [] ~(i.elements \subseteq KnownElements) -> "uncited_element"
    [] i.elements \subseteq KnownElements /\ ~(i.statements \subseteq Posture.profile) -> "uncited_statement"
    [] OTHER -> IF i \in allowed THEN "ok" ELSE "invalid_severity"

ReviewItems == {i \in issues : ItemGrounding(i) = "ok"}
Rejected == issues \ ReviewItems

(* validate_critique_grounding *)
PassesCritiqueGate ==
  /\ \A i \in ReviewItems : i.elements # {} \/ i.statements # {}
  /\ {ItemId(i) : i \in ReviewItems} \cap {ItemId(i) : i \in Rejected} = {}

(* generate_review_items works on paths found without intel. *)
Criticise ==
  /\ built = "done" /\ articles = {} /\ revisions = <<>>
  /\ issues' = Issues
  /\ allowed' \in {issues'} \cup {issues' \ {i} : i \in issues'}
  /\ built' = "criticised"
  /\ UNCHANGED <<model, atlas, index, nodes, edges, queue, current, todo, pathVars, revisions>>

CritiqueInit == RevisionInit /\ issues = {} /\ allowed = {}
CritiqueNext ==
  \/ RevisionNext /\ UNCHANGED <<issues, allowed>>
  \/ Criticise
CritiqueSpec == CritiqueInit /\ [][CritiqueNext]_critiqueVars

-----------------------------------------------------------------------------

(* What the queue leaves to no one.  A flow into a more trusted zone has a *)
(* threat that applies or is in the queue, and so is a flow between zones  *)
(* on which nothing was decided; a control on a path whose technique is    *)
(* still open is questioned with the entity: all that unless it was given  *)
(* a severity that there is not.  Otherwise only an assumption about an    *)
(* asset, a zone or the like is dropped; no item cites what is not in the  *)
(* model, and the gate refuses a batch only for two issues of one id.      *)
NothingUnexamined ==
  built = "criticised" =>
    LET cited == UNION {i.elements : i \in ReviewItems \cup (issues \ allowed)} IN
    /\ \A f \in DOMAIN model.flows :
         /\ CrossesUp(f) => "none" \in ConditionsOn(f) \/ f \in cited
         /\ CrossesZones(f) /\ ConditionsOn(f) = {} => f \in cited
    /\ \A p \in paths, c \in DOMAIN model.controls : \A i \in DOMAIN PathId(p) :
         OpenGap(PathId(p)[i].technique) =>
           {PathId(p)[i].source, PathId(p)[i].target} \cap model.controls[c] \subseteq
             UNION {x.elements : x \in {x \in issues : x.category = "weak_mitigation"}}
    /\ \A i \in Rejected : i \notin allowed \/ i.category = "questionable_assumption"
    /\ UNION {i.elements : i \in ReviewItems} \subseteq KnownElements
    /\ PassesCritiqueGate \/ \E i \in ReviewItems, j \in Rejected : i.about # j.about /\ ItemId(i) = ItemId(j)
=============================================================================
