----------------------------- MODULE ReviewQueue -----------------------------
(***************************************************************************)
(* The review queue of a project on top of its revision chain: the         *)
(* critique agent files items, a human accepts or rejects each of them,    *)
(* and an acceptance runs the revision pipeline in the same request.       *)
(*                                                                         *)
(* The pipeline of an acceptance d is request d of RevisionChain.          *)
(*                                                                         *)
(* An item's id is a hash of its category and of the ids it cites, and the *)
(* primary key of one table for all projects: generating twice, or in two  *)
(* projects, produces the same ids.                                        *)
(***************************************************************************)
EXTENDS RevisionChain, Sequences

CONSTANTS Items,        \* item ids
          Decisions,    \* the decide requests; each may run the revision pipeline
          Generations   \* the generate requests

ASSUME ItemsAssumption == Items # {}
ASSUME DecisionsAssumption == Decisions \subseteq Requests \ Intel
ASSUME GenerationsAssumption == Generations \cap Requests = {}

VARIABLES
  item,     \* review_items.status, "absent" or "foreign" (another project's)
  link,     \* review_items.revision_id
  trail,    \* review_audit_entries of each item
  log,      \* the requests that have their entry on the general audit log
  at,       \* where each decide and generate request is
  subject,  \* per decide request: the item
  verb,     \* per decide request: the decision
  batch,    \* per generate request: the items the critique surfaced
  clash,    \* per generate request: did two findings have the same id
  parent    \* per generate request: the latest revision it read

queue   == <<item, link, trail, log>>
locals  == <<subject, verb, batch, clash, parent>>
chain   == <<project, model, cri, kb, made, clock, pc, draft, crashes, serial>>
allVars == <<project, model, cri, kb, made, clock, pc, draft, crashes,
             serial, item, link, trail, log, at, subject, verb, batch, clash, parent>>

Waiting == {"project", "item", "claim", "reread", "revising", "log",
            "model", "critique", "invoked", "latest", "create"}
Answers == Answered \cup {"conflict"}
Busy(a) == at[a] \in Waiting
Verdict == [accept |-> "accepted", reject |-> "rejected"]
Decided == {"accepted", "rejected"}

To(a, label) == at' = [at EXCEPT ![a] = label]

-----------------------------------------------------------------------------

QueueInit ==
  /\ Init /\ ~serial
  /\ item \in [Items -> {"absent", "foreign"}]
  /\ link = [i \in Items |-> None]
  /\ trail = [i \in Items |-> << >>]
  /\ log = {}
  /\ at = [a \in Decisions \cup Generations |-> "idle"]
  /\ subject = [d \in Decisions |-> CHOOSE i \in Items : TRUE]
  /\ verb = [d \in Decisions |-> "reject"]
  /\ batch = [g \in Generations |-> {}]
  /\ clash = [g \in Generations |-> FALSE]
  /\ parent = [g \in Generations |-> None]

(* A human decides an item (any other verb is a 422). *)
SendDecision(d) ==
  /\ at[d] = "idle"
  /\ \E i \in Items : subject' = [subject EXCEPT ![d] = i]
  /\ \E v \in DOMAIN Verdict : verb' = [verb EXCEPT ![d] = v]
  /\ To(d, "project")
  /\ UNCHANGED <<chain, queue, batch, clash, parent>>

SendGeneration(g) ==
  /\ at[g] = "idle"
  /\ To(g, "project")
  /\ UNCHANGED <<chain, queue, locals>>

(* project_service.get_project. *)
FindProject(a) ==
  /\ at[a] = "project"
  /\ To(a, CASE ~project -> "not_found"
             [] project /\ a \in Decisions -> "item"
             [] project /\ a \notin Decisions -> "model")
  /\ UNCHANGED <<chain, queue, locals>>

(* review_service.get_item: an id of another project is not found, and a   *)
(* project deleted meanwhile is an unhandled error.                        *)
FindItem(d) ==
  /\ at[d] = "item"
  /\ To(d, CASE ~project -> "error"
             [] project /\ item[subject[d]] \in {"absent", "foreign"} -> "not_found"
             [] OTHER -> "claim")
  /\ UNCHANGED <<chain, queue, locals>>

(* (Definitions named Bug... are what a programming error would put in     *)
(* place of the definition that follows; nothing uses them but the         *)
(* sensitivity checks of the properties.)                                  *)
BugClaimUnconditional(d) ==
  /\ at[d] = "claim"
  /\ item' = [item EXCEPT ![subject[d]] = Verdict[verb[d]]]
  /\ trail' = [trail EXCEPT ![subject[d]] = Append(@, Verdict[verb[d]])]
  /\ To(d, "reread")
  /\ UNCHANGED <<chain, link, log, locals>>

BugStoresVerb(d) ==
  /\ at[d] = "claim"
  /\ IF project /\ item[subject[d]] = "pending"
       THEN /\ item' = [item EXCEPT ![subject[d]] = verb[d]]
            /\ trail' = [trail EXCEPT ![subject[d]] = Append(@, verb[d])]
            /\ To(d, "reread")
       ELSE /\ To(d, IF project THEN "conflict" ELSE "error")
            /\ UNCHANGED <<item, trail>>
  /\ UNCHANGED <<chain, link, log, locals>>

(* decide_item: UPDATE ... WHERE status = 'pending' and the trail entry,   *)
(* one transaction that no other writer can enter; no row is a 409.        *)
Claim(d) ==
  /\ at[d] = "claim"
  /\ IF project /\ item[subject[d]] = "pending"
       THEN /\ item' = [item EXCEPT ![subject[d]] = Verdict[verb[d]]]
            /\ trail' = [trail EXCEPT ![subject[d]] = Append(@, Verdict[verb[d]])]
            /\ To(d, "reread")
       ELSE /\ To(d, IF project THEN "conflict" ELSE "error")
            /\ UNCHANGED <<item, trail>>
  /\ UNCHANGED <<chain, link, log, locals>>

(* The item is read again after the commit, which fails when the project   *)
(* is gone; an acceptance then starts create_revision_for_project, with no *)
(* articles.                                                               *)
Reread(d) ==
  /\ at[d] = "reread"
  /\ IF project /\ verb[d] = "accept"
       THEN To(d, "revising") /\ Goto(d, "project")
       ELSE To(d, IF project THEN "log" ELSE "error") /\ UNCHANGED pc
  /\ UNCHANGED <<world, made, clock, draft, crashes, serial, queue, locals>>

BugSwallowsFailure(d) ==
  /\ at[d] = "revising" /\ pc[d] \in Answered
  /\ To(d, "log")
  /\ UNCHANGED <<chain, queue, locals>>

(* The pipeline returns, or its failure propagates and is the answer. *)
Resume(d) ==
  /\ at[d] = "revising"
  /\ pc[d] \in Answered
  /\ To(d, IF pc[d] = "ok" THEN "log" ELSE pc[d])
  /\ UNCHANGED <<chain, queue, locals>>

(* audit.record("review.decided"). *)
RecordDecision(d) ==
  /\ at[d] = "log"
  /\ log' = log \cup {d}
  /\ To(d, "ok")
  /\ UNCHANGED <<chain, item, link, trail, locals>>

(* model_service.get_latest. *)
FindModel(g) ==
  /\ at[g] = "model"
  /\ To(g, CASE ~project -> "error"
             [] project /\ model = 0 -> "not_found"
             [] OTHER -> "critique")
  /\ UNCHANGED <<chain, queue, locals>>

(* The critique: whichever findings survive grounding, or a failure        *)
(* (budget, central gate, LLM).  Two findings may hash to one id.          *)
Critique(g) ==
  /\ at[g] = "critique"
  /\ \/ To(g, "unprocessable") /\ UNCHANGED <<batch, clash>>
     \/ To(g, "error") /\ UNCHANGED <<batch, clash>>
     \/ /\ \E b \in SUBSET Items : \E c \in BOOLEAN :
             /\ c => b # {}
             /\ batch' = [batch EXCEPT ![g] = b]
             /\ clash' = [clash EXCEPT ![g] = c]
        /\ To(g, "invoked")
  /\ UNCHANGED <<chain, queue, subject, verb, parent>>

(* audit.record("agent.invoked"). *)
RecordInvocation(g) ==
  /\ at[g] = "invoked"
  /\ log' = log \cup {g}
  /\ To(g, "latest")
  /\ UNCHANGED <<chain, item, link, trail, locals>>

BugLinksUncommitted(g) ==
  /\ at[g] = "latest"
  /\ \E r \in made \cup {q \in Requests : draft[q].at > 0} :
       parent' = [parent EXCEPT ![g] = r]
  /\ To(g, IF project THEN "create" ELSE "error")
  /\ UNCHANGED <<chain, queue, subject, verb, batch, clash>>

(* revision_service.get_latest_revision. *)
FindRevision(g) ==
  /\ at[g] = "latest"
  /\ parent' = [parent EXCEPT ![g] = Latest]
  /\ To(g, IF project THEN "create" ELSE "error")
  /\ UNCHANGED <<chain, queue, subject, verb, batch, clash>>

Fresh(g) == ~clash[g] /\ \A i \in batch[g] : item[i] = "absent"

Store(g, new) ==
  /\ item' = [i \in Items |-> IF i \in new THEN "pending" ELSE item[i]]
  /\ link' = [i \in Items |-> IF i \in new THEN parent[g] ELSE link[i]]
  /\ trail' = [i \in Items |-> IF i \in new THEN Append(trail[i], "created") ELSE trail[i]]

(* The handler returns: what it had read is gone. *)
Forget(g) ==
  /\ batch' = [batch EXCEPT ![g] = {}]
  /\ clash' = [clash EXCEPT ![g] = FALSE]
  /\ parent' = [parent EXCEPT ![g] = None]

BugUpsert(g) ==
  /\ at[g] = "create"
  /\ IF project THEN Store(g, batch[g]) /\ To(g, "ok")
                ELSE UNCHANGED <<item, link, trail>> /\ To(g, "error")
  /\ Forget(g)
  /\ UNCHANGED <<chain, log, subject, verb>>

BugDropsDuplicates(g) ==
  LET new == {i \in batch[g] : item[i] = "absent"} IN
    /\ at[g] = "create"
    /\ item' = [i \in Items |-> IF i \in new THEN "pending" ELSE item[i]]
    /\ link' = [i \in Items |-> IF i \in new THEN parent[g] ELSE link[i]]
    /\ trail' = [i \in Items |-> IF i \in batch[g] THEN <<"created">> ELSE trail[i]]
    /\ To(g, "ok")
    /\ Forget(g)
    /\ UNCHANGED <<chain, log, subject, verb>>

(* create_review_items: all items and their "created" entries in one       *)
(* transaction; one id that is already taken refuses them all.             *)
CreateItems(g) ==
  /\ at[g] = "create"
  /\ IF project /\ Fresh(g)
       THEN Store(g, batch[g]) /\ To(g, "ok")
       ELSE UNCHANGED <<item, link, trail>> /\ To(g, "error")
  /\ Forget(g)
  /\ UNCHANGED <<chain, log, subject, verb>>

(* The process stops: pipelines and review handlers in flight are gone. *)
Restart ==
  /\ Crash
  /\ at' = [a \in DOMAIN at |-> IF Busy(a) THEN "lost" ELSE at[a]]
  /\ UNCHANGED <<queue, locals>>

DecisionStep(d) ==
  \/ FindProject(d) \/ FindItem(d) \/ Claim(d) \/ Reread(d) \/ Resume(d)
  \/ RecordDecision(d)

GenerationStep(g) ==
  \/ FindProject(g) \/ FindModel(g) \/ Critique(g) \/ RecordInvocation(g)
  \/ FindRevision(g) \/ CreateItems(g)

Pipeline(r) == Step(r) /\ UNCHANGED <<queue, at, locals>>

QueueNext ==
  \/ World /\ UNCHANGED <<queue, at, locals>>
  \/ \E r \in Requests \ Decisions : Send(r) /\ UNCHANGED <<queue, at, locals>>
  \/ \E r \in Requests : Pipeline(r)
  \/ \E d \in Decisions : SendDecision(d) \/ DecisionStep(d)
  \/ \E g \in Generations : SendGeneration(g) \/ GenerationStep(g)
  \/ Restart

QueueSpec == QueueInit /\ [][QueueNext]_allVars

-----------------------------------------------------------------------------
(* Properties *)

(* Types. *)
QueueTypeOK ==
  /\ TypeOK
  /\ item \in [Items -> {"absent", "foreign", "pending"} \cup Decided]
  /\ link \in [Items -> Requests \cup {None}]
  /\ trail \in [Items -> Seq({"created"} \cup Decided)]
  /\ log \subseteq Decisions \cup Generations
  /\ at \in [Decisions \cup Generations -> {"idle"} \cup Waiting \cup Answers]
  /\ subject \in [Decisions -> Items]
  /\ verb \in [Decisions -> DOMAIN Verdict]
  /\ batch \in [Generations -> SUBSET Items]
  /\ clash \in [Generations -> BOOLEAN]
  /\ parent \in [Generations -> Requests \cup {None}]

(* The trail of an item is its whole story and agrees with its status: it  *)
(* was created once and decided at most once, whatever decisions raced.    *)
TrailTellsStatus ==
  \A i \in Items :
    trail[i] = CASE item[i] \in {"absent", "foreign"} -> << >>
                 [] item[i] = "pending" -> <<"created">>
                 [] OTHER -> <<"created", item[i]>>

(* An item leads to at most one revision, and only when it was accepted:   *)
(* racing or repeated decisions never recompute the threat model twice.    *)
OneRevisionPerAcceptance ==
  \A i \in Items :
    LET revisions == {d \in Decisions \cap made : subject[d] = i} IN
      /\ Cardinality(revisions) <= 1
      /\ revisions # {} => item[i] = "accepted"

(* A review.decided entry is true: it names the decision that won, and for *)
(* an acceptance the revision exists.                                      *)
LogIsTrue ==
  \A d \in log \cap Decisions :
    /\ item[subject[d]] = Verdict[verb[d]]
    /\ verb[d] = "accept" => d \in made

(* An item is linked to a revision that exists. *)
LinksResolve == \A i \in Items : link[i] # None => link[i] \in made

(* What the queue keeps for its readers is true: the trail of an item, the *)
(* log of decisions, and the link to the revision it was raised against.   *)
RecordsAreTrue == TrailTellsStatus /\ LogIsTrue /\ LinksResolve

(* A decision is never revised, not by a later decision, not by another    *)
(* pass of the critique that surfaces the same finding.                    *)
DecisionIsFinal ==
  [][\A i \in Items : item[i] \in Decided => item'[i] = item[i]]_item

(* "Review-item decisions additionally have their own dedicated, per-item  *)
(* append-only trail ... alongside a review.decided entry on this general  *)
(* log" (README.md:346-349), checked with no restart and nobody at work.   *)
DecisionsLogged ==
  (crashes = 0 /\ \A d \in Decisions : ~Busy(d)) =>
    \A i \in Items : item[i] \in Decided => \E d \in log \cap Decisions : subject[d] = i
=============================================================================
