------------------------------ MODULE Tiering ------------------------------
(***************************************************************************)
(* The impact-tiering questionnaire (services/cri/tiering.py) and the row  *)
(* it is stored in (services/cri/db_service.py).  A submission reads the   *)
(* row in one await and writes it in another; the UPDATE names only the    *)
(* columns whose value differs from what was read, so two submissions that *)
(* race may leave a row with columns of both.  Clients race or take turns. *)
(***************************************************************************)
EXTENDS Naturals, Sequences, SequencesExt, FiniteSetsExt

CONSTANTS
  Submissions,
  QuestionIds,   \* QUESTION_IDS, in order
  TierIfYes,     \* _TIER_IF_YES
  Yes,           \* the questions each submission answers with yes
  NoQuestion

Lowest == 4

ASSUME TieringAssumption ==
  /\ QuestionIds \in Seq(Range(QuestionIds)) /\ NoQuestion \notin Range(QuestionIds)
  /\ TierIfYes \in [Range(QuestionIds) -> 1..3]
  /\ \A i, j \in DOMAIN QuestionIds : i < j => TierIfYes[QuestionIds[i]] =< TierIfYes[QuestionIds[j]]
  /\ DOMAIN Yes = Submissions

VARIABLES
  turns,        \* whether clients take turns
  stage,        \* where each submission is
  loaded,       \* the row as it was read
  record        \* impact_tiering: none, or the set of its one row

tieringVars == <<turns, stage, loaded, record>>

TieringInit ==
  /\ turns \in BOOLEAN
  /\ stage = [s \in Submissions |-> "idle"]
  /\ loaded = [s \in Submissions |-> {}]
  /\ record = {}

(* A programming error: the last question wins. *)
BugLastYes(yes) ==
  LET hit == SelectLastInSeq(QuestionIds, LAMBDA q : q \in yes) IN
  IF hit = 0 THEN NoQuestion ELSE QuestionIds[hit]

(* compute_tier: the first question, in order, answered with yes. *)
Trigger(yes) ==
  LET hit == SelectInSeq(QuestionIds, LAMBDA q : q \in yes) IN
  IF hit = 0 THEN NoQuestion ELSE QuestionIds[hit]

ComputeTier(yes) ==
  LET q == Trigger(yes) IN
  [tier |-> IF q = NoQuestion THEN Lowest ELSE TierIfYes[q], trigger |-> q, answers |-> yes]

Enter(s, at) == stage' = [stage EXCEPT ![s] = at]

Submit(s) ==
  /\ stage[s] = "idle"
  /\ turns => \A r \in Submissions : stage[r] \in {"idle", "done", "failed"}
  /\ Enter(s, "read")
  /\ UNCHANGED <<turns, loaded, record>>

ReadRecord(s) ==
  /\ stage[s] = "read" /\ Enter(s, "commit")
  /\ loaded' = [loaded EXCEPT ![s] = record]
  /\ UNCHANGED <<turns, record>>

(* No row was there: an INSERT, refused when another came first. *)
InsertRecord(s) ==
  /\ stage[s] = "commit" /\ loaded[s] = {}
  /\ IF record = {} THEN record' = {ComputeTier(Yes[s])} /\ Enter(s, "done")
     ELSE UNCHANGED record /\ Enter(s, "failed")
  /\ UNCHANGED <<turns, loaded>>

(* An UPDATE of the columns that differ from the row that was read. *)
UpdateRecord(s) ==
  LET new == ComputeTier(Yes[s]) IN
  /\ stage[s] = "commit" /\ Enter(s, "done")
  /\ \E old \in loaded[s], row \in record :
       record' = {[f \in DOMAIN new |-> IF new[f] # old[f] THEN new[f] ELSE row[f]]}
  /\ UNCHANGED <<turns, loaded>>

TieringNext == \E s \in Submissions :
  Submit(s) \/ ReadRecord(s) \/ InsertRecord(s) \/ UpdateRecord(s)
TieringSpec == TieringInit /\ [][TieringNext]_tieringVars

-----------------------------------------------------------------------------

(* The tier that a set of answers gives: the most critical one of any yes. *)
TierOf(yes) == Min({TierIfYes[q] : q \in yes \cap Range(QuestionIds)} \cup {Lowest})

(* The trigger of a row is the first question answered with yes.           *)
TriggerFirst(row) ==
  IF row.tier = Lowest THEN row.trigger = NoQuestion
  ELSE /\ row.trigger \in row.answers /\ TierIfYes[row.trigger] = row.tier
       /\ \A q \in row.answers \cap Range(QuestionIds) : \E i, j \in DOMAIN QuestionIds :
            QuestionIds[i] = row.trigger /\ QuestionIds[j] = q /\ i =< j

(* Between clients that take turns the row is the questionnaire applied to *)
(* the answers next to it: the tier is the most critical one of any yes,   *)
(* and the trigger is the first such question.  When they race, each       *)
(* column is still that of some submission, and the tier always belongs    *)
(* to some set of answers that was sent.                                   *)
TierFollowsAnswers ==
  \A row \in record :
    /\ \E s \in Submissions : row.answers = Yes[s]
    /\ \E s \in Submissions : row.tier = TierOf(Yes[s])
    /\ turns => row.tier = TierOf(row.answers) /\ TriggerFirst(row)
=============================================================================
