---------------------------- MODULE ModelVersions ----------------------------
(***************************************************************************)
(* The version store of ONE project's system model: freeze (POST) and user *)
(* edit (PATCH) requests against the table system_model_versions.          *)
(*                                                                         *)
(* Every handler is a coroutine of one event loop.  A handler runs without *)
(* interruption from one database await to the next, so there is one       *)
(* action per await; the synchronous part that follows an await (the LLM   *)
(* draft, apply_edits, the diff) belongs to the action of that await.      *)
(* Reads run outside a transaction (the SQLite driver opens one at the     *)
(* first write), and INSERT + COMMIT is atomic under SQLite's writer lock. *)
(*                                                                         *)
(* A request is sent at most once.  A retry is another request.            *)
(***************************************************************************)
EXTENDS Naturals, FiniteSets, Sequences, FiniteSetsExt

CONSTANTS Requests,    \* the requests clients may send
          Edits,       \* those that are PATCH /system-model
          Elements,    \* ids of the elements a model may contain
          MaxCrashes   \* bound on restarts of the server

ASSUME RequestsAssumption == Edits \subseteq Requests
ASSUME CrashesAssumption == MaxCrashes \in Nat

VARIABLES
  project,   \* does the row of the project still exist
  rows,      \* system_model_versions: version -> [parent, model, author]
  audit,     \* audit_log: the entries of this project, in commit order
  pc,        \* where each request is
  touched,   \* per edit: the element ids in its body
  base,      \* per request: the version read as "previous" (0: none)
  draft,     \* per request: the model it is about to store
  number,    \* per request: the version number it computed
  crashes,   \* restarts so far
  serial     \* do the clients of this behaviour wait for each answer

tables   == <<project, rows, audit>>
handlers == <<pc, touched, base, draft, number>>
vars     == <<project, rows, audit, pc, touched, base, draft, number, crashes, serial>>

(* Who asserted each element of a model: nobody (it is absent), the agent, *)
(* or the user edit that touched it last.                                  *)
Models == [Elements -> {"absent", "agent"} \cup Edits]

NoModel == [e \in Elements |-> "absent"]

RowType == [parent : Nat, model : Models, author : Requests]

Working == {"check", "project", "latest", "number", "persist", "audit"}
Answered == {"ok", "not_found", "unprocessable", "failed", "lost"}

InFlight(r) == pc[r] \in Working

(* _latest_row, _next_version_number.  (Definitions named Bug... are what a *)
(* programming error would put in place of the definition that follows;    *)
(* nothing uses them but the sensitivity checks of the properties.)        *)
BugNumbersFromZero == IF DOMAIN rows = {} THEN 0 ELSE Max(DOMAIN rows) + 1
Latest == IF DOMAIN rows = {} THEN 0 ELSE Max(DOMAIN rows)
NextVersion == IF DOMAIN rows = {} THEN 1 ELSE Max(DOMAIN rows) + 1

(* apply_edits: only the elements named in the body change, and they are   *)
(* marked user-asserted.  It raises UnknownElementError for an absent id.  *)
BugEditsDropOthers(model, r, ids) ==
  [e \in Elements |-> IF e \in ids THEN r
                      ELSE IF model[e] = "absent" THEN "absent" ELSE "agent"]

BugEditsAnonymous(model, r, ids) ==
  [e \in Elements |-> IF e \in ids THEN "user_asserted" ELSE model[e]]

Unknown(model, ids) == \E e \in ids : model[e] = "absent"
ApplyEdits(model, r, ids) ==
  [e \in Elements |-> IF e \in ids THEN r ELSE model[e]]

Goto(r, label) == pc' = [pc EXCEPT ![r] = label]

-----------------------------------------------------------------------------

Init ==
  /\ project = TRUE
  /\ rows = << >>
  /\ audit = << >>
  /\ pc = [r \in Requests |-> "idle"]
  /\ touched = [r \in Requests |-> {}]
  /\ base = [r \in Requests |-> 0]
  /\ draft = [r \in Requests |-> NoModel]
  /\ number = [r \in Requests |-> 0]
  /\ crashes = 0
  /\ serial \in BOOLEAN

(* A client sends its request.  A freeze is first checked by the API       *)
(* handler, an edit goes straight to the service.                          *)
Send(r) ==
  /\ pc[r] = "idle"
  /\ serial => \A q \in Requests : ~InFlight(q)
  /\ IF r \in Edits
       THEN /\ \E ids \in SUBSET Elements : touched' = [touched EXCEPT ![r] = ids]
            /\ Goto(r, "project")
       ELSE /\ Goto(r, "check")
            /\ UNCHANGED touched
  /\ UNCHANGED <<tables, base, draft, number, crashes, serial>>

(* freeze_system_model: 404 when the project is gone. *)
CheckProject(r) ==
  /\ pc[r] = "check"
  /\ Goto(r, IF project THEN "project" ELSE "not_found")
  /\ UNCHANGED <<tables, touched, base, draft, number, crashes, serial>>

(* _get_project; a freeze then drafts a model with the LLM, synchronously. *)
(* The draft is any set of elements, or the gateway raises.  Neither       *)
(* handler catches ProjectNotFoundError here, so both fail.                *)
GetProject(r) ==
  /\ pc[r] = "project"
  /\ \/ /\ ~project \/ r \notin Edits
        /\ Goto(r, "failed")
        /\ UNCHANGED draft
     \/ /\ project /\ r \in Edits
        /\ Goto(r, "latest")
        /\ UNCHANGED draft
     \/ /\ project /\ r \notin Edits
        /\ Goto(r, "latest")
        /\ \E drafted \in SUBSET Elements :
             draft' = [draft EXCEPT ![r] = [e \in Elements |->
                         IF e \in drafted THEN "agent" ELSE "absent"]]
  /\ UNCHANGED <<tables, touched, base, number, crashes, serial>>

(* _latest_row.  An edit needs a version to start from (404) that has the  *)
(* elements it names (422); a freeze only remembers its parent.            *)
ReadLatest(r) ==
  /\ pc[r] = "latest"
  /\ base' = [base EXCEPT ![r] = Latest]
  /\ \/ /\ r \notin Edits
        /\ Goto(r, "number")
        /\ UNCHANGED draft
     \/ /\ r \in Edits /\ Latest = 0
        /\ Goto(r, "not_found")
        /\ UNCHANGED draft
     \/ /\ r \in Edits /\ Latest # 0
        /\ Unknown(rows[Latest].model, touched[r])
        /\ Goto(r, "unprocessable")
        /\ UNCHANGED draft
     \/ /\ r \in Edits /\ Latest # 0
        /\ ~Unknown(rows[Latest].model, touched[r])
        /\ draft' = [draft EXCEPT ![r] =
                       ApplyEdits(rows[Latest].model, r, touched[r])]
        /\ Goto(r, "number")
  /\ UNCHANGED <<tables, touched, number, crashes, serial>>

(* _next_version_number: a second read, in an await of its own. *)
ReadNumber(r) ==
  /\ pc[r] = "number"
  /\ number' = [number EXCEPT ![r] = NextVersion]
  /\ Goto(r, "persist")
  /\ UNCHANGED <<tables, touched, base, draft, crashes, serial>>

Insert(v, row) ==
  rows' = [w \in DOMAIN rows \cup {v} |-> IF w = v THEN row ELSE rows[w]]

BugOverwrite(r) ==
  /\ pc[r] = "persist"
  /\ Insert(number[r], [parent |-> base[r], model |-> draft[r], author |-> r])
  /\ Goto(r, "audit")
  /\ UNCHANGED <<project, audit, touched, base, draft, number, crashes, serial>>

BugParentIsPredecessor(r) ==
  /\ pc[r] = "persist" /\ number[r] \notin DOMAIN rows
  /\ Insert(number[r], [parent |-> number[r] - 1, model |-> draft[r], author |-> r])
  /\ Goto(r, "audit")
  /\ UNCHANGED <<project, audit, touched, base, draft, number, crashes, serial>>

BugParentIsSelf(r) ==
  /\ pc[r] = "persist" /\ number[r] \notin DOMAIN rows
  /\ Insert(number[r], [parent |-> number[r], model |-> draft[r], author |-> r])
  /\ Goto(r, "audit")
  /\ UNCHANGED <<project, audit, touched, base, draft, number, crashes, serial>>

BugConflictIgnored(r) ==
  /\ pc[r] = "persist"
  /\ IF number[r] \in DOMAIN rows
       THEN UNCHANGED rows
       ELSE Insert(number[r], [parent |-> base[r], model |-> draft[r], author |-> r])
  /\ Goto(r, "audit")
  /\ UNCHANGED <<project, audit, touched, base, draft, number, crashes, serial>>

BugUnaudited(r) ==
  /\ pc[r] = "persist" /\ number[r] \notin DOMAIN rows
  /\ Insert(number[r], [parent |-> base[r], model |-> draft[r], author |-> r])
  /\ Goto(r, IF r \in Edits THEN "audit" ELSE "ok")
  /\ UNCHANGED <<project, audit, touched, base, draft, number, crashes, serial>>

(* _persist: the INSERT, refused (500) by uq_system_model_version when     *)
(* another request took the number.                                        *)
Persist(r) ==
  /\ pc[r] = "persist"
  /\ \/ /\ number[r] \in DOMAIN rows
        /\ Goto(r, "failed")
        /\ UNCHANGED rows
     \/ /\ number[r] \notin DOMAIN rows
        /\ Insert(number[r],
                  [parent |-> base[r], model |-> draft[r], author |-> r])
        /\ Goto(r, "audit")
  /\ UNCHANGED <<project, audit, touched, base, draft, number, crashes, serial>>

(* audit.record: a commit of its own, after the version is committed. *)
RecordAudit(r) ==
  /\ pc[r] = "audit"
  /\ audit' = Append(audit,
                [action  |-> IF r \in Edits THEN "model.edited" ELSE "model.frozen",
                 version |-> number[r]])
  /\ Goto(r, "ok")
  /\ UNCHANGED <<project, rows, touched, base, draft, number, crashes, serial>>

(* DELETE /projects/{id}: the versions have no ORM cascade and SQLite does *)
(* not enforce the foreign key, so the rows stay.                          *)
DeleteProject ==
  /\ project
  /\ project' = FALSE
  /\ UNCHANGED <<rows, audit, handlers, crashes, serial>>

(* The process stops: what was committed stays, the handlers are gone. *)
Crash ==
  /\ crashes < MaxCrashes
  /\ crashes' = crashes + 1
  /\ pc' = [r \in Requests |-> IF InFlight(r) THEN "lost" ELSE pc[r]]
  /\ UNCHANGED <<tables, touched, base, draft, number, serial>>

Step(r) ==
  \/ CheckProject(r) \/ GetProject(r) \/ ReadLatest(r)
  \/ ReadNumber(r) \/ Persist(r) \/ RecordAudit(r)

Next ==
  \/ \E r \in Requests : Send(r) \/ Step(r)
  \/ DeleteProject
  \/ Crash

Spec == Init /\ [][Next]_vars

(* The event loop resumes every coroutine whose await has completed. *)
FairSpec == Spec /\ \A r \in Requests : WF_vars(Step(r))

-----------------------------------------------------------------------------
(* Properties *)

(* The tables and the local variables of the handlers have their types. *)
TypeOK ==
  /\ project \in BOOLEAN
  /\ DOMAIN rows \subseteq Nat
  /\ \A v \in DOMAIN rows : rows[v] \in RowType
  /\ audit \in Seq([action : {"model.edited", "model.frozen"}, version : Nat])
  /\ pc \in [Requests -> {"idle"} \cup Working \cup Answered]
  /\ touched \in [Requests -> SUBSET Elements]
  /\ base \in [Requests -> Nat]
  /\ draft \in [Requests -> Models]
  /\ number \in [Requests -> Nat]
  /\ crashes \in 0..MaxCrashes
  /\ serial \in BOOLEAN

(* The versions are numbered 1, 2, 3, ... without a gap, although each     *)
(* number is computed from a read that may be stale when it is used        *)
(* (_next_version_number, then _persist).                                  *)
VersionsContiguous ==
  \A v \in DOMAIN rows : v >= 1 /\ (v > 1 => v - 1 \in DOMAIN rows)

(* parent_version always points back at a version that exists, so walking  *)
(* the parents of any version ends at a root.                              *)
ParentPrecedes ==
  \A v \in DOMAIN rows :
    /\ rows[v].parent < v
    /\ rows[v].parent # 0 => rows[v].parent \in DOMAIN rows

(* The history of a project can be walked: numbers without gaps and parents *)
(* that resolve, whatever stale reads they were computed from.             *)
HistoryWellFormed == VersionsContiguous /\ ParentPrecedes

(* A version made by a user edit is its recorded parent with exactly the   *)
(* edited elements re-attributed to the user: the parent named in the row  *)
(* is the one the content and the change summary were computed from.       *)
EditExtendsParent ==
  \A v \in DOMAIN rows :
    LET row == rows[v] IN
      row.author \in Edits =>
        /\ row.parent \in DOMAIN rows
        /\ row.model = [e \in Elements |->
                          IF e \in touched[row.author]
                            THEN row.author ELSE rows[row.parent].model[e]]

(* A request that was told its version is the author of the row with that  *)
(* number: two clients are never given the same version.                   *)
AnsweredVersionIsOwn ==
  \A r \in Requests :
    pc[r] \in {"audit", "ok"} =>
      number[r] \in DOMAIN rows /\ rows[number[r]].author = r

(* "never mutated once written" (db_service.py:31): a committed version    *)
(* stays, with the same content.                                           *)
RowsImmutable ==
  [][\A v \in DOMAIN rows : v \in DOMAIN rows' /\ rows'[v] = rows[v]]_rows

(* The audit log speaks of versions that exist, names the kind of request  *)
(* that made them, and never reports a version twice.                      *)
AuditTruthful ==
  /\ \A i \in DOMAIN audit :
       /\ audit[i].version \in DOMAIN rows
       /\ (audit[i].action = "model.edited")
            <=> (rows[audit[i].version].author \in Edits)
  /\ \A i, j \in DOMAIN audit : audit[i].version = audit[j].version => i = j

(* What clients and the audit log are told is true: nobody is told the     *)
(* version of another request, no entry speaks of a version that is not    *)
(* there or says who made it wrongly.                                      *)
ReportsAreTrue == AnsweredVersionIsOwn /\ AuditTruthful

(* Unless the server is stopped between the two commits, every committed   *)
(* version is eventually reported in the audit log.                        *)
VersionAudited ==
  \A v \in 1..Cardinality(Requests) :
    (v \in DOMAIN rows) ~>
      (crashes > 0 \/ \E i \in DOMAIN audit : audit[i].version = v)

(* The chain the class documents (db_service.py:28-31): version N+1 comes  *)
(* from version N.  Only clients that take turns can rely on it.           *)
LinearHistory == \A v \in DOMAIN rows : rows[v].parent = v - 1

(* When clients take turns, the store is the linear chain of VersionChain: *)
(* each edit is applied to the last version and keeps every earlier one.   *)
(* (Behaviours in which they do not are mapped to the empty chain.)        *)
TheChain == [v \in 1..(IF serial THEN Cardinality(DOMAIN rows) ELSE 0) |->
               [author |-> rows[v].author, model |-> rows[v].model]]

Chain == INSTANCE VersionChain WITH chain <- TheChain

SerialChain == Chain!ChainSpec
=============================================================================
