---------------------------- MODULE RevisionChain ----------------------------
(***************************************************************************)
(* The threat-model revisions of one project: create_revision_for_project  *)
(* reads the system model, the CRI profile and the knowledge base in       *)
(* separate awaits, recomputes, looks up the latest revision and appends.  *)
(*                                                                         *)
(* Every service has a database session of its own and every method reads  *)
(* the project row again, so a CRI profile uploaded between two awaits is  *)
(* seen by the later one.  The knowledge base is refreshed by a thread     *)
(* (asyncio.to_thread), which can publish a snapshot even between two      *)
(* statements of the event loop with no await between them.                *)
(*                                                                         *)
(* A revision is named by the request that creates it.                     *)
(***************************************************************************)
EXTENDS Naturals, FiniteSets

CONSTANTS Requests,     \* the requests that may create a revision
          Intel,        \* those that attach intel articles
          Profiles,     \* the CRI snapshots that may be uploaded
          None,         \* no revision, no CRI profile
          MaxModel,     \* bound on the versions of the system model
          MaxKB,        \* bound on the snapshots of the knowledge base
          MaxCrashes    \* bound on restarts of the server

ASSUME IntelAssumption == Intel \subseteq Requests
ASSUME NoneAssumption == None \notin Requests \cup Profiles
ASSUME BoundsAssumption == MaxModel \in Nat /\ MaxKB \in Nat /\ MaxCrashes \in Nat

VARIABLES
  project,    \* does the project row exist
  model,      \* the latest version of its system model, 0 before the first
  cri,        \* projects.cri_snapshot_hash
  kb,         \* how many knowledge-base snapshots were published
  made,       \* the committed revisions
  clock,      \* the wall clock of datetime.now
  pc,         \* where each request is
  draft,      \* per request: what it has read; the row, once committed
  crashes,    \* restarts so far
  serial      \* do the clients of this behaviour wait for each answer

world == <<project, model, cri, kb>>
vars  == <<project, model, cri, kb, made, clock, pc, draft, crashes, serial>>

CRIReads == {"statements", "mappings", "regulatory", "manifest"}
Working  == {"project", "model", "tiering", "corpus", "pin",
             "parent", "stamp", "insert"} \cup CRIReads
Answered == {"ok", "not_found", "unprocessable", "error", "lost"}

Rows == [model  : 0..MaxModel,                        \* system_model_version
         used   : [CRIReads -> Profiles \cup {None}], \* the CRI profile of each read
         kbUsed : 0..MaxKB,                           \* the corpus computed with
         kbPin  : 0..MaxKB,                           \* kb_snapshot_hash
         parent : Requests \cup {None},               \* parent_revision_id
         at     : Nat]                                \* created_at

InFlight(r) == pc[r] \in Working
Quiet == serial => \A r \in Requests : ~InFlight(r)
Goto(r, label) == pc' = [pc EXCEPT ![r] = label]

(* get_latest_revision: ORDER BY created_at DESC LIMIT 1. *)
Latest == IF made = {} THEN None
          ELSE CHOOSE r \in made : \A q \in made : draft[q].at <= draft[r].at

-----------------------------------------------------------------------------

Init ==
  /\ project = TRUE
  /\ model = 0
  /\ cri = None
  /\ kb = 0
  /\ made = {}
  /\ clock = 0
  /\ pc = [r \in Requests |-> "idle"]
  /\ draft = [r \in Requests |->
       [model |-> 0, used |-> [c \in CRIReads |-> None],
        kbUsed |-> 0, kbPin |-> 0, parent |-> None, at |-> 0]]
  /\ crashes = 0
  /\ serial \in BOOLEAN

(* The rest of the system, as far as a revision reads it: a new version of *)
(* the system model, an uploaded CRI workbook, a refreshed knowledge base, *)
(* a deleted project. *)
FreezeModel ==
  /\ project /\ model < MaxModel /\ Quiet
  /\ model' = model + 1
  /\ UNCHANGED <<project, cri, kb, made, clock, pc, draft, crashes, serial>>

(* (Definitions named Bug... are what a programming error would put in     *)
(* place of the definition that follows; nothing uses them but the         *)
(* sensitivity checks of the properties.)                                  *)
BugUploadClears ==
  /\ project /\ Quiet
  /\ \E p \in Profiles \cup {None} : cri' = p
  /\ UNCHANGED <<project, model, kb, made, clock, pc, draft, crashes, serial>>

UploadCRI ==
  /\ project /\ Quiet
  /\ \E p \in Profiles : cri' = p
  /\ UNCHANGED <<project, model, kb, made, clock, pc, draft, crashes, serial>>

PublishKB ==
  /\ kb < MaxKB /\ Quiet
  /\ kb' = kb + 1
  /\ UNCHANGED <<project, model, cri, made, clock, pc, draft, crashes, serial>>

DeleteProject ==
  /\ project /\ Quiet
  /\ project' = FALSE
  /\ UNCHANGED <<model, cri, kb, made, clock, pc, draft, crashes, serial>>

(* A client posts a revision. *)
Send(r) ==
  /\ pc[r] = "idle" /\ Quiet
  /\ Goto(r, "project")
  /\ UNCHANGED <<world, made, clock, draft, crashes, serial>>

(* project_service.get_project. *)
CheckProject(r) ==
  /\ pc[r] = "project"
  /\ Goto(r, IF project THEN "model" ELSE "not_found")
  /\ UNCHANGED <<world, made, clock, draft, crashes, serial>>

(* model_service.get_latest: a project deleted meanwhile is an unhandled   *)
(* error.  An article that is unknown or has no extraction is a 404.       *)
ReadModel(r) ==
  /\ pc[r] = "model"
  /\ draft' = [draft EXCEPT ![r].model = model]
  /\ \/ ~project /\ Goto(r, "error")
     \/ project /\ model = 0 /\ Goto(r, "not_found")
     \/ project /\ model # 0 /\ Goto(r, "statements")
     \/ project /\ model # 0 /\ r \in Intel /\ Goto(r, "not_found")
  /\ UNCHANGED <<world, made, clock, crashes, serial>>

(* One read of the CRI profile: read the project row, then the files of    *)
(* the snapshot it names; with none uploaded the value is the empty one.   *)
ReadCRI(r, read, next) ==
  /\ pc[r] = read
  /\ IF project
       THEN /\ draft' = [draft EXCEPT ![r].used[read] = cri]
            /\ Goto(r, next)
       ELSE /\ Goto(r, "error")
            /\ UNCHANGED draft
  /\ UNCHANGED <<world, made, clock, crashes, serial>>

(* cri_statements_with_bridge: without statements there is no bridge.      *)
ReadStatements(r) ==
  ReadCRI(r, "statements", IF cri = None THEN "tiering" ELSE "mappings")
ReadMappings(r) == ReadCRI(r, "mappings", "tiering")
ReadRegulatory(r) == ReadCRI(r, "regulatory", "manifest")
ReadManifest(r) == ReadCRI(r, "manifest", "corpus")

(* get_tiering: the tier is no part of the row, the project must exist.    *)
ReadTiering(r) ==
  /\ pc[r] = "tiering"
  /\ Goto(r, IF project THEN "regulatory" ELSE "error")
  /\ UNCHANGED <<world, made, clock, draft, crashes, serial>>

BugCachedCorpus(r) ==
  /\ pc[r] = "corpus"
  /\ draft' = [draft EXCEPT ![r].kbUsed = IF made = {} THEN kb
                                           ELSE draft[Latest].kbUsed]
  /\ Goto(r, "pin")
  /\ UNCHANGED <<world, made, clock, crashes, serial>>

(* get_kb_snapshot: the corpus the revision is computed with. *)
ReadCorpus(r) ==
  /\ pc[r] = "corpus"
  /\ draft' = [draft EXCEPT ![r].kbUsed = kb]
  /\ Goto(r, "pin")
  /\ UNCHANGED <<world, made, clock, crashes, serial>>

BugPinUnset(r) ==
  /\ pc[r] = "pin"
  /\ draft' = [draft EXCEPT ![r].kbPin = IF r \in Intel THEN kb + 1 ELSE kb]
  /\ \/ Goto(r, "parent")
     \/ Goto(r, "unprocessable")
  /\ UNCHANGED <<world, made, clock, crashes, serial>>

(* latest_snapshot_dir again, for the name to record; then                 *)
(* compute_snapshot, which may exceed the budget of the attack graph or of *)
(* the paths (422).                                                        *)
PinCorpus(r) ==
  /\ pc[r] = "pin"
  /\ draft' = [draft EXCEPT ![r].kbPin = kb]
  /\ \/ Goto(r, "parent")
     \/ Goto(r, "unprocessable")
  /\ UNCHANGED <<world, made, clock, crashes, serial>>

BugParentUncommitted(r) ==
  LET stamped == {q \in Requests : draft[q].at > 0} IN
    /\ pc[r] = "parent"
    /\ \E p \in stamped \cup {None} :
         draft' = [draft EXCEPT ![r].parent = IF stamped = {} THEN None ELSE p]
    /\ Goto(r, IF project THEN "stamp" ELSE "error")
    /\ UNCHANGED <<world, made, clock, crashes, serial>>

BugParentIsFirst(r) ==
  /\ pc[r] = "parent"
  /\ \E p \in made \cup {None} :
       /\ p # None => \A q \in made : draft[p].at <= draft[q].at
       /\ p = None => made = {}
       /\ draft' = [draft EXCEPT ![r].parent = p]
  /\ Goto(r, IF project THEN "stamp" ELSE "error")
  /\ UNCHANGED <<world, made, clock, crashes, serial>>

(* revision_service.get_latest_revision. *)
ReadParent(r) ==
  /\ pc[r] = "parent"
  /\ draft' = [draft EXCEPT ![r].parent = Latest]
  /\ Goto(r, IF project THEN "stamp" ELSE "error")
  /\ UNCHANGED <<world, made, clock, crashes, serial>>

(* create_revision: the project is checked again and the row built, with   *)
(* the time of this moment ...                                             *)
Stamp(r) ==
  /\ pc[r] = "stamp"
  /\ IF project
       THEN /\ clock' = clock + 1
            /\ draft' = [draft EXCEPT ![r].at = clock + 1]
            /\ Goto(r, "insert")
       ELSE /\ Goto(r, "error")
            /\ UNCHANGED <<clock, draft>>
  /\ UNCHANGED <<world, made, crashes, serial>>

(* ... and inserted.  Foreign keys are not enforced: a project deleted     *)
(* meanwhile does not stop it.                                             *)
Insert(r) ==
  /\ pc[r] = "insert"
  /\ made' = made \cup {r}
  /\ Goto(r, "ok")
  /\ UNCHANGED <<world, clock, draft, crashes, serial>>

(* The process stops and starts again: the handlers in flight are gone. *)
Crash ==
  /\ crashes < MaxCrashes
  /\ crashes' = crashes + 1
  /\ pc' = [r \in Requests |-> IF InFlight(r) THEN "lost" ELSE pc[r]]
  /\ UNCHANGED <<world, made, clock, draft, serial>>

Step(r) ==
  \/ CheckProject(r) \/ ReadModel(r)
  \/ ReadStatements(r) \/ ReadMappings(r) \/ ReadTiering(r)
  \/ ReadRegulatory(r) \/ ReadManifest(r)
  \/ ReadCorpus(r) \/ PinCorpus(r)
  \/ ReadParent(r) \/ Stamp(r) \/ Insert(r)

World == FreezeModel \/ UploadCRI \/ PublishKB \/ DeleteProject

Next == World \/ Crash \/ \E r \in Requests : Send(r) \/ Step(r)

Spec == Init /\ [][Next]_vars

-----------------------------------------------------------------------------
(* Properties *)

(* Types. *)
TypeOK ==
  /\ project \in BOOLEAN
  /\ model \in 0..MaxModel
  /\ cri \in Profiles \cup {None}
  /\ kb \in 0..MaxKB
  /\ made \subseteq Requests
  /\ clock \in Nat
  /\ pc \in [Requests -> {"idle"} \cup Working \cup Answered]
  /\ draft \in [Requests -> Rows]
  /\ crashes \in 0..MaxCrashes
  /\ serial \in BOOLEAN

(* A revision's parent was committed before the revision was built: the    *)
(* diff of a revision always finds its parent, and the parent links cannot *)
(* form a cycle, however many requests run at once and whenever the server *)
(* stops.                                                                  *)
ParentResolves ==
  \A r \in made : draft[r].parent # None =>
    /\ draft[r].parent \in made
    /\ draft[draft[r].parent].at < draft[r].at

(* What a revision records of its inputs is never older than what it was   *)
(* computed with: the pinned corpus is the one used or one published       *)
(* later, and a revision that used a CRI profile is pinned to one.         *)
PinsNotOlder ==
  \A r \in made :
    /\ draft[r].kbUsed <= draft[r].kbPin
    /\ draft[r].kbPin <= kb
    /\ \A read \in CRIReads : draft[r].used[read] # None => draft[r].used["manifest"] # None

(* When clients take turns, the revisions form one chain: one root, no     *)
(* revision with two children, and neither the system model nor the corpus *)
(* goes back along it.                                                     *)
LinearChain ==
  serial => \A r, q \in made :
    /\ r # q => draft[r].parent # draft[q].parent
    /\ draft[r].parent = q =>
         /\ draft[q].model <= draft[r].model
         /\ draft[q].kbPin <= draft[r].kbPin

(* "every run pins one specific snapshot, so results are always            *)
(* attributable to exactly which corpus version produced them"             *)
(* (README.md:95-96).                                                      *)
CorpusAttributed == \A r \in made : draft[r].kbUsed = draft[r].kbPin

(* When clients take turns, a revision is computed from one corpus and one *)
(* CRI profile, those it records.                                          *)
Attributable ==
  serial => /\ CorpusAttributed
            /\ \A r \in made : \A read \in CRIReads :
                 draft[r].used[read] = draft[r].used["manifest"]

(* An intel revision "inherits the parent's system model, pins the same    *)
(* KB/CRI snapshots (so any change is attributable to intel alone)"        *)
(* (README.md:252-253).                                                    *)
IntelInherits ==
  \A r \in made \cap Intel : draft[r].parent # None =>
    /\ draft[r].model = draft[draft[r].parent].model
    /\ draft[r].kbPin = draft[draft[r].parent].kbPin
    /\ draft[r].used["manifest"] = draft[draft[r].parent].used["manifest"]
=============================================================================
