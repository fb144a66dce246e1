---------------------------- MODULE ProfileStore ----------------------------
(***************************************************************************)
(* The CRI profiles on disk.  A profile's directory is named by its        *)
(* catalogue and shared by all projects that uploaded it; next to the      *)
(* catalogue it holds the mappings inferred against the knowledge base of  *)
(* the moment and a manifest that names (pins) it.  When the catalogue is  *)
(* uploaded again and the knowledge base is another one, the two files are *)
(* rewritten in place.                                                     *)
(*                                                                         *)
(* An upload runs on the event loop: from the read of the latest snapshot  *)
(* to the commit of the project row no other upload runs, but refresh      *)
(* threads do, and the process may stop between any two writes, with a     *)
(* file truncated.                                                         *)
(***************************************************************************)
EXTENDS KnowledgeBase

CONSTANTS
  Uploads,      \* requests to upload a workbook
  CatalogOf,    \* the catalogue in each
  Torn,         \* a file that was truncated and not yet written
  MaxStops

ASSUME ProfileAssumption ==
  /\ DOMAIN CatalogOf = Uploads
  /\ Torn \notin Range(ContentHash) \cup {NoSnapshot}
  /\ MaxStops \in Nat

VARIABLES
  upload,       \* where each upload is
  against,      \* the knowledge base it has picked
  mappings,     \* inferred_mappings.json: catalogue -> hash of its knowledge base
  pin,          \* manifest.json: catalogue -> kb_content_hash
  answer,       \* what the manifest said when the upload was answered
  stops

profiles == <<upload, against, mappings, pin, answer, stops>>
storeVars == <<kb, profiles>>

(* The steps of the part of an upload that does not await. *)
Running == {"pick", "check", "truncated", "mapped", "cut"}
LoopFree == \A u \in Uploads : upload[u] \notin Running

ProfilesInit ==
  /\ upload = [u \in Uploads |-> "idle"]
  /\ against = [u \in Uploads |-> NoSnapshot]
  /\ mappings = <<>> /\ pin = <<>>
  /\ answer = [u \in Uploads |-> <<>>]
  /\ stops = 0

Put(file, c, k) == [x \in DOMAIN file \cup {c} |-> IF x = c THEN k ELSE file[x]]
Go(u, s) == upload' = [upload EXCEPT ![u] = s]

-----------------------------------------------------------------------------

(* _get_project: the upload goes on after an await. *)
StartUpload(u) ==
  /\ upload[u] = "idle" /\ LoopFree
  /\ Go(u, "pick")
  /\ UNCHANGED <<kb, against, mappings, pin, answer, stops>>

(* A programming error: the latest snapshot is the one renamed last. *)
BugPicksAny(u) ==
  /\ upload[u] = "pick"
  /\ \E h \in DOMAIN snapshots : against' = [against EXCEPT ![u] = h]
  /\ Go(u, "check")
  /\ UNCHANGED <<kb, mappings, pin, answer, stops>>

PickLatest(u) ==
  /\ upload[u] = "pick"
  /\ against' = [against EXCEPT ![u] = Latest]
  /\ Go(u, "check")
  /\ UNCHANGED <<kb, mappings, pin, answer, stops>>

(* The mappings are inferred from the techniques of the picked directory.  *)
(* A catalogue that is not on disk is written aside and renamed.           *)
PublishProfile(u) ==
  LET c == CatalogOf[u] IN
  /\ upload[u] = "check" /\ c \notin DOMAIN pin
  /\ mappings' = Put(mappings, c, against[u])
  /\ pin' = Put(pin, c, against[u])
  /\ Go(u, "commit")
  /\ UNCHANGED <<kb, against, answer, stops>>

(* IF the manifest pins the same knowledge base THEN a no-op. *)
AlreadyThere(u) ==
  /\ upload[u] = "check" /\ CatalogOf[u] \in DOMAIN pin
  /\ pin[CatalogOf[u]] = against[u]
  /\ Go(u, "commit")
  /\ UNCHANGED <<kb, against, mappings, pin, answer, stops>>

(* A manifest that a stop left truncated cannot be read: the upload fails, *)
(* now and whenever the same workbook is uploaded again.                   *)
ManifestUnreadable(u) ==
  /\ upload[u] = "check" /\ CatalogOf[u] \in DOMAIN pin
  /\ pin[CatalogOf[u]] = Torn
  /\ Go(u, "failed")
  /\ UNCHANGED <<kb, against, mappings, pin, answer, stops>>

TruncateMappings(u) ==
  LET c == CatalogOf[u] IN
  /\ upload[u] = "check" /\ c \in DOMAIN pin
  /\ pin[c] \notin {Torn, against[u]}
  /\ mappings' = Put(mappings, c, Torn)
  /\ Go(u, "truncated")
  /\ UNCHANGED <<kb, against, pin, answer, stops>>

WriteMappings(u) ==
  /\ upload[u] = "truncated"
  /\ mappings' = Put(mappings, CatalogOf[u], against[u])
  /\ Go(u, "mapped")
  /\ UNCHANGED <<kb, against, pin, answer, stops>>

TruncateManifest(u) ==
  /\ upload[u] = "mapped"
  /\ pin' = Put(pin, CatalogOf[u], Torn)
  /\ Go(u, "cut")
  /\ UNCHANGED <<kb, against, mappings, answer, stops>>

WriteManifest(u) ==
  /\ upload[u] = "cut"
  /\ pin' = Put(pin, CatalogOf[u], against[u])
  /\ Go(u, "commit")
  /\ UNCHANGED <<kb, against, mappings, answer, stops>>

(* The project row is committed in an await, so other uploads run ... *)
CommitProject(u) ==
  /\ upload[u] = "commit" /\ LoopFree
  /\ Go(u, "answer")
  /\ UNCHANGED <<kb, against, mappings, pin, answer, stops>>

(* ... and the manifest in the answer is read after it. *)
AnswerUpload(u) ==
  LET c == CatalogOf[u] IN
  /\ upload[u] = "answer" /\ LoopFree
  /\ answer' = [answer EXCEPT ![u] = <<pin[c], mappings[c]>>]
  /\ Go(u, "done")
  /\ UNCHANGED <<kb, against, mappings, pin, stops>>

Stop ==
  /\ stops < MaxStops
  /\ stops' = stops + 1
  /\ RefreshesLost
  /\ upload' = [u \in Uploads |-> IF upload[u] \in {"idle", "done"} THEN upload[u] ELSE "failed"]
  /\ UNCHANGED <<against, mappings, pin, answer>>

UploadStep(u) ==
  \/ PickLatest(u) \/ PublishProfile(u) \/ AlreadyThere(u) \/ ManifestUnreadable(u)
  \/ TruncateMappings(u) \/ WriteMappings(u) \/ TruncateManifest(u) \/ WriteManifest(u)
  \/ CommitProject(u) \/ AnswerUpload(u)

StoreInit == KBInit /\ ProfilesInit
StoreNext ==
  \/ KBNext /\ UNCHANGED profiles
  \/ \E u \in Uploads : StartUpload(u) \/ UploadStep(u)
  \/ Stop
StoreSpec == StoreInit /\ [][StoreNext]_storeVars

-----------------------------------------------------------------------------

Whole(c) == pin[c] # Torn /\ mappings[c] # Torn

(* How old a knowledge base is; none at all is older than any. *)
Age(h) == IF h = NoSnapshot THEN 0 ELSE snapshots[h].at

(* An answered upload pins the knowledge base its mappings were inferred   *)
(* from.  Between the writes, and after a stop between them, the mappings  *)
(* on disk may be ahead of the pin but never behind it, so the next upload *)
(* sees a pin that is not the latest and rewrites them.                    *)
UploadsAnswerTheirPin ==
  /\ \A u \in Uploads : upload[u] = "done" => answer[u][1] = answer[u][2] /\ answer[u][1] # Torn
  /\ \A c \in DOMAIN pin : Whole(c) => Age(pin[c]) =< Age(mappings[c])
=============================================================================
