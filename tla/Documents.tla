----------------------------- MODULE Documents -----------------------------
(***************************************************************************)
(* Uploads of design documents (services/project_service.py,               *)
(* api/projects.py) behind the limit on request bodies                     *)
(* (api/body_size_limit.py), with a project that may be deleted meanwhile, *)
(* stops of the process, and backups taken and restored while it is        *)
(* stopped (services/backup.py).  Sizes are in small units; each chunk of  *)
(* a body and each read of a file is an await.                             *)
(***************************************************************************)
EXTENDS Naturals, FiniteSets

CONSTANTS
  DocumentUploads, \* requests
  FileOf,       \* the file name of each: digest and extension of its content
  SizeOf,
  Declared,     \* the requests that carry a content-length
  Unreadable,   \* those whose type or content is refused
  MaxBody,      \* max_request_body_bytes
  MaxUpload,    \* max_upload_bytes
  ChunkSize,    \* the largest chunk
  MaxServerStops \* bound: stops of the process

ASSUME DocumentsAssumption ==
  /\ DOMAIN FileOf = DocumentUploads /\ SizeOf \in [DocumentUploads -> Nat]
  /\ Declared \subseteq DocumentUploads /\ Unreadable \subseteq DocumentUploads
  /\ MaxBody \in Nat /\ MaxUpload \in Nat /\ ChunkSize \in Nat \ {0} /\ MaxServerStops \in Nat

VARIABLES
  up,           \* the server runs
  phase,        \* where each upload is
  body,         \* bytes of its body received
  got,          \* bytes of the file read by the handler
  project,      \* the project's row exists
  deleting,     \* the documents a deletion has loaded: none, or one set
  files,        \* documents directory: name -> "whole" or "torn"
  rows,         \* design_documents, by the upload that made them
  archive,      \* the last backup
  serverStops

documentVars == <<up, phase, body, got, project, deleting, files, rows, archive, serverStops>>

DocumentsInit ==
  /\ up = TRUE /\ project = TRUE /\ deleting = {} /\ serverStops = 0
  /\ phase = [u \in DocumentUploads |-> "idle"]
  /\ body = [u \in DocumentUploads |-> 0] /\ got = [u \in DocumentUploads |-> 0]
  /\ files = <<>> /\ rows = {}
  /\ archive = [files |-> <<>>, rows |-> {}, project |-> FALSE]

Step(u, s) == phase' = [phase EXCEPT ![u] = s]
Stored(f, state) == [x \in DOMAIN files \cup {f} |-> IF x = f THEN state ELSE files[x]]
Writing == \E u \in DocumentUploads : phase[u] = "write"

-----------------------------------------------------------------------------

(* A declared length above the limit is refused before anything is read. *)
SendUpload(u) ==
  /\ up /\ phase[u] = "idle"
  /\ Step(u, IF u \in Declared /\ SizeOf[u] > MaxBody THEN "413" ELSE "body")
  /\ UNCHANGED <<up, body, got, project, deleting, files, rows, archive, serverStops>>

(* A programming error: only what is declared is compared. *)
BugTrustsHeader(u) ==
  /\ up /\ phase[u] = "body" /\ ~Writing
  /\ \E n \in 1..ChunkSize :
       /\ body[u] + n =< SizeOf[u]
       /\ body' = [body EXCEPT ![u] = @ + n]
  /\ UNCHANGED <<up, phase, got, project, deleting, files, rows, archive, serverStops>>

(* limited_receive: the chunk is counted, then compared. *)
Receive(u) ==
  /\ up /\ phase[u] = "body" /\ ~Writing
  /\ \E n \in 1..ChunkSize :
       /\ body[u] + n =< SizeOf[u]
       /\ body' = [body EXCEPT ![u] = @ + n]
       /\ IF body'[u] > MaxBody THEN Step(u, "413") ELSE UNCHANGED phase
  /\ UNCHANGED <<up, got, project, deleting, files, rows, archive, serverStops>>

BodyReceived(u) ==
  /\ up /\ phase[u] = "body" /\ body[u] = SizeOf[u]
  /\ Step(u, "handler")
  /\ UNCHANGED <<up, body, got, project, deleting, files, rows, archive, serverStops>>

(* read_upload_within_limit: a whole chunk at a time, up to the end. *)
ReadUpload(u) ==
  LET n == IF SizeOf[u] - got[u] < ChunkSize THEN SizeOf[u] - got[u] ELSE ChunkSize IN
  /\ up /\ phase[u] = "handler" /\ ~Writing
  /\ got' = [got EXCEPT ![u] = @ + n]
  /\ IF n = 0 THEN Step(u, "read")
     ELSE IF got'[u] > MaxUpload THEN Step(u, "422") ELSE UNCHANGED phase
  /\ UNCHANGED <<up, body, project, deleting, files, rows, archive, serverStops>>

FindProject(u) ==
  /\ up /\ phase[u] = "read" /\ ~Writing
  /\ Step(u, IF project THEN "validate" ELSE "404")
  /\ UNCHANGED <<up, body, got, project, deleting, files, rows, archive, serverStops>>

(* A programming error: the row is committed before the file is opened. *)
BugRowFirst(u) ==
  /\ up /\ phase[u] = "validate" /\ ~Writing
  /\ Step(u, "write")
  /\ rows' = rows \cup {u}
  /\ UNCHANGED <<up, body, got, project, deleting, files, archive, serverStops>>

(* validate_upload and extract_text come before anything is written; then  *)
(* the file is opened, which truncates one of the same name.               *)
Validate(u) ==
  /\ up /\ phase[u] = "validate" /\ ~Writing
  /\ IF SizeOf[u] = 0 \/ SizeOf[u] > MaxUpload \/ u \in Unreadable
     THEN Step(u, "422") /\ UNCHANGED files
     ELSE Step(u, "write") /\ files' = Stored(FileOf[u], "torn")
  /\ UNCHANGED <<up, body, got, project, deleting, rows, archive, serverStops>>

WriteFile(u) ==
  /\ up /\ phase[u] = "write"
  /\ files' = Stored(FileOf[u], "whole")
  /\ Step(u, "insert")
  /\ UNCHANGED <<up, body, got, project, deleting, rows, archive, serverStops>>

(* The project is not looked up again, and the database does not enforce   *)
(* the foreign key: a row may outlive its project.                         *)
InsertDocument(u) ==
  /\ up /\ phase[u] = "insert" /\ ~Writing
  /\ rows' = rows \cup {u}
  /\ Step(u, "done")
  /\ UNCHANGED <<up, body, got, project, deleting, files, archive, serverStops>>

(* delete_project loads the project with its documents ... *)
LoadForDeletion ==
  /\ up /\ project /\ deleting = {} /\ ~Writing
  /\ deleting' = {rows}
  /\ UNCHANGED <<up, phase, body, got, project, files, rows, archive, serverStops>>

(* ... and deletes exactly those rows.  The files stay. *)
DeleteProject ==
  /\ up /\ ~Writing
  /\ \E loaded \in deleting : rows' = rows \ loaded
  /\ project' = FALSE /\ deleting' = {}
  /\ UNCHANGED <<up, phase, body, got, files, archive, serverStops>>

StopServer ==
  /\ up /\ serverStops < MaxServerStops
  /\ up' = FALSE /\ serverStops' = serverStops + 1 /\ deleting' = {}
  /\ phase' = [u \in DocumentUploads |->
       IF phase[u] \in {"idle", "done", "404", "413", "422"} THEN phase[u] ELSE "lost"]
  /\ UNCHANGED <<body, got, project, files, rows, archive>>

StartServer ==
  /\ ~up /\ up' = TRUE
  /\ UNCHANGED <<phase, body, got, project, deleting, files, rows, archive, serverStops>>

(* create_backup: the data directory, then the database, with the server   *)
(* stopped as the module's documentation asks.                             *)
CreateBackup ==
  /\ ~up
  /\ archive' = [files |-> files, rows |-> rows, project |-> project]
  /\ UNCHANGED <<up, phase, body, got, project, deleting, files, rows, serverStops>>

(* restore_backup extracts over what is there: the database is replaced,   *)
(* files that are not in the archive stay.                                 *)
RestoreBackup ==
  /\ ~up /\ archive.project
  /\ files' = [f \in DOMAIN files \cup DOMAIN archive.files |->
                 IF f \in DOMAIN archive.files THEN archive.files[f] ELSE files[f]]
  /\ rows' = archive.rows /\ project' = archive.project
  /\ UNCHANGED <<up, phase, body, got, deleting, archive, serverStops>>

DocumentsNext ==
  \/ \E u \in DocumentUploads :
       \/ SendUpload(u) \/ Receive(u) \/ BodyReceived(u) \/ ReadUpload(u)
       \/ FindProject(u) \/ Validate(u) \/ WriteFile(u) \/ InsertDocument(u)
  \/ LoadForDeletion \/ DeleteProject
  \/ StopServer \/ StartServer \/ CreateBackup \/ RestoreBackup
DocumentsSpec == DocumentsInit /\ [][DocumentsNext]_documentVars

-----------------------------------------------------------------------------

(* A body is refused as soon as it is over the limit and never otherwise:  *)
(* at no time is more than one chunk over it held, whatever the client     *)
(* declared, and no handler ever sees a larger one.                        *)
BodyWithinLimit ==
  \A u \in DocumentUploads :
    /\ body[u] =< MaxBody + ChunkSize
    /\ got[u] =< MaxUpload + ChunkSize
    /\ phase[u] = "413" => SizeOf[u] > MaxBody
    /\ phase[u] \notin {"idle", "body", "413", "lost"} => body[u] = SizeOf[u] /\ body[u] =< MaxBody

(* Every document row, also after a restore, has its file on disk, of a    *)
(* size that is allowed.  The file may be torn only when a stop came while *)
(* the same content was uploaded again; a refused upload leaves neither.   *)
DocumentsBacked ==
  /\ \A u \in rows :
       /\ FileOf[u] \in DOMAIN files
       /\ SizeOf[u] \in 1..MaxUpload /\ u \notin Unreadable
       /\ files[FileOf[u]] = "torn" =>
            serverStops > 0 \/ \E v \in DocumentUploads : phase[v] = "write" /\ FileOf[v] = FileOf[u]
  /\ \A f \in DOMAIN files :
       \E u \in DocumentUploads : FileOf[u] = f /\ phase[u] \in {"write", "insert", "done", "lost"}
=============================================================================
