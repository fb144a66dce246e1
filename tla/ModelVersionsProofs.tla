------------------------- MODULE ModelVersionsProofs -------------------------
(***************************************************************************)
(* What holds of the version store for every set of requests and elements, *)
(* any number of restarts, and clients that do or do not take turns.       *)
(***************************************************************************)
EXTENDS ModelVersions, FiniteSetTheorems, TLAPS

USE DEF Working, Answered, InFlight, Goto, tables, handlers

-----------------------------------------------------------------------------
(* The inductive invariant, in named parts. *)

(* The table holds the versions 1..n. *)
Numbered == \E n \in Nat : DOMAIN rows = 1..n

(* What a request holds between its reads and its INSERT: a base version   *)
(* that still exists, a draft made from it, and a number that is at most   *)
(* one more than the latest version (it may be stale, never ahead).        *)
DraftsRooted ==
  \A r \in Requests :
    /\ pc[r] \in {"number", "persist"} =>
         /\ base[r] # 0 => base[r] \in DOMAIN rows
         /\ r \in Edits =>
              /\ base[r] \in DOMAIN rows
              /\ draft[r] = ApplyEdits(rows[base[r]].model, r, touched[r])
    /\ pc[r] = "persist" =>
         /\ base[r] < number[r]
         /\ number[r] > 1 => number[r] - 1 \in DOMAIN rows

(* The author of a version has been sent, so its body is fixed. *)
AuthorsSent == \A v \in DOMAIN rows : pc[rows[v].author] # "idle"

(* A version whose audit entry is still to be written has none yet. *)
AuditPending ==
  \A r \in Requests : pc[r] = "audit" =>
    \A i \in DOMAIN audit : audit[i].version # number[r]

IInv ==
  /\ TypeOK
  /\ Numbered
  /\ ParentPrecedes
  /\ DraftsRooted
  /\ AuthorsSent
  /\ EditExtendsParent
  /\ AnsweredVersionIsOwn
  /\ AuditPending
  /\ AuditTruthful

-----------------------------------------------------------------------------

(* The largest element of 1..n is n (used for _latest_row and              *)
(* _next_version_number).                                                  *)
LEMMA MaxInterval == \A n \in Nat : n # 0 => Max(1..n) = n
BY DEF Max

(* The latest version and the next number, for a table of versions 1..n. *)
LEMMA LatestOfInterval ==
  ASSUME NEW n \in Nat, DOMAIN rows = 1..n
  PROVE  Latest = n /\ NextVersion = n + 1
<1>1. CASE n = 0
  BY <1>1 DEF Latest, NextVersion
<1>2. CASE n # 0
  <2>1. n \in DOMAIN rows
    BY <1>2
  <2>2. Max(DOMAIN rows) = n
    BY <1>2, MaxInterval
  <2> QED  BY <2>1, <2>2 DEF Latest, NextVersion
<1> QED  BY <1>1, <1>2

(* Reading the table yields natural numbers, and the latest version, if    *)
(* there is one, exists.                                                   *)
LEMMA LatestExists ==
  ASSUME Numbered
  PROVE  /\ Latest \in Nat /\ NextVersion \in Nat
         /\ Latest # 0 => Latest \in DOMAIN rows
         /\ NextVersion = Latest + 1
         /\ \A v \in DOMAIN rows : v \in Nat /\ v < NextVersion
<1>1. PICK n \in Nat : DOMAIN rows = 1..n
  BY DEF Numbered
<1> QED  BY <1>1, LatestOfInterval

(* ApplyEdits keeps a model a model. *)
LEMMA ApplyEditsType ==
  ASSUME NEW m \in Models, NEW r \in Edits, NEW ids \in SUBSET Elements
  PROVE  ApplyEdits(m, r, ids) \in Models
BY DEF ApplyEdits, Models

(* A successful INSERT adds one row and leaves the others. *)
LEMMA InsertAddsRow ==
  ASSUME NEW n, NEW row, Insert(n, row), n \notin DOMAIN rows
  PROVE  /\ DOMAIN rows' = DOMAIN rows \cup {n}
         /\ rows'[n] = row
         /\ \A v \in DOMAIN rows : rows'[v] = rows[v]
BY DEF Insert

-----------------------------------------------------------------------------

LEMMA TypeInit == Init => TypeOK
BY CrashesAssumption DEF Init, TypeOK, NoModel, Models

LEMMA TypeNext == TypeOK /\ Numbered /\ [Next]_vars => TypeOK'
<1> SUFFICES ASSUME TypeOK, Numbered, [Next]_vars
             PROVE  TypeOK'
  OBVIOUS
<1> USE DEF TypeOK
<1>1. ASSUME NEW r \in Requests, Send(r) PROVE TypeOK'
  BY <1>1 DEF Send
<1>2. ASSUME NEW r \in Requests, CheckProject(r) PROVE TypeOK'
  BY <1>2 DEF CheckProject
<1>3. ASSUME NEW r \in Requests, GetProject(r) PROVE TypeOK'
  <2>1. \A S \in SUBSET Elements :
          [e \in Elements |-> IF e \in S THEN "agent" ELSE "absent"] \in Models
    BY DEF Models
  <2>2. draft' \in [Requests -> Models]
    BY <1>3, <2>1 DEF GetProject
  <2>3. pc' \in [Requests -> {"idle"} \cup Working \cup Answered]
    BY <1>3 DEF GetProject
  <2> QED  BY <1>3, <2>2, <2>3 DEF GetProject
<1>4. ASSUME NEW r \in Requests, ReadLatest(r) PROVE TypeOK'
  <2>1. base' \in [Requests -> Nat]
    BY <1>4, LatestExists DEF ReadLatest
  <2>3. pc' \in [Requests -> {"idle"} \cup Working \cup Answered]
    BY <1>4 DEF ReadLatest
  <2>2. draft' \in [Requests -> Models]
    <3>1. CASE draft' = draft
      BY <3>1
    <3>2. CASE r \in Edits /\ Latest # 0 /\
               draft' = [draft EXCEPT ![r] =
                           ApplyEdits(rows[Latest].model, r, touched[r])]
      <4>1. rows[Latest].model \in Models
        BY <3>2, LatestExists DEF RowType
      <4>2. ApplyEdits(rows[Latest].model, r, touched[r]) \in Models
        BY <3>2, <4>1, ApplyEditsType
      <4> QED  BY <3>2, <4>2
    <3> QED  BY <1>4, <3>1, <3>2 DEF ReadLatest
  <2> QED  BY <1>4, <2>1, <2>2, <2>3 DEF ReadLatest
<1>5. ASSUME NEW r \in Requests, ReadNumber(r) PROVE TypeOK'
  BY <1>5, LatestExists DEF ReadNumber
<1>6. ASSUME NEW r \in Requests, Persist(r) PROVE TypeOK'
  <2> DEFINE row == [parent |-> base[r], model |-> draft[r], author |-> r]
  <2>1. row \in RowType
    BY DEF RowType
  <2> HIDE DEF row
  <2>2. CASE number[r] \in DOMAIN rows
    BY <1>6, <2>2 DEF Persist
  <2>3. CASE number[r] \notin DOMAIN rows
    <3>1. Insert(number[r], row)
      BY <1>6, <2>3 DEF Persist, row
    <3>2. /\ DOMAIN rows' = DOMAIN rows \cup {number[r]}
          /\ rows'[number[r]] = row
          /\ \A v \in DOMAIN rows : rows'[v] = rows[v]
      BY <2>3, <3>1, InsertAddsRow
    <3>3. pc' \in [Requests -> {"idle"} \cup Working \cup Answered]
      BY <1>6 DEF Persist
    <3>4. UNCHANGED <<project, audit, touched, base, draft, number, crashes, serial>>
      BY <1>6 DEF Persist
    <3> QED  BY <2>1, <3>2, <3>3, <3>4
  <2> QED  BY <2>2, <2>3
<1>7. ASSUME NEW r \in Requests, RecordAudit(r) PROVE TypeOK'
  BY <1>7 DEF RecordAudit
<1>8. CASE DeleteProject
  BY <1>8 DEF DeleteProject
<1>9. CASE Crash
  BY <1>9, CrashesAssumption DEF Crash
<1>10. CASE UNCHANGED vars
  BY <1>10 DEF vars
<1> QED  BY <1>1, <1>2, <1>3, <1>4, <1>5, <1>6, <1>7, <1>8, <1>9, <1>10 DEF Next, Step

-----------------------------------------------------------------------------
(* IInv is inductive.  First the actions that leave both tables alone: they *)
(* may only disturb the parts about requests.                               *)

QuietRequest(r) ==
  Send(r) \/ CheckProject(r) \/ GetProject(r) \/ ReadLatest(r) \/ ReadNumber(r)

(* Requests other than the one that moves keep all they hold. *)
LEMMA OthersKeep ==
  ASSUME TypeOK, NEW r \in Requests, Send(r) \/ Step(r)
  PROVE  \A q \in Requests \ {r} :
           /\ pc'[q] = pc[q] /\ touched'[q] = touched[q] /\ base'[q] = base[q]
           /\ draft'[q] = draft[q] /\ number'[q] = number[q]
<1> USE DEF TypeOK
<1>1. CASE Send(r)
  BY <1>1 DEF Send
<1>2. CASE CheckProject(r)
  BY <1>2 DEF CheckProject
<1>3. CASE GetProject(r)
  BY <1>3 DEF GetProject
<1>4. CASE ReadLatest(r)
  BY <1>4 DEF ReadLatest
<1>5. CASE ReadNumber(r)
  BY <1>5 DEF ReadNumber
<1>6. CASE Persist(r)
  BY <1>6 DEF Persist
<1>7. CASE RecordAudit(r)
  BY <1>7 DEF RecordAudit
<1> QED  BY <1>1, <1>2, <1>3, <1>4, <1>5, <1>6, <1>7 DEF Step

(* What the request that moves holds after a read. *)
LEMMA QuietMover ==
  ASSUME IInv, NEW r \in Requests, QuietRequest(r)
  PROVE  /\ pc'[r] \notin {"idle", "audit", "ok"}
         /\ rows' = rows /\ audit' = audit
         /\ pc[r] = "idle" \/ touched'[r] = touched[r]
         /\ pc'[r] \in {"number", "persist"} =>
              /\ base'[r] # 0 => base'[r] \in DOMAIN rows
              /\ r \in Edits =>
                   /\ base'[r] \in DOMAIN rows
                   /\ draft'[r] = ApplyEdits(rows[base'[r]].model, r, touched'[r])
         /\ pc'[r] = "persist" =>
              /\ base'[r] < number'[r]
              /\ number'[r] > 1 => number'[r] - 1 \in DOMAIN rows
<1> USE DEF IInv, TypeOK
<1>1. CASE Send(r)
  BY <1>1 DEF Send
<1>2. CASE CheckProject(r)
  BY <1>2 DEF CheckProject
<1>3. CASE GetProject(r)
  BY <1>3 DEF GetProject
<1>4. CASE ReadLatest(r)
  <2>1. base'[r] = Latest /\ (Latest # 0 => Latest \in DOMAIN rows)
    BY <1>4, LatestExists DEF ReadLatest
  <2>2. pc'[r] # "persist" /\ pc'[r] \notin {"idle", "audit", "ok"}
    BY <1>4 DEF ReadLatest
  <2>3. touched'[r] = touched[r] /\ rows' = rows /\ audit' = audit
    BY <1>4 DEF ReadLatest
  <2>4. pc'[r] = "number" /\ r \in Edits =>
          /\ Latest # 0
          /\ draft'[r] = ApplyEdits(rows[Latest].model, r, touched[r])
    BY <1>4 DEF ReadLatest
  <2> QED  BY <2>1, <2>2, <2>3, <2>4
<1>5. CASE ReadNumber(r)
  <2>1. /\ pc[r] = "number" /\ pc'[r] = "persist"
        /\ base'[r] = base[r] /\ draft'[r] = draft[r] /\ touched'[r] = touched[r]
        /\ number'[r] = NextVersion /\ rows' = rows /\ audit' = audit
    BY <1>5 DEF ReadNumber
  <2>2. base[r] < NextVersion
    <3>1. NextVersion > 0
      BY LatestExists
    <3> QED  BY <2>1, <3>1, LatestExists DEF DraftsRooted
  <2>3. NextVersion > 1 => NextVersion - 1 \in DOMAIN rows
    BY LatestExists
  <2> QED  BY <2>1, <2>2, <2>3 DEF DraftsRooted
<1> QED  BY <1>1, <1>2, <1>3, <1>4, <1>5 DEF QuietRequest

LEMMA QuietStep ==
  ASSUME IInv, NEW r \in Requests, QuietRequest(r), TypeOK'
  PROVE  IInv'
<1>1. \A q \in Requests \ {r} :
        /\ pc'[q] = pc[q] /\ touched'[q] = touched[q] /\ base'[q] = base[q]
        /\ draft'[q] = draft[q] /\ number'[q] = number[q]
  BY OthersKeep DEF IInv, QuietRequest, Step
<1>2. rows' = rows /\ audit' = audit
  BY QuietMover
<1>3. Numbered' /\ ParentPrecedes' /\ AuditTruthful'
  BY <1>2 DEF IInv, Numbered, ParentPrecedes, AuditTruthful
<1>4. DraftsRooted'
  BY <1>1, <1>2, QuietMover DEF IInv, DraftsRooted
<1>5. AuthorsSent'
  BY <1>1, <1>2, QuietMover DEF IInv, TypeOK, RowType, AuthorsSent
<1>6. \A v \in DOMAIN rows : touched'[rows[v].author] = touched[rows[v].author]
  BY <1>1, QuietMover DEF IInv, TypeOK, RowType, AuthorsSent
<1>7. EditExtendsParent'
  BY <1>2, <1>6 DEF IInv, EditExtendsParent
<1>8. AnsweredVersionIsOwn'
  BY <1>1, <1>2, QuietMover DEF IInv, AnsweredVersionIsOwn
<1>9. AuditPending'
  BY <1>1, <1>2, QuietMover DEF IInv, AuditPending
<1> QED  BY <1>3, <1>4, <1>5, <1>7, <1>8, <1>9 DEF IInv

-----------------------------------------------------------------------------
(* A successful _persist: the number is the first free one, and the new    *)
(* row is rooted in a version that exists.                                 *)

LEMMA PersistFacts ==
  ASSUME TypeOK, NEW r \in Requests, Persist(r), number[r] \notin DOMAIN rows
  PROVE  /\ DOMAIN rows' = DOMAIN rows \cup {number[r]}
         /\ rows'[number[r]] = [parent |-> base[r], model |-> draft[r], author |-> r]
         /\ \A v \in DOMAIN rows : rows'[v] = rows[v]
         /\ pc[r] = "persist" /\ pc'[r] = "audit"
         /\ UNCHANGED <<project, audit, touched, base, draft, number, crashes>>
<1> DEFINE row == [parent |-> base[r], model |-> draft[r], author |-> r]
<1>1. Insert(number[r], row)
  BY DEF Persist
<1>2. pc[r] = "persist" /\ pc'[r] = "audit"
  BY DEF Persist, TypeOK
<1>3. UNCHANGED <<project, audit, touched, base, draft, number, crashes>>
  BY DEF Persist
<1> HIDE DEF row
<1>4. /\ DOMAIN rows' = DOMAIN rows \cup {number[r]}
      /\ rows'[number[r]] = row
      /\ \A v \in DOMAIN rows : rows'[v] = rows[v]
  BY <1>1, InsertAddsRow
<1> QED  BY <1>2, <1>3, <1>4 DEF row

LEMMA PersistNumbered ==
  ASSUME IInv, NEW r \in Requests, Persist(r), number[r] \notin DOMAIN rows
  PROVE  \E n \in Nat : DOMAIN rows = 1..n /\ number[r] = n + 1
<1>1. PICK n \in Nat : DOMAIN rows = 1..n
  BY DEF IInv, Numbered
<1>2. pc[r] = "persist"
  BY DEF Persist
<1>3. /\ number[r] \in Nat /\ base[r] \in Nat /\ base[r] < number[r]
      /\ number[r] > 1 => number[r] - 1 \in 1..n
  BY <1>1, <1>2 DEF IInv, TypeOK, DraftsRooted
<1>4. number[r] = n + 1
  BY <1>1, <1>3
<1> QED  BY <1>1, <1>4

LEMMA PersistStep ==
  ASSUME IInv, NEW r \in Requests, Persist(r), TypeOK'
  PROVE  IInv'
<1>1. \A q \in Requests \ {r} :
        /\ pc'[q] = pc[q] /\ touched'[q] = touched[q] /\ base'[q] = base[q]
        /\ draft'[q] = draft[q] /\ number'[q] = number[q]
  BY OthersKeep DEF IInv, Step
<1>2. CASE number[r] \in DOMAIN rows
  <2>1. /\ pc[r] = "persist" /\ pc'[r] = "failed"
        /\ UNCHANGED <<project, rows, audit, touched, base, draft, number, crashes>>
    BY <1>2 DEF Persist, IInv, TypeOK
  <2>2. Numbered' /\ ParentPrecedes' /\ EditExtendsParent' /\ AuditTruthful'
    BY <2>1 DEF IInv, Numbered, ParentPrecedes, EditExtendsParent, AuditTruthful
  <2>3. DraftsRooted'
    BY <1>1, <2>1 DEF IInv, DraftsRooted
  <2>4. AuthorsSent' /\ AnsweredVersionIsOwn' /\ AuditPending'
    BY <1>1, <2>1 DEF IInv, TypeOK, RowType, AuthorsSent, AnsweredVersionIsOwn, AuditPending
  <2> QED  BY <2>2, <2>3, <2>4 DEF IInv
<1>3. CASE number[r] \notin DOMAIN rows
  <2>1. /\ DOMAIN rows' = DOMAIN rows \cup {number[r]}
        /\ rows'[number[r]] = [parent |-> base[r], model |-> draft[r], author |-> r]
        /\ \A v \in DOMAIN rows : rows'[v] = rows[v]
        /\ pc[r] = "persist" /\ pc'[r] = "audit"
        /\ UNCHANGED <<project, audit, touched, base, draft, number, crashes>>
    BY <1>3, PersistFacts DEF IInv
  <2>2. PICK n \in Nat : DOMAIN rows = 1..n /\ number[r] = n + 1
    BY <1>3, PersistNumbered
  <2>3. /\ base[r] < number[r]
        /\ base[r] # 0 => base[r] \in DOMAIN rows
        /\ r \in Edits => /\ base[r] \in DOMAIN rows
                          /\ draft[r] = ApplyEdits(rows[base[r]].model, r, touched[r])
    BY <2>1 DEF IInv, DraftsRooted
  <2>4. Numbered'
    <3>1. DOMAIN rows' = 1..(n + 1)
      BY <2>1, <2>2
    <3> QED  BY <3>1, <2>2 DEF Numbered
  <2>5. ParentPrecedes'
    BY <2>1, <2>3 DEF IInv, ParentPrecedes
  <2>6. DraftsRooted'
    BY <1>1, <2>1 DEF IInv, DraftsRooted
  <2>7. AuthorsSent'
    BY <1>1, <2>1 DEF IInv, AuthorsSent, TypeOK, RowType
  <2>8. EditExtendsParent'
    <3> SUFFICES ASSUME NEW v \in DOMAIN rows', rows'[v].author \in Edits
                 PROVE  /\ rows'[v].parent \in DOMAIN rows'
                        /\ rows'[v].model =
                             [e \in Elements |->
                               IF e \in touched'[rows'[v].author]
                                 THEN rows'[v].author
                                 ELSE rows'[rows'[v].parent].model[e]]
      BY DEF EditExtendsParent
    <3>1. CASE v \in DOMAIN rows
      <4> DEFINE par == rows[v].parent
      <4>1. rows'[v] = rows[v] /\ rows[v].author \in Edits /\ touched' = touched
        BY <2>1, <3>1
      <4>2. par \in DOMAIN rows /\
            rows[v].model = [e \in Elements |->
                               IF e \in touched[rows[v].author]
                                 THEN rows[v].author ELSE rows[par].model[e]]
        BY <3>1, <4>1 DEF IInv, EditExtendsParent
      <4>3. par \in DOMAIN rows' /\ rows'[par] = rows[par]
        BY <2>1, <4>2
      <4> QED  BY <4>1, <4>2, <4>3
    <3>2. CASE v = number[r]
      <4>1. r \in Edits /\ rows'[v].parent = base[r] /\ rows'[v].author = r
        BY <2>1, <3>2
      <4>2. base[r] \in DOMAIN rows' /\ rows'[base[r]] = rows[base[r]]
        BY <2>1, <2>3, <4>1
      <4>3. rows'[v].model = ApplyEdits(rows[base[r]].model, r, touched[r])
        BY <2>1, <2>3, <3>2, <4>1
      <4>4. touched'[r] = touched[r]
        BY <2>1
      <4> QED  BY <4>1, <4>2, <4>3, <4>4 DEF ApplyEdits
    <3> QED  BY <2>1, <3>1, <3>2
  <2>9. AnsweredVersionIsOwn'
    BY <1>1, <2>1 DEF IInv, AnsweredVersionIsOwn
  <2>10. AuditTruthful'
    BY <2>1 DEF IInv, AuditTruthful
  <2>11. AuditPending'
    BY <1>1, <1>3, <2>1 DEF IInv, AuditPending, AuditTruthful
  <2> QED  BY <2>4, <2>5, <2>6, <2>7, <2>8, <2>9, <2>10, <2>11 DEF IInv
<1> QED  BY <1>2, <1>3

LEMMA RecordAuditStep ==
  ASSUME IInv, NEW r \in Requests, RecordAudit(r), TypeOK'
  PROVE  IInv'
<1> DEFINE entry == [action  |-> IF r \in Edits THEN "model.edited" ELSE "model.frozen",
                     version |-> number[r]]
<1>1. \A q \in Requests \ {r} :
        /\ pc'[q] = pc[q] /\ touched'[q] = touched[q] /\ base'[q] = base[q]
        /\ draft'[q] = draft[q] /\ number'[q] = number[q]
  BY OthersKeep DEF IInv, Step
<1>2. /\ pc[r] = "audit" /\ pc'[r] = "ok"
      /\ UNCHANGED <<project, rows, touched, base, draft, number, crashes>>
  BY DEF RecordAudit, IInv, TypeOK
<1>3. Numbered' /\ ParentPrecedes'
  BY <1>2 DEF IInv, Numbered, ParentPrecedes
<1>11. EditExtendsParent'
  BY <1>2 DEF IInv, EditExtendsParent
<1>4. DraftsRooted' /\ AuthorsSent' /\ AnsweredVersionIsOwn'
  BY <1>1, <1>2 DEF IInv, DraftsRooted, AuthorsSent, AnsweredVersionIsOwn, TypeOK, RowType
<1>5. /\ DOMAIN audit' = DOMAIN audit \cup {Len(audit) + 1}
      /\ \A i \in DOMAIN audit : i # Len(audit) + 1 /\ audit'[i] = audit[i]
      /\ audit'[Len(audit) + 1] = entry
  <2>1. audit' = Append(audit, entry)
    BY DEF RecordAudit
  <2> DEFINE T == [action : {"model.edited", "model.frozen"}, version : Nat]
  <2>2. audit \in Seq(T)
    BY DEF IInv, TypeOK
  <2> HIDE DEF T, entry
  <2> QED  BY <2>1, <2>2
<1>6. number[r] \in DOMAIN rows /\ rows[number[r]].author = r
  BY <1>2 DEF IInv, AnsweredVersionIsOwn
<1>7. \A i \in DOMAIN audit : audit[i].version # number[r]
  BY <1>2 DEF IInv, AuditPending
<1>8. entry.version = number[r] /\ (entry.action = "model.edited" <=> r \in Edits)
  OBVIOUS
<1> HIDE DEF entry
<1>9. AuditTruthful'
  BY <1>2, <1>5, <1>6, <1>7, <1>8 DEF IInv, AuditTruthful
<1>10. AuditPending'
  <2> SUFFICES ASSUME NEW q \in Requests, pc'[q] = "audit", NEW i \in DOMAIN audit'
               PROVE  audit'[i].version # number'[q]
    BY DEF AuditPending
  <2>1. q # r /\ pc[q] = "audit" /\ number'[q] = number[q]
    BY <1>1, <1>2
  <2>2. number[q] # number[r]
    BY <1>6, <2>1 DEF IInv, AnsweredVersionIsOwn
  <2> QED  BY <1>5, <1>8, <2>1, <2>2 DEF IInv, AuditPending
<1> QED  BY <1>3, <1>4, <1>9, <1>10, <1>11 DEF IInv

LEMMA IInvInit == Init => IInv
<1> SUFFICES ASSUME Init PROVE IInv
  OBVIOUS
<1>1. TypeOK
  BY TypeInit
<1>2. DOMAIN rows = 1..0 /\ DOMAIN rows = {} /\ DOMAIN audit = {}
  BY DEF Init
<1>3. Numbered
  BY <1>2 DEF Numbered
<1>4. \A r \in Requests : pc[r] = "idle"
  BY DEF Init
<1> QED  BY <1>1, <1>2, <1>3, <1>4 DEF IInv, ParentPrecedes, DraftsRooted, AuthorsSent,
            EditExtendsParent, AnsweredVersionIsOwn, AuditPending, AuditTruthful

(* A step that leaves the tables and the handlers alone. *)
LEMMA FrameStep ==
  ASSUME IInv, TypeOK', UNCHANGED <<rows, audit, pc, touched, base, draft, number>>
  PROVE  IInv'
<1>1. Numbered' /\ ParentPrecedes' /\ AuthorsSent'
  BY DEF IInv, Numbered, ParentPrecedes, AuthorsSent
<1>2. DraftsRooted'
  BY DEF IInv, DraftsRooted, ApplyEdits
<1>3. EditExtendsParent'
  BY DEF IInv, EditExtendsParent
<1>4. AnsweredVersionIsOwn' /\ AuditPending' /\ AuditTruthful'
  BY DEF IInv, AnsweredVersionIsOwn, AuditPending, AuditTruthful
<1> QED  BY <1>1, <1>2, <1>3, <1>4 DEF IInv

LEMMA IInvNext == IInv /\ [Next]_vars => IInv'
<1> SUFFICES ASSUME IInv, [Next]_vars PROVE IInv'
  OBVIOUS
<1>1. TypeOK'
  BY TypeNext DEF IInv
<1>2. ASSUME NEW r \in Requests, Send(r) \/ Step(r) PROVE IInv'
  BY <1>1, <1>2, QuietStep, PersistStep, RecordAuditStep DEF Step, QuietRequest
<1>3. CASE DeleteProject
  BY <1>1, <1>3, FrameStep DEF DeleteProject
<1>4. CASE Crash
  <2>1. /\ UNCHANGED <<rows, audit, touched, base, draft, number>>
        /\ \A q \in Requests : pc'[q] = pc[q] \/ pc'[q] = "lost"
    BY <1>4 DEF Crash, IInv, TypeOK
  <2>2. Numbered' /\ ParentPrecedes' /\ AuditTruthful'
    BY <2>1 DEF IInv, Numbered, ParentPrecedes, AuditTruthful
  <2>6. EditExtendsParent'
    BY <2>1 DEF IInv, EditExtendsParent
  <2>3. DraftsRooted'
    BY <2>1 DEF IInv, DraftsRooted, ApplyEdits
  <2>4. AuthorsSent'
    BY <2>1 DEF IInv, AuthorsSent, TypeOK, RowType
  <2>5. AnsweredVersionIsOwn' /\ AuditPending'
    BY <2>1 DEF IInv, AnsweredVersionIsOwn, AuditPending
  <2> QED  BY <1>1, <2>2, <2>3, <2>4, <2>5, <2>6 DEF IInv
<1>5. CASE UNCHANGED vars
  BY <1>1, <1>5, FrameStep DEF vars
<1> QED  BY <1>2, <1>3, <1>4, <1>5 DEF Next

LEMMA IInvHolds == Spec => []IInv
BY IInvInit, IInvNext, PTL DEF Spec

-----------------------------------------------------------------------------
(* Type correctness of the version store. *)
THEOREM TypeCorrect == Spec => []TypeOK
<1>1. IInv => TypeOK
  BY DEF IInv
<1> QED  BY <1>1, IInvHolds, PTL

(* Under any interleaving of freezes and edits, and any restarts, versions *)
(* are numbered 1, 2, 3, ... and every parent is an earlier version.       *)
THEOREM VersionsWellFormed == Spec => []HistoryWellFormed
<1>1. IInv => HistoryWellFormed
  BY DEF IInv, Numbered, HistoryWellFormed, VersionsContiguous
<1> QED  BY <1>1, IInvHolds, PTL

(* An edited version is its recorded parent plus the edit. *)
THEOREM EditsExtendParents == Spec => []EditExtendsParent
<1>1. IInv => EditExtendsParent
  BY DEF IInv
<1> QED  BY <1>1, IInvHolds, PTL

(* No two requests are answered with one version, and the audit log names  *)
(* each version at most once, with the kind of request that made it.       *)
THEOREM AnswersAndAudit == Spec => []ReportsAreTrue
<1>1. IInv => ReportsAreTrue
  BY DEF IInv, ReportsAreTrue
<1> QED  BY <1>1, IInvHolds, PTL

(* A committed version is never changed or removed. *)
THEOREM VersionsImmutable == Spec => RowsImmutable
<1> DEFINE Kept == \A v \in DOMAIN rows : v \in DOMAIN rows' /\ rows'[v] = rows[v]
<1>1. IInv /\ [Next]_vars => [Kept]_rows
  <2> SUFFICES ASSUME IInv, Next, rows' # rows PROVE Kept
    BY DEF vars
  <2>1. PICK r \in Requests : Persist(r) /\ number[r] \notin DOMAIN rows
    BY DEF Next, Step, Send, CheckProject, GetProject, ReadLatest, ReadNumber,
           Persist, RecordAudit, DeleteProject, Crash
  <2> QED  BY <2>1, PersistFacts DEF IInv
<1> QED  BY <1>1, IInvHolds, PTL DEF Spec, RowsImmutable

-----------------------------------------------------------------------------
(* Clients that take turns: at most one request is being served, so the    *)
(* version it read is still the latest when it inserts.                    *)

OneAtATime == \A r, q \in Requests : InFlight(r) /\ InFlight(q) => r = q

BaseIsLatest ==
  \A r \in Requests : pc[r] \in {"number", "persist"} =>
    /\ base[r] = Latest
    /\ pc[r] = "persist" => number[r] = NextVersion

(* A draft comes from the agent or from an edit of elements that exist. *)
DraftsMade ==
  \A r \in Requests :
    /\ r \notin Edits /\ pc[r] \in {"latest", "number", "persist"} =>
         \E S \in SUBSET Elements :
           draft[r] = [e \in Elements |-> IF e \in S THEN "agent" ELSE "absent"]
    /\ r \in Edits /\ pc[r] \in {"number", "persist"} =>
         \A e \in touched[r] : rows[base[r]].model[e] # "absent"

SerialInv == OneAtATime /\ BaseIsLatest /\ DraftsMade /\ LinearHistory

LEMMA SerialInit == Init => SerialInv
BY DEF Init, SerialInv, OneAtATime, BaseIsLatest, DraftsMade, LinearHistory

(* One step of a request that is being served, all others being idle or    *)
(* answered.                                                               *)
LEMMA SerialNext ==
  ASSUME serial, IInv, SerialInv, [Next]_vars
  PROVE  SerialInv'
<1> USE DEF IInv, SerialInv
<1>1. ASSUME NEW r \in Requests, Send(r) PROVE SerialInv'
  <2>1. \A q \in Requests \ {r} : pc'[q] = pc[q] /\ touched'[q] = touched[q]
    BY <1>1, OthersKeep
  <2>2. /\ \A q \in Requests : ~InFlight(q)
        /\ pc'[r] \in {"check", "project"}
        /\ UNCHANGED <<rows, base, draft, number>>
    BY <1>1 DEF Send, TypeOK
  <2>3. OneAtATime'
    BY <2>1, <2>2 DEF OneAtATime
  <2>4. BaseIsLatest' /\ DraftsMade'
    BY <2>1, <2>2 DEF BaseIsLatest, DraftsMade
  <2>5. LinearHistory'
    BY <2>2 DEF LinearHistory
  <2> QED  BY <2>3, <2>4, <2>5
<1>2. ASSUME NEW r \in Requests, Step(r) PROVE SerialInv'
  <2>1. \A q \in Requests \ {r} :
          /\ pc'[q] = pc[q] /\ touched'[q] = touched[q] /\ base'[q] = base[q]
          /\ draft'[q] = draft[q] /\ number'[q] = number[q]
    BY <1>2, OthersKeep
  <2>2. InFlight(r) /\ touched'[r] = touched[r]
    BY <1>2 DEF Step, CheckProject, GetProject, ReadLatest, ReadNumber, Persist, RecordAudit
  <2>3. \A q \in Requests \ {r} : ~InFlight(q) /\ ~InFlight(q)'
    BY <2>1, <2>2 DEF OneAtATime
  <2>4. OneAtATime'
    BY <2>3 DEF OneAtATime
  <2>5. CASE CheckProject(r)
    <3>1. pc'[r] \in {"project", "not_found"} /\ UNCHANGED rows
      BY <2>5 DEF CheckProject, TypeOK
    <3> QED  BY <2>3, <2>4, <3>1 DEF BaseIsLatest, DraftsMade, LinearHistory
  <2>6. CASE GetProject(r)
    <3>1. pc'[r] \in {"latest", "failed"} /\ UNCHANGED rows
      BY <2>6 DEF GetProject, TypeOK
    <3>2. r \notin Edits /\ pc'[r] = "latest" =>
            \E S \in SUBSET Elements :
              draft'[r] = [e \in Elements |-> IF e \in S THEN "agent" ELSE "absent"]
      BY <2>6 DEF GetProject, TypeOK
    <3> QED  BY <2>3, <2>4, <3>1, <3>2 DEF BaseIsLatest, DraftsMade, LinearHistory
  <2>7. CASE ReadLatest(r)
    <3>1. /\ pc[r] = "latest" /\ pc'[r] \in {"number", "not_found", "unprocessable"}
          /\ base'[r] = Latest /\ UNCHANGED rows
      BY <2>7, LatestExists DEF ReadLatest, TypeOK
    <3>2. r \notin Edits => draft'[r] = draft[r]
      BY <2>7 DEF ReadLatest
    <3>3. r \in Edits /\ pc'[r] = "number" =>
            \A e \in touched[r] : rows[Latest].model[e] # "absent"
      BY <2>7 DEF ReadLatest, Unknown, TypeOK
    <3>4. Latest' = Latest
      BY <3>1 DEF Latest
    <3>5. BaseIsLatest'
      BY <2>3, <3>1, <3>4 DEF BaseIsLatest
    <3>6. DraftsMade'
      BY <2>2, <2>3, <3>1, <3>2, <3>3 DEF DraftsMade
    <3> QED  BY <2>4, <3>1, <3>5, <3>6 DEF LinearHistory
  <2>8. CASE ReadNumber(r)
    <3>1. /\ pc[r] = "number" /\ pc'[r] = "persist" /\ number'[r] = NextVersion
          /\ UNCHANGED <<rows, base, draft, touched>>
      BY <2>8, LatestExists DEF ReadNumber, TypeOK
    <3>2. Latest' = Latest /\ NextVersion' = NextVersion
      BY <3>1 DEF Latest, NextVersion
    <3>3. BaseIsLatest'
      BY <2>3, <3>1, <3>2 DEF BaseIsLatest
    <3>4. DraftsMade'
      BY <2>3, <3>1 DEF DraftsMade
    <3> QED  BY <2>4, <3>1, <3>3, <3>4 DEF LinearHistory
  <2>9. CASE Persist(r)
    <3>1. pc'[r] \in {"failed", "audit"}
      BY <2>9 DEF Persist, TypeOK
    <3>2. BaseIsLatest' /\ DraftsMade'
      BY <2>3, <3>1 DEF BaseIsLatest, DraftsMade
    <3>3. CASE number[r] \in DOMAIN rows
      BY <2>4, <2>9, <3>2, <3>3 DEF Persist, LinearHistory
    <3>4. CASE number[r] \notin DOMAIN rows
      <4>1. base[r] = Latest /\ number[r] = Latest + 1
        BY <2>9, LatestExists DEF Persist, BaseIsLatest
      <4>2. number[r] - 1 = base[r]
        BY <4>1, LatestExists
      <4>3. LinearHistory'
        <5>1. /\ DOMAIN rows' = DOMAIN rows \cup {number[r]}
              /\ rows'[number[r]] = [parent |-> base[r], model |-> draft[r], author |-> r]
              /\ \A v \in DOMAIN rows : rows'[v] = rows[v]
              /\ pc[r] = "persist"
          BY <2>9, <3>4, PersistFacts
        <5>2. rows'[number[r]].parent = base[r]
          BY <5>1
        <5> QED  BY <4>2, <5>1, <5>2 DEF LinearHistory
      <4> QED  BY <2>4, <3>2, <4>3
    <3> QED  BY <3>3, <3>4
  <2>10. CASE RecordAudit(r)
    <3>1. pc'[r] = "ok" /\ UNCHANGED rows
      BY <2>10 DEF RecordAudit, TypeOK
    <3> QED  BY <2>3, <2>4, <3>1 DEF BaseIsLatest, DraftsMade, LinearHistory
  <2> QED  BY <1>2, <2>5, <2>6, <2>7, <2>8, <2>9, <2>10 DEF Step
<1>3. CASE DeleteProject
  <2>1. UNCHANGED <<rows, pc, touched, base, draft, number>>
    BY <1>3 DEF DeleteProject
  <2>2. Latest' = Latest /\ NextVersion' = NextVersion
    BY <2>1 DEF Latest, NextVersion
  <2> QED  BY <2>1, <2>2 DEF OneAtATime, BaseIsLatest, DraftsMade, LinearHistory
<1>4. CASE Crash
  <2>1. /\ \A q \in Requests : ~InFlight(q)'
        /\ UNCHANGED rows
    BY <1>4 DEF Crash, TypeOK
  <2> QED  BY <2>1 DEF OneAtATime, BaseIsLatest, DraftsMade, LinearHistory
<1>5. CASE UNCHANGED vars
  <2>1. UNCHANGED <<rows, pc, touched, base, draft, number>>
    BY <1>5 DEF vars
  <2>2. Latest' = Latest /\ NextVersion' = NextVersion
    BY <2>1 DEF Latest, NextVersion
  <2> QED  BY <2>1, <2>2 DEF OneAtATime, BaseIsLatest, DraftsMade, LinearHistory
<1> QED  BY <1>1, <1>2, <1>3, <1>4, <1>5 DEF Next

LEMMA SerialConstant == [Next]_vars => serial' = serial
BY DEF Next, Step, Send, CheckProject, GetProject, ReadLatest, ReadNumber,
       Persist, RecordAudit, DeleteProject, Crash, vars

LEMMA SerialInvHolds == Spec => [](serial => SerialInv)
<1>1. Init => (serial => SerialInv)
  BY SerialInit
<1>2. IInv /\ (serial => SerialInv) /\ [Next]_vars => (serial => SerialInv)'
  BY SerialNext, SerialConstant
<1> QED  BY <1>1, <1>2, IInvHolds, PTL DEF Spec

(* When clients take turns, version N+1 is made from version N. *)
THEOREM HistoryIsLinear == Spec => [](serial => LinearHistory)
<1>1. (serial => SerialInv) => (serial => LinearHistory)
  BY DEF SerialInv
<1> QED  BY <1>1, SerialInvHolds, PTL

-----------------------------------------------------------------------------
(* The refinement.  When clients take turns the chain of VersionChain is   *)
(* the table read in order; otherwise it stays empty.                      *)

(* Extending a sequence given as a function on 1..n. *)
LEMMA AppendFunction ==
  ASSUME NEW n \in Nat, NEW s, NEW t, NEW x, NEW T,
         s \in [1..n -> T], x \in T,
         t \in [1..(n + 1) -> T], t[n + 1] = x, \A i \in 1..n : t[i] = s[i]
  PROVE  t = Append(s, x)
<1>1. s \in Seq(T) /\ Len(s) = n
  OBVIOUS
<1>2. t \in Seq(T) /\ Len(t) = n + 1
  OBVIOUS
<1>3. Append(s, x) \in Seq(T) /\ Len(Append(s, x)) = n + 1
  BY <1>1
<1>4. \A i \in 1..(n + 1) : t[i] = Append(s, x)[i]
  BY <1>1, <1>2
<1> QED  BY <1>2, <1>3, <1>4

LEMMA ChainOfTable ==
  ASSUME TypeOK, serial, NEW n \in Nat, DOMAIN rows = 1..n
  PROVE  /\ TheChain \in [1..n -> [author : Requests, model : Models]]
         /\ Len(TheChain) = n
         /\ \A v \in 1..n : TheChain[v] = [author |-> rows[v].author, model |-> rows[v].model]
<1>1. Cardinality(1..n) = n
  BY FS_Interval
<1>2. \A v \in 1..n : rows[v].author \in Requests /\ rows[v].model \in Models
  BY DEF TypeOK, RowType
<1> QED  BY <1>1, <1>2 DEF TheChain

LEMMA ChainStep ==
  ASSUME serial, IInv, TypeOK', SerialInv, [Next]_vars
  PROVE  [Chain!ChainNext]_TheChain
<1> serial' = serial
  BY SerialConstant
<1>1. CASE UNCHANGED rows
  BY <1>1 DEF TheChain
<1>2. CASE rows' # rows
  <2>1. PICK r \in Requests : Persist(r) /\ number[r] \notin DOMAIN rows
    BY <1>2 DEF Next, Step, Send, CheckProject, GetProject, ReadLatest, ReadNumber,
           Persist, RecordAudit, DeleteProject, Crash, vars
  <2>2. PICK n \in Nat : DOMAIN rows = 1..n /\ number[r] = n + 1
    BY <2>1, PersistNumbered
  <2>3. /\ DOMAIN rows' = 1..(n + 1)
        /\ rows'[n + 1] = [parent |-> base[r], model |-> draft[r], author |-> r]
        /\ \A v \in 1..n : rows'[v] = rows[v]
        /\ pc[r] = "persist"
    <3>1. /\ DOMAIN rows' = DOMAIN rows \cup {number[r]}
          /\ rows'[number[r]] = [parent |-> base[r], model |-> draft[r], author |-> r]
          /\ \A v \in DOMAIN rows : rows'[v] = rows[v]
          /\ pc[r] = "persist"
      BY <2>1, PersistFacts DEF IInv
    <3> QED  BY <2>2, <3>1
  <2> DEFINE x == [author |-> r, model |-> draft[r]]
             T == [author : Requests, model : Models]
  <2>4. TheChain \in [1..n -> T] /\ Len(TheChain) = n /\
        \A v \in 1..n : TheChain[v] = [author |-> rows[v].author, model |-> rows[v].model]
    BY <2>2, ChainOfTable DEF IInv
  <2>5. TheChain' \in [1..(n + 1) -> T] /\
        \A v \in 1..(n + 1) :
          TheChain'[v] = [author |-> rows'[v].author, model |-> rows'[v].model]
    <3>1. Cardinality(1..(n + 1)) = n + 1
      BY FS_Interval
    <3>2. \A v \in 1..(n + 1) : rows'[v].author \in Requests /\ rows'[v].model \in Models
      BY <2>3 DEF TypeOK, RowType
    <3> QED  BY <2>3, <3>1, <3>2 DEF TheChain
  <2>6. x \in T
    BY DEF IInv, TypeOK
  <2>7. TheChain' = Append(TheChain, x)
    <3>1. TheChain'[n + 1] = x
      BY <2>3, <2>5
    <3>2. \A i \in 1..n : TheChain'[i] = TheChain[i]
      BY <2>3, <2>4, <2>5
    <3> HIDE DEF x, T
    <3> QED  BY <2>4, <2>5, <2>6, <3>1, <3>2, AppendFunction
  <2>8. CASE r \notin Edits
    <3>1. PICK S \in SUBSET Elements :
            draft[r] = [e \in Elements |-> IF e \in S THEN "agent" ELSE "absent"]
      BY <2>3, <2>8 DEF SerialInv, DraftsMade
    <3>2. Chain!AppendFreeze
      <4>1. TheChain' = Append(TheChain,
                [author |-> r,
                 model  |-> [e \in Elements |-> IF e \in S THEN "agent" ELSE "absent"]])
        BY <2>7, <3>1
      <4>2. r \in Requests \ Edits
        BY <2>8
      <4> QED  BY <4>1, <4>2 DEF Chain!AppendFreeze, TheChain
    <3> QED  BY <3>2 DEF Chain!ChainNext
  <2>9. CASE r \in Edits
    <3>1. base[r] = n /\ n # 0
      BY <2>2, <2>3, <2>9, LatestOfInterval DEF IInv, SerialInv, BaseIsLatest, DraftsRooted
    <3>2. /\ draft[r] = [e \in Elements |-> IF e \in touched[r] THEN r ELSE rows[n].model[e]]
          /\ \A e \in touched[r] : rows[n].model[e] # "absent"
      BY <2>3, <2>9, <3>1 DEF IInv, SerialInv, DraftsRooted, DraftsMade, ApplyEdits
    <3>3. TheChain # <<>> /\ TheChain[Len(TheChain)].model = rows[n].model
      BY <2>4, <3>1
    <3>4. touched[r] \in SUBSET Elements
      BY DEF IInv, TypeOK
    <3>5. Chain!AppendEdit
      <4> DEFINE last == TheChain[Len(TheChain)].model
      <4>1. TheChain' = Append(TheChain,
                [author |-> r,
                 model  |-> [e \in Elements |-> IF e \in touched[r] THEN r ELSE last[e]]])
        BY <2>7, <3>2, <3>3
      <4>2. \A e \in touched[r] : last[e] # "absent"
        BY <3>2, <3>3
      <4> QED  BY <2>9, <3>3, <3>4, <4>1, <4>2 DEF Chain!AppendEdit, TheChain
    <3> QED  BY <3>5 DEF Chain!ChainNext
  <2> QED  BY <2>8, <2>9
<1> QED  BY <1>1, <1>2

(* When clients take turns, the table implements the linear chain of       *)
(* VersionChain: an edit always starts from the last version and keeps     *)
(* every element it does not name.                                         *)
THEOREM SerialImplementsChain == Spec => SerialChain
<1>1. Init => Chain!ChainInit
  <2> SUFFICES ASSUME Init PROVE Chain!ChainInit
    OBVIOUS
  <2>1. DOMAIN rows = 1..0 /\ Cardinality(1..0) = 0
    BY FS_Interval DEF Init
  <2> QED  BY <2>1 DEF Chain!ChainInit, TheChain
<1>2. IInv /\ IInv' /\ (serial => SerialInv) /\ [Next]_vars => [Chain!ChainNext]_TheChain
  <2> SUFFICES ASSUME IInv, IInv', serial => SerialInv, [Next]_vars
               PROVE  [Chain!ChainNext]_TheChain
    OBVIOUS
  <2>1. CASE serial
    BY <2>1, ChainStep DEF IInv
  <2>2. CASE ~serial
    <3>1. serial' = serial
      BY SerialConstant
    <3>2. TheChain = << >> /\ TheChain' = << >>
      BY <2>2, <3>1 DEF TheChain
    <3> QED  BY <3>2
  <2> QED  BY <2>1, <2>2
<1> QED  BY <1>1, <1>2, IInvHolds, SerialInvHolds, PTL
         DEF Spec, SerialChain, Chain!ChainSpec
=============================================================================
