------------------------- MODULE RevisionChainProofs -------------------------
(***************************************************************************)
(* What holds of the revisions of a project for any number of requests,    *)
(* CRI profiles, model versions, corpora and restarts.                     *)
(***************************************************************************)
EXTENDS RevisionChain, TLAPS

USE DEF Working, Answered, InFlight, Goto, CRIReads, world

-----------------------------------------------------------------------------
(* The inductive invariant, in named parts. *)

(* How far a request is: its row has a time stamp, names a corpus, names a *)
(* CRI profile.  A committed request stays that far.                       *)
Built(r)  == pc[r] = "insert" \/ r \in made
Pinned(r) == pc[r] \in {"parent", "stamp"} \/ Built(r)
Tagged(r) == pc[r] \in {"corpus", "pin"} \/ Pinned(r)

(* Only answered requests are committed: their rows no longer change. *)
MadeAnswered == \A r \in made : pc[r] = "ok"

(* The committed revisions have a latest one (what get_latest_revision     *)
(* finds is a revision, though nothing bounds their number).               *)
HasLatest == made # {} => \E r \in made : \A q \in made : draft[q].at <= draft[r].at

(* A row is not stamped in the future. *)
StampPast(r) == draft[r].at <= clock

(* A parent that was read is committed, and older than the row built on it. *)
ParentOlder(r) ==
  /\ draft[r].parent \in made \cup {None}
  /\ Built(r) /\ draft[r].parent # None => draft[draft[r].parent].at < draft[r].at

(* What was read of the corpus is not ahead of it, and the second look is  *)
(* not behind the first.                                                   *)
CorpusPast(r) ==
  /\ draft[r].kbUsed <= kb /\ draft[r].kbPin <= kb
  /\ Pinned(r) => draft[r].kbUsed <= draft[r].kbPin

(* A profile that was read is replaced by another, never removed; a        *)
(* request that used one has recorded one.                                 *)
ProfileKept(r) ==
  \A read \in CRIReads : draft[r].used[read] # None =>
    /\ cri # None
    /\ Tagged(r) => draft[r].used["manifest"] # None

RowOK(r) == StampPast(r) /\ ParentOlder(r) /\ CorpusPast(r) /\ ProfileKept(r)

IInv ==
  /\ TypeOK
  /\ MadeAnswered
  /\ HasLatest
  /\ \A r \in Requests : RowOK(r)

-----------------------------------------------------------------------------

LEMMA TypeInit == Init => TypeOK
<1> SUFFICES ASSUME Init PROVE TypeOK
  OBVIOUS
<1>1. draft \in [Requests -> Rows]
  BY BoundsAssumption DEF Init, Rows
<1>2. crashes \in 0..MaxCrashes /\ kb \in 0..MaxKB /\ model \in 0..MaxModel
  BY BoundsAssumption DEF Init
<1>3. pc \in [Requests -> {"idle"} \cup Working \cup Answered]
  BY DEF Init
<1>4. project \in BOOLEAN /\ serial \in BOOLEAN
  BY DEF Init
<1>5. cri \in Profiles \cup {None} /\ made \subseteq Requests /\ clock \in Nat
  BY DEF Init
<1> QED  BY <1>1, <1>2, <1>3, <1>4, <1>5 DEF TypeOK

(* The latest revision is a committed one. *)
LEMMA LatestCommitted ==
  ASSUME HasLatest, None \notin made
  PROVE  /\ Latest \in made \cup {None}
         /\ made # {} => Latest # None /\ \A q \in made : draft[q].at <= draft[Latest].at
BY DEF HasLatest, Latest

LEMMA TypeNext == TypeOK /\ HasLatest /\ [Next]_vars => TypeOK'
<1> SUFFICES ASSUME TypeOK, HasLatest, [Next]_vars PROVE TypeOK'
  OBVIOUS
<1> USE DEF TypeOK
<1>1. CASE World
  <2>1. CASE FreezeModel
    BY <2>1, BoundsAssumption DEF FreezeModel
  <2>2. CASE UploadCRI
    BY <2>2 DEF UploadCRI
  <2>3. CASE PublishKB
    BY <2>3, BoundsAssumption DEF PublishKB
  <2>4. CASE DeleteProject
    BY <2>4 DEF DeleteProject
  <2> QED  BY <1>1, <2>1, <2>2, <2>3, <2>4 DEF World
<1>2. CASE Crash
  BY <1>2, BoundsAssumption DEF Crash
<1>3. ASSUME NEW r \in Requests, Send(r) PROVE TypeOK'
  BY <1>3 DEF Send
<1>4. ASSUME NEW r \in Requests, Step(r) PROVE TypeOK'
  <2>1. CASE CheckProject(r)
    BY <2>1 DEF CheckProject
  <2>2. CASE ReadModel(r)
    BY <2>2 DEF ReadModel, Rows
  <2>3. ASSUME NEW read \in CRIReads, NEW next \in Working, ReadCRI(r, read, next)
        PROVE  TypeOK'
    <3>1. draft[r].used \in [CRIReads -> Profiles \cup {None}]
      BY DEF Rows
    <3>2. [draft[r].used EXCEPT ![read] = cri] \in [CRIReads -> Profiles \cup {None}]
      BY <3>1
    <3>3. draft' \in [Requests -> Rows]
      BY <2>3, <3>2 DEF ReadCRI, Rows
    <3> QED  BY <2>3, <3>3 DEF ReadCRI
  <2>4. CASE ReadStatements(r) \/ ReadMappings(r) \/ ReadRegulatory(r) \/ ReadManifest(r)
    BY <2>3, <2>4 DEF ReadStatements, ReadMappings, ReadRegulatory, ReadManifest
  <2>5. CASE ReadTiering(r)
    BY <2>5 DEF ReadTiering
  <2>6. CASE ReadCorpus(r)
    BY <2>6 DEF ReadCorpus, Rows
  <2>7. CASE PinCorpus(r)
    BY <2>7 DEF PinCorpus, Rows
  <2>8. CASE ReadParent(r)
    BY <2>8, LatestCommitted, NoneAssumption DEF ReadParent, Rows
  <2>9. CASE Stamp(r)
    BY <2>9 DEF Stamp, Rows
  <2>10. CASE Insert(r)
    BY <2>10 DEF Insert
  <2> QED  BY <1>4, <2>1, <2>2, <2>4, <2>5, <2>6, <2>7, <2>8, <2>9, <2>10 DEF Step
<1>5. CASE UNCHANGED vars
  BY <1>5 DEF vars
<1> QED  BY <1>1, <1>2, <1>3, <1>4, <1>5 DEF Next

-----------------------------------------------------------------------------
(* IInv is inductive. *)

LEMMA InvInit == Init => IInv
<1> SUFFICES ASSUME Init PROVE IInv
  OBVIOUS
<1>1. made = {} /\ clock = 0 /\ kb = 0
  BY DEF Init
<1>2. \A r \in Requests :
        /\ draft[r].at = 0 /\ draft[r].kbUsed = 0 /\ draft[r].kbPin = 0
        /\ draft[r].parent = None /\ pc[r] = "idle"
        /\ \A read \in CRIReads : draft[r].used[read] = None
  BY DEF Init
<1>3. TypeOK
  BY TypeInit
<1>4. MadeAnswered /\ HasLatest
  BY <1>1 DEF MadeAnswered, HasLatest
<1>5. \A r \in Requests : RowOK(r)
  BY <1>1, <1>2 DEF RowOK, StampPast, ParentOlder, CorpusPast, ProfileKept,
                    Built, Pinned, Tagged
<1> QED  BY <1>3, <1>4, <1>5 DEF IInv

(* What goes on around the requests: only the corpus and the profile       *)
(* matter to IInv, and they move forward.                                  *)
LEMMA InvWorld == IInv /\ TypeOK' /\ World => IInv'
<1> SUFFICES ASSUME IInv, TypeOK', World PROVE IInv'
  OBVIOUS
<1>1. UNCHANGED <<made, clock, pc, draft>>
  BY DEF World, FreezeModel, UploadCRI, PublishKB, DeleteProject
<1>2. kb \in Nat /\ kb' \in Nat /\ kb <= kb'
  BY BoundsAssumption DEF IInv, TypeOK, World, FreezeModel, UploadCRI, PublishKB, DeleteProject
<1>3. cri # None => cri' # None
  BY NoneAssumption DEF World, FreezeModel, UploadCRI, PublishKB, DeleteProject
<1>4. MadeAnswered' /\ HasLatest'
  BY <1>1 DEF IInv, MadeAnswered, HasLatest
<1>5. ASSUME NEW r \in Requests PROVE RowOK(r)'
  <2>1. StampPast(r) /\ ParentOlder(r) /\ CorpusPast(r) /\ ProfileKept(r)
    BY DEF IInv, RowOK
  <2>2. StampPast(r)' /\ ParentOlder(r)'
    BY <1>1, <2>1 DEF StampPast, ParentOlder, Built
  <2>3. CorpusPast(r)'
    <3>1. draft[r].kbUsed \in Nat /\ draft[r].kbPin \in Nat
      BY BoundsAssumption DEF IInv, TypeOK, Rows
    <3> QED  BY <1>1, <1>2, <2>1, <3>1 DEF CorpusPast, Pinned, Built
  <2>4. ProfileKept(r)'
    BY <1>1, <1>3, <2>1 DEF ProfileKept, Tagged, Pinned, Built
  <2> QED  BY <2>2, <2>3, <2>4 DEF RowOK
<1> QED  BY <1>4, <1>5 DEF IInv

(* A request that is not committed changes its own row and place only: the *)
(* others keep theirs.                                                     *)
LEMMA InvOwnRow ==
  ASSUME IInv, TypeOK', NEW r \in Requests, r \notin made,
         UNCHANGED <<cri, kb, made>>, clock <= clock',
         \A q \in Requests \ {r} : draft'[q] = draft[q] /\ pc'[q] = pc[q],
         RowOK(r)'
  PROVE  IInv'
<1>1. \A q \in made : q \in Requests /\ q # r
  BY DEF IInv, TypeOK
<1>2. MadeAnswered' /\ HasLatest'
  BY <1>1 DEF IInv, MadeAnswered, HasLatest
<1>3. ASSUME NEW q \in Requests, q # r PROVE RowOK(q)'
  <2>1. draft'[q] = draft[q] /\ pc'[q] = pc[q] /\ RowOK(q)
    BY <1>3 DEF IInv
  <2>2. clock \in Nat /\ clock' \in Nat /\ draft[q].at \in Nat
    BY DEF IInv, TypeOK, Rows
  <2>3. StampPast(q)'
    BY <2>1, <2>2 DEF RowOK, StampPast
  <2>4. ParentOlder(q)'
    BY <1>1, <2>1, NoneAssumption DEF RowOK, ParentOlder, Built
  <2>5. CorpusPast(q)' /\ ProfileKept(q)'
    BY <2>1 DEF RowOK, CorpusPast, ProfileKept, Tagged, Pinned, Built
  <2> QED  BY <2>3, <2>4, <2>5 DEF RowOK
<1> QED  BY <1>2, <1>3 DEF IInv

(* One step of a request. *)
LEMMA InvStep ==
  ASSUME IInv, TypeOK', NEW r \in Requests, Step(r)
  PROVE  IInv'
<1> USE DEF StampPast, ParentOlder, CorpusPast, ProfileKept, Tagged, Pinned, Built
<1>1. /\ TypeOK /\ MadeAnswered /\ HasLatest
      /\ draft[r] \in Rows /\ clock \in Nat /\ kb \in Nat
  BY BoundsAssumption DEF IInv, TypeOK
<1>2. pc[r] \in Working
  BY DEF Step, CheckProject, ReadModel, ReadStatements, ReadMappings, ReadTiering,
         ReadRegulatory, ReadManifest, ReadCRI, ReadCorpus, PinCorpus, ReadParent,
         Stamp, Insert
<1>3. r \notin made
  BY <1>1, <1>2 DEF MadeAnswered
<1>4. StampPast(r) /\ ParentOlder(r) /\ CorpusPast(r) /\ ProfileKept(r)
  BY DEF IInv, RowOK
<1>5. CASE CheckProject(r) \/ ReadTiering(r)
  <2>1. /\ UNCHANGED <<cri, kb, made, clock, draft>>
        /\ \A q \in Requests \ {r} : pc'[q] = pc[q]
        /\ pc'[r] \in {"model", "not_found", "regulatory", "error"}
    BY <1>1, <1>5 DEF CheckProject, ReadTiering, TypeOK
  <2>2. RowOK(r)'
    BY <1>3, <1>4, <2>1 DEF RowOK
  <2> QED  BY <1>1, <1>3, <2>1, <2>2, InvOwnRow
<1>6. CASE ReadModel(r)
  <2>1. /\ UNCHANGED <<cri, kb, made, clock>>
        /\ \A q \in Requests \ {r} : draft'[q] = draft[q] /\ pc'[q] = pc[q]
        /\ draft'[r] = [draft[r] EXCEPT !.model = model]
        /\ pc'[r] \in {"error", "not_found", "statements"}
    BY <1>1, <1>6 DEF ReadModel, TypeOK
  <2>2. RowOK(r)'
    BY <1>1, <1>3, <1>4, <2>1, NoneAssumption DEF Rows, TypeOK, RowOK
  <2> QED  BY <1>1, <1>3, <2>1, <2>2, InvOwnRow
<1>7. ASSUME NEW read \in CRIReads, NEW next \in Working, ReadCRI(r, read, next),
             next \notin {"pin", "parent", "stamp", "insert"},
             next = "corpus" => read = "manifest"
      PROVE  IInv'
  <2>1. /\ UNCHANGED <<cri, kb, made, clock>>
        /\ \A q \in Requests \ {r} : draft'[q] = draft[q] /\ pc'[q] = pc[q]
        /\ \/ pc'[r] = "error" /\ draft' = draft
           \/ /\ pc'[r] = next
              /\ draft'[r] = [draft[r] EXCEPT !.used[read] = cri]
    BY <1>1, <1>7 DEF ReadCRI, TypeOK
  <2>2. CASE pc'[r] = "error" /\ draft' = draft
    <3>1. RowOK(r)'
      BY <1>3, <1>4, <2>1, <2>2 DEF RowOK
    <3> QED  BY <1>1, <1>3, <2>1, <3>1, InvOwnRow
  <2>3. CASE pc'[r] = next /\ draft'[r] = [draft[r] EXCEPT !.used[read] = cri]
    <3>1. draft[r].used \in [CRIReads -> Profiles \cup {None}]
      BY <1>1 DEF Rows
    <3>2. /\ draft'[r].used = [draft[r].used EXCEPT ![read] = cri]
          /\ draft'[r].at = draft[r].at /\ draft'[r].parent = draft[r].parent
          /\ draft'[r].kbUsed = draft[r].kbUsed /\ draft'[r].kbPin = draft[r].kbPin
      BY <1>1, <2>3 DEF Rows
    <3>3. StampPast(r)' /\ ParentOlder(r)' /\ CorpusPast(r)'
      BY <1>1, <1>3, <1>4, <1>7, <2>1, <2>3, <3>2
    <3>4. ProfileKept(r)'
      BY <1>1, <1>3, <1>4, <1>7, <2>1, <2>3, <3>1, <3>2
    <3>5. RowOK(r)'
      BY <3>3, <3>4 DEF RowOK
    <3> QED  BY <1>1, <1>3, <2>1, <3>5, InvOwnRow
  <2> QED  BY <2>1, <2>2, <2>3
<1>8. CASE ReadStatements(r) \/ ReadMappings(r) \/ ReadRegulatory(r) \/ ReadManifest(r)
  BY <1>7, <1>8 DEF ReadStatements, ReadMappings, ReadRegulatory, ReadManifest
<1>9. CASE ReadCorpus(r)
  <2>1. /\ UNCHANGED <<cri, kb, made, clock>>
        /\ \A q \in Requests \ {r} : draft'[q] = draft[q] /\ pc'[q] = pc[q]
        /\ draft'[r] = [draft[r] EXCEPT !.kbUsed = kb]
        /\ pc[r] = "corpus" /\ pc'[r] = "pin"
    BY <1>1, <1>9 DEF ReadCorpus, TypeOK
  <2>2. RowOK(r)'
    BY <1>1, <1>3, <1>4, <2>1, NoneAssumption DEF Rows, TypeOK, RowOK
  <2> QED  BY <1>1, <1>3, <2>1, <2>2, InvOwnRow
<1>10. CASE PinCorpus(r)
  <2>1. /\ UNCHANGED <<cri, kb, made, clock>>
        /\ \A q \in Requests \ {r} : draft'[q] = draft[q] /\ pc'[q] = pc[q]
        /\ draft'[r] = [draft[r] EXCEPT !.kbPin = kb]
        /\ pc[r] = "pin" /\ pc'[r] \in {"parent", "unprocessable"}
    BY <1>1, <1>10 DEF PinCorpus, TypeOK
  <2>2. RowOK(r)'
    BY <1>1, <1>3, <1>4, <2>1, NoneAssumption DEF Rows, TypeOK, RowOK
  <2> QED  BY <1>1, <1>3, <2>1, <2>2, InvOwnRow
<1>11. CASE ReadParent(r)
  <2>1. /\ UNCHANGED <<cri, kb, made, clock>>
        /\ \A q \in Requests \ {r} : draft'[q] = draft[q] /\ pc'[q] = pc[q]
        /\ draft'[r] = [draft[r] EXCEPT !.parent = Latest]
        /\ pc[r] = "parent" /\ pc'[r] \in {"stamp", "error"}
    BY <1>1, <1>11 DEF ReadParent, TypeOK
  <2>2. Latest \in made \cup {None}
    BY <1>1, LatestCommitted, NoneAssumption DEF TypeOK
  <2>3. RowOK(r)'
    BY <1>1, <1>3, <1>4, <2>1, <2>2, NoneAssumption DEF Rows, TypeOK, RowOK
  <2> QED  BY <1>1, <1>3, <2>1, <2>3, InvOwnRow
<1>12. CASE Stamp(r)
  <2>1. CASE ~project
    <3>1. /\ UNCHANGED <<cri, kb, made, clock, draft>>
          /\ \A q \in Requests \ {r} : pc'[q] = pc[q]
          /\ pc'[r] = "error"
      BY <1>1, <1>12, <2>1 DEF Stamp, TypeOK
    <3>2. RowOK(r)'
      BY <1>3, <1>4, <3>1 DEF RowOK
    <3> QED  BY <1>1, <1>3, <3>1, <3>2, InvOwnRow
  <2>2. CASE project
    <3>1. /\ UNCHANGED <<cri, kb, made>> /\ clock' = clock + 1
          /\ \A q \in Requests \ {r} : draft'[q] = draft[q] /\ pc'[q] = pc[q]
          /\ draft'[r] = [draft[r] EXCEPT !.at = clock + 1]
          /\ pc[r] = "stamp" /\ pc'[r] = "insert"
      BY <1>1, <1>12, <2>2 DEF Stamp, TypeOK
    <3>2. /\ draft'[r].at = clock + 1 /\ draft'[r].parent = draft[r].parent
          /\ draft'[r].kbUsed = draft[r].kbUsed /\ draft'[r].kbPin = draft[r].kbPin
          /\ draft'[r].used = draft[r].used
      BY <1>1, <3>1 DEF Rows
    <3>3. ParentOlder(r)'
      <4>1. ASSUME draft[r].parent # None
            PROVE  draft'[draft[r].parent].at < clock + 1
        <5>1. draft[r].parent \in Requests \ {r}
          BY <1>1, <1>3, <1>4, <4>1 DEF TypeOK
        <5>2. draft[draft[r].parent].at <= clock /\ draft[draft[r].parent] \in Rows
          BY <5>1 DEF IInv, TypeOK, RowOK
        <5> QED  BY <1>1, <3>1, <5>1, <5>2 DEF Rows
      <4> QED  BY <1>4, <3>1, <3>2, <4>1
    <3>4. StampPast(r)' /\ CorpusPast(r)' /\ ProfileKept(r)'
      BY <1>1, <1>4, <3>1, <3>2
    <3>5. RowOK(r)'
      BY <3>3, <3>4 DEF RowOK
    <3> QED  BY <1>1, <1>3, <3>1, <3>5, InvOwnRow
  <2> QED  BY <2>1, <2>2
<1>13. CASE Insert(r)
  <2>1. /\ UNCHANGED <<cri, kb, clock, draft>> /\ made' = made \cup {r}
        /\ \A q \in Requests \ {r} : pc'[q] = pc[q]
        /\ pc[r] = "insert" /\ pc'[r] = "ok"
    BY <1>1, <1>13 DEF Insert, TypeOK
  <2>2. \A q \in Requests : draft[q].at \in Nat
    BY <1>1 DEF TypeOK, Rows
  <2>3. MadeAnswered' /\ HasLatest'
    BY <1>1, <2>1, <2>2 DEF MadeAnswered, HasLatest, TypeOK
  <2>4. ASSUME NEW q \in Requests PROVE RowOK(q)'
    BY <2>1 DEF IInv, RowOK
  <2> QED  BY <2>3, <2>4 DEF IInv
<1> QED  BY <1>5, <1>6, <1>8, <1>9, <1>10, <1>11, <1>12, <1>13 DEF Step

LEMMA InvNext == IInv /\ [Next]_vars => IInv'
<1> SUFFICES ASSUME IInv, [Next]_vars PROVE IInv'
  OBVIOUS
<1>1. TypeOK'
  BY TypeNext DEF IInv
<1>2. CASE World
  BY <1>1, <1>2, InvWorld
<1>3. ASSUME NEW r \in Requests, Step(r) PROVE IInv'
  BY <1>1, <1>3, InvStep
<1>4. ASSUME NEW r \in Requests, Send(r) PROVE IInv'
  <2> USE DEF StampPast, ParentOlder, CorpusPast, ProfileKept, Tagged, Pinned, Built
  <2>1. /\ UNCHANGED <<cri, kb, made, clock, draft>>
        /\ \A q \in Requests \ {r} : pc'[q] = pc[q]
        /\ pc[r] = "idle" /\ pc'[r] = "project" /\ clock \in Nat
    BY <1>4 DEF Send, IInv, TypeOK
  <2>2. r \notin made
    BY <2>1 DEF IInv, MadeAnswered
  <2>3. RowOK(r)'
    BY <2>1, <2>2 DEF IInv, RowOK
  <2> QED  BY <1>1, <2>1, <2>2, <2>3, InvOwnRow
<1>5. CASE Crash
  <2> USE DEF StampPast, ParentOlder, CorpusPast, ProfileKept, Tagged, Pinned, Built
  <2>1. UNCHANGED <<cri, kb, made, clock, draft>>
    BY <1>5 DEF Crash
  <2>2. \A q \in Requests : pc'[q] = pc[q] \/ pc'[q] = "lost"
    BY <1>5 DEF Crash
  <2>3. \A q \in made : q \in Requests /\ pc'[q] = pc[q]
    BY <1>5 DEF Crash, IInv, TypeOK, MadeAnswered
  <2>4. MadeAnswered' /\ HasLatest'
    BY <2>1, <2>3 DEF IInv, MadeAnswered, HasLatest
  <2>5. ASSUME NEW q \in Requests PROVE RowOK(q)'
    BY <2>1, <2>2 DEF IInv, RowOK
  <2> QED  BY <1>1, <2>4, <2>5 DEF IInv
<1>6. CASE UNCHANGED vars
  BY <1>1, <1>6 DEF vars, IInv, MadeAnswered, HasLatest, RowOK, StampPast,
     ParentOlder, CorpusPast, ProfileKept, Tagged, Pinned, Built
<1> QED  BY <1>2, <1>3, <1>4, <1>5, <1>6 DEF Next

LEMMA InvHolds == Spec => []IInv
BY InvInit, InvNext, PTL DEF Spec

(* The rows, the counters and what each request has read have their types, *)
(* for any number of requests, profiles and restarts.                      *)
THEOREM TypeCorrect == Spec => []TypeOK
<1>1. IInv => TypeOK
  BY DEF IInv
<1> QED  BY <1>1, InvHolds, PTL

(* However requests to POST /revisions interleave, a revision's parent is  *)
(* committed and older: parent links resolve and form no cycle.            *)
THEOREM ParentsResolve == Spec => []ParentResolves
<1>1. IInv => ParentResolves
  BY DEF IInv, TypeOK, RowOK, ParentOlder, Built, ParentResolves
<1> QED  BY <1>1, InvHolds, PTL

(* What create_revision records of its inputs is never older than what it  *)
(* computed with.                                                          *)
THEOREM PinsAreNotOlder == Spec => []PinsNotOlder
<1>1. IInv => PinsNotOlder
  BY DEF IInv, TypeOK, RowOK, CorpusPast, ProfileKept, Tagged, Pinned, Built, PinsNotOlder
<1> QED  BY <1>1, InvHolds, PTL

-----------------------------------------------------------------------------
(* Clients that take turns. *)

OneInFlight == \A r, q \in Requests : InFlight(r) /\ InFlight(q) => r = q

(* What the only request in flight has read so far is still the case, and  *)
(* mappings are not read when there are no statements.                     *)
Rooted == {"stamp", "insert"}
CorpusNamed == {"parent"} \cup Rooted
CorpusRead == {"pin"} \cup CorpusNamed
ProfileNamed == {"corpus"} \cup CorpusRead
RegulatoryRead == {"manifest"} \cup ProfileNamed
MappingsRead == {"tiering", "regulatory"} \cup RegulatoryRead
StatementsRead == {"mappings"} \cup MappingsRead
ModelRead == {"statements"} \cup StatementsRead

StillSo(r) ==
  /\ pc[r] \in ModelRead => draft[r].model = model
  /\ pc[r] \in StatementsRead => draft[r].used["statements"] = cri
  /\ pc[r] \in MappingsRead => draft[r].used["mappings"] = cri
  /\ pc[r] \in {"idle", "project", "model", "statements", "mappings"} =>
       draft[r].used["mappings"] = None
  /\ pc[r] \in RegulatoryRead => draft[r].used["regulatory"] = cri
  /\ pc[r] \in ProfileNamed => draft[r].used["manifest"] = cri
  /\ pc[r] \in CorpusRead => draft[r].kbUsed = kb
  /\ pc[r] \in CorpusNamed => draft[r].kbPin = kb

(* The row about to be committed goes to the end of the chain. *)
AtTheEnd(r) ==
  \A x \in made :
    /\ pc[r] \in Rooted =>
         draft[r].parent # None /\ draft[x].at <= draft[draft[r].parent].at
    /\ pc[r] = "insert" => draft[x].at < draft[r].at

(* A committed revision's parent is the one before it. *)
Ordered ==
  \A r, q \in made : r # q =>
    /\ draft[r].at # draft[q].at
    /\ draft[q].at < draft[r].at =>
         draft[r].parent # None /\ draft[q].at <= draft[draft[r].parent].at

(* A committed revision is no newer than the world, no older than its      *)
(* parent, and computed from what it names.                                *)
Consistent(r) ==
  /\ draft[r].model <= model
  /\ draft[r].parent # None =>
       /\ draft[draft[r].parent].model <= draft[r].model
       /\ draft[draft[r].parent].kbPin <= draft[r].kbPin
  /\ draft[r].kbUsed = draft[r].kbPin
  /\ \A read \in CRIReads : draft[r].used[read] = draft[r].used["manifest"]

SerialInv ==
  /\ OneInFlight
  /\ \A r \in Requests : StillSo(r) /\ AtTheEnd(r)
  /\ Ordered
  /\ \A r \in made : Consistent(r)

LEMMA SerialConstant == [Next]_vars => serial' = serial
BY DEF Next, World, FreezeModel, UploadCRI, PublishKB, DeleteProject, Crash, Send,
       Step, CheckProject, ReadModel, ReadCRI, ReadStatements, ReadMappings,
       ReadTiering, ReadRegulatory, ReadManifest, ReadCorpus, PinCorpus,
       ReadParent, Stamp, Insert, vars

LEMMA SerialInit == Init => SerialInv
<1> SUFFICES ASSUME Init PROVE SerialInv
  OBVIOUS
<1>1. made = {} /\ \A r \in Requests : pc[r] = "idle" /\ draft[r].used["mappings"] = None
  BY DEF Init
<1>2. \A r \in Requests : StillSo(r) /\ AtTheEnd(r)
  BY <1>1 DEF StillSo, AtTheEnd, ModelRead, StatementsRead, MappingsRead, RegulatoryRead,
              ProfileNamed, CorpusRead, CorpusNamed, Rooted
<1> QED  BY <1>1, <1>2 DEF SerialInv, OneInFlight, Ordered

(* Nothing moves around a request in flight. *)
LEMMA SerialWorld ==
  ASSUME IInv, SerialInv, serial, World
  PROVE  SerialInv'
<1>1. UNCHANGED <<made, pc, draft>> /\ Quiet
  BY DEF World, FreezeModel, UploadCRI, PublishKB, DeleteProject
<1>2. \A r \in Requests : ~InFlight(r)
  BY <1>1, Zenon DEF Quiet
<1>3. model \in Nat /\ model' \in Nat /\ model <= model'
  <2>1. model \in Nat
    BY BoundsAssumption DEF IInv, TypeOK
  <2>2. model' = model \/ model' = model + 1
    BY DEF World, FreezeModel, UploadCRI, PublishKB, DeleteProject
  <2> QED  BY <2>1, <2>2
<1>4. \A r \in Requests : draft[r].model \in Nat
  BY BoundsAssumption DEF IInv, TypeOK, Rows
<1>5. \A r \in Requests : StillSo(r)' /\ AtTheEnd(r)'
  BY <1>1, <1>2 DEF SerialInv, StillSo, AtTheEnd, ModelRead, StatementsRead, MappingsRead,
              RegulatoryRead, ProfileNamed, CorpusRead, CorpusNamed, Rooted
<1>6. \A r \in made' : Consistent(r)'
  BY <1>1, <1>3, <1>4 DEF SerialInv, Consistent, IInv, TypeOK
<1> QED  BY <1>1, <1>2, <1>5, <1>6 DEF SerialInv, OneInFlight, Ordered

(* A request in flight that is not committed yet moves alone. *)
LEMMA SerialOwnRow ==
  ASSUME IInv, SerialInv, NEW r \in Requests, r \notin made,
         \A q \in Requests \ {r} : ~InFlight(q),
         UNCHANGED <<model, cri, kb, made>>,
         \A q \in Requests \ {r} : draft'[q] = draft[q] /\ pc'[q] = pc[q],
         StillSo(r)', AtTheEnd(r)'
  PROVE  SerialInv'
<1>1. \A q \in made : q \in Requests \ {r} /\ draft'[q] = draft[q]
  BY DEF IInv, TypeOK
<1>2. \A q \in made : draft[q].parent # None => draft[q].parent \in made
  BY <1>1 DEF IInv, RowOK, ParentOlder
<1>3. \A q \in Requests \ {r} : StillSo(q)' /\ AtTheEnd(q)'
  BY DEF SerialInv, StillSo, AtTheEnd, ModelRead, StatementsRead, MappingsRead,
         RegulatoryRead, ProfileNamed, CorpusRead, CorpusNamed, Rooted
<1>4. OneInFlight'
  BY DEF OneInFlight
<1>5. Ordered'
  BY <1>1, <1>2 DEF SerialInv, Ordered
<1>6. \A q \in made' : Consistent(q)'
  <2> SUFFICES ASSUME NEW q \in made PROVE Consistent(q)'
    OBVIOUS
  <2>1. draft[q].parent # None => draft'[draft[q].parent] = draft[draft[q].parent]
    BY <1>1, <1>2
  <2> QED  BY <1>1, <2>1 DEF SerialInv, Consistent
<1> QED  BY <1>3, <1>4, <1>5, <1>6 DEF SerialInv

(* One step of a request. *)
LEMMA SerialStep ==
  ASSUME IInv, TypeOK', SerialInv, serial, NEW r \in Requests, Step(r)
  PROVE  SerialInv'
<1> DEFINE Labels(read) == CASE read = "statements" -> {"tiering", "mappings"}
                             [] read = "mappings" -> {"tiering"}
                             [] read = "regulatory" -> {"manifest"}
                             [] OTHER -> {"corpus"}
<1> USE DEF ModelRead, StatementsRead, MappingsRead, RegulatoryRead, ProfileNamed,
            CorpusRead, CorpusNamed, Rooted
<1>1. TypeOK /\ MadeAnswered /\ HasLatest /\ draft[r] \in Rows /\ clock \in Nat
  BY DEF IInv, TypeOK
<1>2. pc[r] \in Working
  BY DEF Step, CheckProject, ReadModel, ReadStatements, ReadMappings, ReadTiering,
         ReadRegulatory, ReadManifest, ReadCRI, ReadCorpus, PinCorpus, ReadParent,
         Stamp, Insert
<1>3. r \notin made /\ \A q \in Requests \ {r} : ~InFlight(q)
  BY <1>1, <1>2 DEF MadeAnswered, SerialInv, OneInFlight
<1>4. StillSo(r) /\ AtTheEnd(r)
  BY DEF SerialInv
<1>5. CASE CheckProject(r) \/ ReadTiering(r)
  <2>1. /\ UNCHANGED <<model, cri, kb, made, clock, draft>>
        /\ \A q \in Requests \ {r} : pc'[q] = pc[q]
        /\ \/ pc[r] = "project" /\ pc'[r] \in {"model", "not_found"}
           \/ pc[r] = "tiering" /\ pc'[r] \in {"regulatory", "error"}
    BY <1>1, <1>5 DEF CheckProject, ReadTiering, TypeOK
  <2>2. StillSo(r)' /\ AtTheEnd(r)'
    BY <1>4, <2>1 DEF StillSo, AtTheEnd
  <2> QED  BY <1>3, <2>1, <2>2, SerialOwnRow
<1>6. CASE ReadModel(r)
  <2>1. /\ UNCHANGED <<model, cri, kb, made, clock>>
        /\ \A q \in Requests \ {r} : draft'[q] = draft[q] /\ pc'[q] = pc[q]
        /\ draft'[r].model = model /\ draft'[r].used = draft[r].used
        /\ pc[r] = "model" /\ pc'[r] \in {"error", "not_found", "statements"}
    BY <1>1, <1>6 DEF ReadModel, TypeOK, Rows
  <2>2. StillSo(r)' /\ AtTheEnd(r)'
    BY <1>4, <2>1 DEF StillSo, AtTheEnd
  <2> QED  BY <1>3, <2>1, <2>2, SerialOwnRow
<1>7. ASSUME NEW read \in CRIReads, NEW next \in Working, ReadCRI(r, read, next),
             next \in Labels(read),
             read = "statements" /\ next = "tiering" => cri = None
      PROVE  SerialInv'
  <2>1. /\ UNCHANGED <<model, cri, kb, made, clock>>
        /\ \A q \in Requests \ {r} : draft'[q] = draft[q] /\ pc'[q] = pc[q]
        /\ pc[r] = read
        /\ \/ pc'[r] = "error" /\ draft' = draft
           \/ /\ pc'[r] = next
              /\ draft'[r] = [draft[r] EXCEPT !.used[read] = cri]
    BY <1>1, <1>7 DEF ReadCRI, TypeOK
  <2>2. CASE pc'[r] = "error" /\ draft' = draft
    <3>1. StillSo(r)' /\ AtTheEnd(r)'
      BY <1>4, <2>2 DEF StillSo, AtTheEnd
    <3> QED  BY <1>3, <2>1, <3>1, SerialOwnRow
  <2>3. CASE pc'[r] = next /\ draft'[r] = [draft[r] EXCEPT !.used[read] = cri]
    <3>1. draft[r].used \in [CRIReads -> Profiles \cup {None}]
      BY <1>1 DEF Rows
    <3>2. draft'[r].used = [draft[r].used EXCEPT ![read] = cri] /\ draft'[r].model = draft[r].model
      BY <1>1, <2>3 DEF Rows
    <3>3. /\ draft'[r].used[read] = cri
          /\ \A other \in CRIReads \ {read} : draft'[r].used[other] = draft[r].used[other]
      BY <3>1, <3>2
    <3>4. StillSo(r)'
      <4>1. CASE read = "statements"
        BY <1>4, <1>7, <2>1, <2>3, <3>2, <3>3, <4>1 DEF StillSo
      <4>2. CASE read = "mappings"
        BY <1>4, <1>7, <2>1, <2>3, <3>2, <3>3, <4>2 DEF StillSo
      <4>3. CASE read = "regulatory"
        BY <1>4, <1>7, <2>1, <2>3, <3>2, <3>3, <4>3 DEF StillSo
      <4>4. CASE read = "manifest"
        BY <1>4, <1>7, <2>1, <2>3, <3>2, <3>3, <4>4 DEF StillSo
      <4> QED  BY <4>1, <4>2, <4>3, <4>4
    <3>5. AtTheEnd(r)'
      BY <1>7, <2>1, <2>3 DEF AtTheEnd
    <3> QED  BY <1>3, <2>1, <3>4, <3>5, SerialOwnRow
  <2> QED  BY <2>1, <2>2, <2>3
<1>8. CASE ReadStatements(r) \/ ReadMappings(r) \/ ReadRegulatory(r) \/ ReadManifest(r)
  BY <1>7, <1>8 DEF ReadStatements, ReadMappings, ReadRegulatory, ReadManifest
<1>9. CASE ReadCorpus(r)
  <2>1. /\ UNCHANGED <<model, cri, kb, made, clock>>
        /\ \A q \in Requests \ {r} : draft'[q] = draft[q] /\ pc'[q] = pc[q]
        /\ draft'[r].model = draft[r].model /\ draft'[r].used = draft[r].used
        /\ draft'[r].kbUsed = kb
        /\ pc[r] = "corpus" /\ pc'[r] = "pin"
    BY <1>1, <1>9 DEF ReadCorpus, TypeOK, Rows
  <2>2. StillSo(r)' /\ AtTheEnd(r)'
    BY <1>4, <2>1 DEF StillSo, AtTheEnd
  <2> QED  BY <1>3, <2>1, <2>2, SerialOwnRow
<1>10. CASE PinCorpus(r)
  <2>1. /\ UNCHANGED <<model, cri, kb, made, clock>>
        /\ \A q \in Requests \ {r} : draft'[q] = draft[q] /\ pc'[q] = pc[q]
        /\ draft'[r].model = draft[r].model /\ draft'[r].used = draft[r].used
        /\ draft'[r].kbUsed = draft[r].kbUsed /\ draft'[r].kbPin = kb
        /\ pc[r] = "pin" /\ pc'[r] \in {"parent", "unprocessable"}
    BY <1>1, <1>10 DEF PinCorpus, TypeOK, Rows
  <2>2. StillSo(r)' /\ AtTheEnd(r)'
    BY <1>4, <2>1 DEF StillSo, AtTheEnd
  <2> QED  BY <1>3, <2>1, <2>2, SerialOwnRow
<1>11. CASE ReadParent(r)
  <2>1. /\ UNCHANGED <<model, cri, kb, made, clock>>
        /\ \A q \in Requests \ {r} : draft'[q] = draft[q] /\ pc'[q] = pc[q]
        /\ draft'[r].model = draft[r].model /\ draft'[r].used = draft[r].used
        /\ draft'[r].kbUsed = draft[r].kbUsed /\ draft'[r].kbPin = draft[r].kbPin
        /\ draft'[r].parent = Latest
        /\ pc[r] = "parent" /\ pc'[r] \in {"stamp", "error"}
    BY <1>1, <1>11 DEF ReadParent, TypeOK, Rows
  <2>2. None \notin made /\ \A x \in made : x \in Requests \ {r}
    BY <1>1, <1>3, NoneAssumption DEF TypeOK
  <2>3. made # {} => /\ Latest \in made /\ Latest # None
                     /\ \A x \in made : draft[x].at <= draft[Latest].at
    BY <1>1, <2>2, LatestCommitted
  <2>4. StillSo(r)'
    BY <1>4, <2>1 DEF StillSo
  <2>5. AtTheEnd(r)'
    BY <2>1, <2>2, <2>3 DEF AtTheEnd
  <2> QED  BY <1>3, <2>1, <2>4, <2>5, SerialOwnRow
<1>12. CASE Stamp(r)
  <2>1. CASE ~project
    <3>1. /\ UNCHANGED <<model, cri, kb, made, clock, draft>>
          /\ \A q \in Requests \ {r} : pc'[q] = pc[q]
          /\ pc'[r] = "error"
      BY <1>1, <1>12, <2>1 DEF Stamp, TypeOK
    <3>2. StillSo(r)' /\ AtTheEnd(r)'
      BY <1>4, <3>1 DEF StillSo, AtTheEnd
    <3> QED  BY <1>3, <3>1, <3>2, SerialOwnRow
  <2>2. CASE project
    <3>1. /\ UNCHANGED <<model, cri, kb, made>>
          /\ \A q \in Requests \ {r} : draft'[q] = draft[q] /\ pc'[q] = pc[q]
          /\ draft'[r].model = draft[r].model /\ draft'[r].used = draft[r].used
          /\ draft'[r].kbUsed = draft[r].kbUsed /\ draft'[r].kbPin = draft[r].kbPin
          /\ draft'[r].parent = draft[r].parent /\ draft'[r].at = clock + 1
          /\ pc[r] = "stamp" /\ pc'[r] = "insert"
      BY <1>1, <1>12, <2>2 DEF Stamp, TypeOK, Rows
    <3>2. StillSo(r)'
      BY <1>4, <3>1 DEF StillSo
    <3>3. AtTheEnd(r)'
      <4> SUFFICES ASSUME NEW x \in made
                   PROVE  /\ draft[r].parent # None
                          /\ draft'[x].at <= draft'[draft[r].parent].at
                          /\ draft'[x].at < clock + 1
        BY <3>1 DEF AtTheEnd
      <4>1. x \in Requests \ {r} /\ draft[x] \in Rows
        BY <1>1, <1>3 DEF TypeOK
      <4>2. draft[x].at <= clock /\ draft[x].at \in Nat
        BY <4>1 DEF IInv, RowOK, StampPast, Rows
      <4>3. draft[r].parent # None /\ draft[x].at <= draft[draft[r].parent].at
        BY <1>4, <3>1 DEF AtTheEnd
      <4>4. draft[r].parent \in Requests \ {r}
        BY <1>1, <1>3, <4>3 DEF IInv, RowOK, ParentOlder, TypeOK
      <4> QED  BY <1>1, <3>1, <4>1, <4>2, <4>3, <4>4
    <3> QED  BY <1>3, <3>1, <3>2, <3>3, SerialOwnRow
  <2> QED  BY <2>1, <2>2
<1>13. CASE Insert(r)
  <2>1. /\ UNCHANGED <<model, cri, kb, clock, draft>> /\ made' = made \cup {r}
        /\ \A q \in Requests \ {r} : pc'[q] = pc[q]
        /\ pc[r] = "insert" /\ pc'[r] = "ok"
    BY <1>1, <1>13 DEF Insert, TypeOK
  <2>2. \A q \in Requests : StillSo(q)' /\ AtTheEnd(q)'
    BY <1>3, <2>1 DEF SerialInv, StillSo, AtTheEnd
  <2>3. OneInFlight'
    BY <1>3, <2>1 DEF OneInFlight
  <2>4. Ordered'
    <3>1. \A x \in made : /\ draft[r].parent # None
                          /\ draft[x].at <= draft[draft[r].parent].at
                          /\ draft[x].at < draft[r].at
      BY <1>4, <2>1 DEF AtTheEnd
    <3>2. \A x \in made \cup {r} : draft[x].at \in Nat
      BY <1>1 DEF TypeOK, Rows
    <3> QED  BY <1>3, <2>1, <3>1, <3>2 DEF SerialInv, Ordered
  <2>5. Consistent(r)'
    <3>1. /\ draft[r].model = model /\ draft[r].kbUsed = kb /\ draft[r].kbPin = kb
          /\ \A read \in CRIReads : draft[r].used[read] = cri
      BY <1>4, <2>1 DEF StillSo
    <3>2. ASSUME draft[r].parent # None
          PROVE  /\ draft[draft[r].parent].model <= model
                 /\ draft[draft[r].parent].kbPin <= kb
      <4>1. draft[r].parent \in made /\ draft[r].parent \in Requests
        BY <1>1, <3>2 DEF IInv, RowOK, ParentOlder, TypeOK
      <4> QED  BY <4>1 DEF IInv, RowOK, CorpusPast, SerialInv, Consistent
    <3>3. model <= model
      BY <1>1 DEF TypeOK
    <3> QED  BY <2>1, <3>1, <3>2, <3>3 DEF Consistent
  <2>6. \A q \in made' : Consistent(q)'
    BY <2>1, <2>5 DEF SerialInv, Consistent
  <2> QED  BY <2>2, <2>3, <2>4, <2>6 DEF SerialInv
<1> QED  BY <1>5, <1>6, <1>8, <1>9, <1>10, <1>11, <1>12, <1>13 DEF Step

LEMMA SerialNext == IInv /\ (serial => SerialInv) /\ [Next]_vars => (serial => SerialInv)'
<1> SUFFICES ASSUME IInv, SerialInv, serial, [Next]_vars PROVE SerialInv'
  BY SerialConstant, Zenon
<1> USE DEF ModelRead, StatementsRead, MappingsRead, RegulatoryRead, ProfileNamed,
            CorpusRead, CorpusNamed, Rooted
<1>1. IInv'
  BY InvNext
<1>2. CASE World
  BY <1>2, SerialWorld
<1>3. ASSUME NEW r \in Requests, Step(r) PROVE SerialInv'
  BY <1>1, <1>3, SerialStep DEF IInv
<1>4. ASSUME NEW r \in Requests, Send(r) PROVE SerialInv'
  <2>1. /\ UNCHANGED <<model, cri, kb, made, draft>>
        /\ \A q \in Requests \ {r} : pc'[q] = pc[q]
        /\ pc[r] = "idle" /\ pc'[r] = "project" /\ Quiet
    BY <1>4 DEF Send, IInv, TypeOK
  <2>2. \A q \in Requests : ~InFlight(q)
    BY <2>1, Zenon DEF Quiet
  <2>3. r \notin made
    BY <2>1 DEF IInv, MadeAnswered
  <2>4. StillSo(r)' /\ AtTheEnd(r)'
    BY <2>1 DEF SerialInv, StillSo, AtTheEnd
  <2> QED  BY <2>1, <2>2, <2>3, <2>4, SerialOwnRow
<1>5. CASE Crash
  <2>1. UNCHANGED <<model, cri, kb, made, draft>>
    BY <1>5 DEF Crash
  <2>2. \A q \in Requests : pc'[q] = IF InFlight(q) THEN "lost" ELSE pc[q]
    BY <1>5 DEF Crash
  <2>3. \A q \in Requests : StillSo(q)' /\ AtTheEnd(q)'
    BY <2>1, <2>2 DEF SerialInv, StillSo, AtTheEnd
  <2>4. OneInFlight'
    BY <2>2 DEF SerialInv, OneInFlight
  <2> QED  BY <2>1, <2>3, <2>4 DEF SerialInv, Ordered, Consistent
<1>6. CASE UNCHANGED vars
  BY <1>6 DEF vars, SerialInv, OneInFlight, StillSo, AtTheEnd, Ordered, Consistent
<1> QED  BY <1>2, <1>3, <1>4, <1>5, <1>6 DEF Next

LEMMA SerialHolds == Spec => [](serial => SerialInv)
<1>1. Init => SerialInv
  BY SerialInit
<1> QED  BY <1>1, SerialNext, InvHolds, PTL DEF Spec

(* When clients take turns, POST /revisions builds one chain: one root, no *)
(* forks, inputs that never go back.                                       *)
THEOREM SerialRevisionsAreOneChain == Spec => []LinearChain
<1>1. IInv /\ (serial => SerialInv) => LinearChain
  <2> SUFFICES ASSUME IInv, SerialInv, NEW r \in made, NEW q \in made
               PROVE  /\ r # q => draft[r].parent # draft[q].parent
                      /\ draft[r].parent = q =>
                           draft[q].model <= draft[r].model /\ draft[q].kbPin <= draft[r].kbPin
    BY DEF LinearChain
  <2>1. ASSUME NEW x \in made
        PROVE  /\ draft[x].at \in Nat
               /\ draft[x].parent # None =>
                    /\ draft[draft[x].parent].at \in Nat
                    /\ draft[draft[x].parent].at < draft[x].at
    BY DEF IInv, TypeOK, RowOK, ParentOlder, Built, Rows
  <2>2. ASSUME r # q PROVE draft[r].parent # draft[q].parent
    <3>1. CASE draft[q].at < draft[r].at
      BY <2>1, <2>2, <3>1 DEF SerialInv, Ordered
    <3>2. CASE draft[r].at < draft[q].at
      BY <2>1, <2>2, <3>2 DEF SerialInv, Ordered
    <3>3. draft[r].at # draft[q].at
      BY <2>2 DEF SerialInv, Ordered
    <3> QED  BY <2>1, <3>1, <3>2, <3>3
  <2>3. q # None
    BY NoneAssumption DEF IInv, TypeOK
  <2> QED  BY <2>2, <2>3 DEF SerialInv, Consistent
<1> QED  BY <1>1, InvHolds, SerialHolds, PTL

(* When clients take turns, a revision is computed from exactly the corpus *)
(* and the CRI profile it records.                                         *)
THEOREM SerialRevisionsAreAttributable == Spec => []Attributable
<1>1. (serial => SerialInv) => Attributable
  BY DEF SerialInv, Consistent, Attributable, CorpusAttributed
<1> QED  BY <1>1, SerialHolds, PTL
=============================================================================
