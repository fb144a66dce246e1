------------------------- MODULE ProfileStoreProofs -------------------------
(***************************************************************************)
(* The snapshots on disk, for any number of refresh threads, sources,      *)
(* uploads, catalogues and stops: what is published is whole, the latest   *)
(* knowledge base never goes back, and an upload is answered with the      *)
(* knowledge base its mappings were inferred from.                         *)
(***************************************************************************)
EXTENDS ProfileStore, TLAPS

-----------------------------------------------------------------------------
(* Knowledge base: the inductive invariant, in named parts.                *)

Threads == {"idle", "fetch", "write", "rename", "done", "failed"}
Unpublished == {"write", "rename"}
Contents == {v[s] : v \in Upstreams, s \in Sources}

RefreshTypes ==
  /\ refresh \in [Refreshes -> Threads] /\ upstream \in Upstreams
  /\ stamp \in [Refreshes -> Nat] /\ clock \in Nat
  /\ DOMAIN fetched = Refreshes

(* What has been fetched is part of what upstream held.                    *)
FetchedPart ==
  \A t \in Refreshes :
    /\ Fetched(t) \subseteq Sources /\ fetched[t] = [s \in Fetched(t) |-> fetched[t][s]]
    /\ \A s \in Fetched(t) : fetched[t][s] \in Contents

(* A thread that publishes has everything, and a stamp of its own.         *)
OwnStamp ==
  /\ \A t \in Refreshes : refresh[t] \in Unpublished =>
       /\ Fetched(t) = Sources /\ stamp[t] \in 1..clock
       /\ \A h \in DOMAIN snapshots : snapshots[h].at # stamp[t]
  /\ \A t, v \in Refreshes :
       refresh[t] \in Unpublished /\ refresh[v] \in Unpublished /\ stamp[t] = stamp[v] => t = v

Published ==
  \A h \in DOMAIN snapshots :
    /\ DOMAIN snapshots[h].of = Sources /\ ContentHash[snapshots[h].of] = h
    /\ h \in Range(ContentHash) /\ snapshots[h].at \in 1..clock

Distinct == \A g, h \in DOMAIN snapshots : snapshots[g].at = snapshots[h].at => g = h

(* There is a latest snapshot, though nothing bounds their number.         *)
HasLatest ==
  DOMAIN snapshots # {} =>
    \E h \in DOMAIN snapshots : \A g \in DOMAIN snapshots : snapshots[g].at =< snapshots[h].at

Succeeded == \A t \in Refreshes : refresh[t] = "done" => Hash(t) \in DOMAIN snapshots

KInv ==
  RefreshTypes /\ FetchedPart /\ OwnStamp /\ Published /\ Distinct /\ HasLatest /\ Succeeded

-----------------------------------------------------------------------------

LEMMA KInvInit == KBInit => KInv
<1> SUFFICES ASSUME KBInit PROVE KInv
  OBVIOUS
<1>1. DOMAIN snapshots = {} /\ \A t \in Refreshes : Fetched(t) = {} /\ fetched[t] = <<>>
  BY DEF KBInit, Fetched
<1>2. FetchedPart
  <2>1. <<>> = [s \in {} |-> <<>>[s]]
    OBVIOUS
  <2> QED  BY <1>1, <2>1 DEF FetchedPart
<1>3. RefreshTypes /\ \A t \in Refreshes : refresh[t] = "idle"
  BY DEF KBInit, RefreshTypes, Threads
<1> QED
  BY <1>1, <1>2, <1>3 DEF KInv, OwnStamp, Published, Distinct, HasLatest, Succeeded, Unpublished

(* What a thread that has everything publishes is named by its hash.       *)
LEMMA HashIsKnown ==
  ASSUME RefreshTypes, FetchedPart, NEW t \in Refreshes, Fetched(t) = Sources
  PROVE  Hash(t) \in Range(ContentHash) /\ DOMAIN fetched[t] = Sources
<1>1. fetched[t] \in [Sources -> Contents]
  BY DEF FetchedPart
<1>2. fetched[t] \in DOMAIN ContentHash
  BY <1>1, KBAssumption DEF Contents
<1> QED  BY <1>2 DEF Hash, Range, Fetched

LEMMA KInvFetch ==
  ASSUME KInv, NEW t \in Refreshes, NEW s \in Sources, Fetch(t, s)
  PROVE  KInv'
<1> USE DEF KInv, Fetch
<1> DEFINE new == [x \in Fetched(t) \cup {s} |-> IF x = s THEN upstream[s] ELSE fetched[t][x]]
<1>1. refresh[t] = "fetch" /\ UNCHANGED <<upstream, refresh, stamp, clock, snapshots, leftovers>>
  OBVIOUS
<1>2. fetched'[t] = new /\ DOMAIN fetched' = Refreshes /\ \A v \in Refreshes : v # t => fetched'[v] = fetched[v]
  BY DEF RefreshTypes
<1>3. upstream[s] \in Contents
  BY DEF RefreshTypes, Contents
<1>4. /\ DOMAIN new = Fetched(t) \cup {s} /\ \A x \in DOMAIN new : new[x] \in Contents
      /\ new = [x \in DOMAIN new |-> new[x]]
  BY <1>3 DEF FetchedPart
<1> HIDE DEF new
<1>5. FetchedPart'
  BY <1>2, <1>4 DEF FetchedPart, Fetched
<1>6. \A v \in Refreshes : v # t => Fetched(v)' = Fetched(v) /\ Hash(v)' = Hash(v)
  BY <1>2 DEF Fetched, Hash
<1>7. RefreshTypes'
  BY <1>1, <1>2 DEF RefreshTypes
<1>8. OwnStamp' /\ Succeeded'
  BY <1>1, <1>6 DEF OwnStamp, Succeeded, Unpublished
<1>9. Published' /\ Distinct' /\ HasLatest'
  BY <1>1 DEF Published, Distinct, HasLatest
<1> QED  BY <1>5, <1>7, <1>8, <1>9

(* A stamp is later than all others.                                       *)
LEMMA KInvCheck ==
  ASSUME KInv, NEW t \in Refreshes, CheckExisting(t)
  PROVE  KInv'
<1> USE DEF KInv, CheckExisting
<1>1. UNCHANGED <<upstream, fetched, snapshots>> /\ Fetched(t) = Sources /\ clock' = clock + 1 /\ clock \in Nat
  BY DEF RefreshTypes
<1>2. stamp'[t] = clock + 1 /\ \A v \in Refreshes : v # t => stamp'[v] = stamp[v]
  BY <1>1 DEF RefreshTypes
<1>3. /\ refresh'[t] = IF Hash(t) \in DOMAIN snapshots THEN "done" ELSE "write"
      /\ \A v \in Refreshes : v # t => refresh'[v] = refresh[v]
  BY DEF RefreshTypes
<1>4. RefreshTypes'
  BY <1>1 DEF RefreshTypes, Threads
<1>5. FetchedPart' /\ Succeeded'
  BY <1>1, <1>3 DEF FetchedPart, Fetched, Succeeded, Hash
<1>6. OwnStamp'
  BY <1>1, <1>2, <1>3 DEF OwnStamp, Unpublished, Published, Fetched
<1>7. Published' /\ Distinct' /\ HasLatest'
  BY <1>1 DEF Published, Distinct, HasLatest
<1> QED  BY <1>4, <1>5, <1>6, <1>7

LEMMA KInvRename ==
  ASSUME KInv, NEW t \in Refreshes, Rename(t)
  PROVE  /\ KInv'
         /\ \A h \in DOMAIN snapshots : h \in DOMAIN snapshots' /\ snapshots'[h] = snapshots[h]
<1> USE DEF KInv
<1>1. refresh[t] = "rename" /\ UNCHANGED <<upstream, fetched, stamp, clock>>
  BY DEF Rename
<1>2. (\A v \in Refreshes : v # t => refresh'[v] = refresh[v]) /\ refresh'[t] \in {"done", "failed"}
  BY DEF Rename, RefreshTypes
<1>3. RefreshTypes' /\ FetchedPart'
  BY <1>1 DEF Rename, RefreshTypes, FetchedPart, Fetched, Threads
<1>4. CASE Hash(t) \in DOMAIN snapshots
  <2>1. UNCHANGED snapshots /\ refresh'[t] = "failed"
    BY <1>4 DEF Rename, RefreshTypes
  <2>2. OwnStamp' /\ Published' /\ Distinct' /\ HasLatest' /\ Succeeded'
    BY <1>1, <1>2, <2>1 DEF OwnStamp, Published, Distinct, HasLatest, Succeeded, Unpublished, Fetched, Hash
  <2> QED  BY <1>3, <2>1, <2>2
<1>5. CASE Hash(t) \notin DOMAIN snapshots
  <2> DEFINE row == [of |-> fetched[t], at |-> stamp[t]]
  <2> DEFINE h0 == Hash(t)
  <2>1. snapshots' = [h \in DOMAIN snapshots \cup {h0} |-> IF h = h0 THEN row ELSE snapshots[h]]
    BY <1>5 DEF Rename
  <2>2. row.of = fetched[t] /\ row.at = stamp[t]
    OBVIOUS
  <2>3. h0 \in Range(ContentHash) /\ DOMAIN fetched[t] = Sources /\ ContentHash[fetched[t]] = h0
    BY <1>1, HashIsKnown DEF OwnStamp, Unpublished, Hash
  <2>4. stamp[t] \in 1..clock /\ \A h \in DOMAIN snapshots : snapshots[h].at # stamp[t]
    BY <1>1 DEF OwnStamp, Unpublished
  <2>5. h0 \notin DOMAIN snapshots
    BY <1>5
  <2>6. \A v \in Refreshes : Hash(v)' = Hash(v) /\ Fetched(v)' = Fetched(v)
    BY <1>1 DEF Hash, Fetched
  <2>7. refresh'[t] = "done" /\ Hash(t) = h0
    BY <1>5 DEF Rename, RefreshTypes
  <2> HIDE DEF row, h0
  <2>8. /\ DOMAIN snapshots' = DOMAIN snapshots \cup {h0} /\ snapshots'[h0] = row
        /\ \A h \in DOMAIN snapshots : snapshots'[h] = snapshots[h]
    BY <2>1, <2>5
  <2>9. OwnStamp'
    BY <1>1, <1>2, <2>2, <2>6, <2>7, <2>8 DEF OwnStamp, Unpublished
  <2>10. Published' /\ Distinct'
    BY <1>1, <2>2, <2>3, <2>4, <2>8 DEF Published, Distinct
  <2>11. HasLatest'
    <3>1. \A h \in DOMAIN snapshots : snapshots[h].at \in Nat
      BY DEF Published, RefreshTypes
    <3>2. row.at \in Nat
      BY <2>2, <2>4 DEF RefreshTypes
    <3>3. CASE DOMAIN snapshots = {}
      BY <2>8, <3>2, <3>3 DEF HasLatest
    <3>4. CASE DOMAIN snapshots # {}
      <4>1. PICK l \in DOMAIN snapshots : \A g \in DOMAIN snapshots : snapshots[g].at =< snapshots[l].at
        BY <3>4 DEF HasLatest
      <4>2. CASE row.at =< snapshots[l].at
        BY <2>8, <4>1, <4>2 DEF HasLatest
      <4>3. CASE ~(row.at =< snapshots[l].at)
        <5>1. \A g \in DOMAIN snapshots' : snapshots'[g].at =< snapshots'[h0].at
          BY <2>8, <3>1, <3>2, <4>1, <4>3
        <5> QED  BY <2>8, <5>1 DEF HasLatest
      <4> QED  BY <4>2, <4>3
    <3> QED  BY <3>3, <3>4
  <2>12. Succeeded'
    BY <1>2, <2>6, <2>7, <2>8 DEF Succeeded
  <2> QED  BY <1>3, <2>8, <2>9, <2>10, <2>11, <2>12
<1> QED  BY <1>4, <1>5

(* A thread that moves without a stamp or a rename, a stop, upstream.      *)
LEMMA KInvMove ==
  ASSUME KInv, upstream' \in Upstreams, refresh' \in [Refreshes -> Threads],
         UNCHANGED <<fetched, stamp, clock, snapshots>>,
         \A t \in Refreshes :
           /\ refresh'[t] \in Unpublished => refresh[t] \in Unpublished
           /\ refresh'[t] = "done" => refresh[t] = "done"
  PROVE  KInv'
<1> USE DEF KInv
<1>1. RefreshTypes' /\ FetchedPart' /\ Published' /\ Distinct' /\ HasLatest'
  BY DEF RefreshTypes, FetchedPart, Fetched, Published, Distinct, HasLatest
<1>2. OwnStamp' /\ Succeeded'
  BY DEF OwnStamp, Succeeded, Fetched, Hash
<1> QED  BY <1>1, <1>2

(* Snapshots are published, never rewritten nor removed.                   *)
SnapshotsKept ==
  \A h \in DOMAIN snapshots : h \in DOMAIN snapshots' /\ snapshots'[h] = snapshots[h]

LEMMA KInvNext == KInv /\ (KBNext \/ Stop \/ UNCHANGED kb) => KInv' /\ SnapshotsKept
<1> SUFFICES ASSUME KInv, KBNext \/ Stop \/ UNCHANGED kb PROVE KInv' /\ SnapshotsKept
  OBVIOUS
<1>0. refresh \in [Refreshes -> Threads] /\ upstream \in Upstreams
  BY DEF KInv, RefreshTypes
<1>1. CASE UpstreamChanges
  BY <1>0, <1>1, KInvMove DEF UpstreamChanges, SnapshotsKept
<1>2. ASSUME NEW t \in Refreshes, StartRefresh(t) \/ FetchFails(t) \/ WriteTemporary(t)
      PROVE  KInv' /\ SnapshotsKept
  <2>1. refresh' \in [Refreshes -> Threads] /\ UNCHANGED <<upstream, fetched, stamp, clock, snapshots>>
    BY <1>0, <1>2 DEF StartRefresh, FetchFails, WriteTemporary, Threads
  <2>2. \A v \in Refreshes :
           /\ refresh'[v] \in Unpublished => refresh[v] \in Unpublished
           /\ refresh'[v] = "done" => refresh[v] = "done"
    BY <1>0, <1>2 DEF StartRefresh, FetchFails, WriteTemporary, Unpublished
  <2> QED  BY <1>0, <2>1, <2>2, KInvMove DEF SnapshotsKept
<1>3. ASSUME NEW t \in Refreshes, NEW s \in Sources, Fetch(t, s) PROVE KInv' /\ SnapshotsKept
  BY <1>3, KInvFetch DEF Fetch, SnapshotsKept
<1>4. ASSUME NEW t \in Refreshes, CheckExisting(t) PROVE KInv' /\ SnapshotsKept
  BY <1>4, KInvCheck DEF CheckExisting, SnapshotsKept
<1>5. ASSUME NEW t \in Refreshes, Rename(t) PROVE KInv' /\ SnapshotsKept
  BY <1>5, KInvRename DEF SnapshotsKept
<1>6. CASE Stop
  <2>1. RefreshesLost
    BY <1>6 DEF Stop
  <2> QED  BY <1>0, <2>1, KInvMove DEF RefreshesLost, SnapshotsKept, Unpublished, Threads
<1>7. CASE UNCHANGED kb
  BY <1>0, <1>7, KInvMove DEF kb, SnapshotsKept
<1> QED  BY <1>1, <1>2, <1>3, <1>4, <1>5, <1>6, <1>7 DEF KBNext, RefreshStep

(* What CHOOSE picks, for the snapshots before and after a step.           *)
LEMMA Greatest ==
  ASSUME NEW s, \E h \in DOMAIN s : \A g \in DOMAIN s : s[g].at =< s[h].at
  PROVE  LET l == CHOOSE h \in DOMAIN s : \A g \in DOMAIN s : s[g].at =< s[h].at
         IN  l \in DOMAIN s /\ \A g \in DOMAIN s : s[g].at =< s[l].at
OBVIOUS

LEMMA LatestIs ==
  ASSUME KInv
  PROVE  /\ DOMAIN snapshots = {} => Latest = NoSnapshot
         /\ DOMAIN snapshots # {} =>
              Latest \in DOMAIN snapshots /\ \A g \in DOMAIN snapshots : snapshots[g].at =< snapshots[Latest].at
BY Greatest DEF KInv, HasLatest, Latest

-----------------------------------------------------------------------------
(* Theorems about the knowledge base *)

LEMMA KInvHolds == StoreSpec => []KInv
<1>1. StoreInit => KInv
  BY KInvInit DEF StoreInit
<1>2. KInv /\ [StoreNext]_storeVars => KInv'
  <2> SUFFICES ASSUME KInv, [StoreNext]_storeVars PROVE KInv'
    OBVIOUS
  <2>1. KBNext \/ Stop \/ UNCHANGED kb
    BY DEF StoreNext, StartUpload, UploadStep, PickLatest, PublishProfile, AlreadyThere,
       ManifestUnreadable, TruncateMappings, WriteMappings, TruncateManifest, WriteManifest,
       CommitProject, AnswerUpload, storeVars
  <2> QED  BY <2>1, KInvNext
<1> QED  BY <1>1, <1>2, PTL DEF StoreSpec

(* Whatever threads race, what is published is whole, named by its content *)
(* and told apart by its time; a refresh that succeeded has its snapshot.  *)
THEOREM SnapshotsAreWhole == StoreSpec => []SnapshotsWhole
<1>1. KInv => SnapshotsWhole
  BY DEF KInv, Published, Distinct, Succeeded, SnapshotsWhole
<1> QED  BY <1>1, KInvHolds, PTL

(* Snapshots are never rewritten nor removed, and the latest is never      *)
(* replaced by an older one, whatever the order in which threads publish.  *)
THEOREM LatestStays == StoreSpec => LatestNeverGoesBack
<1>1. ASSUME KInv, KInv', [StoreNext]_storeVars
      PROVE  [ /\ \A h \in DOMAIN snapshots : h \in DOMAIN snapshots' /\ snapshots'[h] = snapshots[h]
               /\ Latest # NoSnapshot => snapshots[Latest].at =< snapshots'[Latest'].at ]_snapshots
  <2>1. KBNext \/ Stop \/ UNCHANGED kb
    BY <1>1 DEF StoreNext, StartUpload, UploadStep, PickLatest, PublishProfile, AlreadyThere,
       ManifestUnreadable, TruncateMappings, WriteMappings, TruncateManifest, WriteManifest,
       CommitProject, AnswerUpload, storeVars
  <2>2. SnapshotsKept
    BY <1>1, <2>1, KInvNext
  <2>3. ASSUME Latest # NoSnapshot PROVE snapshots[Latest].at =< snapshots'[Latest'].at
    <3>1. Latest \in DOMAIN snapshots
      BY <1>1, <2>3, LatestIs
    <3>2. Latest \in DOMAIN snapshots' /\ snapshots'[Latest] = snapshots[Latest]
      BY <2>2, <3>1 DEF SnapshotsKept
    <3>3. \E h \in DOMAIN snapshots' : \A g \in DOMAIN snapshots' : snapshots'[g].at =< snapshots'[h].at
      BY <1>1, <3>2 DEF KInv, HasLatest
    <3>4. Latest' = CHOOSE h \in DOMAIN snapshots' : \A g \in DOMAIN snapshots' : snapshots'[g].at =< snapshots'[h].at
      BY <3>2 DEF Latest
    <3>5. \A g \in DOMAIN snapshots' : snapshots'[g].at =< snapshots'[Latest'].at
      BY <3>3, <3>4, Greatest
    <3> QED  BY <3>2, <3>5
  <2> QED  BY <2>2, <2>3 DEF SnapshotsKept
<1> QED  BY <1>1, KInvHolds, PTL DEF StoreSpec, LatestNeverGoesBack

-----------------------------------------------------------------------------
(* Profiles: the inductive invariant, in named parts.                      *)

Phases == {"idle", "commit", "answer", "done", "failed"} \cup Running
Bases == DOMAIN snapshots \cup {NoSnapshot}
Rewriting(u) == upload[u] \in {"truncated", "mapped", "cut"}

ProfileTypes ==
  /\ upload \in [Uploads -> Phases] /\ against \in [Uploads -> Bases]
  /\ answer \in [Uploads -> {<<>>} \cup {<<k, m>> : k \in Bases \cup {Torn}, m \in Bases \cup {Torn}}]
  /\ DOMAIN mappings = DOMAIN pin
  /\ \A c \in DOMAIN pin : pin[c] \in Bases \cup {Torn} /\ mappings[c] \in Bases \cup {Torn}

OneRunning == \A u, v \in Uploads : upload[u] \in Running /\ upload[v] \in Running => u = v

(* No pin is ahead of what a running upload has picked, and one whose      *)
(* mappings are not its own is behind it.                                  *)
PickedLatest ==
  \A u \in Uploads, c \in DOMAIN pin :
    upload[u] \in {"check", "truncated", "mapped", "cut"} /\ pin[c] # Torn =>
      /\ Age(pin[c]) =< Age(against[u])
      /\ mappings[c] # pin[c] => Age(pin[c]) < Age(against[u])

(* Where a rewrite is.                                                     *)
RewriteOf(u) ==
  LET c == CatalogOf[u] IN
  /\ Rewriting(u) => c \in DOMAIN pin
  /\ upload[u] = "truncated" => mappings[c] = Torn
  /\ upload[u] \in {"mapped", "cut"} => mappings[c] = against[u]
  /\ upload[u] \in {"truncated", "mapped"} => pin[c] # Torn /\ Age(pin[c]) < Age(against[u])
  /\ upload[u] = "cut" => pin[c] = Torn

(* A pin whose mappings are not its own is not the latest any more, and    *)
(* never behind in turn.                                                   *)
OldPin ==
  \A c \in DOMAIN pin : pin[c] # Torn /\ mappings[c] # pin[c] =>
    /\ \E k \in DOMAIN snapshots : Age(pin[c]) < Age(k)
    /\ mappings[c] # Torn => Age(pin[c]) < Age(mappings[c])

(* What is committed has its pin, unless somebody is rewriting it.         *)
CommittedPin ==
  \A u \in Uploads : upload[u] \in {"commit", "answer"} =>
    LET c == CatalogOf[u] IN
    /\ c \in DOMAIN pin
    /\ (pin[c] = mappings[c] /\ pin[c] # Torn) \/ \E v \in Uploads : Rewriting(v) /\ CatalogOf[v] = c

Answered ==
  \A u \in Uploads : upload[u] = "done" => answer[u][1] = answer[u][2] /\ answer[u][1] # Torn

PInv ==
  /\ ProfileTypes /\ OneRunning /\ PickedLatest /\ \A u \in Uploads : RewriteOf(u)
  /\ OldPin /\ CommittedPin /\ Answered

LEMMA PInvInit == StoreInit => PInv
<1> SUFFICES ASSUME StoreInit PROVE PInv
  OBVIOUS
<1>1. DOMAIN pin = {} /\ DOMAIN mappings = {} /\ \A u \in Uploads : upload[u] = "idle"
  BY DEF StoreInit, ProfilesInit
<1>2. ProfileTypes
  BY <1>1 DEF StoreInit, ProfilesInit, ProfileTypes, Phases, Bases
<1> QED
  BY <1>1, <1>2 DEF PInv, OneRunning, PickedLatest, RewriteOf, Rewriting, OldPin, CommittedPin, Answered, Running

(* Ages are numbers, tell bases apart, and a base keeps its age.           *)
LEMMA Ages ==
  ASSUME KInv
  PROVE  /\ \A k \in Bases : Age(k) \in Nat
         /\ \A k, m \in Bases : Age(k) = Age(m) => k = m
         /\ Torn \notin Bases
<1>1. \A h \in DOMAIN snapshots : h # NoSnapshot /\ h # Torn /\ snapshots[h].at \in 1..clock /\ clock \in Nat
  BY KBAssumption, ProfileAssumption DEF KInv, Published, RefreshTypes
<1>2. NoSnapshot # Torn
  BY ProfileAssumption
<1> QED  BY <1>1, <1>2 DEF Bases, Age, KInv, Distinct

LEMMA AgesKept ==
  ASSUME KInv, SnapshotsKept
  PROVE  \A k \in Bases : k \in Bases' /\ Age(k)' = Age(k)
BY DEF Bases, Age, SnapshotsKept

(* The knowledge base moves on, or the process stops.                      *)
LEMMA PInvKB ==
  ASSUME KInv, PInv, SnapshotsKept, UNCHANGED <<against, mappings, pin, answer>>,
         \/ UNCHANGED upload
         \/ \A u \in Uploads : upload'[u] = "failed" \/ (upload'[u] = upload[u] /\ upload[u] \in {"idle", "done"}),
         upload' \in [Uploads -> Phases]
  PROVE  PInv'
<1> USE DEF PInv
<1>1. \A k \in Bases : k \in Bases' /\ Age(k)' = Age(k)
  BY AgesKept
<1>2. /\ \A c \in DOMAIN pin : pin[c] \in Bases \cup {Torn} /\ mappings[c] \in Bases \cup {Torn}
      /\ \A u \in Uploads : against[u] \in Bases
  BY DEF ProfileTypes
<1>3. ProfileTypes'
  <2>1. against' \in [Uploads -> Bases']
    BY <1>1 DEF ProfileTypes
  <2>2. answer' \in [Uploads -> {<<>>} \cup {<<k, m>> : k \in Bases' \cup {Torn}, m \in Bases' \cup {Torn}}]
    BY <1>1 DEF ProfileTypes
  <2> QED  BY <1>1, <1>2, <2>1, <2>2 DEF ProfileTypes
<1>4. OneRunning' /\ Answered'
  BY DEF OneRunning, Answered, Running
<1>5. OldPin'
  <2> SUFFICES ASSUME NEW c \in DOMAIN pin, pin[c] # Torn, mappings[c] # pin[c]
               PROVE  /\ \E k \in DOMAIN snapshots' : Age(pin[c])' < Age(k)'
                      /\ mappings[c] # Torn => Age(pin[c])' < Age(mappings[c])'
    BY DEF OldPin
  <2>1. PICK k \in DOMAIN snapshots : Age(pin[c]) < Age(k)
    BY DEF OldPin
  <2>2. k \in Bases /\ k \in DOMAIN snapshots' /\ pin[c] \in Bases
    BY <1>2 DEF Bases, SnapshotsKept
  <2> QED  BY <1>1, <1>2, <2>1, <2>2 DEF OldPin
<1>6. PickedLatest' /\ CommittedPin' /\ \A u \in Uploads : RewriteOf(u)'
  <2>1. CASE UNCHANGED upload
    <3>1. PickedLatest'
      BY <1>1, <1>2, <2>1 DEF PickedLatest
    <3>2. \A u \in Uploads : RewriteOf(u)'
      BY <1>1, <1>2, <2>1 DEF RewriteOf, Rewriting
    <3>3. CommittedPin'
      BY <2>1 DEF CommittedPin, Rewriting
    <3> QED  BY <3>1, <3>2, <3>3
  <2>2. CASE ~UNCHANGED upload
    <3>1. \A u \in Uploads : upload'[u] \in {"failed", "idle", "done"}
      BY <2>2
    <3> QED  BY <3>1 DEF PickedLatest, RewriteOf, Rewriting, CommittedPin
  <2> QED  BY <2>1, <2>2
<1> QED  BY <1>3, <1>4, <1>5, <1>6

(* An upload that only moves, on the loop or before and after it.          *)
LEMMA PInvMove ==
  ASSUME PInv, NEW u \in Uploads, NEW s \in {"pick", "commit", "answer", "failed"}, Go(u, s),
         UNCHANGED <<kb, against, mappings, pin, answer>>, ~Rewriting(u),
         s = "pick" => LoopFree,
         s \in {"commit", "answer"} =>
           LET c == CatalogOf[u] IN
           /\ c \in DOMAIN pin
           /\ (pin[c] = mappings[c] /\ pin[c] # Torn) \/ \E v \in Uploads : Rewriting(v) /\ CatalogOf[v] = c
  PROVE  PInv'
<1> USE DEF PInv, Go, kb
<1>1. (\A v \in Uploads : v # u => upload'[v] = upload[v]) /\ upload'[u] = s
  BY DEF ProfileTypes
<1>2. \A k : Age(k)' = Age(k)
  BY DEF Age
<1>3. ProfileTypes'
  BY DEF ProfileTypes, Phases, Bases, Running
<1>4. OneRunning'
  BY <1>1 DEF OneRunning, LoopFree, Running
<1>5. PickedLatest'
  BY <1>1, <1>2 DEF PickedLatest
<1>6. \A v \in Uploads : RewriteOf(v)'
  BY <1>1, <1>2 DEF RewriteOf, Rewriting
<1>7. OldPin'
  BY <1>2 DEF OldPin
<1>8. \A v \in Uploads : Rewriting(v) => Rewriting(v)'
  BY <1>1 DEF Rewriting
<1>9. CommittedPin'
  BY <1>1, <1>8 DEF CommittedPin
<1>10. Answered'
  BY <1>1 DEF Answered
<1> QED  BY <1>3, <1>4, <1>5, <1>6, <1>7, <1>9, <1>10

(* The latest is picked: no pin is ahead of it, and a pin whose mappings   *)
(* are not its own is behind it.                                           *)
LEMMA PInvPick == ASSUME KInv, PInv, NEW u \in Uploads, PickLatest(u) PROVE PInv'
<1> USE DEF PInv, PickLatest, Go, kb
<1>1. /\ \A v \in Uploads : v # u => upload'[v] = upload[v] /\ against'[v] = against[v]
      /\ upload[u] = "pick" /\ upload'[u] = "check" /\ against'[u] = Latest
  BY DEF ProfileTypes
<1>2. \A k : Age(k)' = Age(k)
  BY DEF Age
<1>3. Latest \in Bases /\ \A k \in Bases : Age(k) =< Age(Latest)
  <2>1. CASE DOMAIN snapshots = {}
    BY <2>1, LatestIs, Ages DEF Bases, Age
  <2>2. CASE DOMAIN snapshots # {}
    <3>1. Latest \in DOMAIN snapshots /\ \A g \in DOMAIN snapshots : snapshots[g].at =< snapshots[Latest].at
      BY <2>2, LatestIs
    <3>2. Latest # NoSnapshot /\ Age(Latest) \in Nat
      BY <3>1, Ages, KBAssumption DEF KInv, Published, Bases
    <3> QED  BY <3>1, <3>2 DEF Bases, Age
  <2> QED  BY <2>1, <2>2
<1>4. ProfileTypes'
  BY <1>3 DEF ProfileTypes, Phases, Bases, Running
<1>5. OneRunning'
  BY <1>1 DEF OneRunning, Running
<1>6. \A v \in Uploads : v # u => upload[v] \notin Running
  BY <1>1 DEF OneRunning, Running
<1>7. PickedLatest'
  <2> SUFFICES ASSUME NEW c \in DOMAIN pin, pin[c] # Torn
               PROVE  /\ Age(pin[c]) =< Age(Latest)
                      /\ mappings[c] # pin[c] => Age(pin[c]) < Age(Latest)
    BY <1>1, <1>2, <1>6 DEF PickedLatest, Running
  <2>1. pin[c] \in Bases
    BY DEF ProfileTypes
  <2>2. ASSUME mappings[c] # pin[c] PROVE Age(pin[c]) < Age(Latest)
    <3>1. PICK k \in DOMAIN snapshots : Age(pin[c]) < Age(k)
      BY <2>2 DEF OldPin
    <3>2. k \in Bases
      BY DEF Bases
    <3> QED  BY <1>3, <2>1, <3>1, <3>2, Ages
  <2> QED  BY <1>3, <2>1, <2>2
<1>8. \A v \in Uploads : RewriteOf(v)'
  BY <1>1, <1>2 DEF RewriteOf, Rewriting
<1>9. OldPin'
  BY <1>2 DEF OldPin
<1>10. CommittedPin' /\ Answered'
  BY <1>1 DEF CommittedPin, Answered, Rewriting
<1> QED  BY <1>4, <1>5, <1>7, <1>8, <1>9, <1>10

(* A file of a catalogue changes, by the upload that holds the loop.       *)
LEMMA PInvPut ==
  ASSUME KInv, PInv, NEW u \in Uploads, upload[u] \in Running,
         NEW s \in {"truncated", "mapped", "cut", "commit"}, Go(u, s),
         UNCHANGED <<kb, against, answer>>, ProfileTypes',
         \A x \in DOMAIN pin : x # CatalogOf[u] => mappings'[x] = mappings[x] /\ pin'[x] = pin[x],
         DOMAIN pin' = DOMAIN pin \cup {CatalogOf[u]},
         upload[u] = "check" \/ Rewriting(u),
         CatalogOf[u] \notin DOMAIN pin => s = "commit",
         RewriteOf(u)',
         LET c == CatalogOf[u] IN
           /\ pin'[c] # Torn => Age(pin'[c]) =< Age(against[u])
           /\ pin'[c] # Torn /\ mappings'[c] # pin'[c] =>
                /\ Age(pin'[c]) < Age(against[u])
                /\ mappings'[c] # Torn => Age(pin'[c]) < Age(mappings'[c])
           /\ s = "commit" => pin'[c] = mappings'[c] /\ pin'[c] # Torn
  PROVE  PInv'
<1> USE DEF PInv, Go, kb
<1> DEFINE c == CatalogOf[u]
<1>1. (\A v \in Uploads : v # u => upload'[v] = upload[v]) /\ upload'[u] = s
  BY DEF ProfileTypes
<1>2. \A k : Age(k)' = Age(k)
  BY DEF Age
<1>3. \A v \in Uploads : v # u => upload[v] \notin Running
  BY DEF OneRunning
<1>4. OneRunning'
  BY <1>1, <1>3 DEF OneRunning
<1>5. PickedLatest'
  <2> SUFFICES ASSUME NEW x \in DOMAIN pin', pin'[x] # Torn, s # "commit"
               PROVE  /\ Age(pin'[x]) =< Age(against[u])
                      /\ mappings'[x] # pin'[x] => Age(pin'[x]) < Age(against[u])
    BY <1>1, <1>3 DEF PickedLatest, Running, Age
  <2>1. CASE x = c
    BY <2>1
  <2>2. CASE x # c
    <3>1. x \in DOMAIN pin /\ pin'[x] = pin[x] /\ mappings'[x] = mappings[x]
      BY <2>2
    <3> QED  BY <3>1 DEF PickedLatest, Rewriting
  <2> QED  BY <2>1, <2>2
<1>6. \A v \in Uploads : RewriteOf(v)'
  <2>1. ASSUME NEW v \in Uploads, v # u PROVE RewriteOf(v)'
    BY <1>1, <1>3, <2>1 DEF RewriteOf, Rewriting, Running
  <2> QED  BY <2>1
<1>7. OldPin'
  <2> SUFFICES ASSUME NEW x \in DOMAIN pin', pin'[x] # Torn, mappings'[x] # pin'[x]
               PROVE  /\ \E k \in DOMAIN snapshots : Age(pin'[x]) < Age(k)
                      /\ mappings'[x] # Torn => Age(pin'[x]) < Age(mappings'[x])
    BY <1>2 DEF OldPin, Age
  <2>1. CASE x = c
    <3>1. Age(pin'[c]) < Age(against[u]) /\ against[u] \in Bases /\ pin'[c] \in Bases
      BY <2>1 DEF ProfileTypes, Bases
    <3>2. against[u] # NoSnapshot
      BY <3>1, Ages DEF Age
    <3> QED  BY <2>1, <3>1, <3>2 DEF Bases
  <2>2. CASE x # c
    <3>1. x \in DOMAIN pin /\ pin'[x] = pin[x] /\ mappings'[x] = mappings[x]
      BY <2>2
    <3> QED  BY <3>1 DEF OldPin
  <2> QED  BY <2>1, <2>2
<1>8. CommittedPin'
  <2> SUFFICES ASSUME NEW v \in Uploads, upload'[v] \in {"commit", "answer"}
               PROVE  /\ CatalogOf[v] \in DOMAIN pin'
                      /\ \/ pin'[CatalogOf[v]] = mappings'[CatalogOf[v]] /\ pin'[CatalogOf[v]] # Torn
                         \/ \E w \in Uploads : Rewriting(w)' /\ CatalogOf[w] = CatalogOf[v]
    BY DEF CommittedPin
  <2>1. CASE CatalogOf[v] = c
    <3>1. Rewriting(u)' \/ s = "commit"
      BY <1>1 DEF Rewriting
    <3> QED  BY <2>1, <3>1
  <2>2. CASE CatalogOf[v] # c
    <3>1. v # u /\ upload[v] \in {"commit", "answer"}
      BY <1>1, <2>2
    <3>2. \A w \in Uploads : Rewriting(w) => w = u
      BY <1>3 DEF Rewriting, Running
    <3>3. CatalogOf[v] \in DOMAIN pin /\ pin[CatalogOf[v]] = mappings[CatalogOf[v]] /\ pin[CatalogOf[v]] # Torn
      BY <2>2, <3>1, <3>2 DEF CommittedPin
    <3> QED  BY <2>2, <3>3
  <2> QED  BY <2>1, <2>2
<1>9. Answered'
  BY <1>1 DEF Answered
<1> QED  BY <1>4, <1>5, <1>6, <1>7, <1>8, <1>9

(* The four writes of a file, and the rename of a new directory.           *)
LEMMA PInvTruncateMappings == ASSUME KInv, PInv, NEW u \in Uploads, TruncateMappings(u) PROVE PInv'
<1> USE DEF TruncateMappings
<1> DEFINE c == CatalogOf[u]
<1>1. /\ DOMAIN mappings' = DOMAIN mappings /\ mappings'[c] = Torn
      /\ \A x \in DOMAIN mappings : x # c => mappings'[x] = mappings[x]
  BY DEF Put, PInv, ProfileTypes
<1>2. Age(pin[c]) < Age(against[u]) /\ pin[c] # Torn /\ c \in DOMAIN pin
  <2>1. Age(pin[c]) =< Age(against[u])
    BY DEF PInv, PickedLatest
  <2>2. pin[c] \in Bases /\ against[u] \in Bases /\ pin[c] # against[u]
    BY DEF PInv, ProfileTypes
  <2> QED  BY <2>1, <2>2, Ages
<1>3. upload'[u] = "truncated" /\ UNCHANGED <<snapshots, against, pin>>
  BY DEF PInv, ProfileTypes, Go, kb
<1>4. ProfileTypes'
  BY <1>1 DEF PInv, ProfileTypes, Go, Phases, Running, Bases, kb
<1>5. RewriteOf(u)'
  BY <1>1, <1>2, <1>3 DEF RewriteOf, Rewriting, Age
<1>6. Age(pin[c]) =< Age(against[u])
  BY DEF PInv, PickedLatest
<1> QED  BY <1>1, <1>2, <1>4, <1>5, <1>6, PInvPut DEF Running, PInv, ProfileTypes

LEMMA PInvWriteMappings == ASSUME KInv, PInv, NEW u \in Uploads, WriteMappings(u) PROVE PInv'
<1> USE DEF WriteMappings
<1> DEFINE c == CatalogOf[u]
<1>1. c \in DOMAIN pin /\ pin[c] # Torn /\ Age(pin[c]) < Age(against[u])
  BY DEF PInv, RewriteOf, Rewriting
<1>2. /\ DOMAIN mappings' = DOMAIN mappings /\ mappings'[c] = against[u]
      /\ \A x \in DOMAIN mappings : x # c => mappings'[x] = mappings[x]
  BY <1>1 DEF Put, PInv, ProfileTypes
<1>3. upload'[u] = "mapped" /\ UNCHANGED <<snapshots, against, pin>>
  BY DEF PInv, ProfileTypes, Go, kb
<1>4. ProfileTypes'
  BY <1>2 DEF PInv, ProfileTypes, Go, Phases, Running, Bases, kb
<1>5. RewriteOf(u)'
  BY <1>1, <1>2, <1>3 DEF RewriteOf, Rewriting, Age
<1>6. Age(pin[c]) =< Age(against[u])
  BY <1>1 DEF PInv, PickedLatest
<1> QED  BY <1>1, <1>2, <1>4, <1>5, <1>6, PInvPut DEF Running, Rewriting, PInv, ProfileTypes

LEMMA PInvTruncateManifest == ASSUME KInv, PInv, NEW u \in Uploads, TruncateManifest(u) PROVE PInv'
<1> USE DEF TruncateManifest
<1> DEFINE c == CatalogOf[u]
<1>1. c \in DOMAIN pin /\ mappings[c] = against[u]
  BY DEF PInv, RewriteOf, Rewriting
<1>2. /\ DOMAIN pin' = DOMAIN pin /\ pin'[c] = Torn
      /\ \A x \in DOMAIN pin : x # c => pin'[x] = pin[x]
  BY <1>1 DEF Put
<1>3. upload'[u] = "cut" /\ UNCHANGED <<snapshots, against, mappings>>
  BY DEF PInv, ProfileTypes, Go, kb
<1>4. ProfileTypes'
  BY <1>2 DEF PInv, ProfileTypes, Go, Phases, Running, Bases, kb
<1>5. RewriteOf(u)'
  BY <1>1, <1>2, <1>3 DEF RewriteOf, Rewriting
<1> QED  BY <1>1, <1>2, <1>4, <1>5, PInvPut DEF Running, Rewriting

LEMMA PInvWriteManifest == ASSUME KInv, PInv, NEW u \in Uploads, WriteManifest(u) PROVE PInv'
<1> USE DEF WriteManifest
<1> DEFINE c == CatalogOf[u]
<1>1. c \in DOMAIN pin /\ mappings[c] = against[u] /\ against[u] \in Bases
  BY DEF PInv, RewriteOf, Rewriting, ProfileTypes
<1>2. /\ DOMAIN pin' = DOMAIN pin /\ pin'[c] = against[u]
      /\ \A x \in DOMAIN pin : x # c => pin'[x] = pin[x]
  BY <1>1 DEF Put
<1>3. upload'[u] = "commit" /\ UNCHANGED <<snapshots, against, mappings>>
  BY DEF PInv, ProfileTypes, Go, kb
<1>4. ProfileTypes'
  BY <1>1, <1>2 DEF PInv, ProfileTypes, Go, Phases, Running, Bases, kb
<1>5. RewriteOf(u)'
  BY <1>3 DEF RewriteOf, Rewriting
<1>6. Age(against[u]) \in Nat /\ against[u] # Torn
  BY <1>1, Ages
<1> QED  BY <1>1, <1>2, <1>3, <1>4, <1>5, <1>6, PInvPut DEF Running, Rewriting

LEMMA PInvPublish == ASSUME KInv, PInv, NEW u \in Uploads, PublishProfile(u) PROVE PInv'
<1> USE DEF PublishProfile
<1> DEFINE c == CatalogOf[u]
<1>1. c \notin DOMAIN pin /\ DOMAIN mappings = DOMAIN pin /\ against[u] \in Bases
  BY DEF PInv, ProfileTypes
<1>2. /\ DOMAIN pin' = DOMAIN pin \cup {c} /\ pin'[c] = against[u]
      /\ \A x \in DOMAIN pin : x # c => pin'[x] = pin[x]
      /\ DOMAIN mappings' = DOMAIN pin \cup {c} /\ mappings'[c] = against[u]
      /\ \A x \in DOMAIN pin : x # c => mappings'[x] = mappings[x]
  BY <1>1 DEF Put
<1>3. upload'[u] = "commit" /\ UNCHANGED <<snapshots, against>>
  BY DEF PInv, ProfileTypes, Go, kb
<1>4. ProfileTypes'
  BY <1>1, <1>2 DEF PInv, ProfileTypes, Go, Phases, Running, Bases, kb
<1>5. RewriteOf(u)'
  BY <1>3 DEF RewriteOf, Rewriting
<1>6. Age(against[u]) \in Nat /\ against[u] # Torn
  BY <1>1, Ages
<1> QED  BY <1>1, <1>2, <1>3, <1>4, <1>5, <1>6, PInvPut DEF Running, Rewriting

(* The answer: nobody is on the loop, so nobody is rewriting the files.    *)
LEMMA PInvAnswer == ASSUME KInv, PInv, NEW u \in Uploads, AnswerUpload(u) PROVE PInv'
<1> USE DEF PInv, AnswerUpload, Go, kb
<1> DEFINE c == CatalogOf[u]
<1>1. (\A v \in Uploads : v # u => upload'[v] = upload[v] /\ answer'[v] = answer[v])
      /\ upload'[u] = "done" /\ answer'[u] = <<pin[c], mappings[c]>>
  BY DEF ProfileTypes
<1>2. \A v \in Uploads : ~Rewriting(v)
  BY DEF LoopFree, Rewriting, Running
<1>3. c \in DOMAIN pin /\ pin[c] = mappings[c] /\ pin[c] # Torn
  BY <1>2 DEF CommittedPin
<1>4. \A k : Age(k)' = Age(k)
  BY DEF Age
<1>5. ProfileTypes'
  <2>1. <<pin[c], mappings[c]>> \in {<<k, m>> : k \in Bases \cup {Torn}, m \in Bases \cup {Torn}}
    BY <1>3 DEF ProfileTypes
  <2>2. answer' \in [Uploads -> {<<>>} \cup {<<k, m>> : k \in Bases \cup {Torn}, m \in Bases \cup {Torn}}]
    BY <2>1 DEF ProfileTypes
  <2> QED  BY <2>2 DEF ProfileTypes, Phases, Bases
<1>6. OneRunning'
  BY <1>1 DEF OneRunning, Running
<1>7. PickedLatest' /\ \A v \in Uploads : RewriteOf(v)'
  BY <1>1, <1>4 DEF PickedLatest, RewriteOf, Rewriting
<1>8. OldPin'
  BY <1>4 DEF OldPin
<1>9. CommittedPin'
  BY <1>1, <1>2 DEF CommittedPin
<1>10. Answered'
  BY <1>1, <1>3 DEF Answered
<1> QED  BY <1>5, <1>6, <1>7, <1>8, <1>9, <1>10

LEMMA PInvNext == KInv /\ PInv /\ [StoreNext]_storeVars => PInv'
<1> SUFFICES ASSUME KInv, PInv, [StoreNext]_storeVars PROVE PInv'
  OBVIOUS
<1>1. CASE (KBNext /\ UNCHANGED profiles) \/ UNCHANGED storeVars
  <2>1. SnapshotsKept /\ UNCHANGED profiles
    BY <1>1, KInvNext DEF storeVars
  <2> QED  BY <2>1, PInvKB DEF profiles, PInv, ProfileTypes
<1>2. CASE Stop
  <2>1. SnapshotsKept
    BY <1>2, KInvNext
  <2>2. upload' \in [Uploads -> Phases]
        /\ \A u \in Uploads : upload'[u] = "failed" \/ (upload'[u] = upload[u] /\ upload[u] \in {"idle", "done"})
    BY <1>2 DEF Stop, PInv, ProfileTypes, Phases
  <2> QED  BY <1>2, <2>1, <2>2, PInvKB DEF Stop
<1>3. ASSUME NEW u \in Uploads, StartUpload(u) PROVE PInv'
  BY <1>3, PInvMove DEF StartUpload, Rewriting
<1>4. ASSUME NEW u \in Uploads, AlreadyThere(u) PROVE PInv'
  <2>1. against[u] \in Bases /\ pin[CatalogOf[u]] = against[u] /\ CatalogOf[u] \in DOMAIN pin
    BY <1>4 DEF AlreadyThere, PInv, ProfileTypes
  <2>2. pin[CatalogOf[u]] # Torn /\ Age(against[u]) \in Nat
    BY <2>1, Ages
  <2>3. mappings[CatalogOf[u]] = pin[CatalogOf[u]]
    BY <1>4, <2>1, <2>2 DEF AlreadyThere, PInv, PickedLatest
  <2> QED  BY <1>4, <2>1, <2>2, <2>3, PInvMove DEF AlreadyThere, Rewriting
<1>5. ASSUME NEW u \in Uploads, ManifestUnreadable(u) PROVE PInv'
  BY <1>5, PInvMove DEF ManifestUnreadable, Rewriting
<1>6. ASSUME NEW u \in Uploads, CommitProject(u) PROVE PInv'
  <2>1. LET c == CatalogOf[u] IN
           /\ c \in DOMAIN pin
           /\ (pin[c] = mappings[c] /\ pin[c] # Torn) \/ \E v \in Uploads : Rewriting(v) /\ CatalogOf[v] = c
    BY <1>6 DEF CommitProject, PInv, CommittedPin
  <2> QED  BY <1>6, <2>1, PInvMove DEF CommitProject, Rewriting
<1> QED
  BY <1>1, <1>2, <1>3, <1>4, <1>5, <1>6, PInvPick, PInvPublish, PInvTruncateMappings,
     PInvWriteMappings, PInvTruncateManifest, PInvWriteManifest, PInvAnswer DEF StoreNext, UploadStep

(* However uploads, refreshes and stops interleave, an upload is answered  *)
(* with a whole pin, of the knowledge base its mappings came from, and the *)
(* mappings of a pin on disk are never behind it.                          *)
THEOREM UploadsArePinned == StoreSpec => []UploadsAnswerTheirPin
<1>1. KInv /\ PInv => UploadsAnswerTheirPin
  <2> SUFFICES ASSUME KInv, PInv PROVE UploadsAnswerTheirPin
    OBVIOUS
  <2>1. ASSUME NEW c \in DOMAIN pin, Whole(c) PROVE Age(pin[c]) =< Age(mappings[c])
    <3>1. pin[c] \in Bases /\ mappings[c] \in Bases
      BY <2>1 DEF Whole, PInv, ProfileTypes
    <3>2. CASE mappings[c] = pin[c]
      BY <3>1, <3>2, Ages
    <3>3. CASE mappings[c] # pin[c]
      BY <2>1, <3>1, <3>3, Ages DEF Whole, PInv, OldPin
    <3> QED  BY <3>2, <3>3
  <2> QED  BY <2>1 DEF UploadsAnswerTheirPin, PInv, Answered
<1>2. StoreInit => PInv
  BY PInvInit
<1> QED  BY <1>1, <1>2, KInvHolds, PInvNext, PTL DEF StoreSpec
=============================================================================
