--------------------------- MODULE KnowledgeBase ---------------------------
(***************************************************************************)
(* The knowledge-base snapshots: directories named by the hash of their    *)
(* techniques, published by refresh threads (api/kb.py runs each refresh   *)
(* in a thread of its own, so two refreshes interleave at any statement    *)
(* and with every handler of the event loop).                              *)
(*                                                                         *)
(* What upstream offers is a record of techniques and a D3FEND catalogue.  *)
(* The hash is taken over the techniques with the relationships merged     *)
(* into them: the catalogue has a part in it only through the relations    *)
(* inferred from it, so two catalogues may hash alike.                     *)
(***************************************************************************)
EXTENDS Naturals, FiniteSets, Functions

CONSTANTS
  Refreshes,    \* requests to /kb/refresh
  Upstreams,    \* what the four sources may hold together
  Sources,      \* names of the sources, fetched one after the other
  ContentHash,  \* compute_content_hash, a function of what was fetched
  NoSnapshot

ASSUME KBAssumption ==
  /\ Upstreams \subseteq [Sources -> Nat] /\ Upstreams # {}
  /\ DOMAIN ContentHash = [Sources -> {u[s] : u \in Upstreams, s \in Sources}]
  /\ NoSnapshot \notin Range(ContentHash)

VARIABLES
  upstream,     \* what the sources hold now
  refresh,      \* where each refresh is
  fetched,      \* what it has fetched so far
  stamp,        \* its fetched_at
  clock,        \* the last fetched_at
  snapshots,    \* directories in kb_dir: hash -> content and fetched_at
  leftovers     \* temporary directories that no rename took away

kb == <<upstream, refresh, fetched, stamp, clock, snapshots, leftovers>>

Fetched(t) == DOMAIN fetched[t]
Hash(t) == ContentHash[fetched[t]]

KBInit ==
  /\ upstream \in Upstreams
  /\ refresh = [t \in Refreshes |-> "idle"]
  /\ fetched = [t \in Refreshes |-> <<>>]
  /\ stamp = [t \in Refreshes |-> 0]
  /\ clock = 0
  /\ snapshots = <<>>
  /\ leftovers = {}

(* latest_snapshot_dir: the greatest fetched_at, not the last rename. *)
Latest ==
  IF DOMAIN snapshots = {} THEN NoSnapshot
  ELSE CHOOSE h \in DOMAIN snapshots :
         \A g \in DOMAIN snapshots : snapshots[g].at =< snapshots[h].at

-----------------------------------------------------------------------------

UpstreamChanges ==
  /\ \E t \in Refreshes : refresh[t] \in {"idle", "fetch"}
  /\ upstream' \in Upstreams \ {upstream}
  /\ UNCHANGED <<refresh, fetched, stamp, clock, snapshots, leftovers>>

StartRefresh(t) ==
  /\ refresh[t] = "idle"
  /\ refresh' = [refresh EXCEPT ![t] = "fetch"]
  /\ UNCHANGED <<upstream, fetched, stamp, clock, snapshots, leftovers>>

(* The sources are fetched one by one, so what a refresh has may be of no  *)
(* single moment upstream.                                                 *)
Fetch(t, s) ==
  /\ refresh[t] = "fetch" /\ s \in Sources \ Fetched(t)
  /\ fetched' = [fetched EXCEPT ![t] = [x \in Fetched(t) \cup {s} |->
                   IF x = s THEN upstream[s] ELSE fetched[t][x]]]
  /\ UNCHANGED <<upstream, refresh, stamp, clock, snapshots, leftovers>>

(* A source that cannot be fetched or parsed: nothing has been written. *)
FetchFails(t) ==
  /\ refresh[t] = "fetch"
  /\ refresh' = [refresh EXCEPT ![t] = "failed"]
  /\ UNCHANGED <<upstream, fetched, stamp, clock, snapshots, leftovers>>

(* A programming error: the time of the fetch is not part of the snapshot  *)
(* but of its place among the others.                                      *)
BugStampsAlike(t) ==
  /\ refresh[t] = "fetch" /\ Fetched(t) = Sources
  /\ stamp' = [stamp EXCEPT ![t] = Cardinality(DOMAIN snapshots)]
  /\ clock' = clock
  /\ refresh' = [refresh EXCEPT ![t] = IF Hash(t) \in DOMAIN snapshots THEN "done" ELSE "write"]
  /\ UNCHANGED <<upstream, fetched, snapshots, leftovers>>

(* IF a directory of that name exists THEN nothing is written: a no-op.    *)
(* What is in it is not compared with what was fetched.                    *)
CheckExisting(t) ==
  /\ refresh[t] = "fetch" /\ Fetched(t) = Sources
  /\ clock' = clock + 1
  /\ stamp' = [stamp EXCEPT ![t] = clock']
  /\ refresh' = [refresh EXCEPT ![t] = IF Hash(t) \in DOMAIN snapshots THEN "done" ELSE "write"]
  /\ UNCHANGED <<upstream, fetched, snapshots, leftovers>>

WriteTemporary(t) ==
  /\ refresh[t] = "write"
  /\ leftovers' = leftovers \cup {t}
  /\ refresh' = [refresh EXCEPT ![t] = "rename"]
  /\ UNCHANGED <<upstream, fetched, stamp, clock, snapshots>>

(* A programming error: the directory is written in place, so a racing     *)
(* refresh of the same content writes into it again.                       *)
BugOverwrites(t) ==
  /\ refresh[t] = "rename"
  /\ snapshots' = [h \in DOMAIN snapshots \cup {Hash(t)} |->
       IF h = Hash(t) THEN [of |-> fetched[t], at |-> stamp[t]] ELSE snapshots[h]]
  /\ leftovers' = leftovers \ {t}
  /\ refresh' = [refresh EXCEPT ![t] = "done"]
  /\ UNCHANGED <<upstream, fetched, stamp, clock>>

(* The rename publishes the snapshot, or fails when another thread was     *)
(* there first (a directory that is not empty is not replaced): the        *)
(* request is answered 502 and the temporary directory stays.              *)
Rename(t) ==
  /\ refresh[t] = "rename"
  /\ IF Hash(t) \in DOMAIN snapshots
     THEN /\ refresh' = [refresh EXCEPT ![t] = "failed"]
          /\ UNCHANGED <<snapshots, leftovers>>
     ELSE /\ snapshots' = [h \in DOMAIN snapshots \cup {Hash(t)} |->
               IF h = Hash(t) THEN [of |-> fetched[t], at |-> stamp[t]] ELSE snapshots[h]]
          /\ leftovers' = leftovers \ {t}
          /\ refresh' = [refresh EXCEPT ![t] = "done"]
  /\ UNCHANGED <<upstream, fetched, stamp, clock>>

(* The process stops: threads are gone, directories stay. *)
RefreshesLost ==
  /\ refresh' = [t \in Refreshes |->
       IF refresh[t] \in {"fetch", "write", "rename"} THEN "failed" ELSE refresh[t]]
  /\ UNCHANGED <<upstream, fetched, stamp, clock, snapshots, leftovers>>

RefreshStep(t) ==
  \/ \E s \in Sources : Fetch(t, s)
  \/ FetchFails(t) \/ CheckExisting(t) \/ WriteTemporary(t) \/ Rename(t)

KBNext ==
  \/ UpstreamChanges
  \/ \E t \in Refreshes : StartRefresh(t) \/ RefreshStep(t)

-----------------------------------------------------------------------------

(* A published snapshot is whole and named by its techniques, and no two   *)
(* have one fetched_at, so that the latest is always defined; a refresh    *)
(* that reports success left a snapshot of what it fetched, up to what the *)
(* hash does not cover.                                                    *)
SnapshotsWhole ==
  /\ \A h \in DOMAIN snapshots : DOMAIN snapshots[h].of = Sources /\ ContentHash[snapshots[h].of] = h
  /\ \A g, h \in DOMAIN snapshots : snapshots[g].at = snapshots[h].at => g = h
  /\ \A t \in Refreshes : refresh[t] = "done" => Hash(t) \in DOMAIN snapshots

(* Published snapshots are never rewritten nor removed, and the latest one *)
(* is never replaced by one that was fetched before it: two threads that   *)
(* publish in the opposite order of their fetches do not take it back.     *)
LatestNeverGoesBack ==
  [][ /\ \A h \in DOMAIN snapshots : h \in DOMAIN snapshots' /\ snapshots'[h] = snapshots[h]
      /\ Latest # NoSnapshot => snapshots[Latest].at =< snapshots'[Latest'].at ]_snapshots
=============================================================================
