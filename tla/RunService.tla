----------------------------- MODULE RunService -----------------------------
(***************************************************************************)
(* One run, its stages, the requests that drive their transitions          *)
(* (RunService.transition_run / transition_stage) and the clients that     *)
(* follow them on the in-memory event bus.                                 *)
(*                                                                         *)
(* A transition reads the row in one await, validates what it read, writes *)
(* the columns it changed by primary key in another, and then publishes.   *)
(* Nothing holds the row between the read and the write.  Putting an event *)
(* on the unbounded queues never suspends, so a publication is one step,   *)
(* but another coroutine may run between the commit and the publication.   *)
(*                                                                         *)
(* A request is sent at most once.  The time stamps a request writes are   *)
(* represented by the request itself.                                      *)
(***************************************************************************)
EXTENDS Naturals, Sequences, FiniteSets

CONSTANTS Run, Stages,  \* the run and its stages
          Requests,     \* the transition requests clients may send
          Streams,      \* the event streams clients may open
          Nobody,       \* a time stamp that is not set
          MaxCrashes    \* bound on restarts of the server

ASSUME RunIsNoStage == Run \notin Stages
ASSUME NobodyAssumption == Nobody \notin Requests
ASSUME CrashesAssumption == MaxCrashes \in Nat

VARIABLES
  created,    \* has create_run committed
  status,     \* runs.status and run_stages.status
  started,    \* run_stages.started_at
  completed,  \* run_stages.completed_at
  pc,         \* where each request is
  object,     \* per request: the run or stage it addresses
  target,     \* per request: the status it asks for
  stamps,     \* per request: will it set started_at (decided on what it read)
  stream,     \* per event stream: "closed", "open", "ended", "dropped"
  queue,      \* per event stream: its asyncio.Queue
  crashes,    \* restarts so far
  serial,     \* do the clients of this behaviour wait for each answer
  (* history variables, for the properties only *)
  seen,       \* per event stream: the events the client received
  since,      \* per event stream: publications before it subscribed
  published,  \* every event published
  committed   \* every status written, in the order of the commits

rows     == <<created, status, started, completed>>
handlers == <<pc, object, target, stamps>>
bus      == <<stream, queue, seen, since, published>>
vars     == <<created, status, started, completed, pc, object, target, stamps,
              stream, queue, crashes, serial, seen, since, published,
              committed>>

Machine == INSTANCE RunMachine

Objects   == {Run} \cup Stages
Statuses  == {"queued", "pending", "running", "needs_input", "complete", "failed"}
Terminal  == {"complete", "failed"}
Working   == {"read", "commit", "publish"}
Answered  == {"ok", "conflict", "lost"}
Events    == [object : Objects, status : Statuses]

InFlight(r) == pc[r] \in Working
Goto(r, label) == pc' = [pc EXCEPT ![r] = label]
EndsStream(event) == event.object = Run /\ event.status \in Terminal

-----------------------------------------------------------------------------

Init ==
  /\ created = FALSE
  /\ status = [o \in Objects |-> IF o = Run THEN "queued" ELSE "pending"]
  /\ started = [s \in Stages |-> Nobody]
  /\ completed = [s \in Stages |-> Nobody]
  /\ pc = [r \in Requests |-> "idle"]
  /\ object = [r \in Requests |-> Run]
  /\ target = [r \in Requests |-> "queued"]
  /\ stamps = [r \in Requests |-> FALSE]
  /\ stream = [c \in Streams |-> "closed"]
  /\ queue = [c \in Streams |-> << >>]
  /\ crashes = 0
  /\ serial \in BOOLEAN
  /\ seen = [c \in Streams |-> << >>]
  /\ since = [c \in Streams |-> 0]
  /\ published = << >>
  /\ committed = << >>

(* create_run: the run and all its stages in one transaction. *)
CreateRun ==
  /\ ~created
  /\ created' = TRUE
  /\ UNCHANGED <<status, started, completed, handlers, bus, crashes, serial, committed>>

(* (Definitions named Bug... are what a programming error would put in     *)
(* place of the definition that follows; nothing uses them but the         *)
(* sensitivity checks of the properties.)                                  *)
BugAnyStatus(r) ==
  /\ created /\ pc[r] = "idle"
  /\ object' = [object EXCEPT ![r] = Run]
  /\ target' = [target EXCEPT ![r] = "cancelled"]
  /\ Goto(r, "read")
  /\ UNCHANGED <<rows, stamps, bus, crashes, serial, committed>>

(* A client asks for a transition.  It learns the ids from create_run. *)
Send(r) ==
  /\ created
  /\ pc[r] = "idle"
  /\ serial => \A q \in Requests : ~InFlight(q)
  /\ \E o \in Objects : \E t \in Statuses :
       /\ t # IF o = Run THEN "pending" ELSE "queued"
       /\ object' = [object EXCEPT ![r] = o]
       /\ target' = [target EXCEPT ![r] = t]
  /\ Goto(r, "read")
  /\ UNCHANGED <<rows, stamps, bus, crashes, serial, committed>>

BugConflictAnnounced(r) ==
  /\ pc[r] = "read"
  /\ Goto(r, IF target[r] \in Machine!Successors(status[object[r]])
               THEN "commit" ELSE "publish")
  /\ UNCHANGED <<rows, object, target, stamps, bus, crashes, serial, committed>>

BugUnvalidated(r) ==
  /\ pc[r] = "read"
  /\ Goto(r, "commit")
  /\ UNCHANGED <<rows, object, target, stamps, bus, crashes, serial, committed>>

BugRestamps(r) ==
  /\ pc[r] = "read"
  /\ target[r] \in Machine!Successors(status[object[r]])
  /\ Goto(r, "commit")
  /\ stamps' = [stamps EXCEPT ![r] = object[r] \in Stages /\ target[r] = "running"]
  /\ UNCHANGED <<rows, object, target, bus, crashes, serial, committed>>

(* get_run / _get_stage, then validate_run_transition /                    *)
(* validate_stage_transition on the status that was read (409).            *)
Read(r) ==
  /\ pc[r] = "read"
  /\ IF target[r] \in Machine!Successors(status[object[r]])
       THEN /\ Goto(r, "commit")
            /\ stamps' = [stamps EXCEPT ![r] =
                 /\ object[r] \in Stages
                 /\ target[r] = "running"
                 /\ started[object[r]] = Nobody]
       ELSE /\ Goto(r, "conflict")
            /\ UNCHANGED stamps
  /\ UNCHANGED <<rows, object, target, bus, crashes, serial, committed>>

BugFailureUnstamped(r) ==
  /\ pc[r] = "commit"
  /\ status' = [status EXCEPT ![object[r]] = target[r]]
  /\ started' = IF stamps[r] THEN [started EXCEPT ![object[r]] = r] ELSE started
  /\ completed' = IF object[r] \in Stages /\ target[r] = "complete"
                    THEN [completed EXCEPT ![object[r]] = r] ELSE completed
  /\ committed' = Append(committed, [object |-> object[r], status |-> target[r]])
  /\ Goto(r, "publish")
  /\ UNCHANGED <<created, object, target, stamps, bus, crashes, serial>>

BugUnannounced(r) ==
  /\ pc[r] = "commit"
  /\ status' = [status EXCEPT ![object[r]] = target[r]]
  /\ committed' = Append(committed, [object |-> object[r], status |-> target[r]])
  /\ Goto(r, IF target[r] = "needs_input" THEN "ok" ELSE "publish")
  /\ UNCHANGED <<created, started, completed, object, target, stamps, bus, crashes, serial>>

(* The UPDATE of the columns the handler set, and its COMMIT. *)
Commit(r) ==
  /\ pc[r] = "commit"
  /\ status' = [status EXCEPT ![object[r]] = target[r]]
  /\ started' = IF stamps[r] THEN [started EXCEPT ![object[r]] = r] ELSE started
  /\ completed' = IF object[r] \in Stages /\ target[r] \in Terminal
                    THEN [completed EXCEPT ![object[r]] = r] ELSE completed
  /\ committed' = Append(committed, [object |-> object[r], status |-> target[r]])
  /\ Goto(r, "publish")
  /\ UNCHANGED <<created, object, target, stamps, bus, crashes, serial>>

BugLatestOnly(r) ==
  LET event == [object |-> object[r], status |-> target[r]] IN
    /\ pc[r] = "publish"
    /\ queue' = [c \in Streams |->
                   IF stream[c] = "open" THEN <<event>> ELSE queue[c]]
    /\ published' = Append(published, event)
    /\ Goto(r, "ok")
    /\ UNCHANGED <<rows, object, target, stamps, stream, seen, since, crashes, serial, committed>>

(* EventBus.publish: the event is put on the queue of every subscriber. *)
Publish(r) ==
  LET event == [object |-> object[r], status |-> target[r]] IN
    /\ pc[r] = "publish"
    /\ queue' = [c \in Streams |->
                   IF stream[c] = "open" THEN Append(queue[c], event) ELSE queue[c]]
    /\ published' = Append(published, event)
    /\ Goto(r, "ok")
    /\ UNCHANGED <<rows, object, target, stamps, stream, seen, since, crashes, serial, committed>>

(* EventBus.subscribe, when the body of the SSE response starts. *)
Subscribe(c) ==
  /\ stream[c] = "closed"
  /\ stream' = [stream EXCEPT ![c] = "open"]
  /\ since' = [since EXCEPT ![c] = Len(published)]
  /\ UNCHANGED <<rows, handlers, queue, seen, published, crashes, serial, committed>>

BugAnyEndCloses(c) ==
  /\ stream[c] = "open" /\ queue[c] # << >>
  /\ seen' = [seen EXCEPT ![c] = Append(@, Head(queue[c]))]
  /\ queue' = [queue EXCEPT ![c] = Tail(@)]
  /\ stream' = [stream EXCEPT ![c] =
                  IF Head(queue[c]).status \in Terminal THEN "ended" ELSE "open"]
  /\ UNCHANGED <<rows, handlers, since, published, crashes, serial, committed>>

BugNeverCloses(c) ==
  /\ stream[c] = "open" /\ queue[c] # << >>
  /\ seen' = [seen EXCEPT ![c] = Append(@, Head(queue[c]))]
  /\ queue' = [queue EXCEPT ![c] = Tail(@)]
  /\ UNCHANGED <<rows, handlers, stream, since, published, crashes, serial, committed>>

(* EventBus.stream: take an event, hand it to the client, and leave after  *)
(* the one that ends the run.                                              *)
Deliver(c) ==
  /\ stream[c] = "open"
  /\ queue[c] # << >>
  /\ LET event == Head(queue[c]) IN
       /\ seen' = [seen EXCEPT ![c] = Append(@, event)]
       /\ IF EndsStream(event)
            THEN /\ stream' = [stream EXCEPT ![c] = "ended"]
                 /\ queue' = [queue EXCEPT ![c] = << >>]
            ELSE /\ queue' = [queue EXCEPT ![c] = Tail(@)]
                 /\ UNCHANGED stream
  /\ UNCHANGED <<rows, handlers, since, published, crashes, serial, committed>>

(* The client goes away: the finally clause unsubscribes its queue. *)
Disconnect(c) ==
  /\ stream[c] = "open"
  /\ stream' = [stream EXCEPT ![c] = "dropped"]
  /\ queue' = [queue EXCEPT ![c] = << >>]
  /\ UNCHANGED <<rows, handlers, seen, since, published, crashes, serial, committed>>

(* The process stops: the tables stay, the bus and the handlers are gone. *)
Crash ==
  /\ crashes < MaxCrashes
  /\ crashes' = crashes + 1
  /\ pc' = [r \in Requests |-> IF InFlight(r) THEN "lost" ELSE pc[r]]
  /\ stream' = [c \in Streams |-> IF stream[c] = "open" THEN "dropped" ELSE stream[c]]
  /\ queue' = [c \in Streams |-> << >>]
  /\ UNCHANGED <<rows, object, target, stamps, serial, seen, since, published, committed>>

Step(r) == Read(r) \/ Commit(r) \/ Publish(r)

Next ==
  \/ CreateRun
  \/ \E r \in Requests : Send(r) \/ Step(r)
  \/ \E c \in Streams : Subscribe(c) \/ Deliver(c) \/ Disconnect(c)
  \/ Crash

Spec == Init /\ [][Next]_vars

(* The event loop resumes a handler whose await has completed and a stream *)
(* whose queue is not empty.                                               *)
FairSpec == /\ Spec
            /\ \A r \in Requests : WF_vars(Step(r))
            /\ \A c \in Streams : WF_vars(Deliver(c))

-----------------------------------------------------------------------------
(* Properties *)

(* Types. *)
TypeOK ==
  /\ created \in BOOLEAN
  /\ status \in [Objects -> Statuses]
  /\ started \in [Stages -> Requests \cup {Nobody}]
  /\ completed \in [Stages -> Requests \cup {Nobody}]
  /\ pc \in [Requests -> {"idle"} \cup Working \cup Answered]
  /\ object \in [Requests -> Objects]
  /\ target \in [Requests -> Statuses]
  /\ stamps \in [Requests -> BOOLEAN]
  /\ stream \in [Streams -> {"closed", "open", "ended", "dropped"}]
  /\ queue \in [Streams -> Seq(Events)]
  /\ crashes \in 0..MaxCrashes
  /\ serial \in BOOLEAN
  /\ seen \in [Streams -> Seq(Events)]
  /\ since \in [Streams -> Nat]
  /\ published \in Seq(Events)
  /\ committed \in Seq(Events)

(* The time stamps agree with the status whatever the interleaving: a      *)
(* stage that has run carries started_at, one that ended carries           *)
(* completed_at, although both are decided on a row read earlier.          *)
StampsAgree ==
  \A s \in Stages :
    /\ status[s] \in {"running", "needs_input", "complete"} => started[s] # Nobody
    /\ status[s] \in Terminal => completed[s] # Nobody

(* A follower misses nothing while it is connected: what it received and   *)
(* what waits for it is exactly what was published since it subscribed, in *)
(* that order, each event once.                                            *)
StreamsComplete ==
  \A c \in Streams : stream[c] = "open" =>
    seen[c] \o queue[c] = SubSeq(published, since[c] + 1, Len(published))

(* A stream is ended by the server at the first event that ends the run    *)
(* and by no other: no follower is cut off early or kept past the end.     *)
StreamsEndAtTheEnd ==
  \A c \in Streams : \A i \in 1..Len(seen[c]) :
    EndsStream(seen[c][i]) <=> (i = Len(seen[c]) /\ stream[c] = "ended")

(* A follower sees the run as it was published, no more, no less, and to    *)
(* its end.                                                                *)
StreamsFaithful == StreamsComplete /\ StreamsEndAtTheEnd

(* Nothing is announced that was not committed, and nothing twice: a       *)
(* status is published at most as often as it was written.                 *)
EventsWereCommitted ==
  \A i \in 1..Len(published) :
    Cardinality({j \in 1..i : published[j] = published[i]})
      <= Cardinality({j \in 1..Len(committed) : committed[j] = published[i]})

(* complete and failed accept no further transitions                       *)
(* (state_machine.py:11).                                                  *)
TerminalIsFinal ==
  [][\A o \in Objects : status[o] \in Terminal => status'[o] = status[o]]_status

(* A stage's started_at is written once: later resumptions keep it.        *)
StartedOnce ==
  [][serial => \A s \in Stages : started[s] # Nobody => started'[s] = started[s]]_started

(* With nobody in flight and no restart, the last event about an object    *)
(* tells its status: a follower that shows the last event shows the truth. *)
LastEventIsStatus ==
  (serial /\ crashes = 0 /\ \A r \in Requests : ~InFlight(r)) =>
    \A i \in 1..Len(published) :
      (\A j \in (i + 1)..Len(published) : published[j].object # published[i].object)
        => published[i].status = status[published[i].object]

(* What is announced can be believed: it was committed, and once nobody is *)
(* at work the last word about an object is its status.                    *)
EventsFaithful == EventsWereCommitted /\ LastEventIsStatus

(* When clients take turns, the rows follow the state machine.  (Behaviours *)
(* in which they do not are mapped to the machine that has not started.)   *)
Turns == INSTANCE RunMachine WITH
  status <- IF serial THEN status ELSE [o \in Objects |-> Machine!First(o)]

FollowsMachine == Turns!MachineSpec

(* A follower that is connected when the end of the run is published is    *)
(* eventually released, unless it or the server goes away first.           *)
FollowersReleased ==
  \A c \in Streams :
    (stream[c] = "open" /\ \E i \in 1..Len(queue[c]) : EndsStream(queue[c][i]))
      ~> stream[c] \in {"ended", "dropped"}
=============================================================================
