-------------------------- MODULE RunServiceProofs --------------------------
(***************************************************************************)
(* What holds of a run, its stages and its followers for every number of   *)
(* requests, stages, followers and restarts.                               *)
(***************************************************************************)
EXTENDS RunService, SequenceTheorems, FiniteSetTheorems, TLAPS

USE DEF Working, Answered, InFlight, Goto, Terminal, Statuses, Objects,
        Machine!Successors, rows, handlers, bus

-----------------------------------------------------------------------------
(* What a validated request holds until its UPDATE: a stage asked to pause *)
(* or to complete has been started, one asked to run has been or will be.  *)
ValidatedStamps ==
  \A r \in Requests : pc[r] = "commit" /\ object[r] \in Stages =>
    /\ target[r] \in {"needs_input", "complete"} => started[object[r]] # Nobody
    /\ target[r] = "running" => stamps[r] \/ started[object[r]] # Nobody

StampInv == TypeOK /\ StampsAgree /\ ValidatedStamps

LEMMA TypeInit == Init => TypeOK
<1> SUFFICES ASSUME Init PROVE TypeOK
  OBVIOUS
<1>1. << >> \in Seq(Events)
  OBVIOUS
<1>2. /\ queue \in [Streams -> Seq(Events)] /\ seen \in [Streams -> Seq(Events)]
      /\ published \in Seq(Events) /\ committed \in Seq(Events)
  BY <1>1 DEF Init
<1>3. status \in [Objects -> Statuses]
  BY DEF Init
<1>7. crashes \in 0..MaxCrashes
  BY CrashesAssumption DEF Init
<1>10. created \in BOOLEAN
  <2>1. created = FALSE
    BY Zenon DEF Init
  <2> QED  BY <2>1
<1>9. since \in [Streams -> Nat]
  BY DEF Init
<1>8. /\ pc \in [Requests -> {"idle"} \cup Working \cup Answered]
      /\ stream \in [Streams -> {"closed", "open", "ended", "dropped"}]
  BY DEF Init
<1>4. started \in [Stages -> Requests \cup {Nobody}]
  BY DEF Init
<1>5. /\ completed \in [Stages -> Requests \cup {Nobody}]
      /\ object \in [Requests -> Objects]
  BY DEF Init
<1>6. /\ target \in [Requests -> Statuses]
      /\ stamps \in [Requests -> BOOLEAN]
  BY DEF Init
<1>11. serial \in BOOLEAN
  BY DEF Init
<1> QED  BY <1>2, <1>3, <1>4, <1>5, <1>6, <1>7, <1>8, <1>9, <1>10, <1>11 DEF TypeOK

LEMMA TypeNext == TypeOK /\ [Next]_vars => TypeOK'
<1> SUFFICES ASSUME TypeOK, [Next]_vars PROVE TypeOK'
  OBVIOUS
<1> USE DEF TypeOK
<1>1. CASE CreateRun
  BY <1>1 DEF CreateRun
<1>2. ASSUME NEW r \in Requests, Send(r) PROVE TypeOK'
  BY <1>2 DEF Send
<1>3. ASSUME NEW r \in Requests, Read(r) PROVE TypeOK'
  BY <1>3 DEF Read
<1>4. ASSUME NEW r \in Requests, Commit(r) PROVE TypeOK'
  <2>1. [object |-> object[r], status |-> target[r]] \in Events
    BY DEF Events
  <2>2. committed' \in Seq(Events)
    BY <1>4, <2>1 DEF Commit
  <2>3. /\ status' \in [Objects -> Statuses]
        /\ started' \in [Stages -> Requests \cup {Nobody}]
        /\ completed' \in [Stages -> Requests \cup {Nobody}]
        /\ pc' \in [Requests -> {"idle"} \cup Working \cup Answered]
    BY <1>4 DEF Commit
  <2>4. UNCHANGED <<created, object, target, stamps, bus, crashes, serial>>
    BY <1>4 DEF Commit
  <2> QED  BY <2>2, <2>3, <2>4
<1>5. ASSUME NEW r \in Requests, Publish(r) PROVE TypeOK'
  <2> DEFINE event == [object |-> object[r], status |-> target[r]]
  <2>1. event \in Events
    BY DEF Events
  <2>2. /\ published' = Append(published, event)
        /\ queue' = [c \in Streams |->
                       IF stream[c] = "open" THEN Append(queue[c], event) ELSE queue[c]]
        /\ pc' = [pc EXCEPT ![r] = "ok"]
        /\ UNCHANGED <<rows, object, target, stamps, stream, seen, since, crashes, serial, committed>>
    BY <1>5 DEF Publish
  <2> HIDE DEF event
  <2>3. published' \in Seq(Events) /\ queue' \in [Streams -> Seq(Events)]
    BY <2>1, <2>2
  <2> QED  BY <2>2, <2>3
<1>6. ASSUME NEW c \in Streams, Subscribe(c) PROVE TypeOK'
  BY <1>6 DEF Subscribe
<1>7. ASSUME NEW c \in Streams, Deliver(c) PROVE TypeOK'
  <2>1. queue[c] \in Seq(Events) /\ seen[c] \in Seq(Events) /\ queue[c] # << >>
    BY <1>7 DEF Deliver
  <2>2. Head(queue[c]) \in Events /\ Tail(queue[c]) \in Seq(Events)
    BY <2>1
  <2>3. Append(seen[c], Head(queue[c])) \in Seq(Events)
    BY <2>1, <2>2
  <2>4. seen' \in [Streams -> Seq(Events)]
    BY <1>7, <2>3 DEF Deliver
  <2>6. queue' \in [Streams -> Seq(Events)]
    <3>1. << >> \in Seq(Events)
      OBVIOUS
    <3> QED  BY <1>7, <2>2, <3>1 DEF Deliver
  <2>7. stream' \in [Streams -> {"closed", "open", "ended", "dropped"}]
    BY <1>7 DEF Deliver
  <2>5. UNCHANGED <<rows, handlers, since, published, crashes, serial, committed>>
    BY <1>7 DEF Deliver
  <2> QED  BY <2>4, <2>5, <2>6, <2>7
<1>8. ASSUME NEW c \in Streams, Disconnect(c) PROVE TypeOK'
  <2>1. queue' \in [Streams -> Seq(Events)]
    BY <1>8 DEF Disconnect
  <2> QED  BY <1>8, <2>1 DEF Disconnect
<1>9. CASE Crash
  <2>1. queue' \in [Streams -> Seq(Events)]
    BY <1>9 DEF Crash
  <2>2. /\ crashes' \in 0..MaxCrashes
        /\ pc' \in [Requests -> {"idle"} \cup Working \cup Answered]
        /\ stream' \in [Streams -> {"closed", "open", "ended", "dropped"}]
        /\ UNCHANGED <<rows, object, target, stamps, serial, seen, since, published, committed>>
    BY <1>9, CrashesAssumption DEF Crash
  <2> QED  BY <2>1, <2>2
<1>10. CASE UNCHANGED vars
  BY <1>10 DEF vars
<1> QED  BY <1>1, <1>2, <1>3, <1>4, <1>5, <1>6, <1>7, <1>8, <1>9, <1>10 DEF Next, Step

LEMMA StampInit == Init => StampInv
<1> SUFFICES ASSUME Init PROVE StampInv
  OBVIOUS
<1>1. \A s \in Stages : status[s] = "pending"
  BY RunIsNoStage DEF Init
<1>2. \A r \in Requests : pc[r] = "idle"
  BY DEF Init
<1> QED  BY TypeInit, <1>1, <1>2 DEF StampInv, StampsAgree, ValidatedStamps

LEMMA StampNext == StampInv /\ [Next]_vars => StampInv'
<1> SUFFICES ASSUME StampInv, [Next]_vars PROVE StampInv'
  OBVIOUS
<1>1. TypeOK'
  BY TypeNext DEF StampInv
<1> USE DEF StampInv
<1>2. ASSUME NEW r \in Requests, Send(r) PROVE StampInv'
  <2>1. /\ UNCHANGED <<status, started, completed, stamps>>
        /\ pc'[r] = "read"
        /\ \A q \in Requests \ {r} :
             pc'[q] = pc[q] /\ object'[q] = object[q] /\ target'[q] = target[q]
    BY <1>2 DEF Send, TypeOK
  <2> QED  BY <1>1, <2>1 DEF StampsAgree, ValidatedStamps
<1>3. ASSUME NEW r \in Requests, Read(r) PROVE StampInv'
  <2>1. /\ UNCHANGED <<status, started, completed, object, target>>
        /\ pc'[r] \in {"commit", "conflict"}
        /\ \A q \in Requests \ {r} : pc'[q] = pc[q] /\ stamps'[q] = stamps[q]
    BY <1>3 DEF Read, TypeOK
  <2>2. ASSUME pc'[r] = "commit", object[r] \in Stages
        PROVE  /\ target[r] \in {"needs_input", "complete"} => started[object[r]] # Nobody
               /\ target[r] = "running" => stamps'[r] \/ started[object[r]] # Nobody
    <3>1. target[r] \in Machine!Successors(status[object[r]])
      BY <1>3, <2>2 DEF Read, TypeOK
    <3>2. target[r] \in {"needs_input", "complete"} => status[object[r]] = "running"
      BY <3>1 DEF TypeOK
    <3>3. target[r] \in {"needs_input", "complete"} => started[object[r]] # Nobody
      BY <2>2, <3>2 DEF StampsAgree
    <3>4. stamps'[r] = (target[r] = "running" /\ started[object[r]] = Nobody)
      BY <1>3, <2>2, <3>1 DEF Read, TypeOK
    <3> QED  BY <3>3, <3>4
  <2> QED  BY <1>1, <2>1, <2>2 DEF StampsAgree, ValidatedStamps
<1>4. ASSUME NEW r \in Requests, Commit(r) PROVE StampInv'
  <2>1. /\ pc[r] = "commit" /\ pc'[r] = "publish"
        /\ UNCHANGED <<object, target, stamps>>
        /\ \A q \in Requests \ {r} : pc'[q] = pc[q]
        /\ status'[object[r]] = target[r]
        /\ \A o \in Objects \ {object[r]} : status'[o] = status[o]
    BY <1>4 DEF Commit, TypeOK
  <2>2. \A s \in Stages : started[s] # Nobody => started'[s] # Nobody
    BY <1>4, NobodyAssumption DEF Commit, TypeOK
  <2>3. object[r] \in Stages /\ stamps[r] => started'[object[r]] # Nobody
    BY <1>4, NobodyAssumption DEF Commit, TypeOK
  <2>4. \A s \in Stages : completed[s] # Nobody => completed'[s] # Nobody
    BY <1>4, NobodyAssumption DEF Commit, TypeOK
  <2>5. object[r] \in Stages /\ target[r] \in {"complete", "failed"}
          => completed'[object[r]] # Nobody
    BY <1>4, NobodyAssumption DEF Commit, TypeOK
  <2>6. ValidatedStamps'
    BY <2>1, <2>2 DEF ValidatedStamps, TypeOK
  <2>7. StampsAgree'
    <3> SUFFICES ASSUME NEW s \in Stages
                 PROVE  /\ status'[s] \in {"running", "needs_input", "complete"}
                             => started'[s] # Nobody
                        /\ status'[s] \in Terminal => completed'[s] # Nobody
      BY DEF StampsAgree
    <3>1. CASE s = object[r]
      BY <2>1, <2>2, <2>3, <2>5, <3>1 DEF ValidatedStamps
    <3>2. CASE s # object[r]
      BY <2>1, <2>2, <2>4, <3>2 DEF StampsAgree
    <3> QED  BY <3>1, <3>2
  <2> QED  BY <1>1, <2>6, <2>7
<1>5. ASSUME NEW r \in Requests, Publish(r) PROVE StampInv'
  <2>1. /\ UNCHANGED <<status, started, completed, object, target, stamps>>
        /\ \A q \in Requests : pc'[q] = pc[q] \/ pc'[q] = "ok"
    BY <1>5 DEF Publish, TypeOK
  <2> QED  BY <1>1, <2>1 DEF StampsAgree, ValidatedStamps
<1>6. CASE Crash
  <2>1. /\ UNCHANGED <<status, started, completed, object, target, stamps>>
        /\ \A q \in Requests : pc'[q] = pc[q] \/ pc'[q] = "lost"
    BY <1>6 DEF Crash, TypeOK
  <2> QED  BY <1>1, <2>1 DEF StampsAgree, ValidatedStamps
<1>7. CASE CreateRun \/ UNCHANGED vars \/
           \E c \in Streams : Subscribe(c) \/ Deliver(c) \/ Disconnect(c)
  <2>1. UNCHANGED <<status, started, completed, pc, object, target, stamps>>
    BY <1>7 DEF CreateRun, vars, Subscribe, Deliver, Disconnect
  <2> QED  BY <1>1, <2>1 DEF StampsAgree, ValidatedStamps
<1> QED  BY <1>2, <1>3, <1>4, <1>5, <1>6, <1>7 DEF Next, Step

LEMMA StampInvHolds == Spec => []StampInv
BY StampInit, StampNext, PTL DEF Spec

(* Type correctness of the run service. *)
THEOREM TypeCorrect == Spec => []TypeOK
<1>1. StampInv => TypeOK
  BY DEF StampInv
<1> QED  BY <1>1, StampInvHolds, PTL

(* Under any interleaving, a stage that has run has a start time and a     *)
(* stage that has ended has an end time.                                   *)
THEOREM StampsAlwaysAgree == Spec => []StampsAgree
<1>1. StampInv => StampsAgree
  BY DEF StampInv
<1> QED  BY <1>1, StampInvHolds, PTL

-----------------------------------------------------------------------------
(* Clients that take turns: the status a request validated is still the    *)
(* status when it is overwritten.                                          *)

SerialInv ==
  /\ \A r, q \in Requests : InFlight(r) /\ InFlight(q) => r = q
  /\ \A r \in Requests : pc[r] = "commit" =>
       target[r] \in Machine!Successors(status[object[r]])

LEMMA SerialNext ==
  ASSUME serial, TypeOK, SerialInv, [Next]_vars
  PROVE  SerialInv'
<1> USE DEF SerialInv, TypeOK
<1>1. ASSUME NEW r \in Requests, Send(r) PROVE SerialInv'
  <2>1. /\ \A q \in Requests : ~InFlight(q)
        /\ pc'[r] = "read" /\ \A q \in Requests \ {r} : pc'[q] = pc[q]
    BY <1>1 DEF Send
  <2> QED  BY <2>1
<1>2. ASSUME NEW r \in Requests, Step(r) PROVE SerialInv'
  <2>1. InFlight(r) /\ \A q \in Requests \ {r} : pc'[q] = pc[q]
    BY <1>2 DEF Step, Read, Commit, Publish
  <2>2. \A q \in Requests \ {r} : ~InFlight(q) /\ ~InFlight(q)'
    BY <2>1
  <2>3. pc'[r] = "commit" =>
          /\ target[r] \in Machine!Successors(status[object[r]])
          /\ UNCHANGED <<status, object, target>>
    BY <1>2 DEF Step, Read, Commit, Publish
  <2> QED  BY <2>2, <2>3
<1>3. CASE Crash
  BY <1>3 DEF Crash
<1>4. CASE CreateRun \/ UNCHANGED vars \/
           \E c \in Streams : Subscribe(c) \/ Deliver(c) \/ Disconnect(c)
  <2>1. UNCHANGED <<status, pc, object, target>>
    BY <1>4 DEF CreateRun, vars, Subscribe, Deliver, Disconnect
  <2> QED  BY <2>1
<1> QED  BY <1>1, <1>2, <1>3, <1>4 DEF Next

LEMMA SerialConstant == [Next]_vars => serial' = serial
BY DEF Next, Step, CreateRun, Send, Read, Commit, Publish, Subscribe, Deliver,
       Disconnect, Crash, vars

LEMMA MachineStep ==
  ASSUME TypeOK, serial => SerialInv, [Next]_vars
  PROVE  [Turns!MachineNext]_(IF serial THEN status ELSE [o \in Objects |-> Machine!First(o)])
<1> serial' = serial
  BY SerialConstant
<1>1. CASE serial /\ \E r \in Requests : Commit(r)
  <2>1. PICK r \in Requests : Commit(r)
    BY <1>1
  <2>2. /\ target[r] \in Machine!Successors(status[object[r]])
        /\ status' = [status EXCEPT ![object[r]] = target[r]]
        /\ object[r] \in Turns!Objects
    BY <1>1, <2>1 DEF Commit, SerialInv, TypeOK, Objects, Turns!Objects
  <2>3. target[r] \in Turns!Successors(status[object[r]])
    BY <2>2 DEF Machine!Successors, Turns!Successors
  <2>4. Turns!Transition(object[r])
    BY <1>1, <2>2, <2>3 DEF Turns!Transition
  <2> QED  BY <2>2, <2>4 DEF Turns!MachineNext
<1>2. CASE serial /\ ~\E r \in Requests : Commit(r)
  <2>1. status' = status
    BY <1>2 DEF Next, Step, CreateRun, Send, Read, Publish, Subscribe, Deliver, Disconnect,
                Crash, vars
  <2> QED  BY <2>1
<1>3. CASE ~serial
  BY <1>3
<1> QED  BY <1>1, <1>2, <1>3

(* When clients take turns, every change of a status is one legal          *)
(* transition: complete and failed accept no further ones.                 *)
THEOREM SerialFollowsMachine == Spec => FollowsMachine
<1>1. Init => Turns!MachineInit
  BY DEF Init, Turns!MachineInit, Turns!Objects, Turns!First, Machine!First, Objects
<1>2. Init => SerialInv
  BY DEF Init, SerialInv
<1>3. TypeOK /\ (serial => SerialInv) /\ [Next]_vars => (serial => SerialInv)'
  BY SerialNext, SerialConstant
<1>4. TypeOK /\ (serial => SerialInv) /\ [Next]_vars
        => [Turns!MachineNext]_(IF serial THEN status ELSE [o \in Objects |-> Machine!First(o)])
  BY MachineStep
<1> QED  BY <1>1, <1>2, <1>3, <1>4, TypeCorrect, PTL DEF Spec, FollowsMachine, Turns!MachineSpec

-----------------------------------------------------------------------------
(* Followers. *)

(* A publication extends what a follower has to see by one event. *)
LEMMA SuffixAppend ==
  ASSUME NEW T, NEW p \in Seq(T), NEW e \in T, NEW n \in 0..Len(p)
  PROVE  SubSeq(Append(p, e), n + 1, Len(Append(p, e)))
           = Append(SubSeq(p, n + 1, Len(p)), e)
<1> DEFINE pe == Append(p, e)
           l == SubSeq(pe, n + 1, Len(pe))
           m == SubSeq(p, n + 1, Len(p))
           r == Append(m, e)
<1>1. /\ pe \in Seq(T) /\ Len(pe) = Len(p) + 1 /\ Len(p) \in Nat
      /\ \A i \in 1..Len(p) : pe[i] = p[i]
      /\ pe[Len(p) + 1] = e
  BY AppendProperties, LenProperties
<1> HIDE DEF pe
<1>2. \A i \in (n + 1)..Len(p) : p[i] \in T
  BY <1>1, ElementOfSeq
<1>3. \A i \in (n + 1)..Len(pe) : pe[i] \in T
  BY <1>1, ElementOfSeq
<1>4. /\ m \in Seq(T)
      /\ Len(m) = Len(p) - n
      /\ \A i \in 1..(Len(p) - n) : m[i] = p[n + i]
  <2>1. /\ Len(m) = IF n + 1 <= Len(p) THEN Len(p) - (n + 1) + 1 ELSE 0
        /\ m \in Seq(T)
        /\ \A i \in 1..(Len(p) - (n + 1) + 1) : m[i] = p[n + 1 + i - 1]
    BY <1>1, <1>2, SubSeqProperties
  <2> HIDE DEF m
  <2> QED  BY <1>1, <2>1
<1>5. /\ l \in Seq(T)
      /\ Len(l) = Len(p) + 1 - n
      /\ \A i \in 1..(Len(p) + 1 - n) : l[i] = pe[n + i]
  <2>1. /\ Len(l) = IF n + 1 <= Len(pe) THEN Len(pe) - (n + 1) + 1 ELSE 0
        /\ l \in Seq(T)
        /\ \A i \in 1..(Len(pe) - (n + 1) + 1) : l[i] = pe[n + 1 + i - 1]
    BY <1>1, <1>3, SubSeqProperties
  <2> HIDE DEF l
  <2> QED  BY <1>1, <2>1
<1> HIDE DEF l, m
<1>6. /\ r \in Seq(T) /\ Len(r) = Len(p) + 1 - n
      /\ \A i \in 1..(Len(p) - n) : r[i] = m[i]
      /\ r[Len(p) - n + 1] = e
  BY <1>1, <1>4, AppendProperties
<1> HIDE DEF r
<1>7. \A i \in 1..Len(l) : l[i] = r[i]
  <2> SUFFICES ASSUME NEW i \in 1..(Len(p) + 1 - n) PROVE l[i] = r[i]
    BY <1>5
  <2>1. CASE i = Len(p) + 1 - n
    BY <1>1, <1>5, <1>6, <2>1
  <2>2. CASE i # Len(p) + 1 - n
    <3>1. i \in 1..(Len(p) - n) /\ n + i \in 1..Len(p)
      BY <1>1, <2>2
    <3> QED  BY <1>1, <1>4, <1>5, <1>6, <3>1
  <2> QED  BY <2>1, <2>2
<1>8. l = r
  BY <1>5, <1>6, <1>7, SeqEqual
<1> QED  BY <1>8 DEF l, r, m, pe

(* Putting an event at the end of a queue, and moving its head to the      *)
(* client.                                                                 *)
LEMMA QueueMoves ==
  ASSUME NEW T, NEW s \in Seq(T), NEW q \in Seq(T), NEW e \in T
  PROVE  /\ s \o Append(q, e) = Append(s \o q, e)
         /\ q # << >> => Append(s, Head(q)) \o Tail(q) = s \o q
<1>1. << e >> \in Seq(T)
  OBVIOUS
<1>2. s \o Append(q, e) = s \o (q \o << e >>)
  BY AppendIsConcat
<1>3. s \o (q \o << e >>) = (s \o q) \o << e >>
  BY <1>1, ConcatAssociative
<1>4. (s \o q) \o << e >> = Append(s \o q, e)
  BY AppendIsConcat, ConcatProperties
<1>5. ASSUME q # << >> PROVE Append(s, Head(q)) \o Tail(q) = s \o q
  <2>1. Head(q) \in T /\ Tail(q) \in Seq(T) /\ << Head(q) >> \in Seq(T)
    BY <1>5, HeadTailProperties
  <2>2. Append(s, Head(q)) = s \o << Head(q) >>
    BY <2>1, AppendIsConcat
  <2>3. (s \o << Head(q) >>) \o Tail(q) = s \o (<< Head(q) >> \o Tail(q))
    BY <2>1, ConcatAssociative
  <2>4. << Head(q) >> \o Tail(q) = q
    BY <1>5
  <2> QED  BY <2>2, <2>3, <2>4
<1> QED  BY <1>2, <1>3, <1>4, <1>5

(* A stream that was never opened has seen nothing, and nobody subscribed  *)
(* in the future.                                                          *)
StreamInv ==
  /\ \A c \in Streams :
       /\ since[c] <= Len(published)
       /\ stream[c] = "closed" => seen[c] = << >> /\ queue[c] = << >>
  /\ StreamsComplete
  /\ StreamsEndAtTheEnd

LEMMA StreamInit == Init => StreamInv
BY DEF Init, StreamInv, StreamsComplete, StreamsEndAtTheEnd

LEMMA StreamPublish ==
  ASSUME TypeOK, StreamInv, NEW r \in Requests, Publish(r)
  PROVE  StreamInv'
<1> DEFINE event == [object |-> object[r], status |-> target[r]]
<1>1. event \in Events
  BY DEF Events, TypeOK
<1>2. /\ published' = Append(published, event)
      /\ queue' = [c \in Streams |->
                     IF stream[c] = "open" THEN Append(queue[c], event) ELSE queue[c]]
      /\ UNCHANGED <<stream, seen, since>>
  BY DEF Publish
<1> HIDE DEF event
<1>3. published \in Seq(Events) /\ queue \in [Streams -> Seq(Events)]
      /\ seen \in [Streams -> Seq(Events)] /\ since \in [Streams -> Nat]
  BY DEF TypeOK
<1>4. Len(published') = Len(published) + 1 /\ Len(published) \in Nat
  BY <1>1, <1>2, <1>3, AppendProperties, LenProperties
<1>5. StreamsComplete'
  <2> SUFFICES ASSUME NEW c \in Streams, stream[c] = "open"
               PROVE  seen[c] \o queue'[c]
                        = SubSeq(published', since[c] + 1, Len(published'))
    BY <1>2 DEF StreamsComplete
  <2>1. queue'[c] = Append(queue[c], event)
    BY <1>2
  <2>2. seen[c] \o queue'[c] = Append(seen[c] \o queue[c], event)
    BY <1>1, <1>3, <2>1, QueueMoves
  <2>3. seen[c] \o queue[c] = SubSeq(published, since[c] + 1, Len(published))
    BY DEF StreamInv, StreamsComplete
  <2>4. since[c] \in 0..Len(published)
    BY <1>3, <1>4 DEF StreamInv
  <2>5. SubSeq(published', since[c] + 1, Len(published'))
          = Append(SubSeq(published, since[c] + 1, Len(published)), event)
    BY <1>1, <1>2, <1>3, <2>4, SuffixAppend
  <2> QED  BY <2>2, <2>3, <2>5
<1>6. StreamsEndAtTheEnd'
  BY <1>2 DEF StreamInv, StreamsEndAtTheEnd
<1>7. \A c \in Streams : /\ since'[c] <= Len(published')
                         /\ stream'[c] = "closed" => seen'[c] = << >> /\ queue'[c] = << >>
  BY <1>2, <1>3, <1>4 DEF StreamInv
<1> QED  BY <1>5, <1>6, <1>7 DEF StreamInv

LEMMA StreamDeliver ==
  ASSUME TypeOK, StreamInv, NEW c \in Streams, Deliver(c)
  PROVE  StreamInv'
<1> DEFINE event == Head(queue[c])
<1>1. /\ stream[c] = "open" /\ queue[c] # << >>
      /\ seen' = [seen EXCEPT ![c] = Append(seen[c], event)]
      /\ UNCHANGED <<since, published>>
      /\ \/ /\ EndsStream(event)
            /\ stream' = [stream EXCEPT ![c] = "ended"]
            /\ queue' = [queue EXCEPT ![c] = << >>]
         \/ /\ ~EndsStream(event)
            /\ queue' = [queue EXCEPT ![c] = Tail(queue[c])]
            /\ UNCHANGED stream
  BY DEF Deliver
<1>2. queue[c] \in Seq(Events) /\ seen[c] \in Seq(Events)
  BY DEF TypeOK
<1>3. event \in Events
  BY <1>1, <1>2, HeadTailProperties
<1>4. \A d \in Streams \ {c} :
        seen'[d] = seen[d] /\ queue'[d] = queue[d] /\ stream'[d] = stream[d]
  BY <1>1 DEF TypeOK
<1>5. seen'[c] = Append(seen[c], event)
  BY <1>1 DEF TypeOK
<1>6. ~EndsStream(event) => stream'[c] = "open" /\ queue'[c] = Tail(queue[c])
  BY <1>1 DEF TypeOK
<1>7. EndsStream(event) => stream'[c] = "ended"
  BY <1>1 DEF TypeOK
<1>8. Append(seen[c], event) \o Tail(queue[c]) = seen[c] \o queue[c]
  BY <1>1, <1>2, <1>3, QueueMoves
<1> HIDE DEF event
<1>9. StreamsComplete'
  <2> SUFFICES ASSUME NEW d \in Streams, stream'[d] = "open"
               PROVE  seen'[d] \o queue'[d]
                        = SubSeq(published, since[d] + 1, Len(published))
    BY <1>1 DEF StreamsComplete
  <2>1. CASE d = c
    BY <1>1, <1>5, <1>6, <1>7, <1>8, <2>1 DEF StreamInv, StreamsComplete
  <2>2. CASE d # c
    BY <1>4, <2>2 DEF StreamInv, StreamsComplete
  <2> QED  BY <2>1, <2>2
<1>10. StreamsEndAtTheEnd'
  <2> SUFFICES ASSUME NEW d \in Streams, NEW i \in 1..Len(seen'[d])
               PROVE  EndsStream(seen'[d][i]) <=> (i = Len(seen'[d]) /\ stream'[d] = "ended")
    BY DEF StreamsEndAtTheEnd, EndsStream
  <2>1. CASE d = c
    <3>1. /\ Len(seen'[c]) = Len(seen[c]) + 1 /\ Len(seen[c]) \in Nat
          /\ \A j \in 1..Len(seen[c]) : seen'[c][j] = seen[c][j]
          /\ seen'[c][Len(seen[c]) + 1] = event
      BY <1>2, <1>3, <1>5, AppendProperties, LenProperties
    <3>2. \A j \in 1..Len(seen[c]) : ~EndsStream(seen[c][j])
      BY <1>1 DEF StreamInv, StreamsEndAtTheEnd
    <3>3. CASE i \in 1..Len(seen[c])
      BY <2>1, <3>1, <3>2, <3>3
    <3>4. CASE i = Len(seen[c]) + 1
      <4>1. seen'[d][i] = event /\ i = Len(seen'[d])
        BY <2>1, <3>1, <3>4
      <4>2. EndsStream(event) <=> stream'[c] = "ended"
        BY <1>6, <1>7
      <4> QED  BY <2>1, <4>1, <4>2
    <3> QED  BY <2>1, <3>1, <3>3, <3>4
  <2>2. CASE d # c
    BY <1>4, <2>2 DEF StreamInv, StreamsEndAtTheEnd
  <2> QED  BY <2>1, <2>2
<1>11. \A d \in Streams : /\ since'[d] <= Len(published')
                          /\ stream'[d] = "closed" => seen'[d] = << >> /\ queue'[d] = << >>
  BY <1>1, <1>4, <1>6, <1>7 DEF StreamInv
<1> QED  BY <1>9, <1>10, <1>11 DEF StreamInv

LEMMA StreamSubscribe ==
  ASSUME TypeOK, StreamInv, NEW c \in Streams, Subscribe(c)
  PROVE  StreamInv'
<1>1. /\ stream[c] = "closed" /\ stream'[c] = "open" /\ since'[c] = Len(published)
      /\ UNCHANGED <<queue, seen, published>>
      /\ \A d \in Streams \ {c} : stream'[d] = stream[d] /\ since'[d] = since[d]
  BY DEF Subscribe, TypeOK
<1>2. seen[c] = << >> /\ queue[c] = << >> /\ Len(published) \in Nat
  BY <1>1 DEF StreamInv, TypeOK
<1>3. SubSeq(published, Len(published) + 1, Len(published)) = << >>
  BY <1>2, SubSeqEmpty
<1>4. << >> \o << >> = << >>
  OBVIOUS
<1>5. StreamsComplete'
  BY <1>1, <1>2, <1>3, <1>4 DEF StreamInv, StreamsComplete
<1>6. StreamsEndAtTheEnd'
  BY <1>1, <1>2 DEF StreamInv, StreamsEndAtTheEnd, EndsStream
<1>7. \A d \in Streams : /\ since'[d] <= Len(published')
                         /\ stream'[d] = "closed" => seen'[d] = << >> /\ queue'[d] = << >>
  BY <1>1, <1>2 DEF StreamInv
<1> QED  BY <1>5, <1>6, <1>7 DEF StreamInv

(* Streams that are closed by the client or by a restart keep what they    *)
(* have seen.                                                              *)
LEMMA StreamDrop ==
  ASSUME TypeOK, StreamInv, (\E c \in Streams : Disconnect(c)) \/ Crash
  PROVE  StreamInv'
<1>1. /\ UNCHANGED <<seen, since, published>>
      /\ \A d \in Streams :
           \/ /\ stream'[d] = stream[d]
              /\ queue'[d] = queue[d] \/ (stream[d] # "open" /\ queue'[d] = << >>)
           \/ stream[d] = "open" /\ stream'[d] = "dropped"
  <2>1. CASE Crash
    <3>1. /\ stream' = [c \in Streams |->
                          IF stream[c] = "open" THEN "dropped" ELSE stream[c]]
          /\ queue' = [c \in Streams |-> << >>]
          /\ UNCHANGED <<seen, since, published>>
      BY <2>1 DEF Crash
    <3> QED  BY <3>1
  <2>2. CASE \E c \in Streams : Disconnect(c)
    <3>1. PICK c \in Streams : Disconnect(c)
      BY <2>2
    <3>2. /\ stream[c] = "open" /\ stream'[c] = "dropped"
          /\ \A d \in Streams \ {c} : stream'[d] = stream[d] /\ queue'[d] = queue[d]
          /\ UNCHANGED <<seen, since, published>>
      BY <3>1 DEF Disconnect, TypeOK
    <3> QED  BY <3>2
  <2> QED  BY <2>1, <2>2
<1>2. StreamsComplete'
  BY <1>1 DEF StreamInv, StreamsComplete
<1>3. StreamsEndAtTheEnd'
  BY <1>1 DEF StreamInv, StreamsEndAtTheEnd, EndsStream
<1> QED  BY <1>1, <1>2, <1>3 DEF StreamInv

LEMMA StreamNext == TypeOK /\ StreamInv /\ [Next]_vars => StreamInv'
<1> SUFFICES ASSUME TypeOK, StreamInv, [Next]_vars PROVE StreamInv'
  OBVIOUS
<1>1. CASE UNCHANGED <<stream, queue, seen, since, published>>
  BY <1>1 DEF StreamInv, StreamsComplete, StreamsEndAtTheEnd, EndsStream
<1>2. CASE CreateRun \/ UNCHANGED vars \/
           \E r \in Requests : Send(r) \/ Read(r) \/ Commit(r)
  <2>1. UNCHANGED <<stream, queue, seen, since, published>>
    BY <1>2 DEF CreateRun, vars, Send, Read, Commit
  <2> QED  BY <1>1, <2>1
<1> QED  BY <1>2, StreamPublish, StreamDeliver, StreamSubscribe, StreamDrop DEF Next, Step

(* A connected follower receives every event published since it subscribed, *)
(* in order, and is let go exactly at the end of the run.                  *)
THEOREM FollowersSeeEverything == Spec => []StreamsFaithful
<1>1. StreamInv => StreamsFaithful
  BY DEF StreamInv, StreamsFaithful
<1> QED  BY <1>1, StreamInit, StreamNext, TypeCorrect, PTL DEF Spec

-----------------------------------------------------------------------------
(* Start times, when clients take turns: nobody starts a stage between the *)
(* read that found it not started and the write.                           *)
StampedFirst ==
  \A r \in Requests : pc[r] = "commit" /\ stamps[r] =>
    object[r] \in Stages /\ started[object[r]] = Nobody

LEMMA StampedNext ==
  ASSUME serial, TypeOK, SerialInv, StampedFirst, [Next]_vars
  PROVE  StampedFirst'
<1> USE DEF TypeOK, StampedFirst
<1>1. ASSUME NEW r \in Requests, Send(r) PROVE StampedFirst'
  <2>1. /\ pc'[r] = "read" /\ UNCHANGED <<started, stamps>>
        /\ \A q \in Requests \ {r} : pc'[q] = pc[q] /\ object'[q] = object[q]
    BY <1>1 DEF Send
  <2> QED  BY <2>1
<1>2. ASSUME NEW r \in Requests, Step(r) PROVE StampedFirst'
  <2>0. InFlight(r) /\ \A q \in Requests \ {r} : pc'[q] = pc[q]
    BY <1>2 DEF Step, Read, Commit, Publish
  <2>1. \A q \in Requests \ {r} : pc'[q] = pc[q] /\ ~InFlight(q)
    BY <2>0 DEF SerialInv
  <2>2. CASE Read(r)
    <3>1. UNCHANGED <<started, object>> /\ \A q \in Requests \ {r} : stamps'[q] = stamps[q]
      BY <2>2 DEF Read
    <3>2. pc'[r] = "commit" /\ stamps'[r] => object[r] \in Stages /\ started[object[r]] = Nobody
      BY <2>2 DEF Read
    <3> QED  BY <2>1, <3>1, <3>2
  <2>3. CASE Commit(r) \/ Publish(r)
    <3>1. pc'[r] # "commit"
      BY <2>3 DEF Commit, Publish
    <3> QED  BY <2>1, <3>1
  <2> QED  BY <1>2, <2>2, <2>3 DEF Step
<1>3. CASE Crash
  <2>1. UNCHANGED <<started, stamps, object>> /\ \A q \in Requests : pc'[q] = pc[q] \/ pc'[q] = "lost"
    BY <1>3 DEF Crash
  <2> QED  BY <2>1
<1>4. CASE CreateRun \/ UNCHANGED vars \/
           \E c \in Streams : Subscribe(c) \/ Deliver(c) \/ Disconnect(c)
  <2>1. UNCHANGED <<started, stamps, object, pc>>
    BY <1>4 DEF CreateRun, vars, Subscribe, Deliver, Disconnect
  <2> QED  BY <2>1
<1> QED  BY <1>1, <1>2, <1>3, <1>4 DEF Next

LEMMA StartedKept ==
  ASSUME TypeOK, serial => StampedFirst, [Next]_vars, serial, NEW s \in Stages, started[s] # Nobody
  PROVE  started'[s] = started[s]
<1>1. ASSUME NEW r \in Requests, Commit(r) PROVE started'[s] = started[s]
  <2>1. CASE stamps[r]
    <3>1. object[r] # s /\ started' = [started EXCEPT ![object[r]] = r]
      BY <1>1, <2>1 DEF StampedFirst, Commit
    <3> QED  BY <3>1 DEF TypeOK
  <2>2. CASE ~stamps[r]
    BY <1>1, <2>2 DEF Commit
  <2> QED  BY <2>1, <2>2
<1>2. CASE ~\E r \in Requests : Commit(r)
  BY <1>2 DEF Next, Step, CreateRun, Send, Read, Publish, Subscribe, Deliver, Disconnect, Crash, vars
<1> QED  BY <1>1, <1>2

LEMMA TurnsHold == Spec => [](serial => SerialInv /\ StampedFirst)
<1>1. Init => SerialInv /\ StampedFirst
  BY DEF Init, SerialInv, StampedFirst
<1>2. TypeOK /\ (serial => SerialInv /\ StampedFirst) /\ [Next]_vars
        => (serial => SerialInv /\ StampedFirst)'
  BY SerialNext, StampedNext, SerialConstant
<1> QED  BY <1>1, <1>2, TypeCorrect, PTL DEF Spec

(* When clients take turns a stage keeps the time it was first started,    *)
(* however often it is paused and resumed.                                 *)
THEOREM StartIsKept == Spec => StartedOnce
<1>1. TypeOK /\ (serial => SerialInv /\ StampedFirst) /\ [Next]_vars
        => [serial => \A s \in Stages : started[s] # Nobody => started'[s] = started[s]]_started
  BY StartedKept
<1> QED  BY <1>1, TypeCorrect, TurnsHold, PTL DEF Spec, StartedOnce

-----------------------------------------------------------------------------
(* Announcements. *)

EventOf(r) == [object |-> object[r], status |-> target[r]]
Pending(e) == {r \in Requests : pc[r] = "publish" /\ EventOf(r) = e}
Times(s, e) == {j \in 1..Len(s) : s[j] = e}

(* Every announcement of an event, made or to be made, has its own commit. *)
Announced ==
  \A e \in Events :
    /\ IsFiniteSet(Pending(e))
    /\ Cardinality(Times(published, e)) + Cardinality(Pending(e)) =< Cardinality(Times(committed, e))

LEMMA TimesFinite ==
  ASSUME NEW T, NEW s \in Seq(T), NEW e
  PROVE  IsFiniteSet(Times(s, e)) /\ Cardinality(Times(s, e)) \in Nat
<1>1. IsFiniteSet(1..Len(s)) /\ Times(s, e) \subseteq 1..Len(s)
  BY FS_Interval DEF Times
<1>2. IsFiniteSet(Times(s, e))
  BY <1>1, FS_Subset
<1> QED  BY <1>2, FS_CardinalityType

LEMMA TimesAppend ==
  ASSUME NEW T, NEW s \in Seq(T), NEW x \in T, NEW e
  PROVE  Cardinality(Times(Append(s, x), e)) = Cardinality(Times(s, e)) + (IF x = e THEN 1 ELSE 0)
<1> DEFINE l == Append(s, x)
<1>1. /\ l \in Seq(T) /\ Len(l) = Len(s) + 1 /\ Len(s) \in Nat
      /\ \A i \in 1..Len(s) : l[i] = s[i]
      /\ l[Len(s) + 1] = x
  BY AppendProperties, LenProperties
<1> HIDE DEF l
<1>2. CASE x = e
  <2>1. Times(l, e) = Times(s, e) \cup {Len(s) + 1} /\ Len(s) + 1 \notin Times(s, e)
    BY <1>1, <1>2 DEF Times
  <2>2. IsFiniteSet(Times(s, e))
    BY TimesFinite
  <2>3. Cardinality(Times(s, e) \cup {Len(s) + 1}) = Cardinality(Times(s, e)) + 1
    BY <2>1, <2>2, FS_AddElement
  <2> QED  BY <1>2, <2>1, <2>3 DEF l
<1>3. CASE x # e
  <2>1. Times(l, e) = Times(s, e)
    BY <1>1, <1>3 DEF Times
  <2> QED  BY <1>3, <2>1, TimesFinite DEF l
<1> QED  BY <1>2, <1>3
LEMMA AnnouncedInit == Init => Announced
<1> SUFFICES ASSUME Init, NEW e \in Events
             PROVE  /\ IsFiniteSet(Pending(e))
                    /\ Cardinality(Times(published, e)) + Cardinality(Pending(e))
                         =< Cardinality(Times(committed, e))
  BY DEF Announced
<1>1. Pending(e) = {} /\ Times(published, e) = {} /\ Times(committed, e) = {}
  BY DEF Init, Pending, Times
<1> QED  BY <1>1, FS_EmptySet

LEMMA AnnouncedNext == TypeOK /\ Announced /\ [Next]_vars => Announced'
<1> SUFFICES ASSUME TypeOK, Announced, [Next]_vars, NEW e \in Events
             PROVE  /\ IsFiniteSet(Pending(e)')
                    /\ Cardinality(Times(published, e)') + Cardinality(Pending(e)')
                         =< Cardinality(Times(committed, e)')
  BY DEF Announced
<1> DEFINE P == Cardinality(Times(published, e))
           C == Cardinality(Times(committed, e))
           N == Cardinality(Pending(e))
<1>1. /\ published \in Seq(Events) /\ committed \in Seq(Events)
      /\ \A r \in Requests : EventOf(r) \in Events
  BY DEF TypeOK, EventOf, Events
<1>2. IsFiniteSet(Pending(e)) /\ P + N =< C
  BY DEF Announced
<1>3. P \in Nat /\ C \in Nat /\ N \in Nat
  BY <1>1, <1>2, TimesFinite, FS_CardinalityType
<1> HIDE DEF P, C, N
<1>4. ASSUME NEW r \in Requests, Commit(r)
      PROVE  /\ IsFiniteSet(Pending(e)')
             /\ Cardinality(Times(published, e)') + Cardinality(Pending(e)')
                  =< Cardinality(Times(committed, e)')
  <2>1. /\ published' = published /\ committed' = Append(committed, EventOf(r))
        /\ UNCHANGED <<object, target>>
        /\ pc[r] = "commit" /\ pc'[r] = "publish"
        /\ \A q \in Requests \ {r} : pc'[q] = pc[q]
    BY <1>4 DEF Commit, EventOf, TypeOK
  <2>2. Cardinality(Times(committed, e)') = C + (IF EventOf(r) = e THEN 1 ELSE 0)
    <3>1. Times(committed, e)' = Times(Append(committed, EventOf(r)), e)
      BY <2>1 DEF Times
    <3>2. Cardinality(Times(Append(committed, EventOf(r)), e))
            = Cardinality(Times(committed, e)) + (IF EventOf(r) = e THEN 1 ELSE 0)
      BY <1>1, TimesAppend
    <3> QED  BY <3>1, <3>2 DEF C
  <2>3. Cardinality(Times(published, e)') = P
    BY <2>1 DEF P, Times
  <2>4. CASE EventOf(r) = e
    <3>1. Pending(e)' = Pending(e) \cup {r} /\ r \notin Pending(e)
      BY <2>1, <2>4 DEF Pending, EventOf
    <3>2. IsFiniteSet(Pending(e)') /\ Cardinality(Pending(e)') = N + 1
      BY <1>2, <3>1, FS_AddElement DEF N
    <3> QED  BY <1>2, <1>3, <2>2, <2>3, <2>4, <3>2
  <2>5. CASE EventOf(r) # e
    <3>1. Pending(e)' = Pending(e)
      BY <2>1, <2>5 DEF Pending, EventOf
    <3> QED  BY <1>2, <1>3, <2>2, <2>3, <2>5, <3>1 DEF N
  <2> QED  BY <2>4, <2>5
<1>5. ASSUME NEW r \in Requests, Publish(r)
      PROVE  /\ IsFiniteSet(Pending(e)')
             /\ Cardinality(Times(published, e)') + Cardinality(Pending(e)')
                  =< Cardinality(Times(committed, e)')
  <2>1. /\ committed' = committed /\ published' = Append(published, EventOf(r))
        /\ UNCHANGED <<object, target>>
        /\ pc[r] = "publish" /\ pc'[r] = "ok"
        /\ \A q \in Requests \ {r} : pc'[q] = pc[q]
    BY <1>5 DEF Publish, EventOf, TypeOK
  <2>2. Cardinality(Times(published, e)') = P + (IF EventOf(r) = e THEN 1 ELSE 0)
    <3>1. Times(published, e)' = Times(Append(published, EventOf(r)), e)
      BY <2>1 DEF Times
    <3>2. Cardinality(Times(Append(published, EventOf(r)), e))
            = Cardinality(Times(published, e)) + (IF EventOf(r) = e THEN 1 ELSE 0)
      BY <1>1, TimesAppend
    <3> QED  BY <3>1, <3>2 DEF P
  <2>3. Cardinality(Times(committed, e)') = C
    BY <2>1 DEF C, Times
  <2>4. CASE EventOf(r) = e
    <3>1. Pending(e)' = Pending(e) \ {r} /\ r \in Pending(e)
      BY <2>1, <2>4 DEF Pending, EventOf
    <3>2. IsFiniteSet(Pending(e)') /\ Cardinality(Pending(e)') = N - 1
      BY <1>2, <3>1, FS_RemoveElement DEF N
    <3> QED  BY <1>2, <1>3, <2>2, <2>3, <2>4, <3>2
  <2>5. CASE EventOf(r) # e
    <3>1. Pending(e)' = Pending(e)
      BY <2>1, <2>5 DEF Pending, EventOf
    <3> QED  BY <1>2, <1>3, <2>2, <2>3, <2>5, <3>1 DEF N
  <2> QED  BY <2>4, <2>5
<1>6. CASE Crash
  <2>1. UNCHANGED <<published, committed>> /\ \A q \in Requests : pc'[q] # "publish"
    BY <1>6 DEF Crash
  <2>2. Pending(e)' = {}
    BY <2>1 DEF Pending
  <2> QED  BY <1>2, <1>3, <2>1, <2>2, FS_EmptySet DEF P, C, Times
<1>7. CASE CreateRun \/ UNCHANGED vars
           \/ (\E r \in Requests : Send(r) \/ Read(r))
           \/ \E c \in Streams : Subscribe(c) \/ Deliver(c) \/ Disconnect(c)
  <2>1. /\ UNCHANGED <<published, committed>>
        /\ \A q \in Requests :
             \/ pc[q] # "publish" /\ pc'[q] # "publish"
             \/ /\ pc[q] = "publish" /\ pc'[q] = "publish"
                /\ object'[q] = object[q] /\ target'[q] = target[q]
    <3>1. CASE \E r \in Requests : Send(r)
      BY <3>1 DEF Send, TypeOK
    <3>2. CASE \E r \in Requests : Read(r)
      BY <3>2 DEF Read, TypeOK
    <3>3. CASE CreateRun \/ UNCHANGED vars
               \/ \E c \in Streams : Subscribe(c) \/ Deliver(c) \/ Disconnect(c)
      BY <3>3 DEF CreateRun, vars, Subscribe, Deliver, Disconnect
    <3> QED  BY <1>7, <3>1, <3>2, <3>3
  <2>2. Pending(e)' = Pending(e)
    BY <2>1 DEF Pending, EventOf
  <2> QED  BY <1>2, <2>1, <2>2 DEF P, C, N, Times
<1> QED  BY <1>4, <1>5, <1>6, <1>7 DEF Next, Step

LEMMA AnnouncedCommitted ==
  ASSUME TypeOK, Announced
  PROVE  EventsWereCommitted
<1> SUFFICES ASSUME NEW i \in 1..Len(published)
             PROVE  Cardinality({j \in 1..i : published[j] = published[i]})
                      <= Cardinality({j \in 1..Len(committed) : committed[j] = published[i]})
  BY DEF EventsWereCommitted
<1> DEFINE e == published[i]
           early == {j \in 1..i : published[j] = published[i]}
<1>1. published \in Seq(Events) /\ committed \in Seq(Events) /\ e \in Events
  BY ElementOfSeq DEF TypeOK
<1>2. early \subseteq Times(published, e) /\ IsFiniteSet(Times(published, e))
  <2>1. Len(published) \in Nat
    BY <1>1, LenProperties
  <2>2. early \subseteq Times(published, e)
    BY <2>1 DEF Times
  <2> QED  BY <1>1, <2>2, TimesFinite
<1>3. Cardinality(early) =< Cardinality(Times(published, e)) /\ Cardinality(early) \in Nat
  BY <1>2, FS_Subset, FS_CardinalityType
<1>4. /\ Cardinality(Times(published, e)) + Cardinality(Pending(e)) =< Cardinality(Times(committed, e))
      /\ Cardinality(Pending(e)) \in Nat
  BY <1>1, FS_CardinalityType DEF Announced
<1>5. Cardinality(Times(published, e)) \in Nat /\ Cardinality(Times(committed, e)) \in Nat
  BY <1>1, TimesFinite
<1> HIDE DEF early, e
<1>6. Cardinality(early) =< Cardinality(Times(committed, e))
  BY <1>3, <1>4, <1>5
<1> QED  BY <1>6 DEF early, e, Times

(* When clients take turns: what is being announced is the status, and the *)
(* last word about an object is its status or is about to be followed by   *)
(* it.                                                                     *)
Last(i) == \A j \in (i + 1)..Len(published) : published[j].object # published[i].object
Superseded(o) == \E r \in Requests : pc[r] = "publish" /\ object[r] = o

LastWord ==
  /\ \A r \in Requests : pc[r] = "publish" => status[object[r]] = target[r]
  /\ \A i \in 1..Len(published) : Last(i) =>
       \/ published[i].status = status[published[i].object]
       \/ Superseded(published[i].object)

LEMMA LastWordNext ==
  ASSUME serial, TypeOK, SerialInv, LastWord, [Next]_vars, crashes' = 0
  PROVE  LastWord'
<1>1. ASSUME NEW r \in Requests, Commit(r) PROVE LastWord'
  <2>1. /\ published' = published /\ UNCHANGED <<object, target>>
        /\ pc'[r] = "publish" /\ status'[object[r]] = target[r]
        /\ \A o \in Objects \ {object[r]} : status'[o] = status[o]
        /\ \A q \in Requests \ {r} : pc[q] # "publish" /\ pc'[q] = pc[q]
        /\ pc[r] # "publish"
    BY <1>1 DEF Commit, TypeOK, SerialInv
  <2>2. \A i \in 1..Len(published) : published[i].object \in Objects
    <3>1. \A i \in 1..Len(published) : published[i] \in Events
      BY ElementOfSeq DEF TypeOK
    <3> QED  BY <3>1 DEF Events
  <2> HIDE DEF Objects
  <2>3. \A i \in 1..Len(published) : Last(i) => published[i].status = status[published[i].object]
    BY <2>1 DEF LastWord, Superseded
  <2>4. \A i \in 1..Len(published) : Last(i)' <=> Last(i)
    BY <2>1 DEF Last
  <2>5. Superseded(object[r])'
    BY <2>1 DEF Superseded
  <2> QED  BY <2>1, <2>2, <2>3, <2>4, <2>5 DEF LastWord
<1>2. ASSUME NEW r \in Requests, Publish(r) PROVE LastWord'
  <2>1. /\ published' = Append(published, EventOf(r)) /\ UNCHANGED <<object, target, status>>
        /\ pc[r] = "publish"
        /\ \A q \in Requests : q # r => pc[q] # "publish" /\ pc'[q] = pc[q]
        /\ pc'[r] = "ok"
    BY <1>2 DEF Publish, TypeOK, SerialInv, EventOf
  <2>2. EventOf(r) \in Events /\ published \in Seq(Events)
    BY DEF TypeOK, EventOf, Events
  <2>3. /\ Len(published') = Len(published) + 1 /\ Len(published) \in Nat
        /\ \A i \in 1..Len(published) : published'[i] = published[i]
        /\ published'[Len(published) + 1] = EventOf(r)
    BY <2>1, <2>2, AppendProperties, LenProperties
  <2>4. EventOf(r).object = object[r] /\ EventOf(r).status = status[object[r]]
    BY <2>1 DEF EventOf, LastWord
  <2>5. ASSUME NEW i \in 1..Len(published'), Last(i)'
        PROVE  published'[i].status = status'[published'[i].object]
    <3>1. CASE i = Len(published) + 1
      BY <2>1, <2>3, <2>4, <3>1
    <3>2. CASE i \in 1..Len(published)
      <4>1. published[i].object # object[r]
        BY <2>3, <2>4, <2>5, <3>2 DEF Last
      <4>2. Last(i)
        BY <2>3, <2>5, <3>2 DEF Last
      <4>3. ~Superseded(published[i].object)
        BY <2>1, <4>1 DEF Superseded
      <4> QED  BY <2>1, <2>3, <3>2, <4>2, <4>3 DEF LastWord
    <3> QED  BY <2>3, <3>1, <3>2
  <2> QED  BY <2>1, <2>5 DEF LastWord
<1>3. CASE Crash
  BY <1>3, CrashesAssumption DEF Crash, TypeOK
<1>4. CASE CreateRun \/ UNCHANGED vars
           \/ (\E r \in Requests : Send(r) \/ Read(r))
           \/ \E c \in Streams : Subscribe(c) \/ Deliver(c) \/ Disconnect(c)
  <2>1. /\ UNCHANGED <<published, status>>
        /\ \A q \in Requests :
             \/ pc[q] # "publish" /\ pc'[q] # "publish"
             \/ /\ pc[q] = "publish" /\ pc'[q] = "publish"
                /\ object'[q] = object[q] /\ target'[q] = target[q]
    <3>1. CASE \E r \in Requests : Send(r)
      BY <3>1 DEF Send, TypeOK
    <3>2. CASE \E r \in Requests : Read(r)
      BY <3>2 DEF Read, TypeOK
    <3>3. CASE CreateRun \/ UNCHANGED vars
               \/ \E c \in Streams : Subscribe(c) \/ Deliver(c) \/ Disconnect(c)
      BY <3>3 DEF CreateRun, vars, Subscribe, Deliver, Disconnect
    <3> QED  BY <1>4, <3>1, <3>2, <3>3
  <2>2. \A i \in 1..Len(published) : Last(i)' <=> Last(i)
    BY <2>1 DEF Last
  <2>3. ASSUME NEW o, Superseded(o) PROVE Superseded(o)'
    BY <2>1, <2>3 DEF Superseded
  <2> QED  BY <2>1, <2>2, <2>3 DEF LastWord
<1> QED  BY <1>1, <1>2, <1>3, <1>4 DEF Next, Step

LEMMA CrashesKept == TypeOK /\ [Next]_vars /\ crashes' = 0 => crashes = 0
<1> SUFFICES ASSUME TypeOK, [Next]_vars PROVE crashes' = 0 => crashes = 0
  OBVIOUS
<1>1. CASE Crash
  <2>1. crashes \in Nat /\ crashes' = crashes + 1
    BY <1>1, CrashesAssumption DEF Crash, TypeOK
  <2> QED  BY <2>1
<1>2. CASE ~Crash
  <2>1. crashes' = crashes
    BY <1>2 DEF Next, Step, CreateRun, Send, Read, Commit, Publish, Subscribe, Deliver, Disconnect, vars
  <2> QED  BY <2>1
<1> QED  BY <1>1, <1>2

(* What a follower is told was committed, each time it is told; and when   *)
(* clients take turns and the server stays up, the last word about an      *)
(* object is its status.                                                   *)
THEOREM EventsAreFaithful == Spec => []EventsFaithful
<1>1. Init => LastWord
  BY DEF Init, LastWord, Last, Superseded
<1>2. TypeOK /\ (serial => SerialInv /\ StampedFirst) /\ [Next]_vars
        /\ (serial /\ crashes = 0 => LastWord)
        => (serial /\ crashes = 0 => LastWord)'
  <2> SUFFICES ASSUME TypeOK, serial => SerialInv /\ StampedFirst, [Next]_vars,
                      serial /\ crashes = 0 => LastWord, serial', crashes' = 0
               PROVE  LastWord'
    OBVIOUS
  <2>1. serial /\ crashes = 0
    BY SerialConstant, CrashesKept
  <2> QED  BY <2>1, LastWordNext
<1>3. TypeOK /\ Announced /\ (serial /\ crashes = 0 => LastWord) => EventsFaithful
  <2> SUFFICES ASSUME TypeOK, Announced, serial /\ crashes = 0 => LastWord
               PROVE  EventsWereCommitted /\ LastEventIsStatus
    BY DEF EventsFaithful
  <2>1. LastEventIsStatus
    BY DEF LastEventIsStatus, LastWord, Last, Superseded
  <2> QED  BY <2>1, AnnouncedCommitted
<1> QED  BY <1>1, <1>2, <1>3, AnnouncedInit, AnnouncedNext, TypeCorrect, TurnsHold, PTL DEF Spec
=============================================================================
