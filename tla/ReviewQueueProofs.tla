------------------------- MODULE ReviewQueueProofs -------------------------
(***************************************************************************)
(* The review queue for any number of items, decisions, critiques, other   *)
(* revisions and restarts: it leaves the revision chain what it is, and an *)
(* item leads to one revision at most, to true records and to a decision   *)
(* that stands.                                                            *)
(***************************************************************************)
EXTENDS ReviewQueue, RevisionChainProofs, FiniteSetTheorems, SequenceTheorems

Actors == Decisions \cup Generations

-----------------------------------------------------------------------------
(* The inductive invariant, in named parts. *)

(* A decision holds its item from the claim on, until the pipeline of an   *)
(* acceptance has begun by its own program counter, and ever after.        *)
Holds(d) == at[d] \in {"reread", "log"} \/ pc[d] # "idle"

HoldersDecided ==
  \A d \in Decisions : Holds(d) => item[subject[d]] = Verdict[verb[d]]
OneHolder ==
  \A d, e \in Decisions : Holds(d) /\ Holds(e) /\ subject[d] = subject[e] => d = e

(* The pipeline of an acceptance runs only after its claim.                *)
Piped ==
  \A d \in Decisions : pc[d] # "idle" =>
    verb[d] = "accept" /\ at[d] \in {"revising", "log"} \cup Answers

(* What is answered "ok" is committed, and only then is it logged.         *)
OkIsMade == \A r \in Requests : pc[r] = "ok" => r \in made
LoggedAfter ==
  /\ \A d \in Decisions : at[d] = "log" /\ verb[d] = "accept" => d \in made
  /\ \A d \in log \cap Decisions : at[d] = "ok"

(* The revision that a critique has read is committed.                     *)
ParentsMade == \A g \in Generations : parent[g] \in made \cup {None}

Own ==
  /\ HoldersDecided /\ OneHolder /\ Piped /\ OkIsMade /\ LoggedAfter /\ ParentsMade
  /\ RecordsAreTrue

QInv == ~serial /\ IInv /\ QueueTypeOK /\ Own

USE DEF Answers, Answered, To

-----------------------------------------------------------------------------
(* Every step of the queue is a step of the chain, or leaves it alone.     *)

LEMMA DecisionsAreRequests ==
  /\ \A d \in Decisions : d \in Requests /\ d \in Actors /\ d \notin Generations
  /\ \A g \in Generations : g \in Actors /\ g \notin Requests /\ g \notin Decisions
BY DecisionsAssumption, GenerationsAssumption DEF Actors

LEMMA Verdicts ==
  /\ DOMAIN Verdict = {"accept", "reject"}
  /\ Verdict["accept"] = "accepted" /\ Verdict["reject"] = "rejected"
  /\ \A v \in DOMAIN Verdict : Verdict[v] \in Decided
BY DEF Verdict, Decided

LEMMA Longer ==
  ASSUME NEW S, NEW s \in Seq(S), NEW x \in S
  PROVE  Append(s, x) \in Seq(S)
OBVIOUS

LEMMA Two ==
  ASSUME NEW S, NEW a \in S, NEW x \in S
  PROVE  Append(<<a>>, x) = <<a, x>>
<1> DEFINE s == Append(<<a>>, x)
<1> DEFINE t == <<a, x>>
<1>1. s \in Seq(S) /\ t \in Seq(S)
  OBVIOUS
<1>2. Len(s) = 2 /\ Len(t) = 2
  OBVIOUS
<1>3. s[1] = a /\ s[2] = x /\ t[1] = a /\ t[2] = x
  OBVIOUS
<1>4. \A i \in 1..Len(s) : s[i] = t[i]
  <2> HIDE DEF s, t
  <2> QED  BY <1>2, <1>3
<1> HIDE DEF s, t
<1>5. s = t
  BY <1>1, <1>2, <1>4, SeqEqual, Zenon
<1> QED  BY <1>5 DEF s, t

LEMMA Story == \A v \in Decided : Append(<<"created">>, v) = <<"created", v>>
<1> SUFFICES ASSUME NEW v \in Decided PROVE Append(<<"created">>, v) = <<"created", v>>
  OBVIOUS
<1> DEFINE S == {"created"} \cup Decided
<1>1. "created" \in S /\ v \in S
  OBVIOUS
<1> HIDE DEF S
<1> QED  BY <1>1, Two

LEMMA ChainStep == QInv /\ [QueueNext]_allVars => [Next]_vars
<1> SUFFICES ASSUME QInv, [QueueNext]_allVars PROVE [Next]_vars
  OBVIOUS
<1> USE DecisionsAreRequests
<1>1. CASE World
  BY <1>1 DEF Next
<1>2. CASE \E r \in Requests : Send(r) \/ Step(r)
  BY <1>2 DEF Next
<1>3. CASE Restart
  BY <1>3 DEF Restart, Next
<1>4. ASSUME NEW d \in Decisions, Reread(d) PROVE [Next]_vars
  <2>1. CASE project /\ verb[d] = "accept"
    <3>1. pc[d] = "idle"
      BY <1>4 DEF Reread, QInv, Own, Piped, Answers, Answered
    <3>2. Send(d)
      BY <1>4, <2>1, <3>1 DEF Reread, Send, QInv, Quiet
    <3> QED  BY <3>2 DEF Next
  <2>2. CASE ~(project /\ verb[d] = "accept")
    BY <1>4, <2>2 DEF Reread, vars, world
  <2> QED  BY <2>1, <2>2
<1>5. ASSUME NEW d \in Decisions,
             SendDecision(d) \/ FindProject(d) \/ FindItem(d) \/ Claim(d) \/ Resume(d) \/ RecordDecision(d)
      PROVE  UNCHANGED vars
  BY <1>5 DEF SendDecision, FindProject, FindItem, Claim, Resume, RecordDecision, chain, vars
<1>6. ASSUME NEW g \in Generations,
             SendGeneration(g) \/ GenerationStep(g)
      PROVE  UNCHANGED vars
  BY <1>6 DEF SendGeneration, GenerationStep, FindProject, FindModel, Critique, RecordInvocation,
              FindRevision, CreateItems, chain, vars
<1>7. CASE UNCHANGED allVars
  BY <1>7 DEF allVars, vars
<1> QED  BY <1>1, <1>2, <1>3, <1>4, <1>5, <1>6, <1>7 DEF QueueNext, DecisionStep, Pipeline

(* What a step of the chain does to the pipelines: none goes back to the   *)
(* start, and one that is answered "ok" has made its revision.             *)
LEMMA StepFacts ==
  ASSUME QInv, NEW r \in Requests, Step(r)
  PROVE  /\ pc[r] # "idle" /\ pc'[r] # "idle"
         /\ \A q \in Requests : q # r => pc'[q] = pc[q]
         /\ made \subseteq made'
         /\ pc'[r] = "ok" => r \in made'
<1> USE DEF QInv, IInv, TypeOK, Goto
<1>1. CASE CheckProject(r)
  BY <1>1 DEF CheckProject
<1>2. CASE ReadModel(r)
  BY <1>2 DEF ReadModel
<1>3. CASE ReadStatements(r) \/ ReadMappings(r) \/ ReadRegulatory(r) \/ ReadManifest(r)
  BY <1>3 DEF ReadStatements, ReadMappings, ReadRegulatory, ReadManifest, ReadCRI
<1>4. CASE ReadTiering(r) \/ ReadCorpus(r) \/ PinCorpus(r)
  BY <1>4 DEF ReadTiering, ReadCorpus, PinCorpus
<1>5. CASE ReadParent(r) \/ Stamp(r)
  BY <1>5 DEF ReadParent, Stamp
<1>6. CASE Insert(r)
  BY <1>6 DEF Insert
<1> QED  BY <1>1, <1>2, <1>3, <1>4, <1>5, <1>6 DEF Step

-----------------------------------------------------------------------------
(* Types. *)

LEMMA QueueTypeInit == QueueInit => QueueTypeOK
<1> SUFFICES ASSUME QueueInit PROVE QueueTypeOK
  OBVIOUS
<1>1. TypeOK
  BY TypeInit DEF QueueInit
<1>2. item \in [Items -> {"absent", "foreign", "pending"} \cup Decided]
  BY DEF QueueInit
<1>3. trail \in [Items -> Seq({"created"} \cup Decided)]
  BY DEF QueueInit
<1>4. subject \in [Decisions -> Items]
  BY ItemsAssumption DEF QueueInit
<1> QED  BY <1>1, <1>2, <1>3, <1>4, Verdicts DEF QueueInit, QueueTypeOK, Waiting

LEMMA QueueTypeNext == QInv /\ TypeOK' /\ [QueueNext]_allVars => QueueTypeOK'
<1> SUFFICES ASSUME QInv, TypeOK', [QueueNext]_allVars PROVE QueueTypeOK'
  OBVIOUS
<1>0. QueueTypeOK
  BY DEF QInv
<1> USE DecisionsAreRequests, <1>0 DEF QueueTypeOK, queue, locals, Waiting
<1>1. CASE (World \/ \E r \in Requests : Send(r) \/ Step(r)) /\ UNCHANGED <<queue, at, locals>>
  BY <1>1
<1>2. ASSUME NEW d \in Decisions, SendDecision(d) PROVE QueueTypeOK'
  BY <1>2 DEF SendDecision
<1>3. ASSUME NEW a \in Actors, FindProject(a) PROVE QueueTypeOK'
  BY <1>3 DEF FindProject, Actors
<1>4. ASSUME NEW d \in Decisions, FindItem(d) PROVE QueueTypeOK'
  BY <1>4 DEF FindItem
<1>5. ASSUME NEW d \in Decisions, Claim(d) PROVE QueueTypeOK'
  <2>0. Verdict[verb[d]] \in Decided /\ subject[d] \in Items
    BY Verdicts
  <2>1. item' \in [Items -> {"absent", "foreign", "pending"} \cup Decided]
    <3>1. item' = item \/ item' = [item EXCEPT ![subject[d]] = Verdict[verb[d]]]
      BY <1>5 DEF Claim
    <3> QED  BY <2>0, <3>1
  <2>2. trail' \in [Items -> Seq({"created"} \cup Decided)]
    <3>1. Append(trail[subject[d]], Verdict[verb[d]]) \in Seq({"created"} \cup Decided)
      BY <2>0, Longer
    <3> QED  BY <1>5, <2>0, <3>1 DEF Claim
  <2> QED  BY <1>5, <2>1, <2>2 DEF Claim
<1>6. ASSUME NEW d \in Decisions, Reread(d) PROVE QueueTypeOK'
  BY <1>6 DEF Reread
<1>7. ASSUME NEW d \in Decisions, Resume(d) PROVE QueueTypeOK'
  BY <1>7 DEF Resume
<1>8. ASSUME NEW d \in Decisions, RecordDecision(d) PROVE QueueTypeOK'
  BY <1>8 DEF RecordDecision
<1>9. ASSUME NEW g \in Generations, SendGeneration(g) \/ FindModel(g) PROVE QueueTypeOK'
  BY <1>9 DEF SendGeneration, FindModel
<1>10. ASSUME NEW g \in Generations, Critique(g) PROVE QueueTypeOK'
  <2>1. batch' \in [Generations -> SUBSET Items] /\ clash' \in [Generations -> BOOLEAN]
    <3>1. CASE UNCHANGED <<batch, clash>>
      BY <3>1
    <3>2. ASSUME NEW b \in SUBSET Items, NEW c \in BOOLEAN,
                 batch' = [batch EXCEPT ![g] = b], clash' = [clash EXCEPT ![g] = c]
          PROVE  batch' \in [Generations -> SUBSET Items] /\ clash' \in [Generations -> BOOLEAN]
      BY <3>2
    <3> QED  BY <1>10, <3>1, <3>2 DEF Critique
  <2>2. at' \in [Actors -> {"idle"} \cup Waiting \cup Answers]
    BY <1>10 DEF Critique, Actors
  <2> QED  BY <1>10, <2>1, <2>2 DEF Critique, Actors
<1>11. ASSUME NEW g \in Generations, RecordInvocation(g) PROVE QueueTypeOK'
  BY <1>11 DEF RecordInvocation
<1>12. ASSUME NEW g \in Generations, FindRevision(g) PROVE QueueTypeOK'
  <2>1. Latest \in Requests \cup {None}
    BY LatestCommitted, NoneAssumption DEF QInv, IInv, TypeOK
  <2> QED  BY <1>12, <2>1 DEF FindRevision
<1>13. ASSUME NEW g \in Generations, CreateItems(g) PROVE QueueTypeOK'
  <2>1. CASE project /\ Fresh(g)
    <3>1. Store(g, batch[g])
      BY <1>13, <2>1 DEF CreateItems
    <3>2. \A i \in Items : Append(trail[i], "created") \in Seq({"created"} \cup Decided)
      BY Longer
    <3>3. trail' \in [Items -> Seq({"created"} \cup Decided)]
      BY <3>1, <3>2 DEF Store
    <3>4. /\ item' \in [Items -> {"absent", "foreign", "pending"} \cup Decided]
          /\ link' \in [Items -> Requests \cup {None}]
      BY <3>1 DEF Store
    <3> QED  BY <1>13, <3>3, <3>4 DEF CreateItems, Forget
  <2>2. CASE ~(project /\ Fresh(g))
    BY <1>13, <2>2 DEF CreateItems, Forget
  <2> QED  BY <2>1, <2>2
<1>14. CASE Restart
  BY <1>14 DEF Restart
<1>15. CASE UNCHANGED allVars
  BY <1>15 DEF allVars
<1> QED
  BY <1>1, <1>2, <1>3, <1>4, <1>5, <1>6, <1>7, <1>8, <1>9, <1>10, <1>11, <1>12, <1>13, <1>14, <1>15
  DEF QueueNext, DecisionStep, GenerationStep, Pipeline

-----------------------------------------------------------------------------
(* The other parts of the invariant. *)

LEMMA OwnInit == QueueInit => Own
<1> SUFFICES ASSUME QueueInit PROVE Own
  OBVIOUS
<1>1. \A d \in Decisions : at[d] = "idle" /\ pc[d] = "idle"
  BY DecisionsAreRequests DEF QueueInit, Init, Actors
<1>2. RecordsAreTrue
  BY DEF QueueInit, RecordsAreTrue, TrailTellsStatus, LogIsTrue, LinksResolve
<1>3. OkIsMade /\ ParentsMade /\ log = {}
  BY DEF QueueInit, Init, OkIsMade, ParentsMade
<1> QED  BY <1>1, <1>2, <1>3 DEF Own, HoldersDecided, OneHolder, Piped, LoggedAfter, Holds

(* Whatever leaves the tables alone, takes no item and keeps what was      *)
(* committed.                                                              *)
LEMMA OwnKept ==
  ASSUME QInv, UNCHANGED <<queue, subject, verb, parent>>,
         made \subseteq made', OkIsMade',
         \A d \in Decisions : Holds(d)' => Holds(d),
         Piped',
         \A d \in Decisions : at'[d] = "log" /\ verb[d] = "accept" => d \in made',
         \A d \in Decisions : at[d] = "ok" => at'[d] = "ok"
  PROVE  Own'
<1> USE DEF QInv, Own, queue
<1>1. HoldersDecided' /\ OneHolder'
  BY DEF HoldersDecided, OneHolder
<1>2. LoggedAfter' /\ ParentsMade'
  BY DEF LoggedAfter, ParentsMade
<1>3. RecordsAreTrue'
  BY DEF RecordsAreTrue, TrailTellsStatus, LogIsTrue, LinksResolve
<1> QED  BY <1>1, <1>2, <1>3

(* The chain moves by itself: another revision, a pipeline, the world.     *)
LEMMA OwnChain ==
  ASSUME QInv, UNCHANGED <<queue, at, locals>>,
         \/ World
         \/ \E r \in Requests \ Decisions : Send(r)
         \/ \E r \in Requests : Step(r)
  PROVE  Own'
<1> USE DEF QInv, Own, locals
<1> USE DecisionsAreRequests
<1>1. CASE World
  <2>1. UNCHANGED <<pc, made>>
    BY <1>1 DEF World, FreezeModel, UploadCRI, PublishKB, DeleteProject
  <2> QED  BY <2>1, OwnKept DEF OkIsMade, Holds, Piped, LoggedAfter
<1>2. ASSUME NEW r \in Requests \ Decisions, Send(r) PROVE Own'
  <2>1. made' = made /\ \A q \in Requests : q # r => pc'[q] = pc[q]
    BY <1>2 DEF Send, IInv, TypeOK, Goto
  <2>2. pc'[r] = "project"
    BY <1>2 DEF Send, IInv, TypeOK, Goto
  <2> QED  BY <2>1, <2>2, OwnKept DEF OkIsMade, Holds, Piped, LoggedAfter
<1>3. ASSUME NEW r \in Requests, Step(r) PROVE Own'
  BY <1>3, StepFacts, OwnKept DEF OkIsMade, Holds, Piped, LoggedAfter
<1> QED  BY <1>1, <1>2, <1>3

(* A request is sent, or goes on without a claim.                          *)
LEMMA OwnSend ==
  ASSUME QInv, NEW d \in Decisions, SendDecision(d)
  PROVE  Own'
<1> USE DEF QInv, Own, SendDecision, chain, queue
<1> USE DecisionsAreRequests
<1>1. at \in [Actors -> {"idle"} \cup Waiting \cup Answers] /\ subject \in [Decisions -> Items]
      /\ verb \in [Decisions -> DOMAIN Verdict]
  BY DEF QueueTypeOK, Actors
<1>2. \A e \in Decisions : e # d => at'[e] = at[e] /\ subject'[e] = subject[e] /\ verb'[e] = verb[e]
  BY <1>1
<1>3. at'[d] = "project" /\ pc[d] = "idle" /\ d \notin log
  BY <1>1 DEF Piped, LoggedAfter
<1>4. HoldersDecided' /\ OneHolder' /\ Piped' /\ LoggedAfter'
  BY <1>2, <1>3 DEF HoldersDecided, OneHolder, Piped, LoggedAfter, Holds
<1>5. OkIsMade' /\ ParentsMade'
  BY DEF OkIsMade, ParentsMade
<1>6. RecordsAreTrue'
  BY <1>2, <1>3 DEF RecordsAreTrue, TrailTellsStatus, LogIsTrue, LinksResolve
<1> QED  BY <1>4, <1>5, <1>6

LEMMA OwnWait ==
  ASSUME QInv, NEW a \in Actors,
         \/ FindProject(a)
         \/ a \in Decisions /\ FindItem(a)
         \/ a \in Generations /\ (SendGeneration(a) \/ FindModel(a) \/ Critique(a))
  PROVE  Own'
<1> USE DEF QInv, Own, chain, queue, locals
<1> USE DecisionsAreRequests
<1>1. at \in [Actors -> {"idle"} \cup Waiting \cup Answers]
  BY DEF QueueTypeOK, Actors
<1>2. \A d \in Decisions : d # a => at'[d] = at[d]
  BY <1>1 DEF FindProject, FindItem, SendGeneration, FindModel, Critique
<1>3. UNCHANGED <<item, link, trail, log, made, pc, subject, verb, parent>>
  BY DEF FindProject, FindItem, SendGeneration, FindModel, Critique
<1>4. a \in Decisions => at[a] \in {"project", "item"} /\ at'[a] \in {"not_found", "item", "error", "claim"}
  BY <1>1 DEF FindProject, FindItem
<1>5. a \in Decisions => pc[a] = "idle"
  BY <1>4 DEF Piped
<1> QED  BY <1>2, <1>3, <1>4, <1>5, OwnKept DEF OkIsMade, Holds, Piped, LoggedAfter

(* A critique writes its entry on the log, and reads the latest revision.  *)
LEMMA OwnRead ==
  ASSUME QInv, NEW g \in Generations, RecordInvocation(g) \/ FindRevision(g)
  PROVE  Own'
<1> USE DEF QInv, Own, chain, queue
<1> USE DecisionsAreRequests
<1>1. at \in [Actors -> {"idle"} \cup Waiting \cup Answers] /\ parent \in [Generations -> Requests \cup {None}]
  BY DEF QueueTypeOK, Actors
<1>2. /\ \A d \in Decisions : at'[d] = at[d]
      /\ UNCHANGED <<item, link, trail, made, pc, draft, subject, verb>>
      /\ log' \cap Decisions = log \cap Decisions
  <2>1. CASE RecordInvocation(g)
    BY <1>1, <2>1 DEF RecordInvocation, locals
  <2>2. CASE FindRevision(g)
    BY <1>1, <2>2 DEF FindRevision
  <2> QED  BY <2>1, <2>2
<1>3. ParentsMade'
  <2>1. CASE RecordInvocation(g)
    BY <2>1 DEF RecordInvocation, ParentsMade, locals
  <2>2. CASE FindRevision(g)
    <3>1. Latest \in made \cup {None}
      BY LatestCommitted, NoneAssumption DEF IInv, TypeOK
    <3> QED  BY <1>1, <2>2, <3>1 DEF FindRevision, ParentsMade
  <2> QED  BY <2>1, <2>2
<1>4. HoldersDecided' /\ OneHolder' /\ Piped' /\ LoggedAfter' /\ OkIsMade'
  BY <1>2 DEF HoldersDecided, OneHolder, Piped, LoggedAfter, OkIsMade, Holds
<1>5. RecordsAreTrue'
  BY <1>2 DEF RecordsAreTrue, TrailTellsStatus, LogIsTrue, LinksResolve
<1> QED  BY <1>3, <1>4, <1>5

(* The claim: an item that was pending has no holder yet.                  *)
LEMMA OwnClaim ==
  ASSUME QInv, NEW d \in Decisions, Claim(d)
  PROVE  Own'
<1> USE DEF QInv, Own, chain, locals
<1> USE DecisionsAreRequests
<1>1. /\ at \in [Actors -> {"idle"} \cup Waiting \cup Answers]
      /\ item \in [Items -> {"absent", "foreign", "pending"} \cup Decided]
      /\ trail \in [Items -> Seq({"created"} \cup Decided)]
      /\ subject[d] \in Items /\ Verdict[verb[d]] \in Decided
  BY Verdicts DEF QueueTypeOK, Actors
<1>2. pc[d] = "idle" /\ d \notin log /\ ~Holds(d)
  BY DEF Claim, Piped, LoggedAfter, Holds
<1>3. UNCHANGED <<made, pc, subject, verb, parent, link, log>>
  BY DEF Claim
<1>4. \A e \in Decisions : e # d => at'[e] = at[e]
  BY <1>1 DEF Claim
<1>5. CASE project /\ item[subject[d]] = "pending"
  <2>1. at'[d] = "reread"
    BY <1>1, <1>5 DEF Claim
  <2>2. \A i \in Items : i # subject[d] => item'[i] = item[i] /\ trail'[i] = trail[i]
    BY <1>1, <1>5 DEF Claim
  <2>3. item'[subject[d]] = Verdict[verb[d]]
        /\ trail'[subject[d]] = Append(trail[subject[d]], Verdict[verb[d]])
    BY <1>1, <1>5 DEF Claim
  <2>4. \A e \in Decisions : Holds(e) => subject[e] # subject[d]
    <3>1. \A e \in Decisions : Verdict[verb[e]] \in Decided /\ Verdict[verb[e]] # "pending"
      BY Verdicts DEF QueueTypeOK, Decided
    <3> QED  BY <1>5, <3>1 DEF HoldersDecided
  <2>5. \A e \in Decisions : e # d => (Holds(e)' <=> Holds(e)) /\ subject[e] \in Items
    BY <1>3, <1>4 DEF Holds, QueueTypeOK
  <2>6. HoldersDecided' /\ OneHolder'
    BY <1>3, <2>2, <2>3, <2>4, <2>5 DEF HoldersDecided, OneHolder
  <2>7. Piped' /\ LoggedAfter' /\ OkIsMade' /\ ParentsMade'
    BY <1>2, <1>3, <1>4, <2>1 DEF Piped, LoggedAfter, OkIsMade, ParentsMade
  <2>8. TrailTellsStatus'
    <3>1. trail[subject[d]] = <<"created">>
      BY <1>1, <1>5 DEF RecordsAreTrue, TrailTellsStatus
    <3>2. trail'[subject[d]] = <<"created", Verdict[verb[d]]>>
      BY <1>1, <2>3, <3>1, Story
    <3>3. item'[subject[d]] \notin {"absent", "foreign", "pending"}
      BY <1>1, <2>3 DEF Decided
    <3>4. \A i \in Items : i # subject[d] =>
            trail'[i] = CASE item'[i] \in {"absent", "foreign"} -> << >>
                          [] item'[i] = "pending" -> <<"created">>
                          [] OTHER -> <<"created", item'[i]>>
      BY <2>2 DEF RecordsAreTrue, TrailTellsStatus
    <3> QED  BY <2>3, <3>2, <3>3, <3>4 DEF TrailTellsStatus
  <2>9. LogIsTrue'
    <3>1. \A e \in log \cap Decisions : item[subject[e]] # "pending"
      BY Verdicts DEF RecordsAreTrue, LogIsTrue, QueueTypeOK, Decided
    <3> QED  BY <1>3, <1>5, <2>2, <3>1 DEF RecordsAreTrue, LogIsTrue, QueueTypeOK
  <2> QED  BY <1>3, <2>6, <2>7, <2>8, <2>9 DEF RecordsAreTrue, LinksResolve
<1>6. CASE ~(project /\ item[subject[d]] = "pending")
  <2>1. at[d] = "claim" /\ at'[d] \in {"conflict", "error"} /\ UNCHANGED <<item, trail>>
    BY <1>1, <1>6 DEF Claim
  <2> QED  BY <1>2, <1>3, <1>4, <2>1, OwnKept DEF OkIsMade, Holds, Piped, LoggedAfter, queue
<1> QED  BY <1>5, <1>6

(* A winner starts its pipeline, or goes to write the entry of a refusal.  *)
LEMMA OwnReread ==
  ASSUME QInv, NEW d \in Decisions, Reread(d)
  PROVE  Own'
<1> USE DEF QInv, Own
<1> USE DecisionsAreRequests
<1>1. at \in [Actors -> {"idle"} \cup Waiting \cup Answers] /\ pc \in [Requests -> {"idle"} \cup Working \cup Answered]
  BY DEF QueueTypeOK, TypeOK, Actors
<1>2. UNCHANGED <<queue, subject, verb, parent, made>> /\ Holds(d) /\ pc[d] = "idle"
  BY DEF Reread, locals, Holds, Piped
<1>3. \A e \in Requests : e # d => pc'[e] = pc[e]
  BY <1>1 DEF Reread, Goto
<1>4. \A e \in Decisions : e # d => at'[e] = at[e]
  BY <1>1 DEF Reread
<1>5. \/ verb[d] = "accept" /\ at'[d] = "revising" /\ pc'[d] = "project"
      \/ verb[d] # "accept" /\ at'[d] = "log" /\ pc'[d] = "idle"
      \/ at'[d] = "error" /\ pc'[d] = "idle"
  BY <1>1, <1>2 DEF Reread, Goto
<1>6. at[d] = "reread"
  BY DEF Reread
<1>7. OkIsMade' /\ Piped'
  BY <1>2, <1>3, <1>4, <1>5 DEF OkIsMade, Piped
<1>8. \A e \in Decisions : Holds(e)' => Holds(e)
  BY <1>2, <1>3, <1>4 DEF Holds
<1> QED  BY <1>2, <1>3, <1>4, <1>5, <1>6, <1>7, <1>8, OwnKept DEF LoggedAfter

(* The pipeline has answered; only "ok" goes on to the log.                *)
LEMMA OwnResume ==
  ASSUME QInv, NEW d \in Decisions, Resume(d)
  PROVE  Own'
<1> USE DEF QInv, Own, Resume, chain, locals
<1> USE DecisionsAreRequests
<1>1. at \in [Actors -> {"idle"} \cup Waiting \cup Answers]
  BY DEF QueueTypeOK, Actors
<1>2. \A e \in Decisions : e # d => at'[e] = at[e]
  BY <1>1
<1>3. at'[d] \in {"log"} \cup Answers /\ pc[d] # "idle" /\ (at'[d] = "log" => d \in made)
  BY <1>1 DEF OkIsMade
<1> QED  BY <1>2, <1>3, OwnKept DEF OkIsMade, Holds, Piped, LoggedAfter

LEMMA OwnRecord ==
  ASSUME QInv, NEW d \in Decisions, RecordDecision(d)
  PROVE  Own'
<1> USE DEF QInv, Own, RecordDecision, chain, locals
<1> USE DecisionsAreRequests
<1>1. at \in [Actors -> {"idle"} \cup Waiting \cup Answers]
  BY DEF QueueTypeOK, Actors
<1>2. (\A e \in Decisions : e # d => at'[e] = at[e]) /\ at'[d] = "ok"
  BY <1>1
<1>3. HoldersDecided' /\ OneHolder' /\ Piped' /\ OkIsMade' /\ ParentsMade' /\ LoggedAfter'
  BY <1>2 DEF HoldersDecided, OneHolder, Piped, OkIsMade, ParentsMade, LoggedAfter, Holds
<1>4. item[subject[d]] = Verdict[verb[d]] /\ (verb[d] = "accept" => d \in made)
  BY DEF HoldersDecided, Holds, LoggedAfter
<1>5. RecordsAreTrue'
  BY <1>4 DEF RecordsAreTrue, TrailTellsStatus, LogIsTrue, LinksResolve
<1> QED  BY <1>3, <1>5

(* New items: an item that was decided is not among them.                  *)
LEMMA OwnCreate ==
  ASSUME QInv, NEW g \in Generations, CreateItems(g)
  PROVE  Own'
<1> USE DEF QInv, Own, chain
<1> USE DecisionsAreRequests
<1>1. /\ at \in [Actors -> {"idle"} \cup Waiting \cup Answers]
      /\ parent \in [Generations -> Requests \cup {None}] /\ batch[g] \subseteq Items
      /\ link \in [Items -> Requests \cup {None}]
  BY DEF QueueTypeOK, Actors
<1>2. UNCHANGED <<pc, made, log, subject, verb>> /\ \A e \in Decisions : at'[e] = at[e]
  BY <1>1 DEF CreateItems
<1>3. ParentsMade'
  BY <1>1, <1>2 DEF CreateItems, Forget, ParentsMade
<1>4. OneHolder' /\ Piped' /\ OkIsMade' /\ LoggedAfter'
  BY <1>2 DEF OneHolder, Piped, OkIsMade, LoggedAfter, Holds
<1>5. CASE project /\ Fresh(g)
  <2>1. Store(g, batch[g])
    BY <1>5 DEF CreateItems
  <2>2. \A i \in batch[g] : item[i] = "absent" /\ trail[i] = << >>
    BY <1>1, <1>5 DEF Fresh, RecordsAreTrue, TrailTellsStatus
  <2>3. \A i \in Items : item[i] \in Decided => item'[i] = item[i]
    BY <2>1, <2>2 DEF Store, Decided
  <2>4. HoldersDecided'
    <3>1. \A d \in Decisions : Verdict[verb[d]] \in Decided /\ subject[d] \in Items
      BY Verdicts DEF QueueTypeOK
    <3>2. \A d \in Decisions : Holds(d)' <=> Holds(d)
      BY <1>2 DEF Holds
    <3>3. \A d \in Decisions : Holds(d) => item[subject[d]] \in Decided
      BY <3>1 DEF HoldersDecided
    <3> SUFFICES ASSUME NEW d \in Decisions, Holds(d)
                 PROVE  item'[subject[d]] = Verdict[verb[d]]
      BY <1>2, <3>2 DEF HoldersDecided, Holds
    <3> QED  BY <2>3, <3>1, <3>3 DEF HoldersDecided
  <2>5. TrailTellsStatus'
    <3>1. \A i \in batch[g] : item'[i] = "pending" /\ trail'[i] = <<"created">>
      <4>1. \A i \in batch[g] : item'[i] = "pending" /\ trail'[i] = Append(trail[i], "created")
        BY <1>1, <2>1 DEF Store
      <4> QED  BY <2>2, <4>1
    <3>2. \A i \in Items \ batch[g] : item'[i] = item[i] /\ trail'[i] = trail[i]
      BY <2>1 DEF Store
    <3> QED  BY <3>1, <3>2 DEF RecordsAreTrue, TrailTellsStatus
  <2>6. LogIsTrue'
    BY <1>2, <2>3, Verdicts DEF RecordsAreTrue, LogIsTrue, QueueTypeOK
  <2>7. LinksResolve'
    BY <1>1, <1>2, <2>1 DEF Store, RecordsAreTrue, LinksResolve, ParentsMade
  <2> QED  BY <1>3, <1>4, <2>4, <2>5, <2>6, <2>7 DEF RecordsAreTrue
<1>6. CASE ~(project /\ Fresh(g))
  <2>1. UNCHANGED <<item, link, trail>>
    BY <1>6 DEF CreateItems
  <2> QED  BY <1>2, <1>3, <1>4, <2>1 DEF HoldersDecided, Holds, RecordsAreTrue, TrailTellsStatus, LogIsTrue, LinksResolve
<1> QED  BY <1>5, <1>6

(* A stop: what a process lost was in flight. *)
LEMMA StopFacts ==
  ASSUME Crash
  PROVE  made' = made /\ \A r \in Requests : pc'[r] = pc[r] \/ (pc'[r] = "lost" /\ pc[r] # "idle")
<1>1. pc' = [r \in Requests |-> IF InFlight(r) THEN "lost" ELSE pc[r]]
  BY DEF Crash
<1>2. \A r \in Requests : InFlight(r) => pc[r] # "idle"
  BY DEF InFlight, Working, CRIReads
<1>3. \A r \in Requests : pc'[r] = pc[r] \/ (pc'[r] = "lost" /\ InFlight(r))
  BY <1>1
<1>4. made' = made
  BY DEF Crash
<1> QED  BY <1>2, <1>3, <1>4

LEMMA OwnRestart ==
  ASSUME QInv, Restart
  PROVE  Own'
<1> USE DEF QInv, Own
<1> USE DecisionsAreRequests
<1>1. /\ at \in [Actors -> {"idle"} \cup Waiting \cup Answers]
      /\ pc \in [Requests -> {"idle"} \cup Working \cup Answered]
  BY DEF QueueTypeOK, TypeOK, Actors
<1> USE DEF Restart, locals
<1>2. made' = made /\ \A r \in Requests : pc'[r] = pc[r] \/ (pc'[r] = "lost" /\ pc[r] # "idle")
  BY StopFacts
<1>3. \A d \in Decisions : at'[d] = at[d] \/ (at'[d] = "lost" /\ Busy(d))
  <2>1. DOMAIN at = Actors
    BY <1>1
  <2>2. at' = [a \in DOMAIN at |-> IF Busy(a) THEN "lost" ELSE at[a]]
    OBVIOUS
  <2> QED  BY <2>1, <2>2
<1>4. \A d \in Decisions : Holds(d)' => Holds(d)
  BY <1>2, <1>3 DEF Holds
<1>5. Piped' /\ OkIsMade'
  BY <1>2, <1>3 DEF Piped, OkIsMade
<1>6. \A d \in Decisions : at[d] = "ok" => at'[d] = "ok"
  BY <1>3 DEF Busy, Waiting
<1> QED  BY <1>2, <1>3, <1>4, <1>5, <1>6, OwnKept DEF LoggedAfter

LEMMA OwnNext == QInv /\ [QueueNext]_allVars => Own'
<1> SUFFICES ASSUME QInv, [QueueNext]_allVars PROVE Own'
  OBVIOUS
<1> USE DecisionsAreRequests
<1>1. CASE World /\ UNCHANGED <<queue, at, locals>>
  BY <1>1, OwnChain
<1>2. ASSUME NEW r \in Requests \ Decisions, Send(r), UNCHANGED <<queue, at, locals>>
      PROVE  Own'
  BY <1>2, OwnChain
<1>3. ASSUME NEW r \in Requests, Pipeline(r) PROVE Own'
  BY <1>3, OwnChain DEF Pipeline
<1>4. ASSUME NEW d \in Decisions, SendDecision(d) \/ DecisionStep(d) PROVE Own'
  BY <1>4, OwnSend, OwnWait, OwnClaim, OwnReread, OwnResume, OwnRecord DEF DecisionStep
<1>5. ASSUME NEW g \in Generations, SendGeneration(g) \/ GenerationStep(g) PROVE Own'
  BY <1>5, OwnWait, OwnRead, OwnCreate DEF GenerationStep
<1>6. CASE Restart
  BY <1>6, OwnRestart
<1>7. CASE UNCHANGED allVars
  <2>1. UNCHANGED <<queue, at, subject, verb, parent, made, pc>>
    BY <1>7 DEF allVars, queue
  <2> QED  BY <2>1, OwnKept DEF QInv, Own, OkIsMade, Holds, Piped, LoggedAfter
<1> QED  BY <1>1, <1>2, <1>3, <1>4, <1>5, <1>6, <1>7 DEF QueueNext

LEMMA QInvInit == QueueInit => QInv
BY InvInit, QueueTypeInit, OwnInit DEF QueueInit, QInv

LEMMA QInvNext == QInv /\ [QueueNext]_allVars => QInv'
<1> SUFFICES ASSUME QInv, [QueueNext]_allVars PROVE QInv'
  OBVIOUS
<1>1. [Next]_vars
  BY ChainStep
<1>2. IInv'
  BY <1>1, InvNext DEF QInv
<1>3. ~serial'
  BY <1>1, SerialConstant DEF QInv
<1>4. QueueTypeOK'
  BY <1>2, QueueTypeNext DEF IInv
<1> QED  BY <1>2, <1>3, <1>4, OwnNext DEF QInv

LEMMA QInvHolds == QueueSpec => []QInv
BY QInvInit, QInvNext, PTL DEF QueueSpec

-----------------------------------------------------------------------------
(* Theorems *)

(* Types, for any number of items, requests and restarts.                  *)
THEOREM QueueTypes == QueueSpec => []QueueTypeOK
<1>1. QInv => QueueTypeOK
  BY DEF QInv
<1> QED  BY <1>1, QInvHolds, PTL

(* The queue uses the revision chain as it is: deciding an item is one     *)
(* more way to send POST /revisions, and what is proved of the chain holds *)
(* of the revisions that acceptances make.                                 *)
THEOREM QueueImplementsChain == QueueSpec => Spec
<1>1. QueueInit => Init
  BY DEF QueueInit
<1> QED  BY <1>1, ChainStep, QInvHolds, PTL DEF QueueSpec, Spec

(* However many decisions race for an item, it leads to one revision at    *)
(* most, and only if the acceptance won.                                   *)
THEOREM RevisionsFollowAcceptances == QueueSpec => []OneRevisionPerAcceptance
<1>1. ASSUME QInv PROVE OneRevisionPerAcceptance
  <2> USE DecisionsAreRequests
  <2>1. \A d \in Decisions \cap made : Holds(d) /\ verb[d] = "accept"
    BY <1>1 DEF QInv, IInv, MadeAnswered, Own, Piped, Holds
  <2>2. ASSUME NEW i \in Items
        PROVE  LET revisions == {d \in Decisions \cap made : subject[d] = i}
               IN  Cardinality(revisions) <= 1 /\ (revisions # {} => item[i] = "accepted")
    <3> DEFINE revisions == {d \in Decisions \cap made : subject[d] = i}
    <3>1. ASSUME NEW d \in revisions
          PROVE  Cardinality(revisions) <= 1 /\ item[i] = "accepted"
      <4>0. d \in Decisions \cap made /\ subject[d] = i
        OBVIOUS
      <4>1. Holds(d) /\ verb[d] = "accept"
        BY <2>1, <4>0
      <4>2. ASSUME NEW e \in revisions PROVE e = d
        <5>1. e \in Decisions \cap made /\ subject[e] = subject[d]
          BY <4>0
        <5>2. Holds(e)
          BY <2>1, <5>1
        <5> HIDE DEF revisions
        <5> QED  BY <1>1, <4>0, <4>1, <5>1, <5>2 DEF QInv, Own, OneHolder
      <4> HIDE DEF revisions
      <4>3. revisions = {d}
        BY <4>2
      <4>4. Cardinality(revisions) = 1
        BY <4>3, FS_Singleton
      <4>5. item[i] = "accepted"
        BY <1>1, <4>0, <4>1, Verdicts DEF QInv, Own, HoldersDecided
      <4> QED  BY <4>4, <4>5
    <3>2. revisions = {} => Cardinality(revisions) = 0
      BY FS_EmptySet
    <3> HIDE DEF revisions
    <3>3. Cardinality(revisions) <= 1 /\ (revisions # {} => item[i] = "accepted")
      BY <3>1, <3>2
    <3> QED  BY <3>3 DEF revisions
  <2> QED  BY <2>2 DEF OneRevisionPerAcceptance
<1> QED  BY <1>1, QInvHolds, PTL

(* The trail of an item, the entries on the log and the links to revisions *)
(* stay true through every race, failure and restart.                      *)
THEOREM RecordsStayTrue == QueueSpec => []RecordsAreTrue
<1>1. QInv => RecordsAreTrue
  BY DEF QInv, Own
<1> QED  BY <1>1, QInvHolds, PTL

(* A decision is never revised: a later claim finds the item taken, a      *)
(* later critique finds the id taken.                                      *)
THEOREM DecisionsAreFinal == QueueSpec => DecisionIsFinal
<1>1. ASSUME QInv, [QueueNext]_allVars
      PROVE  [\A i \in Items : item[i] \in Decided => item'[i] = item[i]]_item
  <2>0. item \in [Items -> {"absent", "foreign", "pending"} \cup Decided]
        /\ subject \in [Decisions -> Items]
    BY <1>1 DEF QInv, QueueTypeOK
  <2>1. ASSUME NEW d \in Decisions, Claim(d)
        PROVE  \A i \in Items : item[i] \in Decided => item'[i] = item[i]
    <3>1. CASE project /\ item[subject[d]] = "pending"
      <4>1. \A i \in Items : i # subject[d] => item'[i] = item[i]
        BY <2>0, <2>1, <3>1 DEF Claim
      <4>2. item[subject[d]] \notin Decided
        BY <3>1 DEF Decided
      <4> QED  BY <4>1, <4>2
    <3>2. CASE ~(project /\ item[subject[d]] = "pending")
      BY <2>1, <3>2 DEF Claim
    <3> QED  BY <3>1, <3>2
  <2>2. ASSUME NEW g \in Generations, CreateItems(g)
        PROVE  \A i \in Items : item[i] \in Decided => item'[i] = item[i]
    <3>1. CASE project /\ Fresh(g)
      <4>1. \A i \in batch[g] : item[i] \notin Decided
        BY <3>1 DEF Fresh, Decided
      <4>2. \A i \in Items \ batch[g] : item'[i] = item[i]
        BY <2>2, <3>1 DEF CreateItems, Store
      <4> QED  BY <4>1, <4>2
    <3>2. CASE ~(project /\ Fresh(g))
      BY <2>2, <3>2 DEF CreateItems
    <3> QED  BY <3>1, <3>2
  <2>3. CASE UNCHANGED item
    BY <2>3
  <2>4. ASSUME NEW d \in Decisions, DecisionStep(d), ~Claim(d) PROVE UNCHANGED item
    BY <2>4 DEF DecisionStep, FindProject, FindItem, Reread, Resume, RecordDecision, queue
  <2>5. ASSUME NEW g \in Generations, GenerationStep(g), ~CreateItems(g) PROVE UNCHANGED item
    BY <2>5 DEF GenerationStep, FindProject, FindModel, Critique, RecordInvocation, FindRevision, queue
  <2>6. ASSUME NEW a \in Actors, SendDecision(a) \/ SendGeneration(a) PROVE UNCHANGED item
    BY <2>6 DEF SendDecision, SendGeneration, queue
  <2>7. CASE UNCHANGED queue \/ Restart \/ UNCHANGED allVars
    BY <2>3, <2>7 DEF queue, Restart, allVars
  <2> QED
    BY <1>1, <2>1, <2>2, <2>3, <2>4, <2>5, <2>6, <2>7, DecisionsAreRequests DEF QueueNext, Pipeline
<1> QED  BY <1>1, QInvHolds, PTL DEF QueueSpec, DecisionIsFinal
=============================================================================
