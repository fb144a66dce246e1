------------------------ MODULE AgentInvocationProofs ------------------------
(***************************************************************************)
(* For any number of inputs, candidates, prompts, completions, invocations *)
(* and restarts, and for every budget: an input has one output, which      *)
(* accounts for every candidate within the budget; a completion on disk is *)
(* never replaced nor paid for again; and the repair loop bounds spending. *)
(***************************************************************************)
EXTENDS AgentInvocation, FiniteSetTheorems, TLAPS

-----------------------------------------------------------------------------
(* What the completions on disk say about the first n candidates of an     *)
(* input: the output of a handler is a function of them.                   *)

PromptOf(k, i) == Candidate[k][i].prompt
Asks(k, i)     == PromptOf(k, i) # None
Grounded(k, i) == Asks(k, i) /\ completions[PromptOf(k, i)] \in Candidate[k][i].ground

Known(k, n)   == \A i \in 1..n : Asks(k, i) => completions[PromptOf(k, i)] # None
Found(k, n)   == {<<i, completions[PromptOf(k, i)]>> : i \in {j \in 1..n : Grounded(k, j)}}
Refused(k, n) == {i \in 1..n : ~Grounded(k, i)}
Asked(k, n)   == {i \in 1..n : Asks(k, i)}

-----------------------------------------------------------------------------
(* The inductive invariant, in named parts. *)

Kinds ==
  /\ trajectories \in [Inputs -> Outputs \cup {None}]
  /\ completions \in [Prompts -> Completions \cup {None}]
  /\ offline \in BOOLEAN /\ step \in Steps /\ input \in Inputs
  /\ at \in 1..Count[input] + 1 /\ calls \in Nat /\ attempts \in Nat
  /\ reply \in Completions \cup {None}
  /\ surfaced \subseteq Nat \X Completions /\ rejected \subseteq Nat
  /\ paid \in [Prompts -> Nat]
  /\ answers \in [Inputs -> SUBSET Outputs]
  /\ invoked \in Nat /\ crashes \in Nat

(* What the step that comes next relies on. *)
Located ==
  /\ step \in {"generate", "ask", "store", "check"} => at <= Count[input] /\ Asks(input, at)
  /\ step \in {"ask", "store"} => completions[PromptOf(input, at)] = None
  /\ step = "store" => reply \in Completions
  /\ step = "check" => reply # None /\ reply = completions[PromptOf(input, at)]
  /\ step = "gate" => at = Count[input] + 1
  /\ step = "detect" => at = 1
  /\ step \in {"ask", "store"} => offline = FALSE

(* The budget counts the tools before the loop and two for each candidate  *)
(* that is generated.                                                      *)
Counted ==
  /\ step # "idle" => calls <= CallLimit[input]
  /\ step = "detect" => calls <= Prelude[input]
  /\ step \in {"candidate", "generate", "gate"} =>
       calls = Prelude[input] + 2 * Cardinality(Asked(input, at - 1))
  /\ step \in {"ask", "store", "check"} =>
       calls = Prelude[input] + 2 * Cardinality(Asked(input, at - 1)) + 1

(* The handler has surfaced and rejected what the disk says. *)
Faithful ==
  step # "idle" =>
    /\ Known(input, at - 1)
    /\ surfaced = Found(input, at - 1)
    /\ rejected = Refused(input, at - 1)

(* o is the output that the disk determines for k. *)
Right(k, o) ==
  /\ Known(k, Count[k])
  /\ o = [surfaced |-> Found(k, Count[k]), rejected |-> Refused(k, Count[k])]
  /\ k \in Gated => Ids(k, {f[1] : f \in Found(k, Count[k])}) \cap Ids(k, Refused(k, Count[k])) = {}
  /\ Prelude[k] + 2 * Cardinality(Asked(k, Count[k])) <= CallLimit[k]

CachedRight   == \A k \in Inputs : trajectories[k] # None => Right(k, trajectories[k])
AnsweredRight == \A k \in Inputs : \A o \in answers[k] : Right(k, o)

(* Spending: Bill(n) is what n invocations may pay for a prompt.  In the    *)
(* running invocation a prompt that is not on disk was not paid for yet,   *)
(* but for the one that is being asked.                                    *)
Bill(n) == (MaxRepairs + 1) * n

Spent ==
  /\ invoked <= MaxInvocations /\ (step # "idle" => invoked \in Nat \ {0})
  /\ \A p \in Prompts : paid[p] <= Bill(invoked)
  /\ step # "idle" => \A p \in Prompts :
       completions[p] = None /\ ~(step \in {"ask", "store"} /\ p = PromptOf(input, at))
         => paid[p] <= Bill(invoked - 1)
  /\ step = "ask" => /\ attempts <= MaxRepairs
                     /\ paid[PromptOf(input, at)] <= Bill(invoked - 1) + attempts

IInv == Kinds /\ Located /\ Counted /\ Faithful /\ CachedRight /\ AnsweredRight /\ Spent

-----------------------------------------------------------------------------
(* One candidate more. *)

LEMMA Nothing ==
  ASSUME NEW k
  PROVE  Known(k, 0) /\ Found(k, 0) = {} /\ Refused(k, 0) = {} /\ Asked(k, 0) = {}
<1>1. 1..0 = {}
  OBVIOUS
<1>2. QED
  BY <1>1 DEF Known, Found, Refused, Asked

LEMMA OneMore ==
  ASSUME NEW k, NEW n \in Nat \ {0}
  PROVE  /\ Known(k, n) <=> Known(k, n - 1) /\ (Asks(k, n) => completions[PromptOf(k, n)] # None)
         /\ Grounded(k, n) => /\ Found(k, n) = Found(k, n - 1) \cup {<<n, completions[PromptOf(k, n)]>>}
                              /\ Refused(k, n) = Refused(k, n - 1)
         /\ ~Grounded(k, n) => /\ Found(k, n) = Found(k, n - 1)
                               /\ Refused(k, n) = Refused(k, n - 1) \cup {n}
         /\ Asks(k, n) => Asked(k, n) = Asked(k, n - 1) \cup {n}
         /\ ~Asks(k, n) => Asked(k, n) = Asked(k, n - 1)
<1>1. 1..n = (1..(n - 1)) \cup {n}
  OBVIOUS
<1>2. Known(k, n) <=> Known(k, n - 1) /\ (Asks(k, n) => completions[PromptOf(k, n)] # None)
  BY <1>1 DEF Known
<1>3. Grounded(k, n) => /\ Found(k, n) = Found(k, n - 1) \cup {<<n, completions[PromptOf(k, n)]>>}
                        /\ Refused(k, n) = Refused(k, n - 1)
  BY <1>1 DEF Found, Refused
<1>4. ~Grounded(k, n) => /\ Found(k, n) = Found(k, n - 1)
                         /\ Refused(k, n) = Refused(k, n - 1) \cup {n}
  BY <1>1 DEF Found, Refused
<1>5. /\ Asks(k, n) => Asked(k, n) = Asked(k, n - 1) \cup {n}
      /\ ~Asks(k, n) => Asked(k, n) = Asked(k, n - 1)
  BY <1>1 DEF Asked
<1>6. QED
  BY <1>2, <1>3, <1>4, <1>5

LEMMA AskedFinite ==
  ASSUME NEW k, NEW n \in Nat
  PROVE  IsFiniteSet(Asked(k, n)) /\ Cardinality(Asked(k, n)) \in Nat
<1>1. IsFiniteSet(1..n)
  BY FS_Interval
<1>2. Asked(k, n) \in SUBSET (1..n)
  BY DEF Asked
<1>3. IsFiniteSet(Asked(k, n))
  BY <1>1, <1>2, FS_Subset
<1>4. QED
  BY <1>3, FS_CardinalityType

(* Each candidate that is generated adds one to those asked. *)
LEMMA OneMoreAsked ==
  ASSUME NEW k, NEW n \in Nat \ {0}
  PROVE  /\ Asks(k, n) => Cardinality(Asked(k, n)) = Cardinality(Asked(k, n - 1)) + 1
         /\ ~Asks(k, n) => Cardinality(Asked(k, n)) = Cardinality(Asked(k, n - 1))
<1>1. IsFiniteSet(Asked(k, n - 1))
  BY AskedFinite, n - 1 \in Nat
<1>2. n \notin Asked(k, n - 1)
  BY DEF Asked
<1>3. QED
  BY <1>1, <1>2, OneMore, FS_AddElement

-----------------------------------------------------------------------------
(* The disk only gains entries, and what it determines is then stable. *)

Extends == \A p \in Prompts : completions[p] # None => completions'[p] = completions[p]

LEMMA PromptsOfInputs ==
  ASSUME NEW k \in Inputs, NEW i \in 1..Count[k], Asks(k, i)
  PROVE  PromptOf(k, i) \in Prompts
BY AgentAssumption DEF Asks, PromptOf

LEMMA Stable ==
  ASSUME Extends, NEW k \in Inputs, NEW n \in 0..Count[k], Known(k, n)
  PROVE  Known(k, n)' /\ Found(k, n)' = Found(k, n) /\ Refused(k, n)' = Refused(k, n)
<1>1. n \in Nat /\ 1..n \subseteq 1..Count[k]
  BY AgentAssumption
<1>2. \A i \in 1..n : Asks(k, i) => completions'[PromptOf(k, i)] = completions[PromptOf(k, i)]
                                  /\ completions[PromptOf(k, i)] # None
  BY <1>1, PromptsOfInputs DEF Extends, Known
<1>3. \A i \in 1..n : Grounded(k, i)' <=> Grounded(k, i)
  BY <1>2 DEF Grounded, Asks, PromptOf
<1>4. Known(k, n)'
  BY <1>2 DEF Known, Asks, PromptOf
<1>5. Refused(k, n)' = Refused(k, n)
  BY <1>3 DEF Refused
<1>6. {j \in 1..n : Grounded(k, j)}' = {j \in 1..n : Grounded(k, j)}
  BY <1>3
<1>7. \A i \in {j \in 1..n : Grounded(k, j)} :
        completions'[PromptOf(k, i)] = completions[PromptOf(k, i)]
  BY <1>2 DEF Grounded
<1>8. Found(k, n)' = Found(k, n)
  BY <1>6, <1>7 DEF Found, PromptOf
<1>9. QED
  BY <1>4, <1>5, <1>8

LEMMA RightStable ==
  ASSUME Extends, NEW k \in Inputs, NEW o, Right(k, o)
  PROVE  Right(k, o)'
<1>1. Count[k] \in 0..Count[k]
  BY AgentAssumption
<1>2. Known(k, Count[k])' /\ Found(k, Count[k])' = Found(k, Count[k])
      /\ Refused(k, Count[k])' = Refused(k, Count[k])
  BY <1>1, Stable DEF Right
<1>3. QED
  BY <1>2 DEF Right, Ids, Asked, Asks, PromptOf

LEMMA DiskExtends ==
  ASSUME Kinds, [AgentNext]_agentVars
  PROVE  Extends
<1>1. CASE Store
  BY <1>1 DEF Store, Extends, Kinds
<1>2. CASE UNCHANGED completions
  BY <1>2 DEF Extends
<1>3. QED
  BY <1>1, <1>2 DEF AgentNext, Progress, agentVars, stores, Exceeded, Fail, Detect, NextCandidate,
     Generate, AnswerFits, AnswerMalformed, ProviderFails, Check, Finish, GateRefuses,
     NewOrchestrator, Crash, Invoke

-----------------------------------------------------------------------------
(* The steps. *)

LEMMA KindsStep ==
  ASSUME Kinds, Located, [AgentNext]_agentVars
  PROVE  Kinds'
<1> USE AgentAssumption DEF Kinds, stores, locals, outcomes, Steps
<1>1. CASE Exceeded
  BY <1>1 DEF Exceeded, Fail
<1>2. CASE Detect
  BY <1>2 DEF Detect, Charge
<1>3. CASE NextCandidate
  <2>1. at \in Nat /\ Count[input] \in Nat /\ at <= Count[input] + 1
    OBVIOUS
  <2>2. at' = at \/ (at' = at + 1 /\ at <= Count[input])
    BY <1>3, <2>1 DEF NextCandidate
  <2>3. at' \in 1..Count[input] + 1
    BY <2>1, <2>2
  <2>4. rejected' \subseteq Nat
    BY <1>3, <2>1 DEF NextCandidate
  <2>5. step' \in Steps
    BY <1>3 DEF NextCandidate
  <2>6. QED
    BY <1>3, <2>3, <2>4, <2>5 DEF NextCandidate
<1>4. CASE Generate
  <2>1. Here.prompt \in Prompts
    BY <1>4, PromptsOfInputs DEF Generate, Located, Here, PromptOf
  <2>2. QED
    BY <1>4, <2>1 DEF Generate, Charge
<1>5. CASE AnswerFits \/ AnswerMalformed \/ ProviderFails
  <2>1. Pay => paid' \in [Prompts -> Nat]
    <3> DEFINE once(v) == IF v > MaxPaid THEN v ELSE v + 1
    <3>1. \A v \in Nat : once(v) \in Nat
      OBVIOUS
    <3>2. Pay => paid' = [paid EXCEPT ![Here.prompt] = once(paid[Here.prompt])]
      BY DEF Pay
    <3> HIDE DEF once
    <3>3. QED
      BY <3>1, <3>2
  <2>2. CASE AnswerFits
    BY <2>1, <2>2 DEF AnswerFits, Pay
  <2>3. CASE AnswerMalformed
    <3>1. attempts' \in Nat /\ step' \in Steps
      BY <2>3 DEF AnswerMalformed
    <3>2. QED
      BY <2>1, <2>3, <3>1 DEF AnswerMalformed, Pay
  <2>4. CASE ProviderFails
    BY <2>1, <2>4 DEF ProviderFails, Pay
  <2>5. QED
    BY <1>5, <2>2, <2>3, <2>4
<1>6. CASE Store
  <2>1. Here.prompt \in Prompts
    BY <1>6, PromptsOfInputs DEF Store, Located, Here, PromptOf
  <2>2. QED
    BY <1>6, <2>1 DEF Store, Located
<1>7. CASE Check
  <2>1. reply \in Completions /\ <<at, reply>> \in Nat \X Completions
    BY <1>7 DEF Check, Located
  <2>2. at + 1 \in 1..Count[input] + 1
    BY <1>7 DEF Check, Located
  <2>3. surfaced' \subseteq Nat \X Completions /\ rejected' \subseteq Nat
    BY <1>7, <2>1 DEF Check
  <2>4. calls' \in Nat /\ at' = at + 1 /\ step' \in Steps
    BY <1>7 DEF Check, Charge
  <2>5. QED
    BY <1>7, <2>2, <2>3, <2>4 DEF Check
<1>8. CASE Finish
  <2>1. Output \in Outputs
    BY DEF Output, Outputs
  <2>2. QED
    BY <1>8, <2>1 DEF Finish
<1>9. CASE GateRefuses
  BY <1>9 DEF GateRefuses, Fail
<1>10. CASE NewOrchestrator \/ Crash
  <2>1. trajectories' \in [Inputs -> Outputs \cup {None}]
    <3>1. trajectories' = [k \in Inputs |-> None]
      BY <1>10 DEF NewOrchestrator, Crash
    <3>2. QED
      BY <3>1
  <2>2. CASE NewOrchestrator
    BY <2>1, <2>2 DEF NewOrchestrator
  <2>3. CASE Crash
    <3>1. crashes' \in Nat
      BY <2>3 DEF Crash
    <3>2. QED
      BY <2>1, <2>3, <3>1 DEF Crash
  <2>4. QED
    BY <1>10, <2>2, <2>3
<1>11. ASSUME NEW k \in Inputs, Invoke(k) PROVE Kinds'
  <2>1. CASE trajectories[k] = None
    BY <1>11, <2>1 DEF Invoke
  <2>2. CASE trajectories[k] # None
    <3>1. answers[k] \cup {trajectories[k]} \in SUBSET Outputs
      BY <2>2
    <3>2. answers' \in [Inputs -> SUBSET Outputs]
      BY <1>11, <2>2, <3>1 DEF Invoke
    <3>3. invoked' \in Nat
      BY <1>11 DEF Invoke
    <3>4. QED
      BY <1>11, <2>2, <3>2, <3>3 DEF Invoke
  <2>3. QED
    BY <2>1, <2>2
<1>12. CASE UNCHANGED agentVars
  BY <1>12 DEF agentVars
<1>13. QED
  BY <1>1, <1>2, <1>3, <1>4, <1>5, <1>6, <1>7, <1>8, <1>9, <1>10, <1>11, <1>12
     DEF AgentNext, Progress

LEMMA LocatedStep ==
  ASSUME Kinds, Located, [AgentNext]_agentVars
  PROVE  Located'
<1> USE AgentAssumption DEF Kinds, Located, stores, locals, outcomes, Steps, Asks, PromptOf
<1>1. CASE Exceeded \/ GateRefuses
  BY <1>1 DEF Exceeded, GateRefuses, Fail
<1>2. CASE Detect
  BY <1>2 DEF Detect, Charge
<1>3. CASE NextCandidate
  <2>1. CASE at > Count[input]
    <3>1. at = Count[input] + 1
      BY <2>1
    <3>2. QED
      BY <1>3, <2>1, <3>1 DEF NextCandidate
  <2>2. CASE at <= Count[input] /\ Here.prompt = None
    <3>1. step' = "candidate"
      BY <1>3, <2>2 DEF NextCandidate
    <3>2. QED
      BY <3>1
  <2>3. CASE at <= Count[input] /\ Here.prompt # None
    BY <1>3, <2>3 DEF NextCandidate, Here
  <2>4. at > Count[input] \/ at <= Count[input]
    OBVIOUS
  <2>5. QED
    BY <2>1, <2>2, <2>3, <2>4
<1>4. CASE Generate
  <2>1. Here.prompt \in Prompts
    BY <1>4, PromptsOfInputs DEF Generate, Here
  <2>2. QED
    BY <1>4, <2>1 DEF Generate, Charge, Here
<1>5. CASE AnswerFits \/ AnswerMalformed \/ ProviderFails
  BY <1>5 DEF AnswerFits, AnswerMalformed, ProviderFails, Pay
<1>6. CASE Store
  <2>1. Here.prompt \in Prompts
    BY <1>6, PromptsOfInputs DEF Store, Here
  <2>2. completions'[Here.prompt] = reply /\ reply # None
    BY <1>6, <2>1 DEF Store, Here
  <2>3. QED
    BY <1>6, <2>2 DEF Store, Here
<1>7. CASE Check
  BY <1>7 DEF Check, Charge
<1>8. CASE Finish \/ NewOrchestrator \/ Crash
  BY <1>8 DEF Finish, NewOrchestrator, Crash
<1>9. ASSUME NEW k \in Inputs, Invoke(k) PROVE Located'
  BY <1>9 DEF Invoke
<1>10. CASE UNCHANGED agentVars
  BY <1>10 DEF agentVars
<1>11. QED
  BY <1>1, <1>2, <1>3, <1>4, <1>5, <1>6, <1>7, <1>8, <1>9, <1>10 DEF AgentNext, Progress

LEMMA CountedStep ==
  ASSUME Kinds, Located, Counted, [AgentNext]_agentVars
  PROVE  Counted'
<1> USE AgentAssumption DEF Kinds, Located, Counted, stores, locals, outcomes, Steps
<1> DEFINE n == Cardinality(Asked(input, at - 1))
<1>0. n \in Nat /\ (input' = input /\ at' = at => n' = n)
  BY AskedFinite, at - 1 \in Nat DEF Asked, Asks, PromptOf
<1>1. CASE Exceeded \/ GateRefuses
  BY <1>1 DEF Exceeded, GateRefuses, Fail
<1>2. CASE Detect
  BY <1>2 DEF Detect, Charge, InTool
<1>3. CASE NextCandidate
  <2>1. calls = Prelude[input] + 2 * n
    <3>1. CASE step = "detect"
      <4>1. at - 1 = 0
        BY <3>1
      <4>2. n = 0
        BY <4>1, Nothing, FS_EmptySet
      <4>3. calls = Prelude[input]
        <5>1. ~(calls < Prelude[input])
          BY <1>3, <3>1, Zenon DEF NextCandidate, InTool
        <5>2. calls <= Prelude[input]
          BY <3>1
        <5>3. calls \in Nat /\ Prelude[input] \in Nat
          OBVIOUS
        <5>4. \A m1, m2 \in Nat : ~(m1 < m2) /\ m1 <= m2 => m1 = m2
          OBVIOUS
        <5> HIDE DEF Kinds, Located, Counted
        <5>5. QED
          BY <5>1, <5>2, <5>3, <5>4
      <4>4. QED
        BY <4>2, <4>3
    <3>2. CASE step = "candidate"
      BY <3>2
    <3>3. QED
      BY <1>3, <3>1, <3>2 DEF NextCandidate
  <2>2. CASE at' = at
    BY <1>0, <1>3, <2>1, <2>2 DEF NextCandidate
  <2>3. CASE at' = at + 1
    <3>1. ~Asks(input, at) /\ step' = "candidate" /\ calls' = calls /\ input' = input
      BY <1>3, <2>3 DEF NextCandidate, Asks, PromptOf, Here
    <3>2. Cardinality(Asked(input, at)) = n
      BY <3>1, OneMoreAsked
    <3>3. Cardinality(Asked(input, at - 1))' = Cardinality(Asked(input, at))
      <4>1. at' - 1 = at
        BY <2>3
      <4>2. QED
        BY <3>1, <4>1 DEF Asked, Asks, PromptOf
    <3>4. QED
      BY <1>3, <2>1, <3>1, <3>2, <3>3 DEF NextCandidate
  <2>4. QED
    BY <1>3, <2>2, <2>3 DEF NextCandidate
<1>4. CASE Generate
  <2>1. at' = at /\ input' = input /\ calls' = calls + 1 /\ calls' <= CallLimit[input]
        /\ step = "generate" /\ step' \in {"idle", "ask", "check"}
    BY <1>4 DEF Generate, Charge
  <2>2. QED
    BY <1>0, <2>1
<1>5. CASE AnswerFits \/ AnswerMalformed \/ ProviderFails
  BY <1>0, <1>5 DEF AnswerFits, AnswerMalformed, ProviderFails, Pay
<1>6. CASE Store
  BY <1>0, <1>6 DEF Store
<1>7. CASE Check
  <2>1. at' = at + 1 /\ input' = input /\ step' = "candidate" /\ step = "check"
        /\ calls' = calls + 1 /\ calls' <= CallLimit[input]
    BY <1>7 DEF Check, Charge
  <2>2. Cardinality(Asked(input, at)) = n + 1
    BY <2>1, OneMoreAsked
  <2>3. Cardinality(Asked(input, at - 1))' = Cardinality(Asked(input, at))
    <3>1. at' - 1 = at
      BY <2>1
    <3>2. QED
      BY <2>1, <3>1 DEF Asked, Asks, PromptOf
  <2>4. QED
    BY <1>0, <2>1, <2>2, <2>3
<1>8. CASE Finish \/ NewOrchestrator \/ Crash
  BY <1>8 DEF Finish, NewOrchestrator, Crash
<1>9. ASSUME NEW k \in Inputs, Invoke(k) PROVE Counted'
  <2>1. CASE trajectories[k] = None
    BY <1>9, <2>1 DEF Invoke
  <2>2. CASE trajectories[k] # None
    BY <1>9, <2>2 DEF Invoke
  <2>3. QED
    BY <2>1, <2>2
<1>10. CASE UNCHANGED agentVars
  BY <1>0, <1>10 DEF agentVars
<1>11. QED
  BY <1>1, <1>2, <1>3, <1>4, <1>5, <1>6, <1>7, <1>8, <1>9, <1>10 DEF AgentNext, Progress

LEMMA FaithfulStep ==
  ASSUME Kinds, Located, Faithful, [AgentNext]_agentVars
  PROVE  Faithful'
<1> USE AgentAssumption DEF Kinds, Located, Faithful, stores, locals, outcomes, Steps
<1> DEFINE Same == input' = input /\ at' = at /\ surfaced' = surfaced /\ rejected' = rejected
<1>1. ASSUME Same, step # "idle" PROVE Faithful'
  <2>1. Extends
    BY DiskExtends
  <2>2. at - 1 \in 0..Count[input]
    OBVIOUS
  <2>3. /\ Known(input, at - 1)'
        /\ Found(input, at - 1)' = Found(input, at - 1)
        /\ Refused(input, at - 1)' = Refused(input, at - 1)
    <3>1. Known(input, at - 1)
      BY <1>1
    <3>2. /\ Known(input, at - 1)' <=> (\A i \in 1..(at - 1) : Asks(input, i) => completions'[PromptOf(input, i)] # None)
          /\ Found(input, at - 1)' = {<<i, completions'[PromptOf(input, i)]>> : i \in {j \in 1..(at - 1) :
                Asks(input, j) /\ completions'[PromptOf(input, j)] \in Candidate[input][j].ground}}
          /\ Refused(input, at - 1)' = {i \in 1..(at - 1) :
                ~(Asks(input, i) /\ completions'[PromptOf(input, i)] \in Candidate[input][i].ground)}
      BY <1>1 DEF Known, Found, Refused, Grounded, Asks, PromptOf
    <3>3. ASSUME NEW k \in Inputs, NEW n \in 0..Count[k], Known(k, n)
          PROVE  /\ \A i \in 1..n : Asks(k, i) => completions'[PromptOf(k, i)] # None
                 /\ Found(k, n) = {<<i, completions'[PromptOf(k, i)]>> : i \in {j \in 1..n :
                       Asks(k, j) /\ completions'[PromptOf(k, j)] \in Candidate[k][j].ground}}
                 /\ Refused(k, n) = {i \in 1..n :
                       ~(Asks(k, i) /\ completions'[PromptOf(k, i)] \in Candidate[k][i].ground)}
      BY <2>1, <3>3, Stable DEF Known, Found, Refused, Grounded, Asks, PromptOf
    <3>4. QED
      BY <2>2, <3>1, <3>2, <3>3
  <2>4. QED
    BY <1>1, <2>3
<1>2. CASE step' = "idle"
  BY <1>2
<1>3. CASE Detect \/ AnswerFits \/ AnswerMalformed \/ Store
  <2>1. Same /\ step # "idle"
    BY <1>3 DEF Detect, AnswerFits, AnswerMalformed, Store, Pay
  <2>2. QED
    BY <1>1, <2>1
<1>4. CASE Generate
  <2>1. Same /\ step # "idle"
    BY <1>4 DEF Generate
  <2>2. QED
    BY <1>1, <2>1
<1>5. CASE NextCandidate
  <2>1. CASE at' = at
    <3>1. Same /\ step # "idle"
      BY <1>5, <2>1 DEF NextCandidate
    <3>2. QED
      BY <1>1, <3>1
  <2>2. CASE at' = at + 1
    <3>1. ~Asks(input, at) /\ completions' = completions /\ input' = input
          /\ surfaced' = surfaced /\ rejected' = rejected \cup {at} /\ step # "idle"
      BY <1>5, <2>2 DEF NextCandidate, Asks, PromptOf, Here
    <3>2. Known(input, at) /\ Found(input, at) = surfaced /\ Refused(input, at) = rejected \cup {at}
      BY <3>1, OneMore DEF Grounded
    <3>3. /\ Known(input, at - 1)' <=> Known(input, at)
          /\ Found(input, at - 1)' = Found(input, at)
          /\ Refused(input, at - 1)' = Refused(input, at)
      BY <2>2, <3>1 DEF Known, Found, Refused, Grounded, Asks, PromptOf
    <3>4. QED
      BY <3>1, <3>2, <3>3
  <2>3. QED
    BY <1>5, <2>1, <2>2 DEF NextCandidate
<1>6. CASE Check
  <2>1. at' = at + 1 /\ completions' = completions /\ input' = input /\ step = "check"
        /\ reply = completions[PromptOf(input, at)] /\ reply # None /\ Asks(input, at)
    BY <1>6 DEF Check
  <2>2. Grounded(input, at) <=> reply \in Here.ground
    BY <2>1 DEF Grounded, Here
  <2>3. Known(input, at) /\ surfaced' = Found(input, at) /\ rejected' = Refused(input, at)
    <3>0. /\ Known(input, at) <=> Known(input, at - 1) /\ (Asks(input, at) => reply # None)
          /\ Grounded(input, at) => /\ Found(input, at) = Found(input, at - 1) \cup {<<at, reply>>}
                                    /\ Refused(input, at) = Refused(input, at - 1)
          /\ ~Grounded(input, at) => /\ Found(input, at) = Found(input, at - 1)
                                     /\ Refused(input, at) = Refused(input, at - 1) \cup {at}
      BY <2>1, OneMore, at \in Nat \ {0}
    <3>1. CASE Grounded(input, at)
      <4>1. surfaced' = surfaced \cup {<<at, reply>>} /\ rejected' = rejected
        BY <1>6, <2>2, <3>1 DEF Check
      <4>2. QED
        BY <2>1, <3>0, <3>1, <4>1
    <3>2. CASE ~Grounded(input, at)
      <4>1. surfaced' = surfaced /\ rejected' = rejected \cup {at}
        BY <1>6, <2>2, <3>2 DEF Check
      <4>2. QED
        BY <2>1, <3>0, <3>2, <4>1
    <3>3. QED
      BY <3>1, <3>2
  <2>4. /\ Known(input, at - 1)' <=> Known(input, at)
        /\ Found(input, at - 1)' = Found(input, at)
        /\ Refused(input, at - 1)' = Refused(input, at)
    BY <2>1 DEF Known, Found, Refused, Grounded, Asks, PromptOf
  <2>5. QED
    BY <2>3, <2>4
<1>7. CASE Exceeded \/ GateRefuses \/ ProviderFails \/ Finish \/ Crash
  BY <1>2, <1>7 DEF Exceeded, GateRefuses, Fail, ProviderFails, Finish, Crash
<1>8. CASE NewOrchestrator
  BY <1>2, <1>8 DEF NewOrchestrator
<1>9. ASSUME NEW k \in Inputs, Invoke(k) PROVE Faithful'
  <2>1. CASE trajectories[k] # None
    BY <1>2, <1>9, <2>1 DEF Invoke
  <2>2. CASE trajectories[k] = None
    <3>1. at' = 1 /\ surfaced' = {} /\ rejected' = {}
      BY <1>9, <2>2 DEF Invoke
    <3>2. 1..(1 - 1) = {}
      OBVIOUS
    <3>3. QED
      BY <3>1, <3>2 DEF Known, Found, Refused
  <2>3. QED
    BY <2>1, <2>2
<1>10. CASE UNCHANGED agentVars
  <2>1. CASE step = "idle"
    BY <1>2, <1>10, <2>1 DEF agentVars
  <2>2. CASE step # "idle"
    BY <1>1, <1>10, <2>2 DEF agentVars
  <2>3. QED
    BY <2>1, <2>2
<1>11. QED
  BY <1>3, <1>4, <1>5, <1>6, <1>7, <1>8, <1>9, <1>10 DEF AgentNext, Progress

(* What is cached or returned at the end of an invocation is right. *)
LEMMA FinishIsRight ==
  ASSUME Kinds, Located, Counted, Faithful, Finish
  PROVE  Right(input, Output)
<1> USE AgentAssumption DEF Kinds
<1>1. step = "gate" /\ PassesGate /\ at - 1 = Count[input]
  <2>1. step = "gate" /\ PassesGate
    BY DEF Finish
  <2>2. at = Count[input] + 1 /\ Count[input] \in Nat
    BY <2>1 DEF Located
  <2>3. QED
    BY <2>1, <2>2
<1>2. Known(input, Count[input]) /\ surfaced = Found(input, Count[input])
      /\ rejected = Refused(input, Count[input])
  BY <1>1 DEF Faithful
<1>3. calls = Prelude[input] + 2 * Cardinality(Asked(input, Count[input])) /\ calls <= CallLimit[input]
  BY <1>1 DEF Counted
<1>4. QED
  BY <1>1, <1>2, <1>3 DEF Right, Output, PassesGate

LEMMA RightStep ==
  ASSUME Kinds, Located, Counted, Faithful, CachedRight, AnsweredRight, [AgentNext]_agentVars
  PROVE  CachedRight' /\ AnsweredRight'
<1> USE DEF CachedRight, AnsweredRight
<1>1. \A k \in Inputs : \A o : Right(k, o) => Right(k, o)'
  BY DiskExtends, RightStable
<1>2. CASE UNCHANGED <<trajectories, answers>>
  BY <1>1, <1>2
<1>3. CASE Finish
  <2>1. Right(input, Output)
    BY <1>3, FinishIsRight
  <2>2. /\ trajectories' = [trajectories EXCEPT ![input] = Output]
        /\ answers' = [answers EXCEPT ![input] = @ \cup {Output}]
    BY <1>3 DEF Finish
  <2>3. ASSUME NEW k \in Inputs, NEW o, o = trajectories'[k], o # None PROVE Right(k, o)'
    <3>1. CASE k = input
      <4>1. o = Output
        BY <2>2, <2>3, <3>1 DEF Kinds
      <4>2. Right(k, o)
        BY <2>1, <3>1, <4>1
      <4>3. QED
        BY <1>1, <4>2
    <3>2. CASE k # input
      <4>1. o = trajectories[k]
        BY <2>2, <2>3, <3>2 DEF Kinds
      <4>2. QED
        BY <1>1, <2>3, <4>1
    <3>3. QED
      BY <3>1, <3>2
  <2>4. ASSUME NEW k \in Inputs, NEW o \in answers'[k] PROVE Right(k, o)'
    <3>1. o \in answers[k] \/ (k = input /\ o = Output)
      BY <2>2, <2>4 DEF Kinds
    <3>2. QED
      BY <1>1, <2>1, <3>1
  <2>5. QED
    BY <2>3, <2>4
<1>4. CASE NewOrchestrator \/ Crash
  <2>1. trajectories' = [k \in Inputs |-> None] /\ answers' = answers
    BY <1>4 DEF NewOrchestrator, Crash, outcomes
  <2>2. QED
    BY <1>1, <2>1
<1>5. ASSUME NEW k \in Inputs, Invoke(k) PROVE CachedRight' /\ AnsweredRight'
  <2>1. trajectories' = trajectories
    BY <1>5 DEF Invoke, stores
  <2>2. CASE trajectories[k] = None
    BY <1>2, <1>5, <2>1, <2>2 DEF Invoke
  <2>3. CASE trajectories[k] # None
    <3>1. answers' = [answers EXCEPT ![k] = @ \cup {trajectories[k]}]
      BY <1>5, <2>3 DEF Invoke
    <3>2. ASSUME NEW j \in Inputs, NEW o \in answers'[j] PROVE Right(j, o)
      BY <2>3, <3>1, <3>2 DEF Kinds
    <3>3. QED
      BY <1>1, <2>1, <3>2
  <2>4. QED
    BY <2>2, <2>3
<1>6. CASE UNCHANGED agentVars
  BY <1>2, <1>6 DEF agentVars
<1>7. QED
  BY <1>2, <1>3, <1>4, <1>5, <1>6 DEF AgentNext, Progress, stores, outcomes, Exceeded, Fail, Detect,
     NextCandidate, Generate, AnswerFits, AnswerMalformed, ProviderFails, Pay, Store, Check, GateRefuses

-----------------------------------------------------------------------------
(* Spending. *)

LEMMA Bills ==
  ASSUME NEW n \in Nat
  PROVE  /\ Bill(n) \in Nat
         /\ Bill(n + 1) = Bill(n) + MaxRepairs + 1
         /\ n <= MaxInvocations => Bill(n) <= MaxPaid
<1>1. MaxRepairs \in Nat /\ MaxInvocations \in Nat
  BY AgentAssumption
<1>2. Bill(n) \in Nat /\ Bill(n + 1) = Bill(n) + MaxRepairs + 1
  BY <1>1 DEF Bill
<1>3. ASSUME n <= MaxInvocations PROVE Bill(n) <= MaxPaid
  <2>1. MaxInvocations - n \in Nat
    BY <1>1, <1>3
  <2>2. \A a, b \in Nat : a * b \in Nat
    OBVIOUS
  <2>3. (MaxRepairs + 1) * (MaxInvocations - n) \in Nat
    BY <1>1, <2>1, <2>2
  <2>4. (MaxRepairs + 1) * MaxInvocations = Bill(n) + (MaxRepairs + 1) * (MaxInvocations - n)
    BY <1>1 DEF Bill
  <2>5. QED
    BY <1>2, <2>3, <2>4, <1>1 DEF MaxPaid
<1>4. QED
  BY <1>2, <1>3

LEMMA SpentStep ==
  ASSUME Kinds, Located, Spent, [AgentNext]_agentVars
  PROVE  Spent'
<1> USE AgentAssumption DEF Kinds, Spent, stores, locals, outcomes, Steps
<1>1. CASE UNCHANGED <<invoked, paid>> /\ step' = "idle"
  BY <1>1
<1>2. ASSUME UNCHANGED <<invoked, paid, completions>>, step # "idle",
             step \notin {"ask", "store"}, step' \notin {"ask", "store"}
      PROVE  Spent'
  BY <1>2
<1>3. CASE Exceeded \/ Finish \/ GateRefuses \/ Crash
  BY <1>1, <1>3 DEF Exceeded, Fail, Finish, GateRefuses, Crash
<1>4. CASE Detect \/ NextCandidate \/ Check
  BY <1>2, <1>4 DEF Detect, NextCandidate, Check
<1>5. CASE Generate
  <2>1. CASE step' # "ask"
    BY <1>1, <1>2, <1>5, <2>1 DEF Generate
  <2>2. CASE step' = "ask"
    <3>1. completions[PromptOf(input, at)] = None /\ attempts' = 0 /\ step = "generate"
          /\ UNCHANGED <<invoked, paid, completions, input, at>>
      BY <1>5, <2>2 DEF Generate, Here, PromptOf
    <3>2. PromptOf(input, at) \in Prompts
      BY <3>1, PromptsOfInputs DEF Located
    <3>3. paid[PromptOf(input, at)] <= Bill(invoked - 1)
      BY <3>1, <3>2
    <3>4. Bill(invoked - 1) \in Nat
      BY <3>1, Bills
    <3>5. QED
      BY <2>2, <3>1, <3>2, <3>3, <3>4 DEF PromptOf
  <2>3. QED
    BY <2>1, <2>2
<1>6. CASE Pay /\ UNCHANGED <<input, at, completions>> /\ step' \in {"ask", "store", "idle"}
           /\ (step' = "ask" => attempts' = attempts + 1 /\ attempts' <= MaxRepairs)
  <2> DEFINE q == PromptOf(input, at)
             old == Bill(invoked - 1)
  <2>1. q \in Prompts /\ step = "ask" /\ invoked' = invoked
    BY <1>6, PromptsOfInputs DEF Pay, Located
  <2>2. old \in Nat /\ Bill(invoked) = old + MaxRepairs + 1
    <3>1. invoked - 1 \in Nat /\ (invoked - 1) + 1 = invoked
      BY <2>1
    <3>2. QED
      BY <3>1, Bills
  <2>3. paid'[q] <= paid[q] + 1 /\ \A p \in Prompts : p # q => paid'[p] = paid[p]
    <3>1. paid[q] \in Nat
      BY <2>1
    <3>2. paid' = [paid EXCEPT ![q] = IF paid[q] > MaxPaid THEN paid[q] ELSE paid[q] + 1]
      BY <1>6 DEF Pay, Here, PromptOf
    <3>3. QED
      BY <2>1, <3>1, <3>2
  <2>4. paid[q] <= old + attempts /\ attempts <= MaxRepairs
    BY <2>1
  <2>5. paid'[q] \in Nat /\ paid[q] \in Nat
    <3>1. paid' = [paid EXCEPT ![q] = IF paid[q] > MaxPaid THEN paid[q] ELSE paid[q] + 1]
      BY <1>6 DEF Pay, Here, PromptOf
    <3>2. paid[q] \in Nat
      BY <2>1
    <3>3. QED
      BY <2>1, <3>1, <3>2
  <2>6. paid'[q] <= old + attempts + 1 /\ paid'[q] <= Bill(invoked)
    BY <2>2, <2>3, <2>4, <2>5
  <2>7. q' = q /\ Bill(invoked)' = Bill(invoked) /\ Bill(invoked - 1)' = old
    BY <1>6, <2>1 DEF PromptOf, Bill
  <2>8. \A p \in Prompts : paid'[p] <= Bill(invoked)
    BY <2>3, <2>6
  <2>9. \A p \in Prompts : p # q /\ completions[p] = None => paid'[p] <= old
    BY <2>1, <2>3
  <2>10. step' = "ask" => paid'[q] <= old + attempts'
    BY <1>6, <2>2, <2>5, <2>6
  <2> HIDE DEF q, old
  <2>11. completions[q] = None
    BY <2>1 DEF Located, q
  <2>12. invoked <= MaxInvocations /\ (step' # "idle" => invoked \in Nat \ {0})
    BY <2>1
  <2>13. step' # "idle" => step' \in {"ask", "store"}
    BY <1>6
  <2>14. QED
    BY <1>6, <2>1, <2>7, <2>8, <2>9, <2>10, <2>12, <2>13 DEF q, old
<1>7. CASE AnswerFits \/ AnswerMalformed \/ ProviderFails
  <2>1. Pay /\ UNCHANGED <<input, at, completions>> /\ step' \in {"ask", "store", "idle"}
    BY <1>7 DEF AnswerFits, AnswerMalformed, ProviderFails
  <2>2. step' = "ask" => attempts' = attempts + 1 /\ attempts' <= MaxRepairs
    BY <1>7 DEF AnswerFits, AnswerMalformed, ProviderFails
  <2>3. QED
    BY <1>6, <2>1, <2>2
<1>8. CASE Store
  <2>1. PromptOf(input, at) \in Prompts /\ step = "store" /\ step' = "check"
        /\ UNCHANGED <<invoked, paid, input, at>>
    BY <1>8, PromptsOfInputs DEF Store, Located
  <2>2. completions' = [completions EXCEPT ![PromptOf(input, at)] = reply] /\ reply # None
    BY <1>8 DEF Store, Located, Here, PromptOf
  <2>3. QED
    BY <2>1, <2>2 DEF Bill, PromptOf
<1>9. CASE NewOrchestrator
  BY <1>1, <1>9 DEF NewOrchestrator
<1>10. ASSUME NEW k \in Inputs, Invoke(k) PROVE Spent'
  <2>1. invoked' = invoked + 1 /\ invoked' <= MaxInvocations /\ step' \in {"idle", "detect"}
        /\ UNCHANGED <<paid, completions>>
    BY <1>10 DEF Invoke
  <2>2. Bill(invoked) \in Nat /\ Bill(invoked') = Bill(invoked) + MaxRepairs + 1
    BY <2>1, Bills
  <2>3. invoked' - 1 = invoked
    BY <2>1
  <2>4. \A p \in Prompts : paid[p] <= Bill(invoked) /\ paid[p] <= Bill(invoked')
    BY <2>2
  <2>5. invoked' \in Nat \ {0}
    BY <2>1
  <2>6. QED
    BY <2>1, <2>3, <2>4, <2>5 DEF Bill
<1>11. CASE UNCHANGED agentVars
  BY <1>11 DEF agentVars, PromptOf, Bill
<1>12. QED
  BY <1>3, <1>4, <1>5, <1>7, <1>8, <1>9, <1>10, <1>11 DEF AgentNext, Progress

-----------------------------------------------------------------------------
(* The theorems. *)

LEMMA IInvInit == AgentInit => IInv
<1> SUFFICES ASSUME AgentInit PROVE IInv
  OBVIOUS
<1> USE AgentAssumption DEF AgentInit
<1>1. Kinds
  <2>1. trajectories = [k \in Inputs |-> None] /\ answers = [k \in Inputs |-> {}]
    OBVIOUS
  <2>2. trajectories \in [Inputs -> Outputs \cup {None}] /\ answers \in [Inputs -> SUBSET Outputs]
    BY <2>1
  <2>3. /\ completions \in [Prompts -> Completions \cup {None}] /\ paid \in [Prompts -> Nat]
        /\ at \in 1..Count[input] + 1
    OBVIOUS
  <2>4. QED
    BY <2>2, <2>3 DEF Kinds, Steps
<1>2. Spent
  <2>1. Bill(0) \in Nat
    BY Bills
  <2>2. \A p \in Prompts : paid[p] = 0
    OBVIOUS
  <2>3. QED
    BY <2>1, <2>2 DEF Spent
<1>3. Located /\ Counted /\ Faithful
  BY DEF Located, Counted, Faithful
<1>4. CachedRight /\ AnsweredRight
  BY DEF CachedRight, AnsweredRight
<1>5. QED
  BY <1>1, <1>2, <1>3, <1>4 DEF IInv

LEMMA IInvStep == IInv /\ [AgentNext]_agentVars => IInv'
BY KindsStep, LocatedStep, CountedStep, FaithfulStep, RightStep, SpentStep DEF IInv

LEMMA IInvAlways == AgentSpec => []IInv
BY IInvInit, IInvStep, PTL DEF AgentSpec

LEMMA TypesFromIInv == IInv => AgentTypeOK
<1> SUFFICES ASSUME IInv PROVE AgentTypeOK
  OBVIOUS
<1>1. Kinds /\ Spent
  BY DEF IInv
<1>2. \A p \in Prompts : paid[p] \in 0..MaxPaid
  <2>1. Bill(invoked) \in Nat /\ Bill(invoked) <= MaxPaid
    BY <1>1, Bills DEF Kinds, Spent
  <2>2. MaxPaid \in Nat
    BY AgentAssumption DEF MaxPaid
  <2>3. TAKE p \in Prompts
  <2>4. paid[p] \in Nat /\ paid[p] <= Bill(invoked)
    BY <1>1 DEF Kinds, Spent
  <2>5. QED
    BY <2>1, <2>2, <2>4
<1>3. paid \in [Prompts -> 0..MaxPaid]
  BY <1>1, <1>2 DEF Kinds
<1>4. QED
  BY <1>1, <1>3 DEF Kinds, AgentTypeOK

(* Kinds of the variables, and the bound on what the repair loop of the    *)
(* gateway pays for a prompt.                                              *)
THEOREM AgentTypes == AgentSpec => []AgentTypeOK
BY IInvAlways, TypesFromIInv, PTL

LEMMA ReproducibleFromIInv == IInv => Reproducible
BY DEF IInv, AnsweredRight, Right, Reproducible

(* Identical invocations have identical outputs, across failures, new      *)
(* orchestrators and restarts.                                             *)
THEOREM InputsAreReproducible == AgentSpec => []Reproducible
BY IInvAlways, ReproducibleFromIInv, PTL

LEMMA AccountFromIInv == IInv => AnswersAccountForAll
<1> SUFFICES ASSUME IInv, NEW k \in Inputs, NEW o \in answers[k]
      PROVE LET found == {f[1] : f \in o.surfaced}
                asked == {i \in Positions(k) : Candidate[k][i].prompt # None}
            IN  /\ found \cup o.rejected = Positions(k) /\ found \cap o.rejected = {}
                /\ \A f \in o.surfaced : f[2] \in Candidate[k][f[1]].ground
                /\ \A f, g \in o.surfaced : f[1] = g[1] => f = g
                /\ k \in Gated => Ids(k, found) \cap Ids(k, o.rejected) = {}
                /\ Prelude[k] + 2 * Cardinality(asked) <= CallLimit[k]
  BY DEF AnswersAccountForAll
<1> DEFINE n == Count[k]
           found == {f[1] : f \in Found(k, n)}
<1>1. Right(k, o)
  BY DEF IInv, AnsweredRight
<1>2. o.surfaced = Found(k, n) /\ o.rejected = Refused(k, n)
  BY <1>1 DEF Right
<1>3. found = {i \in 1..n : Grounded(k, i)}
  <2>1. \A f \in Found(k, n) : f[1] \in {i \in 1..n : Grounded(k, i)}
    BY DEF Found
  <2>2. ASSUME NEW i \in 1..n, Grounded(k, i) PROVE i \in found
    <3>1. <<i, completions[PromptOf(k, i)]>> \in Found(k, n)
      BY <2>2 DEF Found
    <3>2. QED
      BY <3>1
  <2>3. QED
    BY <2>1, <2>2
<1>4. found \cup Refused(k, n) = Positions(k) /\ found \cap Refused(k, n) = {}
  BY <1>3 DEF Refused, Positions
<1>5. \A f \in Found(k, n) : f[2] \in Candidate[k][f[1]].ground
  BY DEF Found, Grounded
<1>6. \A f, g \in Found(k, n) : f[1] = g[1] => f = g
  BY DEF Found
<1>7. k \in Gated => Ids(k, found) \cap Ids(k, Refused(k, n)) = {}
  BY <1>1 DEF Right
<1>8. Asked(k, n) = {i \in Positions(k) : Candidate[k][i].prompt # None}
  BY DEF Asked, Asks, PromptOf, Positions
<1>9. Prelude[k] + 2 * Cardinality(Asked(k, n)) <= CallLimit[k]
  BY <1>1 DEF Right
<1>10. QED
  BY <1>2, <1>4, <1>5, <1>6, <1>7, <1>8, <1>9

(* No returned output is truncated, ungrounded or over budget. *)
THEOREM OutputsAccountForAll == AgentSpec => []AnswersAccountForAll
BY IInvAlways, AccountFromIInv, PTL

LEMMA PaidOnceStep ==
  ASSUME IInv, [AgentNext]_agentVars, NEW p \in Prompts
  PROVE  /\ completions[p] # None => completions'[p] = completions[p]
         /\ offline \/ completions[p] # None => paid'[p] = paid[p]
<1>1. completions[p] # None => completions'[p] = completions[p]
  BY DiskExtends DEF IInv, Extends
<1>2. CASE UNCHANGED paid
  BY <1>1, <1>2
<1>3. CASE Pay
  <2>1. step = "ask" /\ paid \in [Prompts -> Nat]
    BY <1>3 DEF Pay, IInv, Kinds
  <2>2. completions[PromptOf(input, at)] = None /\ offline = FALSE
    BY <2>1 DEF IInv, Located
  <2>3. p # PromptOf(input, at) => paid'[p] = paid[p]
    BY <1>3, <2>1 DEF Pay, Here, PromptOf
  <2>4. QED
    BY <1>1, <2>2, <2>3
<1>4. QED
  BY <1>2, <1>3 DEF AgentNext, Progress, agentVars, outcomes, Exceeded, Fail, Detect, NextCandidate,
     Generate, AnswerFits, AnswerMalformed, ProviderFails, Store, Check, Finish, GateRefuses,
     NewOrchestrator, Crash, Invoke

(* A completion on disk is never replaced and never paid for again, and    *)
(* deterministic mode pays for nothing.                                    *)
THEOREM PaidOnce == AgentSpec => NothingPaidTwice
<1>1. IInv /\ [AgentNext]_agentVars =>
        [\A p \in Prompts :
           /\ completions[p] # None => completions'[p] = completions[p]
           /\ offline \/ completions[p] # None => paid'[p] = paid[p]]_agentVars
  BY PaidOnceStep
<1>2. QED
  BY IInvAlways, <1>1, PTL DEF AgentSpec, NothingPaidTwice
=============================================================================
