--------------------------- MODULE AgentInvocation ---------------------------
(***************************************************************************)
(* One agent invocation after the other through the orchestrator: the      *)
(* trajectory cache in front, the tool-call budget around every tool, the  *)
(* handler's loop over its candidates, the LLM gateway with its completion *)
(* cache and repair loop behind, and the central gate at the end.          *)
(*                                                                         *)
(* The handler is the one the critique, mitigation and reporting agents    *)
(* share: some tools first, then for each candidate an LLM generation and  *)
(* a grounding check, after which the candidate is surfaced or rejected.   *)
(* Nothing here awaits, so an invocation is never interleaved with another *)
(* one, but the process may stop between any two steps.                    *)
(***************************************************************************)
EXTENDS Naturals, FiniteSets

CONSTANTS
  Inputs,          \* trajectory cache keys: agent, input artifacts, pins
  Count,           \* Count[k]: how many candidates the input has
  Candidate,       \* Candidate[k][i]: [id, prompt, ground], the i-th one
  Prelude,         \* Prelude[k]: tool calls before the first candidate
  CallLimit,       \* CallLimit[k]: max_tool_calls of the agent
  Gated,           \* inputs given to an orchestrator that has a gate
  Prompts,         \* rendered, redacted prompts
  Completions,     \* what a provider may answer that fits the schema
  None,
  MaxRepairs,      \* max_repairs of the gateway
  MaxInvocations, MaxCrashes    \* bounds of the instance

ASSUME AgentAssumption ==
  /\ None \notin Prompts \cup Completions
  /\ Gated \subseteq Inputs
  /\ Count \in [Inputs -> Nat] /\ Prelude \in [Inputs -> Nat] /\ CallLimit \in [Inputs -> Nat]
  /\ \A k \in Inputs : \A i \in 1..Count[k] :
       /\ Candidate[k][i].prompt \in Prompts \cup {None}
       /\ Candidate[k][i].ground \subseteq Completions
  /\ MaxRepairs \in Nat /\ MaxInvocations \in Nat /\ MaxCrashes \in Nat

VARIABLES
  trajectories,   \* TrajectoryCache of the orchestrator, in memory
  completions,    \* ContentAddressedCache of the gateway, on disk
  offline,        \* deterministic mode, or a gateway without provider
  step,           \* what the running invocation does next, or "idle"
  input,          \* its input
  at,             \* the candidate it is at
  calls,          \* AgentBudget.calls
  attempts,       \* failed attempts of the completion it waits for
  reply,          \* the completion of the candidate it is at
  surfaced,       \* its findings: <<candidate, completion>>
  rejected,       \* the candidates in its rejection log
  paid,           \* history: provider calls made for each prompt
  answers,        \* history: every output returned for each input
  invoked,        \* history: how many invocations were made
  crashes         \* history: how often the process stopped

stores  == <<trajectories, completions>>
locals  == <<input, at, calls, attempts, reply, surfaced, rejected>>
outcomes == <<paid, answers, invoked, crashes>>
agentVars == <<trajectories, completions, offline, step, input, at, calls, attempts,
               reply, surfaced, rejected, paid, answers, invoked, crashes>>

Positions(k) == 1..Count[k]
Here         == Candidate[input][at]
Output       == [surfaced |-> surfaced, rejected |-> rejected]
Outputs      == [surfaced : SUBSET (Nat \X Completions), rejected : SUBSET Nat]
Steps        == {"idle", "detect", "candidate", "generate", "ask", "store", "check", "gate"}

AgentInit ==
  /\ trajectories = [k \in Inputs |-> None]
  /\ completions = [p \in Prompts |-> None]
  /\ offline \in BOOLEAN
  /\ step = "idle" /\ input \in Inputs /\ at = 1 /\ calls = 0 /\ attempts = 0
  /\ reply = None /\ surfaced = {} /\ rejected = {}
  /\ paid = [p \in Prompts |-> 0]
  /\ answers = [k \in Inputs |-> {}]
  /\ invoked = 0 /\ crashes = 0

-----------------------------------------------------------------------------

(* Orchestrator.invoke: an output of the trajectory cache is returned as   *)
(* it is, without a tool call and without the gate; otherwise the handler  *)
(* starts with a budget of its own.                                        *)
Invoke(k) ==
  /\ step = "idle" /\ invoked < MaxInvocations
  /\ invoked' = invoked + 1
  /\ IF trajectories[k] # None
       THEN /\ answers' = [answers EXCEPT ![k] = @ \cup {trajectories[k]}]
            /\ UNCHANGED <<step, locals>>
       ELSE /\ step' = "detect"
            /\ input' = k /\ at' = 1 /\ calls' = 0 /\ attempts' = 0
            /\ reply' = None /\ surfaced' = {} /\ rejected' = {}
            /\ UNCHANGED answers
  /\ UNCHANGED <<stores, offline, paid, crashes>>

(* The exceptions of the budget, the gateway and the gate have no handler  *)
(* on the way: the invocation ends and nothing is cached for its input.    *)
Fail ==
  /\ step' = "idle"
  /\ UNCHANGED <<locals, stores, offline, outcomes>>

(* A handler is about to call a tool. *)
InTool == \/ step \in {"generate", "check"}
          \/ step = "detect" /\ calls < Prelude[input]

BugBudgetTruncates ==
  /\ InTool /\ calls + 1 > CallLimit[input]
  /\ step' = "gate"
  /\ UNCHANGED <<locals, stores, offline, outcomes>>

(* AgentContext.call_tool counts a call before it makes it; the call that  *)
(* goes past the limit is not made.                                        *)
Exceeded == InTool /\ calls + 1 > CallLimit[input] /\ Fail

Charge ==
  /\ InTool /\ calls + 1 <= CallLimit[input]
  /\ calls' = calls + 1

(* The tools before the loop: the detectors, or collect_known_ids. *)
Detect ==
  /\ step = "detect" /\ Charge
  /\ UNCHANGED <<step, input, at, attempts, reply, surfaced, rejected, stores, offline, outcomes>>

(* The head of the loop.  A candidate without reference data is rejected   *)
(* at once; after the last one the handler returns to the gate.            *)
NextCandidate ==
  /\ step \in {"detect", "candidate"} /\ ~InTool
  /\ IF at > Count[input]
       THEN step' = "gate" /\ UNCHANGED <<at, rejected>>
     ELSE IF Here.prompt = None
       THEN step' = "candidate" /\ at' = at + 1 /\ rejected' = rejected \cup {at}
     ELSE step' = "generate" /\ UNCHANGED <<at, rejected>>
  /\ UNCHANGED <<input, calls, attempts, reply, surfaced, stores, offline, outcomes>>

BugIgnoresCache ==
  /\ step = "generate" /\ Charge
  /\ step' = IF offline THEN "idle" ELSE "ask"
  /\ attempts' = 0
  /\ UNCHANGED <<input, at, reply, surfaced, rejected, stores, offline, outcomes>>

(* The generation tool calls LLMGateway.complete_structured, which refuses *)
(* without a provider, looks its cache up, or starts to ask.               *)
Generate ==
  /\ step = "generate" /\ Charge
  /\ IF offline
       THEN step' = "idle" /\ UNCHANGED <<reply, attempts>>
     ELSE IF completions[Here.prompt] # None
       THEN step' = "check" /\ reply' = completions[Here.prompt] /\ UNCHANGED attempts
     ELSE step' = "ask" /\ attempts' = 0 /\ UNCHANGED reply
  /\ UNCHANGED <<input, at, surfaced, rejected, stores, offline, outcomes>>

(* One call of the provider (paid is capped one past what an invocation    *)
(* may spend, so that a loop without end has finitely many states).        *)
MaxPaid == (MaxRepairs + 1) * MaxInvocations
Pay ==
  /\ step = "ask"
  /\ paid' = [paid EXCEPT ![Here.prompt] = IF @ > MaxPaid THEN @ ELSE @ + 1]
  /\ UNCHANGED <<answers, invoked, crashes>>

AnswerFits ==
  /\ Pay
  /\ reply' \in Completions
  /\ step' = "store"
  /\ UNCHANGED <<input, at, calls, attempts, surfaced, rejected, stores, offline>>

BugOneRepairMore ==
  /\ Pay
  /\ attempts' = attempts + 1
  /\ step' = IF attempts' > MaxRepairs + 1 THEN "idle" ELSE "ask"
  /\ UNCHANGED <<input, at, calls, reply, surfaced, rejected, stores, offline>>

BugStartsOver ==
  /\ Pay
  /\ attempts' = (attempts + 1) % (MaxRepairs + 1)
  /\ UNCHANGED <<step, input, at, calls, reply, surfaced, rejected, stores, offline>>

(* IF the answer does not fit the schema                                   *)
(* THEN it is asked for again, at most MaxRepairs times.                   *)
AnswerMalformed ==
  /\ Pay
  /\ attempts' = attempts + 1
  /\ step' = IF attempts' > MaxRepairs THEN "idle" ELSE "ask"
  /\ UNCHANGED <<input, at, calls, reply, surfaced, rejected, stores, offline>>

(* ProviderRequestError (a status, a connection error, the 120 s timeout)  *)
(* is not retried.                                                         *)
ProviderFails ==
  /\ Pay
  /\ step' = "idle"
  /\ UNCHANGED <<locals, stores, offline>>

BugCachesFirstTry ==
  /\ step = "store"
  /\ completions' = IF attempts = 0 THEN [completions EXCEPT ![Here.prompt] = reply] ELSE completions
  /\ step' = "check"
  /\ UNCHANGED <<locals, trajectories, offline, outcomes>>

(* ContentAddressedCache.put: an entry that exists is kept, a new one      *)
(* appears whole (written aside, then renamed).                            *)
Store ==
  /\ step = "store"
  /\ completions' = [completions EXCEPT ![Here.prompt] = IF @ = None THEN reply ELSE @]
  /\ step' = "check"
  /\ UNCHANGED <<locals, trajectories, offline, outcomes>>

(* The grounding tool decides whether the candidate is surfaced. *)
Check ==
  /\ step = "check" /\ Charge
  /\ IF reply \in Here.ground
       THEN surfaced' = surfaced \cup {<<at, reply>>} /\ UNCHANGED rejected
       ELSE rejected' = rejected \cup {at} /\ UNCHANGED surfaced
  /\ at' = at + 1
  /\ step' = "candidate"
  /\ UNCHANGED <<input, attempts, reply, stores, offline, outcomes>>

(* The ids of a set of candidates; two candidates may have the same one.   *)
Ids(k, S) == {Candidate[k][i].id : i \in S}

(* The central gate, if the orchestrator was given one, refuses an output  *)
(* that has the same id among its findings and in its rejection log.  (It  *)
(* also asks that a finding cites something, which a grounded one does.)   *)
PassesGate ==
  input \in Gated => Ids(input, {f[1] : f \in surfaced}) \cap Ids(input, rejected) = {}

(* The end of Orchestrator.invoke. *)
Finish ==
  /\ step = "gate" /\ PassesGate
  /\ trajectories' = [trajectories EXCEPT ![input] = Output]
  /\ answers' = [answers EXCEPT ![input] = @ \cup {Output}]
  /\ step' = "idle"
  /\ UNCHANGED <<locals, completions, offline, paid, invoked, crashes>>

GateRefuses == step = "gate" /\ ~PassesGate /\ Fail

(* The next request builds an orchestrator of its own. *)
NewOrchestrator ==
  /\ step = "idle"
  /\ trajectories' = [k \in Inputs |-> None]
  /\ UNCHANGED <<step, locals, completions, offline, outcomes>>

(* The process stops: what is on disk stays. *)
Crash ==
  /\ crashes < MaxCrashes
  /\ crashes' = crashes + 1
  /\ step' = "idle"
  /\ trajectories' = [k \in Inputs |-> None]
  /\ UNCHANGED <<locals, completions, offline, paid, answers, invoked>>

Progress ==
  \/ Exceeded \/ Detect \/ NextCandidate \/ Generate
  \/ AnswerFits \/ AnswerMalformed \/ ProviderFails
  \/ Store \/ Check \/ Finish \/ GateRefuses

AgentNext == Progress \/ NewOrchestrator \/ Crash \/ \E k \in Inputs : Invoke(k)

AgentSpec == AgentInit /\ [][AgentNext]_agentVars
FairAgentSpec == AgentSpec /\ WF_agentVars(Progress)

-----------------------------------------------------------------------------

(* Kinds; and no prompt is paid for more than MaxRepairs + 1 times in an   *)
(* invocation, whatever the provider answers (the loop of the gateway).    *)
AgentTypeOK ==
  /\ trajectories \in [Inputs -> Outputs \cup {None}]
  /\ completions \in [Prompts -> Completions \cup {None}]
  /\ offline \in BOOLEAN /\ step \in Steps /\ input \in Inputs
  /\ at \in 1..Count[input] + 1 /\ calls \in Nat /\ attempts \in Nat
  /\ reply \in Completions \cup {None}
  /\ surfaced \subseteq Nat \X Completions /\ rejected \subseteq Nat
  /\ paid \in [Prompts -> 0..MaxPaid]
  /\ answers \in [Inputs -> SUBSET Outputs]
  /\ invoked \in Nat /\ crashes \in Nat

(* "Identical reruns are byte-identical": an input has one output, on a    *)
(* cache hit, after a failure, in the orchestrator of a later request and  *)
(* after a restart, although no provider answers twice alike.              *)
Reproducible ==
  \A k \in Inputs : \A o1, o2 \in answers[k] : o1 = o2

(* A returned output is never a truncated one: every candidate is surfaced *)
(* with one grounded completion or rejected, not both, no id is on both    *)
(* sides, and the calls this took are within the agent's budget.           *)
AnswersAccountForAll ==
  \A k \in Inputs : \A o \in answers[k] :
    LET found == {f[1] : f \in o.surfaced}
        asked == {i \in Positions(k) : Candidate[k][i].prompt # None}
    IN  /\ found \cup o.rejected = Positions(k) /\ found \cap o.rejected = {}
        /\ \A f \in o.surfaced : f[2] \in Candidate[k][f[1]].ground
        /\ \A f, g \in o.surfaced : f[1] = g[1] => f = g
        /\ k \in Gated => Ids(k, found) \cap Ids(k, o.rejected) = {}
        /\ Prelude[k] + 2 * Cardinality(asked) <= CallLimit[k]

(* A completion on disk is never replaced and never paid for again, and    *)
(* the deterministic mode pays for nothing ("cache hit = zero network      *)
(* calls").                                                                *)
NothingPaidTwice ==
  [][\A p \in Prompts :
       /\ completions[p] # None => completions'[p] = completions[p]
       /\ offline \/ completions[p] # None => paid'[p] = paid[p]]_agentVars

(* Every invocation ends, in an output or an exception: the repair loop    *)
(* and the loop over the candidates are bounded.                           *)
InvocationEnds == step # "idle" ~> step = "idle"
=============================================================================
