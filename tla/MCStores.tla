------------------------------ MODULE MCStores ------------------------------
(* What the service keeps outside the tables of the other modules, one     *)
(* part at a time, the caches behind an agent's invocations among them:    *)
(* the parts share no state, so a behaviour is that of one of them while   *)
(* the others stay as they are at the start.                               *)
EXTENDS ProfileStore, Articles, Documents, RateLimit, Tiering, AgentInvocation

CONSTANTS r1, r2, u1, u2, p1, p2, p3, d1, d2, d3, d4, s1, s2, c1, q1, q2,
  url, text1, text2, fileA, fileB, good, bad, none

VARIABLE part

(* Two refreshes; two sources, of which the hash covers the first. *)
MCRefreshes == {r1, r2}
MCSources == {"techniques", "catalogue"}
MCUpstreams == [MCSources -> {1, 2}]
MCContentHash == [f \in MCUpstreams |-> f["techniques"]]
MCUploads == {u1, u2}
MCCatalogOf == [u \in MCUploads |-> "catalogue"]

(* One text pasted and behind a URL, and another text. *)
MCPosts == {p1, p2, p3}
MCTextOf == [p \in MCPosts |-> IF p = p3 THEN text2 ELSE text1]
MCUrlOf == [p \in MCPosts |-> IF p = p2 THEN url ELSE NoUrl]

(* Two of the same content, one empty or too large for the handler, one    *)
(* too large for the body limit.                                           *)
MCDocumentUploads == {d1, d2, d3, d4}
MCFileOf == [d \in MCDocumentUploads |-> IF d \in {d1, d2} THEN fileA ELSE fileB]
MCSizeOf == [d \in MCDocumentUploads |-> IF d = d3 THEN 3 ELSE IF d = d4 THEN 5 ELSE 2]

MCSubmissions == {s1, s2}
MCQuestionIds == <<"1.1", "2.1", "2.3", "3.1">>
MCTierIfYes == [q \in Range(MCQuestionIds) |->
  CASE q = "1.1" -> 1 [] q \in {"2.1", "2.3"} -> 2 [] OTHER -> 3]
MCYes == [s \in MCSubmissions |-> IF s = s1 THEN {"2.3", "3.1"} ELSE {"2.1", "2.3"}]

(* Four inputs that share two prompts: two ordinary candidates; two with   *)
(* the same id; one input past its budget; one for an orchestrator without *)
(* a gate, with a candidate that lacks reference data.                     *)
MCPrompts == {q1, q2}
MCCompletions == {good, bad}

Of(id, prompt) == [id |-> id, prompt |-> prompt, ground |-> {good}]
MCCandidate == [
  ordinary  |-> <<Of("x", q1), Of("y", q2)>>,
  colliding |-> <<Of("x", q1), Of("x", q2)>>,
  costly    |-> <<Of("x", q2), Of("y", q1)>>,
  ungated   |-> <<Of("x", q2), Of("z", none)>>]

MCInputs == DOMAIN MCCandidate
MCCount == [k \in MCInputs |-> 2]
MCPrelude == [k \in MCInputs |-> IF k = "ungated" THEN 0 ELSE 1]
MCCallLimit == [k \in MCInputs |-> CASE k = "costly" -> 4 [] k = "ungated" -> 2 [] OTHER -> 5]
MCGated == MCInputs \ {"ungated"}

Idle == CHOOSE u \in Upstreams : TRUE

StoresInit ==
  /\ part \in {"profiles", "articles", "documents", "limits", "tiering", "agents"}
  /\ StoreInit /\ (part # "profiles" => upstream = Idle)
  /\ TieringInit /\ (part # "tiering" => turns)
  /\ AgentInit /\ (part # "agents" => ~offline /\ input = "ordinary")
  /\ ArticlesInit /\ DocumentsInit /\ RateInit

StoresNext ==
  \/ part = "profiles" /\ StoreNext
     /\ UNCHANGED <<part, articleVars, documentVars, rateVars, tieringVars, agentVars>>
  \/ part = "articles" /\ ArticlesNext
     /\ UNCHANGED <<part, storeVars, documentVars, rateVars, tieringVars, agentVars>>
  \/ part = "documents" /\ DocumentsNext
     /\ UNCHANGED <<part, storeVars, articleVars, rateVars, tieringVars, agentVars>>
  \/ part = "limits" /\ RateNext
     /\ UNCHANGED <<part, storeVars, articleVars, documentVars, tieringVars, agentVars>>
  \/ part = "tiering" /\ TieringNext
     /\ UNCHANGED <<part, storeVars, articleVars, documentVars, rateVars, agentVars>>
  \/ part = "agents" /\ AgentNext
     /\ UNCHANGED <<part, storeVars, articleVars, documentVars, rateVars, tieringVars>>

StoresSpec ==
  /\ StoresInit
  /\ [][StoresNext]_<<part, storeVars, articleVars, documentVars, rateVars, tieringVars, agentVars>>
  /\ WF_agentVars(Progress)
=============================================================================
