----------------------------- MODULE RateLimit -----------------------------
(***************************************************************************)
(* The sliding window of api/rate_limit.py: the time stamps of what was    *)
(* admitted, per client, in memory.  The dependency does not await, so a   *)
(* request is one step.                                                    *)
(***************************************************************************)
EXTENDS Naturals, Sequences, FiniteSets, SequencesExt

CONSTANTS
  Clients,
  Limit,        \* rate_limit_per_minute
  Window,       \* _WINDOW_SECONDS
  MaxTime,      \* bound: the clock
  MaxRestarts   \* bound: restarts of the process

ASSUME RateAssumption ==
  Limit \in Nat /\ Window \in Nat /\ MaxTime \in Nat /\ MaxRestarts \in Nat

VARIABLES
  time,         \* time.monotonic
  hits,         \* _hits: the time stamps kept for each client
  history,      \* everything admitted, with the restarts before it
  refused,      \* the last refusal: the client and when
  restarts

rateVars == <<time, hits, history, refused, restarts>>

RateInit ==
  /\ time = 0 /\ restarts = 0 /\ refused = <<>>
  /\ hits = [c \in Clients |-> <<>>]
  /\ history = [c \in Clients |-> <<>>]

Pass ==
  /\ time < MaxTime /\ time' = time + 1
  /\ UNCHANGED <<hits, history, refused, restarts>>

(* What is left when stamps are popped from the front.                     *)
From(stamps, i) == IF i = 0 THEN <<>> ELSE SubSeq(stamps, i, Len(stamps))

(* A programming error: a stamp at the very edge is forgotten. *)
BugPopsTheEdge(stamps) == From(stamps, SelectInSeq(stamps, LAMBDA at : at + Window > time))

(* Stamps are popped up to the first that is not before the window. *)
Recent(stamps) == From(stamps, SelectInSeq(stamps, LAMBDA at : at + Window >= time))

Request(c) ==
  LET kept == Recent(hits[c]) IN
  /\ IF Len(kept) >= Limit
     THEN /\ refused' = [client |-> c, at |-> time]
          /\ hits' = [hits EXCEPT ![c] = kept]
          /\ UNCHANGED history
     ELSE /\ hits' = [hits EXCEPT ![c] = Append(kept, time)]
          /\ history' = [history EXCEPT ![c] = Append(@, [at |-> time, after |-> restarts])]
          /\ UNCHANGED refused
  /\ UNCHANGED <<time, restarts>>

(* _hits lives in the process. *)
RestartLimiter ==
  /\ restarts < MaxRestarts /\ restarts' = restarts + 1
  /\ hits' = [c \in Clients |-> <<>>]
  /\ refused' = <<>>
  /\ UNCHANGED <<time, history>>

RateNext == Pass \/ RestartLimiter \/ \E c \in Clients : Request(c)
RateSpec == RateInit /\ [][RateNext]_rateVars

-----------------------------------------------------------------------------

(* What a client had admitted from one time to another, since the start. *)
Between(c, from, to) ==
  {i \in DOMAIN history[c] : history[c][i].after = restarts /\ history[c][i].at \in from..to}

(* In no window of Window seconds, both ends included, does a client get   *)
(* more than Limit requests through, wherever the window begins; and it is *)
(* refused only when that many went through in the window that ends then.  *)
WindowRespected ==
  /\ \A c \in Clients, t \in 0..time : Cardinality(Between(c, t, t + Window)) =< Limit
  /\ refused # <<>> =>
       Cardinality(Between(refused.client, IF refused.at < Window THEN 0 ELSE refused.at - Window, refused.at)) >= Limit
=============================================================================
