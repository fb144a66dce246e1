--------------------------- MODULE AnalysisProofs ---------------------------
(***************************************************************************)
(* What the analyses compute, for any model, rules, corpus and budgets.    *)
(* Induction over a number, a sequence's length say, is by the least       *)
(* number for which a statement fails (HasLeast, UpTo).                    *)
(***************************************************************************)
EXTENDS Invalidation, Critique, ModelBuilding, Mitigation, WellFoundedInduction, FiniteSetTheorems, TLAPS

-----------------------------------------------------------------------------
(* Invalidation: compute_affected returns the least set that is closed     *)
(* under "consumes what changed or what an affected agent produces", for   *)
(* every registry, of any number of agents.                                *)

(* What is dirty is what changed and what the affected agents produce; all *)
(* of them are in every closed set; the last round found nobody.           *)
Propagated ==
  /\ affected \subseteq Agents
  /\ dirty = changed \cup Produced(affected)
  /\ \A S \in SUBSET Agents : Closed(S) => affected \subseteq S
  /\ returned => NewlyAffected = {}

(* A larger set of agents produces more. *)
LEMMA ProducedMonotonic ==
  ASSUME NEW S, NEW T, S \subseteq T
  PROVE  Produced(S) \subseteq Produced(T)
BY DEF Produced

(* A round makes dirty exactly what the larger affected set produces. *)
LEMMA ProducedUnion ==
  ASSUME NEW S, NEW T
  PROVE  Produced(S \cup T) = Produced(S) \cup Produced(T)
BY DEF Produced

(* An agent that consumes what a part of a closed set made dirty is in the *)
(* closed set.                                                             *)
LEMMA ClosedAbsorbs ==
  ASSUME Propagated, NEW S \in SUBSET Agents, Closed(S)
  PROVE  NewlyAffected \subseteq S
<1>1. affected \subseteq S
  BY DEF Propagated
<1>2. dirty \subseteq changed \cup Produced(S)
  BY <1>1, ProducedMonotonic DEF Propagated
<1>3. SUFFICES ASSUME NEW a \in NewlyAffected PROVE a \in S
  OBVIOUS
<1>4. a \in Agents /\ registry[a].inputs \cap dirty # {}
  BY <1>3 DEF NewlyAffected
<1>5. registry[a].inputs \cap (changed \cup Produced(S)) # {}
  BY <1>2, <1>4
<1>6. QED
  BY <1>4, <1>5 DEF Closed

LEMMA PropagatedInit == InvalidationInit => Propagated
<1>1. Produced({}) = {}
  BY DEF Produced
<1>2. QED
  BY <1>1 DEF InvalidationInit, Propagated

LEMMA PropagatedStep == Propagated /\ [InvalidationNext]_invalidation => Propagated'
<1>1. SUFFICES ASSUME Propagated, [InvalidationNext]_invalidation PROVE Propagated'
  OBVIOUS
<1>2. CASE Propagate
  <2>1. UNCHANGED <<registry, changed>> /\ returned' = FALSE
    BY <1>2 DEF Propagate
  <2>2. /\ affected' = affected \cup NewlyAffected
        /\ dirty' = dirty \cup Produced(NewlyAffected)
    BY <1>2 DEF Propagate
  <2>3. affected' \subseteq Agents
    BY <1>1, <2>2 DEF Propagated, NewlyAffected
  <2>4. dirty' = changed \cup Produced(affected \cup NewlyAffected)
    BY <1>1, <2>2, ProducedUnion DEF Propagated
  <2>5. \A S : Produced(S)' = Produced(S) /\ Closed(S)' = Closed(S)
    BY <2>1 DEF Produced, Closed
  <2>6. \A S \in SUBSET Agents : Closed(S) => affected' \subseteq S
    BY <1>1, <2>2, ClosedAbsorbs DEF Propagated
  <2>7. dirty' = changed' \cup Produced(affected)'
    BY <2>1, <2>2, <2>4 DEF Produced
  <2>8. \A S \in SUBSET Agents : Closed(S)' => affected' \subseteq S
    BY <2>5, <2>6
  <2>9. QED
    BY <2>1, <2>3, <2>7, <2>8 DEF Propagated
<1>3. CASE ReturnAffected
  BY <1>1, <1>3 DEF ReturnAffected, Propagated, NewlyAffected, Produced, Closed
<1>4. CASE UNCHANGED invalidation
  BY <1>1, <1>4 DEF invalidation, Propagated, NewlyAffected, Produced, Closed
<1>5. QED
  BY <1>1, <1>2, <1>3, <1>4 DEF InvalidationNext

LEMMA PropagatedIsLeast == Propagated => AffectedIsLeast
<1>1. SUFFICES ASSUME Propagated PROVE AffectedIsLeast
  OBVIOUS
<1>2. ASSUME returned PROVE Closed(affected)
  BY <1>1, <1>2 DEF Propagated, Closed, NewlyAffected
<1>3. QED
  BY <1>1, <1>2 DEF Propagated, AffectedIsLeast

(* InvalidationGraph.compute_affected: every agent downstream of a change  *)
(* is affected, and no other.                                              *)
THEOREM AffectedAreLeast == InvalidationSpec => []AffectedIsLeast
<1>1. InvalidationSpec => []Propagated
  BY PropagatedInit, PropagatedStep, PTL DEF InvalidationSpec
<1>2. QED
  BY <1>1, PropagatedIsLeast, PTL

-----------------------------------------------------------------------------
(* Numbers.                                                                *)

(* Every set of naturals that is not empty has a least element.            *)
LEMMA HasLeast ==
  ASSUME NEW S \in SUBSET Nat, S # {}
  PROVE  \E m \in S : \A x \in S : m =< x
<1> DEFINE R == {ss \in Nat \X Nat : ss[1] < ss[2]}
<1>1. IsWellFoundedOn(R, Nat)
  BY NatLessThanWellFounded DEF OpToRel
<1>2. \A x, y \in Nat : x < y => <<x, y>> \in R
  OBVIOUS
<1> HIDE DEF R
<1>3. PICK m \in S : \A x \in S : <<x, m>> \notin R
  BY <1>1, WFMin
<1>4. ASSUME NEW x \in S PROVE m =< x
  <2>1. x \in Nat /\ m \in Nat /\ ~(x < m)
    BY <1>2, <1>3
  <2> QED  BY <2>1
<1> QED  BY <1>4

(* A set of naturals that holds 0 and with each number below n the next    *)
(* one holds all up to n.                                                  *)
LEMMA UpTo ==
  ASSUME NEW S, NEW n \in Nat, 0 \in S, \A i \in 0..n : i + 1 \in 0..n /\ i \in S => i + 1 \in S
  PROVE  \A i \in 0..n : i \in S
<1> DEFINE Out == {i \in 0..n : i \notin S}
<1>1. SUFFICES ASSUME Out # {} PROVE FALSE
  OBVIOUS
<1>0. Out \in SUBSET Nat
  OBVIOUS
<1>2. PICK m \in Out : \A x \in Out : m =< x
  <2> HIDE DEF Out
  <2> QED  BY <1>0, <1>1, HasLeast
<1>3. m \in 0..n /\ m \notin S /\ m # 0
  BY <1>2
<1>4. m - 1 \in 0..n /\ (m - 1) + 1 = m /\ m - 1 \in Nat
  BY <1>3
<1>5. m - 1 \in S
  BY <1>2, <1>4
<1> QED  BY <1>3, <1>4, <1>5

-----------------------------------------------------------------------------
(* What is bridged is techniques of the corpus.                            *)

Categories == StrideCategoriesOfRules \cup LinddunCategories

LEMMA BridgeIs ==
  ASSUME NEW c \in Categories, NEW a, NEW k \in Nat
  PROVE  Bridge(c, a, k) \in Seq(DOMAIN Score) /\ Len(Bridge(c, a, k)) =< k
<1> DEFINE r == Retrieved[c]
           n == Len(r)
           T == DOMAIN Score
           fits(t) == MatrixOf[t] \in Allowed(a) /\ CapecOf[t] # {}
           step(g, i) == IF i = 0 THEN <<>>
                         ELSE IF Len(g[i - 1]) < k /\ fits(r[i]) THEN Append(g[i - 1], r[i]) ELSE g[i - 1]
           f == CHOOSE g : g = [i \in 0..n |-> step(g, i)]
<1>1. r \in Seq(T) /\ n \in Nat /\ \A i \in 1..n : r[i] \in T
  BY CorpusAssumption DEF Categories
<1>2. Bridge(c, a, k) = f[n]
  BY DEF Bridge
<1> DEFINE M == {m \in 0..n : \E g : g = [i \in 0..m |-> step(g, i)]}
<1> HIDE DEF fits, r, n, T
<1>3. 0 \in M
  <2> DEFINE g == [i \in 0..0 |-> <<>>]
  <2>1. g = [i \in 0..0 |-> step(g, i)]
    OBVIOUS
  <2>2. \E gg : gg = [i \in 0..0 |-> step(gg, i)]
    BY <2>1
  <2> QED  BY <1>1, <2>2
<1>4. ASSUME NEW m \in 0..n, m + 1 \in 0..n, m \in M PROVE m + 1 \in M
  <2>1. PICK g : g = [i \in 0..m |-> step(g, i)]
    BY <1>4
  <2> DEFINE h == [i \in 0..(m + 1) |-> IF i = m + 1 THEN step(g, i) ELSE g[i]]
  <2>2. ASSUME NEW i \in 0..(m + 1) PROVE h[i] = step(h, i)
    <3>1. CASE i = m + 1
      <4>1. m \in 0..m /\ m \in 0..(m + 1) /\ m # m + 1 /\ i - 1 = m /\ i # 0
        BY <1>1, <3>1
      <4>2. h[i - 1] = g[i - 1] /\ h[i] = step(g, i)
        BY <3>1, <4>1
      <4> HIDE DEF h
      <4> QED  BY <4>2
    <3>2. CASE i # m + 1
      <4>1. i \in 0..m /\ i \in Nat
        BY <1>1, <3>2
      <4>2. h[i] = g[i] /\ g[i] = step(g, i)
        BY <2>1, <3>2, <4>1
      <4>3. i # 0 => h[i - 1] = g[i - 1]
        <5>1. i # 0 => i - 1 \in 0..(m + 1) /\ i - 1 # m + 1
          BY <1>1, <4>1
        <5> QED  BY <5>1
      <4> HIDE DEF h
      <4> QED  BY <4>2, <4>3
    <3> QED  BY <3>1, <3>2
  <2>3. h = [i \in 0..(m + 1) |-> step(h, i)]
    <3>1. h = [i \in 0..(m + 1) |-> h[i]]
      OBVIOUS
    <3> HIDE DEF h
    <3> QED  BY <2>2, <3>1
  <2> QED  BY <1>4, <2>3
<1>5. n \in M
  <2> HIDE DEF M
  <2>1. \A i \in 0..n : i \in M
    BY <1>1, <1>3, <1>4, UpTo
  <2> QED  BY <1>1, <2>1
<1>6. f = [i \in 0..n |-> step(f, i)]
  BY <1>5
<1> HIDE DEF f
<1> DEFINE G == {i \in 0..n : f[i] \in Seq(T) /\ Len(f[i]) =< k}
<1>7. 0 \in G
  BY <1>1, <1>6
<1>8. ASSUME NEW m \in 0..n, m + 1 \in 0..n, m \in G PROVE m + 1 \in G
  <2>1. m + 1 \in 1..n /\ (m + 1) - 1 = m
    BY <1>1, <1>8
  <2>2. f[m + 1] = IF Len(f[m]) < k /\ fits(r[m + 1]) THEN Append(f[m], r[m + 1]) ELSE f[m]
    <3>1. f[m + 1] = step(f, m + 1)
      BY <1>6, <1>8, Zenon
    <3>2. m + 1 # 0
      BY <2>1
    <3> QED  BY <2>1, <3>1, <3>2
  <2>3. f[m] \in Seq(T) /\ Len(f[m]) =< k /\ Len(f[m]) \in Nat /\ r[m + 1] \in T
    BY <1>1, <1>8, <2>1
  <2>4. f[m + 1] \in Seq(T) /\ Len(f[m + 1]) =< k
    <3>1. CASE f[m + 1] = f[m]
      BY <2>3, <3>1
    <3>2. CASE Len(f[m]) < k /\ f[m + 1] = Append(f[m], r[m + 1])
      BY <2>3, <3>2
    <3> QED  BY <2>2, <3>1, <3>2
  <2> QED  BY <1>8, <2>4
<1>9. n \in G
  <2> HIDE DEF G
  <2>1. \A i \in 0..n : i \in G
    BY <1>1, <1>7, <1>8, UpTo
  <2> QED  BY <1>1, <2>1
<1> QED  BY <1>2, <1>9 DEF T

-----------------------------------------------------------------------------
(* The attack graph.                                                       *)

(* A set that no link leaves holds y and not x: there is no way from y to  *)
(* x.                                                                      *)
Cut(N, L, x, y) ==
  \E S \in SUBSET N : y \in S /\ x \notin S /\ \A l \in L : l[1] \in S => l[2] \in S

(* With a link from n to t, where no way leads from t back to n, no link   *)
(* comes to lie on a cycle.                                                *)
LEMMA CutsSurvive ==
  ASSUME NEW N, NEW L \in SUBSET (N \X N), NEW n \in N, NEW t,
         \A l \in L : Cut(N, L, l[1], l[2]), t \in N => Cut(N, L, n, t)
  PROVE  \A l \in L \cup {<<n, t>>} : Cut(N \cup {t}, L \cup {<<n, t>>}, l[1], l[2])
<1> DEFINE NN == N \cup {t}
           LL == L \cup {<<n, t>>}
           Shut(S, links) == \A l \in links : l[1] \in S => l[2] \in S
<1>0. \A l \in L : l[1] \in N /\ l[2] \in N /\ l = <<l[1], l[2]>>
  OBVIOUS
<1>1. PICK T \in SUBSET NN : t \in T /\ n \notin T /\ Shut(T, L)
  <2>1. CASE t \in N
    <3>1. PICK S \in SUBSET N : t \in S /\ n \notin S /\ Shut(S, L)
      BY <2>1 DEF Cut
    <3> QED  BY <3>1
  <2>2. CASE t \notin N
    <3>1. Shut({t}, L)
      BY <1>0, <2>2
    <3>2. n \notin {t} /\ {t} \in SUBSET NN
      BY <2>2
    <3> QED  BY <3>1, <3>2
  <2> QED  BY <2>1, <2>2
<1>2. Shut(T, LL)
  BY <1>1
<1>3. Cut(NN, LL, n, t)
  BY <1>1, <1>2 DEF Cut
<1>4. ASSUME NEW l \in L PROVE Cut(NN, LL, l[1], l[2])
  <2>1. PICK S \in SUBSET N : l[2] \in S /\ l[1] \notin S /\ Shut(S, L)
    BY DEF Cut
  <2>2. CASE l[1] \notin T
    <3>1. Shut(S \cup T, LL)
      BY <1>1, <2>1
    <3>2. S \cup T \in SUBSET NN /\ l[2] \in S \cup T /\ l[1] \notin S \cup T
      BY <1>1, <2>1, <2>2
    <3> QED  BY <3>1, <3>2 DEF Cut
  <2>3. CASE l[1] \in T
    <3>1. Shut(S \cap T, LL)
      BY <1>1, <2>1
    <3>2. S \cap T \in SUBSET NN /\ l[2] \in S \cap T /\ l[1] \notin S \cap T
      BY <1>1, <2>1, <2>3
    <3> QED  BY <3>1, <3>2 DEF Cut
  <2> QED  BY <2>2, <2>3
<1> HIDE DEF NN, LL
<1>5. ASSUME NEW l \in LL PROVE Cut(NN, LL, l[1], l[2])
  <2>1. l \in L \/ l = <<n, t>>
    BY DEF LL
  <2> QED  BY <1>3, <1>4, <2>1
<1> QED  BY <1>5 DEF NN, LL

GraphTypes ==
  /\ model \in Models /\ IsFiniteSet(nodes) /\ IsFiniteSet(DOMAIN edges)
  /\ queue \in Seq(nodes) /\ current \subseteq nodes /\ \A a, b \in current : a = b
  /\ \A n \in nodes : n.entity \in DOMAIN model.components /\ n.privilege \in {None, User, Admin}

WithinBudgets == Cardinality(nodes) =< NodeBudget /\ Cardinality(DOMAIN edges) =< EdgeBudget

EdgesSound ==
  \A k \in DOMAIN edges :
    /\ k[1] \in nodes /\ k[2] \in nodes
    /\ model.flows[edges[k].flow].source = k[1].entity
    /\ model.flows[edges[k].flow].destination = k[2].entity
    /\ k[1].privilege =< k[2].privilege
    /\ k[2].privilege = Admin => k[1].privilege # None

NoCycle == \A l \in Links : Cut(nodes, Links, l[1], l[2])

(* What is left for a state is a candidate of a flow that leaves it.       *)
TodoSound ==
  /\ todo # {} => index /\ built = "walking"
  /\ \A x \in todo : x = <<x[1], x[2]>>
  /\ \A x \in todo, n \in current :
       /\ x[1] \in FlowsFrom(model, n.entity) /\ Exposed(model, n, x[1])
       /\ x[2] \in FlowCandidates(model, x[1])

(* No state that is not held in every set that holds all.                  *)
OnlyHeld == \A S : HoldsAll(S) => nodes \subseteq S

(* Each state is queued, or each of its moves was made or is left to do.   *)
CandidateOf(f, c) == [element |-> f, kind |-> "dataflow", framework |-> "stride", category |-> c]
Move(n, f, c) ==
  /\ f \in FlowsFrom(model, n.entity) /\ c \in StrideCategories("dataflow", {})
  /\ Exposed(model, n, f) /\ Permitted(n, model.flows[f], c)
  /\ Bridge(c, atlas, TechniquesPerTransition) # <<>>
Waiting(n) == \E i \in DOMAIN queue : queue[i] = n
Accounted ==
  index /\ built # "exceeded" =>
    \A n \in nodes : Waiting(n) \/
      \A f, c : Move(n, f, c) =>
        Target(model, n, f, c) \in nodes \/ (n \in current /\ <<f, CandidateOf(f, c)>> \in todo)

Seeds ==
  /\ built \notin {"seeding", "exceeded"} => \A a \in Actors(model) : Start(a) \in nodes
  /\ built \notin {"seeding", "walking", "exceeded"} => todo = {} /\ queue = <<>>

GInv ==
  GraphTypes /\ WithinBudgets /\ EdgesSound /\ NoCycle /\ TodoSound /\ OnlyHeld /\ Accounted /\ Seeds

LEMMA GInvInit == AttackInit => GInv
<1> SUFFICES ASSUME AttackInit PROVE GInv
  OBVIOUS
<1>1. /\ model \in Models /\ nodes = {} /\ edges = <<>> /\ queue = <<>> /\ current = {} /\ todo = {}
      /\ built = "seeding"
  BY DEF AttackInit
<1>2. DOMAIN edges = {} /\ IsFiniteSet({}) /\ Cardinality({}) = 0 /\ <<>> \in Seq(nodes)
  BY <1>1, FS_EmptySet
<1>3. GraphTypes /\ WithinBudgets
  BY <1>1, <1>2, AttackAssumption DEF GraphTypes, WithinBudgets
<1>4. EdgesSound /\ NoCycle /\ TodoSound
  BY <1>1, <1>2 DEF EdgesSound, NoCycle, Links, TodoSound
<1>5. OnlyHeld /\ Accounted /\ Seeds
  BY <1>1 DEF OnlyHeld, Accounted, Seeds
<1> QED  BY <1>3, <1>4, <1>5 DEF GInv

(* A move that is left to do for a state is a move, and the other way.     *)
LEMMA CandidateIsMove ==
  ASSUME GInv, NEW f \in DOMAIN model.flows, NEW x \in FlowCandidates(model, f)
  PROVE  x.category \in StrideCategories("dataflow", {}) /\ x = CandidateOf(f, x.category)
<1>1. x \in Candidates(model) /\ x.element = f /\ x.kind = "dataflow" /\ x.framework = "stride"
  BY DEF FlowCandidates
<1>2. WellFormed(model)
  BY AttackAssumption DEF GInv, GraphTypes
<1>3. ASSUME NEW c \in DOMAIN model.components,
             x \in CandidatesOn(c, model.components[c].kind, model.components[c].tags, c \in PersonalData(model))
      PROVE  FALSE
  <2>1. x.kind = model.components[c].kind
    BY <1>3 DEF CandidatesOn
  <2> QED  BY <1>1, <1>2, <2>1 DEF WellFormed
<1>4. PICK g, personal : x \in CandidatesOn(g, "dataflow", {}, personal)
  BY <1>1, <1>3 DEF Candidates
<1>5. PICK c \in StrideCategories("dataflow", {}) : x = CandidateOf(g, c)
  BY <1>1, <1>4 DEF CandidatesOn, CandidateOf
<1> QED  BY <1>1, <1>5 DEF CandidateOf

LEMMA MoveIsCandidate ==
  ASSUME NEW n, NEW f, NEW c, Move(n, f, c)
  PROVE  CandidateOf(f, c) \in FlowCandidates(model, f) /\ CandidateOf(f, c) \in Candidates(model)
<1>1. f \in DOMAIN model.flows /\ {model.flows[f].source, model.flows[f].destination} \cap OutOfScope(model) = {}
      /\ c \in StrideCategories("dataflow", {})
  BY DEF Move, FlowsFrom
<1>2. CandidateOf(f, c) \in
        CandidatesOn(f, "dataflow", {}, {model.flows[f].source, model.flows[f].destination} \cap PersonalData(model) # {})
  BY <1>1 DEF CandidatesOn, CandidateOf
<1>3. ~({model.flows[f].source, model.flows[f].destination} \subseteq OutOfScope(model))
  BY <1>1
<1>4. CandidateOf(f, c) \in Candidates(model)
  BY <1>1, <1>2, <1>3 DEF Candidates
<1> QED  BY <1>4 DEF FlowCandidates, CandidateOf

LEMMA MovesAre ==
  ASSUME NEW n
  PROVE  Moves(model, n) = {Target(model, n, x[1], x[2]) : x \in {x \in (DOMAIN model.flows) \X StrideCategories("dataflow", {}) : Move(n, x[1], x[2])}}
BY DEF Moves, Move, FlowsFrom

(* What depends on the input alone. *)
LEMMA InputKept ==
  ASSUME UNCHANGED <<model, atlas, index>>
  PROVE  /\ \A S : HoldsAll(S)' <=> HoldsAll(S)
         /\ \A n, f, c : Move(n, f, c)' <=> Move(n, f, c)
BY DEF HoldsAll, Moves, Move

(* More states make no cut of the same links vanish. *)
LEMMA CutInMore ==
  ASSUME NEW N, NEW M, N \subseteq M, NEW L, NEW x, NEW y, Cut(N, L, x, y)
  PROVE  Cut(M, L, x, y)
BY DEF Cut

LEMMA SeqInMore ==
  ASSUME NEW N, NEW M, N \subseteq M, NEW s \in Seq(N)
  PROVE  s \in Seq(M)
OBVIOUS

(* A state that is added is queued. *)
LEMMA Queued ==
  ASSUME GInv, NEW t
  PROVE  /\ Append(queue, t) \in Seq(nodes \cup {t})
         /\ \E i \in DOMAIN Append(queue, t) : Append(queue, t)[i] = t
         /\ \A n : Waiting(n) => \E i \in DOMAIN Append(queue, t) : Append(queue, t)[i] = n
<1>1. queue \in Seq(nodes) /\ Len(queue) \in Nat /\ DOMAIN queue = 1..Len(queue)
  BY DEF GInv, GraphTypes
<1> DEFINE q == Append(queue, t)
<1>2. /\ q \in Seq(nodes \cup {t}) /\ DOMAIN q = 1..(Len(queue) + 1) /\ q[Len(queue) + 1] = t
      /\ \A i \in 1..Len(queue) : q[i] = queue[i]
  BY <1>1, SeqInMore
<1> HIDE DEF q
<1>3. ASSUME NEW n, Waiting(n) PROVE \E i \in DOMAIN q : q[i] = n
  <2>1. PICK i \in 1..Len(queue) : queue[i] = n
    BY <1>1, <1>3 DEF Waiting
  <2>2. i \in DOMAIN q /\ q[i] = n
    BY <1>1, <1>2, <2>1
  <2> QED  BY <2>2
<1>4. \E i \in DOMAIN q : q[i] = t
  <2>1. Len(queue) + 1 \in DOMAIN q
    BY <1>1, <1>2
  <2> QED  BY <1>2, <2>1
<1> QED  BY <1>2, <1>3, <1>4 DEF q

(* One more of fewer than a bound. *)
LEMMA OneMore ==
  ASSUME NEW S, IsFiniteSet(S), NEW x, NEW n \in Nat, ~(Cardinality(S) >= n)
  PROVE  IsFiniteSet(S \cup {x}) /\ Cardinality(S \cup {x}) =< n
<1>1. Cardinality(S) \in Nat
  BY FS_CardinalityType
<1>2. IsFiniteSet(S \cup {x}) /\ Cardinality(S \cup {x}) = IF x \in S THEN Cardinality(S) ELSE Cardinality(S) + 1
  BY FS_AddElement
<1> QED  BY <1>1, <1>2

LEMMA GInvSeed ==
  ASSUME GInv, NEW a \in Actors(model), Seed(a)
  PROVE  GInv'
<1> USE DEF GInv
<1>0. /\ built = "seeding" /\ todo = {} /\ UNCHANGED <<model, atlas, index, edges, current, todo>>
  BY DEF Seed, TodoSound
<1>1. Links' = Links
  BY <1>0 DEF Links
<1>2. CASE Exceeds
  <2>1. built' = "exceeded" /\ UNCHANGED <<nodes, queue>>
    BY <1>2 DEF Seed
  <2>2. GraphTypes' /\ WithinBudgets' /\ EdgesSound' /\ NoCycle'
    BY <1>0, <1>1, <2>1 DEF GraphTypes, WithinBudgets, EdgesSound, NoCycle
  <2>3. TodoSound' /\ Accounted' /\ Seeds'
    BY <1>0, <2>1 DEF TodoSound, Accounted, Seeds
  <2>4. OnlyHeld'
    BY <1>0, <2>1, InputKept DEF OnlyHeld
  <2> QED  BY <2>2, <2>3, <2>4
<1>3. CASE ~Exceeds
  <2> DEFINE t == Start(a)
  <2>1. nodes' = nodes \cup {t} /\ queue' = Append(queue, t) /\ UNCHANGED built
    BY <1>3 DEF Seed
  <2>2. t.entity \in DOMAIN model.components /\ t.privilege = None
    BY DEF Start, Actors
  <2>3. \A S : HoldsAll(S) => t \in S
    BY DEF HoldsAll
  <2> HIDE DEF t
  <2>4. IsFiniteSet(nodes') /\ Cardinality(nodes') =< NodeBudget
    BY <1>3, <2>1, OneMore, AttackAssumption DEF Exceeds, GraphTypes
  <2>5. GraphTypes'
    BY <1>0, <2>1, <2>2, <2>4, Queued DEF GraphTypes
  <2>6. WithinBudgets' /\ EdgesSound'
    BY <1>0, <2>1, <2>4 DEF WithinBudgets, EdgesSound
  <2>7. NoCycle'
    BY <1>1, <2>1, CutInMore DEF NoCycle
  <2>8. OnlyHeld'
    BY <1>0, <2>1, <2>3, InputKept DEF OnlyHeld
  <2>9. TodoSound' /\ Seeds'
    BY <1>0, <2>1 DEF TodoSound, Seeds
  <2>10. Accounted'
    <3> SUFFICES ASSUME index, NEW n \in nodes', ~Waiting(n)', NEW f, NEW c, Move(n, f, c)
                 PROVE  Target(model, n, f, c) \in nodes'
      BY <1>0, InputKept DEF Accounted
    <3>1. n \in nodes /\ ~Waiting(n)
      BY <2>1, Queued DEF Waiting
    <3> QED  BY <1>0, <2>1, <3>1 DEF Accounted
  <2> QED  BY <2>5, <2>6, <2>7, <2>8, <2>9, <2>10
<1> QED  BY <1>2, <1>3

LEMMA GInvSeeded == ASSUME GInv, Seeded PROVE GInv'
<1> USE DEF GInv
<1>0. /\ built = "seeding" /\ built' = "walking" /\ UNCHANGED <<model, atlas, index, nodes, edges, queue, current, todo>>
      /\ \A a \in Actors(model) : Start(a) \in nodes
  BY DEF Seeded
<1>1. Links' = Links
  BY <1>0 DEF Links
<1>2. GraphTypes' /\ WithinBudgets' /\ EdgesSound' /\ NoCycle'
  BY <1>0, <1>1 DEF GraphTypes, WithinBudgets, EdgesSound, NoCycle
<1>3. TodoSound' /\ Seeds'
  BY <1>0 DEF TodoSound, Seeds
<1>4. OnlyHeld' /\ Accounted'
  BY <1>0, InputKept DEF OnlyHeld, Accounted, Waiting
<1> QED  BY <1>2, <1>3, <1>4

(* The walk goes on to searches and reports: the graph stays as it is.     *)
LEMMA GInvDone ==
  ASSUME GInv, UNCHANGED <<model, atlas, index, nodes, edges, queue, current, todo>>,
         todo = {}, built # "seeding", built' # "seeding", built = "exceeded" => built' = "exceeded",
         built' \notin {"walking", "exceeded"} => queue = <<>>
  PROVE  GInv'
<1> USE DEF GInv
<1>1. Links' = Links
  BY DEF Links
<1>2. GraphTypes' /\ WithinBudgets' /\ EdgesSound' /\ NoCycle'
  BY <1>1 DEF GraphTypes, WithinBudgets, EdgesSound, NoCycle
<1>3. TodoSound' /\ Seeds'
  BY DEF TodoSound, Seeds
<1>4. OnlyHeld' /\ Accounted'
  BY InputKept DEF OnlyHeld, Accounted, Waiting
<1> QED  BY <1>2, <1>3, <1>4

LEMMA GInvDequeue == ASSUME GInv, Dequeue PROVE GInv'
<1> USE DEF GInv
<1> DEFINE h == Head(queue)
<1>0. /\ built = "walking" /\ todo = {} /\ queue # <<>> /\ current' = {h} /\ queue' = Tail(queue)
      /\ todo' = IF ~index THEN {}
                 ELSE {t \in FlowsFrom(model, h.entity) \X Candidates(model) :
                         t[2] \in FlowCandidates(model, t[1]) /\ Exposed(model, h, t[1])}
      /\ UNCHANGED <<model, atlas, index, nodes, edges, built>>
  BY DEF Dequeue
<1>1. /\ queue \in Seq(nodes) /\ Len(queue) \in Nat /\ Len(queue) > 0 /\ h = queue[1] /\ h \in nodes
      /\ queue' \in Seq(nodes) /\ DOMAIN queue = 1..Len(queue) /\ DOMAIN queue' = 1..(Len(queue) - 1)
      /\ \A i \in 1..(Len(queue) - 1) : queue'[i] = queue[i + 1]
  <2>1. queue \in Seq(nodes)
    BY DEF GraphTypes
  <2> QED  BY <1>0, <2>1
<1> HIDE DEF h
<1>2. Links' = Links
  BY <1>0 DEF Links
<1>3. GraphTypes' /\ WithinBudgets' /\ EdgesSound' /\ NoCycle'
  BY <1>0, <1>1, <1>2 DEF GraphTypes, WithinBudgets, EdgesSound, NoCycle
<1>4. TodoSound' /\ Seeds'
  BY <1>0 DEF TodoSound, Seeds
<1>5. OnlyHeld'
  BY <1>0, InputKept DEF OnlyHeld
<1>6. Accounted'
  <2> SUFFICES ASSUME index, NEW n \in nodes, ~Waiting(n)', NEW f, NEW c, Move(n, f, c)
               PROVE  Target(model, n, f, c) \in nodes \/ (n = h /\ <<f, CandidateOf(f, c)>> \in todo')
    BY <1>0, InputKept DEF Accounted
  <2>1. CASE n = h
    <3>1. f \in FlowsFrom(model, h.entity) /\ Exposed(model, h, f)
      BY <2>1 DEF Move
    <3>2. CandidateOf(f, c) \in FlowCandidates(model, f) /\ CandidateOf(f, c) \in Candidates(model)
      BY MoveIsCandidate
    <3> QED  BY <1>0, <2>1, <3>1, <3>2
  <2>2. CASE n # h
    <3>1. ~Waiting(n)
      <4> SUFFICES ASSUME NEW i \in DOMAIN queue, queue[i] = n PROVE FALSE
        BY DEF Waiting
      <4>1. i # 1 /\ i \in Nat /\ i =< Len(queue) /\ i >= 1
        BY <1>1, <2>2
      <4>2. i - 1 \in 1..(Len(queue) - 1) /\ (i - 1) + 1 = i
        BY <1>1, <4>1
      <4>3. i - 1 \in DOMAIN queue' /\ queue'[i - 1] = n
        BY <1>1, <4>2
      <4> QED  BY <4>3 DEF Waiting
    <3>2. Target(model, n, f, c) \in nodes
      BY <1>0, <3>1 DEF Accounted
    <3> QED  BY <3>2
  <2> QED  BY <2>1, <2>2
<1> QED  BY <1>3, <1>4, <1>5, <1>6

(* What is done for a flow and a candidate x of a state n: nothing, the    *)
(* end of the walk, or edges to the target.                                *)
TechniquesOn(x) == Bridge(x[2].category, atlas, TechniquesPerTransition)
TargetOf(n, x) == Target(model, n, x[1], x[2].category)
EdgesOf(n, x, i) == {<<n, TargetOf(n, x), TechniquesOn(x)[j]>> : j \in 1..i}
Enabled(n, x) == Permitted(n, model.flows[x[1]], x[2].category) /\ TechniquesOn(x) # <<>>

Skips(n, x) ==
  /\ ~Enabled(n, x) \/ TargetOf(n, x) \in nodes
  /\ todo' = todo \ {x} /\ UNCHANGED <<nodes, edges, queue, built>>
Stops == built' = "exceeded" /\ todo' = {} /\ UNCHANGED <<nodes, edges, queue>>
Grows(n, x) ==
  /\ Enabled(n, x)
  /\ TargetOf(n, x) \in nodes => Cut(nodes, Links, n, TargetOf(n, x))
  /\ TargetOf(n, x) \notin nodes => ~Exceeds
  /\ \A i \in DOMAIN TechniquesOn(x) : ~(Cardinality(DOMAIN edges \cup EdgesOf(n, x, i - 1)) >= EdgeBudget)
  /\ nodes' = nodes \cup {TargetOf(n, x)}
  /\ edges' = [k \in DOMAIN edges \cup EdgesOf(n, x, Len(TechniquesOn(x))) |->
                IF k \in EdgesOf(n, x, Len(TechniquesOn(x)))
                THEN [flow |-> x[1], category |-> x[2].category] ELSE edges[k]]
  /\ queue' = IF TargetOf(n, x) \in nodes THEN queue ELSE Append(queue, TargetOf(n, x))
  /\ todo' = todo \ {x} /\ UNCHANGED built

LeftFor(n, x) ==
  /\ n \in current /\ n \in nodes /\ x \in todo
  /\ x[1] \in DOMAIN model.flows /\ x[1] \in FlowsFrom(model, n.entity) /\ Exposed(model, n, x[1])
  /\ x[2] = CandidateOf(x[1], x[2].category) /\ x[2].category \in StrideCategories("dataflow", {})
  /\ TechniquesOn(x) \in Seq(DOMAIN Score)

LEMMA TransitionIs ==
  ASSUME GInv, NEW x \in todo, Transition(x[1], x[2])
  PROVE  /\ UNCHANGED <<model, atlas, index, current>> /\ built = "walking" /\ index
         /\ \E n \in current : LeftFor(n, x) /\ (Skips(n, x) \/ Stops \/ Grows(n, x))
<1>0. UNCHANGED <<model, atlas, index, current>> /\ built = "walking" /\ index
  BY DEF Transition, GInv, TodoSound
<1> DEFINE f == x[1]
           cc == x[2]
           q == Bridge(cc.category, atlas, TechniquesPerTransition)
           keys(n, t, i) == {<<n, t, q[j]>> : j \in 1..i}
           fits(n) == Permitted(n, model.flows[f], cc.category) /\ q # <<>>
           over(n, t) == \E i \in DOMAIN q : Cardinality(DOMAIN edges \cup keys(n, t, i - 1)) >= EdgeBudget
           more(n, t) ==
             /\ nodes' = nodes \cup {t}
             /\ edges' = [k \in DOMAIN edges \cup keys(n, t, Len(q)) |->
                           IF k \in keys(n, t, Len(q)) THEN [flow |-> f, category |-> cc.category] ELSE edges[k]]
             /\ queue' = IF t \in nodes THEN queue ELSE Append(queue, t)
             /\ todo' = todo \ {<<f, cc>>} /\ UNCHANGED built
           less == todo' = todo \ {<<f, cc>>} /\ UNCHANGED <<nodes, edges, queue, built>>
<1>1. PICK n \in current :
        LET t == Target(model, n, f, cc.category) IN
        /\ <<f, cc>> \in todo
        /\ CASE ~fits(n) \/ (t \in nodes /\ Closes(t, n)) -> less
             [] fits(n) /\ t \notin nodes /\ Exceeds -> Stops
             [] OTHER -> IF over(n, t) THEN Stops ELSE more(n, t)
  BY DEF Transition, Stops
<1> DEFINE t == Target(model, n, f, cc.category)
<1>2. /\ n \in nodes /\ f \in FlowsFrom(model, n.entity) /\ Exposed(model, n, f) /\ cc \in FlowCandidates(model, f)
      /\ f \in DOMAIN model.flows
  BY DEF GInv, GraphTypes, TodoSound, FlowsFrom
<1>3. cc = CandidateOf(f, cc.category) /\ cc.category \in StrideCategories("dataflow", {})
  BY <1>2, CandidateIsMove
<1>4. q \in Seq(DOMAIN Score)
  <2>1. cc.category \in Categories
    BY <1>3 DEF Categories, StrideCategories, StrideCategoriesOfRules
  <2> QED  BY <2>1, BridgeIs, AttackAssumption
<1>5. ~Closes(t, n) => Cut(nodes, Links, n, t)
  BY DEF Closes, HasPath, NoLinkLeaves, Cut
<1>6. \/ (~fits(n) \/ t \in nodes) /\ less
      \/ Stops
      \/ /\ fits(n) /\ (t \in nodes => Cut(nodes, Links, n, t)) /\ (t \notin nodes => ~Exceeds)
         /\ ~over(n, t) /\ more(n, t)
  <2> HIDE DEF f, cc, q, fits, less, over, more, t
  <2>1. CASE ~fits(n) \/ (t \in nodes /\ Closes(t, n))
    BY <1>1, <2>1 DEF t
  <2>2. CASE fits(n) /\ t \notin nodes /\ Exceeds
    BY <1>1, <2>2 DEF t
  <2>3. CASE fits(n) /\ ~(t \in nodes /\ Closes(t, n)) /\ ~(t \notin nodes /\ Exceeds)
    <3>1. IF over(n, t) THEN Stops ELSE more(n, t)
      BY <1>1, <2>3 DEF t
    <3> QED  BY <1>5, <2>3, <3>1
  <2> QED  BY <2>1, <2>2, <2>3
<1>7. <<f, cc>> = x
  BY <1>1, <1>2 DEF GInv, TodoSound
<1>8. LeftFor(n, x)
  BY <1>2, <1>3, <1>4 DEF LeftFor, TechniquesOn
<1>9. Skips(n, x) \/ Stops \/ Grows(n, x)
  <2>1. CASE (~fits(n) \/ t \in nodes) /\ less
    BY <1>7, <2>1 DEF Skips, Enabled, TechniquesOn, TargetOf
  <2>2. CASE /\ fits(n) /\ (t \in nodes => Cut(nodes, Links, n, t)) /\ (t \notin nodes => ~Exceeds)
             /\ ~over(n, t) /\ more(n, t)
    BY <1>7, <2>2 DEF Grows, Enabled, TechniquesOn, TargetOf, EdgesOf
  <2> QED  BY <1>6, <2>1, <2>2
<1> QED  BY <1>0, <1>8, <1>9

LEMMA GInvSkips ==
  ASSUME GInv, NEW n \in current, NEW x \in todo, LeftFor(n, x), Skips(n, x),
         UNCHANGED <<model, atlas, index, current>>, built = "walking"
  PROVE  GInv'
<1> USE DEF GInv
<1>0. todo' = todo \ {x} /\ UNCHANGED <<nodes, edges, queue, built>> /\ (~Enabled(n, x) \/ TargetOf(n, x) \in nodes)
  BY DEF Skips
<1>1. Links' = Links
  BY <1>0 DEF Links
<1>2. GraphTypes' /\ WithinBudgets' /\ EdgesSound' /\ NoCycle'
  BY <1>0, <1>1 DEF GraphTypes, WithinBudgets, EdgesSound, NoCycle
<1>3. TodoSound' /\ Seeds'
  BY <1>0 DEF TodoSound, Seeds
<1>4. OnlyHeld'
  BY <1>0, InputKept DEF OnlyHeld
<1>5. Accounted'
  <2> SUFFICES ASSUME index, NEW m \in nodes, ~Waiting(m), NEW f, NEW c, Move(m, f, c),
                      Target(model, m, f, c) \notin nodes
               PROVE  m \in current /\ <<f, CandidateOf(f, c)>> \in todo'
    BY <1>0, InputKept DEF Accounted, Waiting
  <2>1. m \in current /\ <<f, CandidateOf(f, c)>> \in todo
    BY DEF Accounted
  <2>2. m = n
    BY <2>1 DEF GraphTypes
  <2>3. ASSUME x = <<f, CandidateOf(f, c)>> PROVE FALSE
    <3>1. x[1] = f /\ x[2].category = c
      BY <2>3 DEF CandidateOf
    <3>2. Enabled(n, x) /\ TargetOf(n, x) = Target(model, m, f, c)
      BY <2>2, <3>1 DEF Enabled, TargetOf, TechniquesOn, Move
    <3> QED  BY <1>0, <3>2
  <2> QED  BY <1>0, <2>1, <2>3
<1> QED  BY <1>2, <1>3, <1>4, <1>5

LEMMA GInvStops ==
  ASSUME GInv, Stops, UNCHANGED <<model, atlas, index, current>>
  PROVE  GInv'
<1> USE DEF GInv
<1>0. built' = "exceeded" /\ todo' = {} /\ UNCHANGED <<nodes, edges, queue>>
  BY DEF Stops
<1>1. Links' = Links
  BY <1>0 DEF Links
<1>2. GraphTypes' /\ WithinBudgets' /\ EdgesSound' /\ NoCycle'
  BY <1>0, <1>1 DEF GraphTypes, WithinBudgets, EdgesSound, NoCycle
<1>3. TodoSound' /\ Seeds' /\ Accounted'
  BY <1>0 DEF TodoSound, Seeds, Accounted
<1>4. OnlyHeld'
  BY <1>0, InputKept DEF OnlyHeld
<1> QED  BY <1>2, <1>3, <1>4

LEMMA EdgesOfFinite ==
  ASSUME NEW n, NEW x, NEW i \in Nat
  PROVE  IsFiniteSet(EdgesOf(n, x, i))
<1> DEFINE T == EdgesOf(n, x, i)
           g == [j \in 1..i |-> <<n, TargetOf(n, x), TechniquesOn(x)[j]>>]
<1>1. IsFiniteSet(1..i)
  BY FS_Interval
<1>2. g \in Surjection(1..i, T)
  BY DEF EdgesOf, Surjection
<1> HIDE DEF g, T
<1>3. IsFiniteSet(T)
  BY <1>1, <1>2, FS_Surjection
<1> QED  BY <1>3 DEF T

LEMMA GrowsLinks ==
  ASSUME GInv, NEW n, NEW x, LeftFor(n, x), Grows(n, x)
  PROVE  /\ Links' = Links \cup {<<n, TargetOf(n, x)>>}
         /\ IsFiniteSet(DOMAIN edges') /\ Cardinality(DOMAIN edges') =< EdgeBudget
         /\ \A k \in DOMAIN edges' : IF k \in EdgesOf(n, x, Len(TechniquesOn(x)))
                                     THEN k[1] = n /\ k[2] = TargetOf(n, x) /\ edges'[k].flow = x[1]
                                     ELSE k \in DOMAIN edges /\ edges'[k] = edges[k]
<1> DEFINE t == TargetOf(n, x)
           q == TechniquesOn(x)
           l == Len(q)
           K(i) == EdgesOf(n, x, i)
<1>1. q \in Seq(DOMAIN Score) /\ q # <<>> /\ l \in Nat /\ l >= 1 /\ DOMAIN q = 1..l /\ l - 1 \in Nat
  <2>1. q \in Seq(DOMAIN Score) /\ q # <<>>
    BY DEF LeftFor, Grows, Enabled
  <2> QED  BY <2>1
<1>2. /\ DOMAIN edges' = DOMAIN edges \cup K(l)
      /\ \A k \in DOMAIN edges' : edges'[k] = IF k \in K(l) THEN [flow |-> x[1], category |-> x[2].category] ELSE edges[k]
      /\ \A i \in 1..l : ~(Cardinality(DOMAIN edges \cup K(i - 1)) >= EdgeBudget)
  BY <1>1 DEF Grows
<1>3. \A k \in K(l) : k[1] = n /\ k[2] = t
  BY DEF EdgesOf
<1>4. Links' = Links \cup {<<n, t>>}
  <2>1. <<n, t, q[1]>> \in K(l)
    BY <1>1 DEF EdgesOf
  <2> HIDE DEF t, q, l, K
  <2>2. \A k \in DOMAIN edges' : <<k[1], k[2]>> \in Links \cup {<<n, t>>}
    BY <1>2, <1>3 DEF Links
  <2>3. \A k \in DOMAIN edges : <<k[1], k[2]>> \in Links'
    BY <1>2 DEF Links
  <2>4. <<n, t>> \in Links'
    BY <1>2, <2>1 DEF Links
  <2> QED  BY <2>2, <2>3, <2>4 DEF Links
<1>5. IsFiniteSet(DOMAIN edges') /\ Cardinality(DOMAIN edges') =< EdgeBudget
  <2>1. K(l) = K(l - 1) \cup {<<n, t, q[l]>>}
    <3>1. 1..l = (1..(l - 1)) \cup {l}
      BY <1>1
    <3> HIDE DEF l
    <3> QED  BY <3>1 DEF EdgesOf
  <2>2. IsFiniteSet(DOMAIN edges \cup K(l - 1))
    BY <1>1, EdgesOfFinite, FS_Union DEF GInv, GraphTypes
  <2>3. ~(Cardinality(DOMAIN edges \cup K(l - 1)) >= EdgeBudget)
    BY <1>1, <1>2
  <2>4. DOMAIN edges' = (DOMAIN edges \cup K(l - 1)) \cup {<<n, t, q[l]>>}
    BY <1>2, <2>1
  <2> HIDE DEF t, q, l, K
  <2> QED  BY <2>2, <2>3, <2>4, OneMore, AttackAssumption
<1> QED  BY <1>2, <1>3, <1>4, <1>5

(* The target of a move that is enabled. *)
LEMMA TargetIs ==
  ASSUME GInv, NEW n, NEW x, LeftFor(n, x), Enabled(n, x), index
  PROVE  /\ TargetOf(n, x).entity = model.flows[x[1]].destination /\ n.entity = model.flows[x[1]].source
         /\ TargetOf(n, x).entity \in DOMAIN model.components
         /\ TargetOf(n, x).privilege \in {None, User, Admin} /\ n.privilege =< TargetOf(n, x).privilege
         /\ TargetOf(n, x).privilege = Admin => n.privilege # None
         /\ \A S : HoldsAll(S) /\ n \in S => TargetOf(n, x) \in S
<1> DEFINE f == x[1]
           c == x[2].category
           t == TargetOf(n, x)
<1>1. /\ f \in FlowsFrom(model, n.entity) /\ c \in StrideCategories("dataflow", {})
      /\ Exposed(model, n, f) /\ n.privilege \in {None, User, Admin}
      /\ Permitted(n, model.flows[f], c) /\ Bridge(c, atlas, TechniquesPerTransition) # <<>>
  BY DEF LeftFor, Enabled, TechniquesOn, GInv, GraphTypes
<1>2. t = [entity |-> model.flows[f].destination, position |-> model.components[model.flows[f].destination].zone,
           privilege |-> Gained(c, n.privilege)]
  BY DEF TargetOf, Target
<1>3. t.entity = model.flows[f].destination /\ t.privilege = Gained(c, n.privilege)
  BY <1>2
<1>4. n.entity = model.flows[f].source /\ model.flows[f].destination \in DOMAIN model.components
  BY <1>1 DEF FlowsFrom
<1>5. /\ Gained(c, n.privilege) \in {None, User, Admin} /\ n.privilege =< Gained(c, n.privilege)
      /\ Gained(c, n.privilege) = Admin => n.privilege # None
  BY <1>1 DEF Gained, Permitted, None, User, Admin
<1>6. t \in Moves(model, n)
  <2>1. <<f, c>> \in FlowsFrom(model, n.entity) \X StrideCategories("dataflow", {})
    BY <1>1
  <2>2. t = Target(model, n, <<f, c>>[1], <<f, c>>[2])
    BY DEF TargetOf
  <2> HIDE DEF t
  <2> QED  BY <1>1, <2>1, <2>2 DEF Moves
<1> HIDE DEF t
<1>7. \A S : HoldsAll(S) /\ n \in S => t \in S
  BY <1>6 DEF HoldsAll
<1> QED  BY <1>3, <1>4, <1>5, <1>7 DEF t

LEMMA GInvGrows ==
  ASSUME GInv, NEW n \in current, NEW x \in todo, LeftFor(n, x), Grows(n, x),
         UNCHANGED <<model, atlas, index, current>>, built = "walking", index
  PROVE  GInv'
<1> USE DEF GInv
<1> DEFINE t == TargetOf(n, x)
           K == EdgesOf(n, x, Len(TechniquesOn(x)))
<1>0. /\ Enabled(n, x) /\ nodes' = nodes \cup {t} /\ queue' = IF t \in nodes THEN queue ELSE Append(queue, t)
      /\ todo' = todo \ {x} /\ UNCHANGED built
      /\ t \in nodes => Cut(nodes, Links, n, t)
      /\ t \notin nodes => ~Exceeds
  BY DEF Grows
<1>1. n \in nodes /\ x[1] \in DOMAIN model.flows
  BY DEF LeftFor
<1>2. /\ t.entity = model.flows[x[1]].destination /\ n.entity = model.flows[x[1]].source
      /\ t.entity \in DOMAIN model.components /\ t.privilege \in {None, User, Admin}
      /\ n.privilege =< t.privilege /\ (t.privilege = Admin => n.privilege # None)
      /\ \A S : HoldsAll(S) /\ n \in S => t \in S
  BY <1>0, TargetIs
<1>3. /\ Links' = Links \cup {<<n, t>>}
      /\ IsFiniteSet(DOMAIN edges') /\ Cardinality(DOMAIN edges') =< EdgeBudget
      /\ \A k \in DOMAIN edges' : IF k \in K THEN k[1] = n /\ k[2] = t /\ edges'[k].flow = x[1]
                                  ELSE k \in DOMAIN edges /\ edges'[k] = edges[k]
  BY GrowsLinks
<1> HIDE DEF t, K
<1>4. /\ queue' \in Seq(nodes') /\ (t \in nodes => nodes' = nodes /\ queue' = queue)
      /\ IsFiniteSet(nodes') /\ Cardinality(nodes') =< NodeBudget
      /\ \A m : Waiting(m) => Waiting(m)'
      /\ t \notin nodes => (\E i \in DOMAIN queue' : queue'[i] = t)
  <2>1. CASE t \in nodes
    <3>1. nodes' = nodes /\ queue' = queue
      BY <1>0, <2>1
    <3> QED  BY <2>1, <3>1 DEF GraphTypes, WithinBudgets, Waiting
  <2>2. CASE t \notin nodes
    <3>1. queue' = Append(queue, t) /\ ~(Cardinality(nodes) >= NodeBudget)
      BY <1>0, <2>2 DEF Exceeds
    <3>2. IsFiniteSet(nodes') /\ Cardinality(nodes') =< NodeBudget
      BY <1>0, <3>1, OneMore, AttackAssumption DEF GraphTypes
    <3>3. queue' \in Seq(nodes')
      BY <1>0, <3>1, Queued
    <3>4. (\E i \in DOMAIN queue' : queue'[i] = t)
      BY <3>1, Queued DEF Waiting
    <3>5. ASSUME NEW m, Waiting(m) PROVE Waiting(m)'
      BY <3>1, <3>5, Queued DEF Waiting
    <3> QED  BY <2>2, <3>2, <3>3, <3>4, <3>5
  <2> QED  BY <2>1, <2>2
<1>5. GraphTypes'
  BY <1>0, <1>2, <1>3, <1>4 DEF GraphTypes
<1>6. WithinBudgets'
  BY <1>3, <1>4 DEF WithinBudgets
<1>7. EdgesSound'
  <2> SUFFICES ASSUME NEW k \in DOMAIN edges'
               PROVE  /\ k[1] \in nodes' /\ k[2] \in nodes'
                      /\ model.flows[edges'[k].flow].source = k[1].entity
                      /\ model.flows[edges'[k].flow].destination = k[2].entity
                      /\ k[1].privilege =< k[2].privilege
                      /\ k[2].privilege = Admin => k[1].privilege # None
    BY DEF EdgesSound
  <2>1. CASE k \in K
    BY <1>0, <1>1, <1>2, <1>3, <2>1
  <2>2. CASE k \notin K
    BY <1>0, <1>3, <2>2 DEF EdgesSound
  <2> QED  BY <2>1, <2>2
<1>8. NoCycle'
  <2>1. Links \in SUBSET (nodes \X nodes)
    BY DEF Links, EdgesSound
  <2>2. \A l \in Links \cup {<<n, t>>} : Cut(nodes \cup {t}, Links \cup {<<n, t>>}, l[1], l[2])
    BY <1>0, <1>1, <2>1, CutsSurvive DEF NoCycle
  <2> QED  BY <1>0, <1>3, <2>2 DEF NoCycle
<1>9. OnlyHeld'
  BY <1>0, <1>1, <1>2, InputKept DEF OnlyHeld
<1>10. TodoSound' /\ Seeds'
  BY <1>0 DEF TodoSound, Seeds
<1>11. Accounted'
  <2> SUFFICES ASSUME NEW m \in nodes', ~Waiting(m)', NEW f, NEW c, Move(m, f, c),
                      Target(model, m, f, c) \notin nodes'
               PROVE  m \in current /\ <<f, CandidateOf(f, c)>> \in todo'
    BY <1>0, InputKept DEF Accounted
  <2>1. m \in nodes /\ ~Waiting(m)
    <3>1. ~Waiting(m)
      BY <1>4
    <3>2. m = t => t \in nodes
      BY <1>4 DEF Waiting
    <3> QED  BY <1>0, <3>1, <3>2
  <2>2. m \in current /\ <<f, CandidateOf(f, c)>> \in todo
    BY <1>0, <2>1 DEF Accounted
  <2>3. m = n
    BY <2>2 DEF GraphTypes
  <2>4. ASSUME x = <<f, CandidateOf(f, c)>> PROVE FALSE
    <3>1. x[1] = f /\ x[2].category = c
      BY <2>4 DEF CandidateOf
    <3>2. t = Target(model, m, f, c)
      BY <2>3, <3>1 DEF TargetOf, t
    <3> QED  BY <1>0, <3>2
  <2> QED  BY <1>0, <2>2, <2>4
<1> QED  BY <1>5, <1>6, <1>7, <1>8, <1>9, <1>10, <1>11

LEMMA GInvNext == GInv /\ [AttackNext]_graphVars => GInv'
<1> SUFFICES ASSUME GInv, [AttackNext]_graphVars PROVE GInv'
  OBVIOUS
<1>1. ASSUME NEW a \in Actors(model), Seed(a) PROVE GInv'
  BY <1>1, GInvSeed
<1>2. CASE Seeded
  BY <1>2, GInvSeeded
<1>3. CASE Dequeue
  BY <1>3, GInvDequeue
<1>4. CASE GraphBuilt
  BY <1>4, GInvDone DEF GraphBuilt
<1>5. ASSUME NEW x \in todo, Transition(x[1], x[2]) PROVE GInv'
  <2>1. UNCHANGED <<model, atlas, index, current>> /\ built = "walking" /\ index
    BY <1>5, TransitionIs
  <2>2. PICK n \in current : LeftFor(n, x) /\ (Skips(n, x) \/ Stops \/ Grows(n, x))
    BY <1>5, TransitionIs
  <2> QED  BY <2>1, <2>2, GInvSkips, GInvStops, GInvGrows
<1>6. CASE UNCHANGED graphVars
  <2>1. UNCHANGED <<model, atlas, index, nodes, edges, queue, current, todo, built>> /\ Links' = Links
    BY <1>6 DEF graphVars, Links
  <2>2. OnlyHeld' /\ Accounted'
    BY <2>1, InputKept DEF GInv, OnlyHeld, Accounted, Waiting
  <2> QED  BY <2>1, <2>2 DEF GInv, GraphTypes, WithinBudgets, EdgesSound, NoCycle, TodoSound, Seeds
<1> QED  BY <1>1, <1>2, <1>3, <1>4, <1>5, <1>6 DEF AttackNext

LEMMA GInvIsSound == GInv => GraphSound
<1> SUFFICES ASSUME GInv PROVE GraphSound
  OBVIOUS
<1> USE DEF GInv
<1>1. ASSUME NEW k \in DOMAIN edges PROVE ~HasPath(k[2], k[1])
  <2>1. <<k[1], k[2]>> \in Links
    BY DEF Links
  <2>2. Cut(nodes, Links, <<k[1], k[2]>>[1], <<k[1], k[2]>>[2])
    BY <2>1 DEF NoCycle
  <2> QED  BY <2>2 DEF Cut, HasPath, NoLinkLeaves
<1>2. ASSUME built = "built" PROVE HoldsAll(nodes)
  <2>1. \A a \in Actors(model) : Start(a) \in nodes
    BY <1>2 DEF Seeds
  <2>2. ASSUME index, NEW n \in nodes, NEW t \in Moves(model, n) PROVE t \in nodes
    <3>1. ~Waiting(n) /\ todo = {}
      BY <1>2 DEF Seeds, Waiting
    <3>2. PICK f, c : Move(n, f, c) /\ t = Target(model, n, f, c)
      BY <2>2 DEF Moves, Move
    <3> QED  BY <1>2, <2>2, <3>1, <3>2 DEF Accounted
  <2> QED  BY <2>1, <2>2 DEF HoldsAll
<1>3. \A S \in SUBSET nodes : HoldsAll(S) => S = nodes
  BY DEF OnlyHeld
<1> QED  BY <1>1, <1>2, <1>3 DEF GraphSound, EdgesSound, WithinBudgets

(* The searches, revisions and the critique leave the graph as it is.      *)
LEMMA GInvCritique == GInv /\ [CritiqueNext]_critiqueVars => GInv'
<1> SUFFICES ASSUME GInv, [CritiqueNext]_critiqueVars PROVE GInv'
  OBVIOUS
<1>0. built \notin {"seeding", "walking", "exceeded"} => todo = {} /\ queue = <<>>
  BY DEF GInv, Seeds
<1>1. CASE AttackNext
  BY <1>1, GInvNext
<1>2. ASSUME NEW intel \in ArticleSets, StartSearch(intel) PROVE GInv'
  BY <1>0, <1>2, GInvDone DEF StartSearch
<1>3. CASE SearchDone
  BY <1>0, <1>3, GInvDone DEF SearchDone
<1>4. ASSUME NEW p \in pairs, TakePair(p) PROVE GInv'
  BY <1>0, <1>4, GInvDone DEF TakePair, graphVars
<1>5. ASSUME NEW q \in DOMAIN ranked, NextPath(q) PROVE GInv'
  <2>1. built = "searching" /\ built' \in {"searching", "exceeded"}
        /\ UNCHANGED <<model, atlas, index, nodes, edges, queue, current, todo>>
    BY <1>5 DEF NextPath
  <2> QED  BY <1>0, <2>1, GInvDone
<1>6. CASE Revise
  BY <1>0, <1>6, GInvDone DEF Revise
<1>7. CASE Criticise
  BY <1>0, <1>7, GInvDone DEF Criticise
<1>8. CASE UNCHANGED critiqueVars
  BY <1>8, GInvNext DEF critiqueVars, revisionVars, attackVars
<1> QED  BY <1>1, <1>2, <1>3, <1>4, <1>5, <1>6, <1>7, <1>8 DEF CritiqueNext, RevisionNext, PathsNext

(* The attack graph has no cycle, keeps to its budgets and gains no        *)
(* privilege without a foothold, and when built holds what can be held and *)
(* nothing else: for any models, rules, corpus and budgets, also while it  *)
(* is searched, revised and criticised.                                    *)
THEOREM GraphIsSound == CritiqueSpec => []GraphSound
<1>1. CritiqueInit => GInv
  BY GInvInit DEF CritiqueInit, RevisionInit, PathsInit
<1> QED  BY <1>1, GInvCritique, GInvIsSound, PTL DEF CritiqueSpec

-----------------------------------------------------------------------------
(* Adjudication.                                                           *)

(* The least element of a set of naturals is its Min.                      *)
LEMMA MinIs ==
  ASSUME NEW S \in SUBSET Nat, NEW m \in S, \A x \in S : m =< x
  PROVE  Min(S) = m
<1>1. \A x \in S : (\A y \in S : x =< y) => x = m
  OBVIOUS
<1> QED  BY <1>1 DEF Min

(* A set of naturals that is bounded has a greatest element.               *)
LEMMA HasGreatest ==
  ASSUME NEW S \in SUBSET Nat, S # {}, NEW n \in Nat, \A x \in S : x =< n
  PROVE  \E m \in S : \A x \in S : x =< m
<1> DEFINE B == {b \in Nat : \A x \in S : x =< b}
<1>1. B \in SUBSET Nat /\ B # {}
  OBVIOUS
<1>2. PICK b \in B : \A c \in B : b =< c
  <2> HIDE DEF B
  <2> QED  BY <1>1, HasLeast
<1>3. b \in Nat /\ \A x \in S : x =< b
  BY <1>2
<1>4. ASSUME b \notin S PROVE FALSE
  <2>1. \A x \in S : x =< b /\ x # b /\ x \in Nat
    BY <1>3, <1>4
  <2>2. b # 0
    <3>1. PICK x \in S : TRUE
      OBVIOUS
    <3>2. x =< b /\ x # b /\ x \in Nat
      BY <2>1
    <3> QED  BY <1>3, <3>2
  <2>3. b - 1 \in Nat /\ \A x \in S : x =< b - 1
    BY <1>3, <2>1, <2>2
  <2>4. b - 1 \in B
    BY <2>3
  <2> QED  BY <1>2, <1>3, <2>3, <2>4
<1> QED  BY <1>3, <1>4

LEMMA MaxIs ==
  ASSUME NEW S \in SUBSET Nat, NEW m \in S, \A x \in S : x =< m
  PROVE  Max(S) = m
<1>1. \A y \in S : m >= y
  OBVIOUS
<1>2. Max(S) \in S /\ \A y \in S : Max(S) >= y
  BY <1>1 DEF Max
<1> DEFINE x == Max(S)
<1>3. x \in Nat /\ m \in Nat /\ x =< m /\ x >= m
  BY <1>2
<1> HIDE DEF x
<1> QED  BY <1>3 DEF x

(* Of finitely many with scores, one scores best. *)
LEMMA BestOfSeq ==
  ASSUME NEW V, NEW score \in [V -> Nat], NEW b \in Seq(V), b # <<>>
  PROVE  \E i \in 1..Len(b) : \A j \in 1..Len(b) : score[b[j]] =< score[b[i]]
<1> DEFINE n == Len(b)
<1>0. n \in Nat /\ n # 0 /\ \A j \in 1..n : b[j] \in V /\ score[b[j]] \in Nat
  OBVIOUS
<1> HIDE DEF n
<1> DEFINE G == {m \in 0..n : m = 0 \/ \E i \in 1..m : \A j \in 1..m : score[b[j]] =< score[b[i]]}
<1>1. 0 \in G
  BY <1>0
<1>2. ASSUME NEW m \in 0..n, m + 1 \in 0..n, m \in G PROVE m + 1 \in G
  <2>1. CASE m = 0
    <3>1. 1..1 = {1} /\ 1 \in 1..n
      BY <1>0, <2>1
    <3> QED  BY <1>0, <1>2, <2>1, <3>1
  <2>2. CASE m # 0
    <3>1. PICK i \in 1..m : \A j \in 1..m : score[b[j]] =< score[b[i]]
      BY <1>2, <2>2
    <3>2. \A j \in 1..(m + 1) : j \in 1..m \/ j = m + 1
      BY <1>0
    <3>3. i \in 1..n /\ m + 1 \in 1..n /\ i \in 1..(m + 1) /\ m + 1 \in 1..(m + 1) /\ \A j \in 1..m : j \in 1..n
      BY <1>0, <1>2
    <3>4. CASE score[b[m + 1]] =< score[b[i]]
      <4>1. \A j \in 1..(m + 1) : score[b[j]] =< score[b[i]]
        BY <3>1, <3>2, <3>4
      <4> QED  BY <1>2, <3>3, <4>1
    <3>5. CASE ~(score[b[m + 1]] =< score[b[i]])
      <4>1. \A j \in 1..(m + 1) : score[b[j]] =< score[b[m + 1]]
        BY <1>0, <3>1, <3>2, <3>3, <3>5
      <4> QED  BY <1>2, <3>3, <4>1
    <3> QED  BY <3>4, <3>5
  <2> QED  BY <2>1, <2>2
<1>3. \A m \in 0..n : m \in G
  <2> HIDE DEF G
  <2> QED  BY <1>0, <1>1, <1>2, UpTo
<1>4. n \in G
  <2> HIDE DEF G
  <2>1. n \in 0..n
    BY <1>0
  <2> QED  BY <1>3, <2>1
<1> QED  BY <1>0, <1>4 DEF n

(* The evidence is one of what was bridged, and none scores better.        *)
LEMMA EvidenceIs ==
  ASSUME NEW b \in Seq(DOMAIN Score), b # <<>>
  PROVE  /\ BestEvidence(b) \in Range(b)
         /\ \A u \in Range(b) : Score[u] \in Nat /\ Score[BestEvidence(b)] \in Nat
                                /\ Score[u] =< Score[BestEvidence(b)]
<1> DEFINE I == {i \in 1..Len(b) : \A u \in Range(b) : Score[u] =< Score[b[i]]}
<1>1. Len(b) \in Nat /\ DOMAIN b = 1..Len(b) /\ \A j \in 1..Len(b) : b[j] \in DOMAIN Score
  OBVIOUS
<1>2. Range(b) = {b[j] : j \in 1..Len(b)}
  BY <1>1 DEF Range
<1>3. Score \in [DOMAIN Score -> Nat]
  BY CorpusAssumption
<1>4. I # {} /\ I \in SUBSET Nat
  <2>1. PICK i \in 1..Len(b) : \A j \in 1..Len(b) : Score[b[j]] =< Score[b[i]]
    BY <1>3, BestOfSeq
  <2> QED  BY <1>2, <2>1
<1>5. BestEvidence(b) = b[Min(I)]
  BY <1>4 DEF BestEvidence, SelectInSeq
<1>6. PICK m \in I : \A x \in I : m =< x
  <2> HIDE DEF I
  <2> QED  BY <1>4, HasLeast
<1>7. Min(I) = m
  <2> HIDE DEF I
  <2> QED  BY <1>4, <1>6, MinIs
<1>8. BestEvidence(b) = b[m] /\ m \in 1..Len(b) /\ \A u \in Range(b) : Score[u] =< Score[b[m]]
  BY <1>5, <1>6, <1>7
<1> QED  BY <1>1, <1>2, <1>3, <1>8

(* What a candidate can be. *)
LEMMA CandidateIs ==
  ASSUME NEW m \in Models, NEW c \in Candidates(m)
  PROVE  /\ c = [element |-> c.element, kind |-> c.kind, framework |-> c.framework, category |-> c.category]
         /\ \/ /\ c.element \in DOMAIN m.components \ OutOfScope(m)
               /\ c.kind = m.components[c.element].kind /\ c.kind # "dataflow"
            \/ /\ c.element \in DOMAIN m.flows /\ c.element \notin DOMAIN m.components
               /\ c.kind = "dataflow"
         /\ \/ c.framework = "stride" /\ c.category \in StrideCategoriesOfRules
            \/ c.framework = "linddun" /\ c.category \in LinddunCategories
<1>0. WellFormed(m)
  BY AttackAssumption
<1>1. ASSUME NEW e, NEW k, NEW tags, NEW personal, c \in CandidatesOn(e, k, tags, personal)
      PROVE  /\ c = [element |-> e, kind |-> k, framework |-> c.framework, category |-> c.category]
             /\ c.element = e /\ c.kind = k
             /\ \/ c.framework = "stride" /\ c.category \in StrideCategoriesOfRules
                \/ c.framework = "linddun" /\ c.category \in LinddunCategories
  <2>1. StrideCategories(k, tags) \subseteq StrideCategoriesOfRules
    BY DEF StrideCategories, StrideCategoriesOfRules
  <2>2. CASE \E x \in StrideCategories(k, tags) : c = [element |-> e, kind |-> k, framework |-> "stride", category |-> x]
    BY <2>1, <2>2
  <2>3. CASE \E x \in LinddunCategories : c = [element |-> e, kind |-> k, framework |-> "linddun", category |-> x]
    BY <2>3
  <2> QED  BY <1>1, <2>2, <2>3 DEF CandidatesOn
<1>2. \/ \E e \in DOMAIN m.components \ OutOfScope(m) :
           c \in CandidatesOn(e, m.components[e].kind, m.components[e].tags, e \in PersonalData(m))
      \/ \E f \in DOMAIN m.flows :
           c \in CandidatesOn(f, "dataflow", {}, {m.flows[f].source, m.flows[f].destination} \cap PersonalData(m) # {})
  BY DEF Candidates
<1>3. CASE \E e \in DOMAIN m.components \ OutOfScope(m) :
             c \in CandidatesOn(e, m.components[e].kind, m.components[e].tags, e \in PersonalData(m))
  <2>1. PICK e \in DOMAIN m.components \ OutOfScope(m) :
           c \in CandidatesOn(e, m.components[e].kind, m.components[e].tags, e \in PersonalData(m))
    BY <1>3
  <2>2. m.components[e].kind # "dataflow"
    BY <1>0 DEF WellFormed
  <2> QED  BY <1>1, <2>1, <2>2
<1>4. CASE \E f \in DOMAIN m.flows :
             c \in CandidatesOn(f, "dataflow", {}, {m.flows[f].source, m.flows[f].destination} \cap PersonalData(m) # {})
  <2>1. PICK f \in DOMAIN m.flows :
           c \in CandidatesOn(f, "dataflow", {}, {m.flows[f].source, m.flows[f].destination} \cap PersonalData(m) # {})
    BY <1>4
  <2>2. f \notin DOMAIN m.components
    BY <1>0 DEF WellFormed
  <2> QED  BY <1>1, <2>1, <2>2
<1> QED  BY <1>2, <1>3, <1>4

(* An id, that is an element and a category, names one candidate.          *)
LEMMA IdsDiffer ==
  ASSUME NEW m \in Models, NEW c \in Candidates(m), NEW d \in Candidates(m),
         c.element = d.element, c.category = d.category
  PROVE  c = d
<1>1. LinddunCategories \cap StrideCategoriesOfRules = {}
  BY RulesetAssumption
<1>2. c.framework = d.framework
  BY <1>1, CandidateIs
<1>3. c.kind = d.kind
  BY CandidateIs
<1>4. /\ c = [element |-> c.element, kind |-> c.kind, framework |-> c.framework, category |-> c.category]
      /\ d = [element |-> d.element, kind |-> d.kind, framework |-> d.framework, category |-> d.category]
  BY CandidateIs
<1> QED  BY <1>2, <1>3, <1>4

CandidateId(c) == <<c.element, c.category>>
CandidateIds(S) == {CandidateId(c) : c \in S}

(* There are finitely many candidates, and as many ids. *)
LEMMA CandidatesCounted ==
  ASSUME NEW m \in Models
  PROVE  /\ IsFiniteSet(Candidates(m)) /\ IsFiniteSet(CandidateIds(Candidates(m)))
         /\ Cardinality(CandidateIds(Candidates(m))) = Cardinality(Candidates(m))
<1> DEFINE C == Candidates(m)
           D == CandidateIds(C)
           Elements == DOMAIN m.components \cup DOMAIN m.flows
           Stride == {r.categories : r \in Rules}
           g == [c \in C |-> CandidateId(c)]
           h == [r \in Rules |-> r.categories]
<1>1. IsFiniteSet(Elements)
  BY AttackAssumption, FS_Union DEF WellFormed
<1>2. IsFiniteSet(Stride)
  <2>1. h \in Surjection(Rules, Stride)
    BY DEF Surjection
  <2> HIDE DEF h, Stride
  <2> QED  BY <2>1, RulesetAssumption, FS_Surjection
<1>3. IsFiniteSet(UNION Stride)
  <2>1. \A T \in Stride : IsFiniteSet(T)
    BY RulesetAssumption
  <2> HIDE DEF Stride
  <2> QED  BY <1>2, <2>1, FS_UNION
<1>4. IsFiniteSet(Categories)
  BY <1>3, RulesetAssumption, FS_Union DEF Categories, StrideCategoriesOfRules
<1>5. D \in SUBSET (Elements \X Categories)
  BY CandidateIs DEF CandidateIds, CandidateId, Categories
<1>6. IsFiniteSet(D)
  <2> HIDE DEF D, Elements
  <2>1. IsFiniteSet(Elements \X Categories)
    BY <1>1, <1>4, FS_Product
  <2> QED  BY <1>5, <2>1, FS_Subset
<1>7. g \in Injection(C, D) /\ g \in Surjection(C, D)
  <2>1. g \in [C -> D] /\ \A c \in C : g[c] = <<c.element, c.category>>
    BY DEF CandidateIds, CandidateId
  <2>2. \A d \in D : \E c \in C : g[c] = d
    BY DEF CandidateIds
  <2>3. \A c, d \in C : g[c] = g[d] => c = d
    BY <2>1, IdsDiffer
  <2> HIDE DEF g, C, D
  <2> QED  BY <2>1, <2>2, <2>3 DEF Injection, Surjection, IsInjective
<1> HIDE DEF g, C, D
<1>8. IsFiniteSet(C)
  BY <1>6, <1>7, FS_Injection
<1>9. Cardinality(D) = Cardinality(C)
  BY <1>7, <1>8, FS_Surjection
<1> QED  BY <1>6, <1>8, <1>9 DEF C, D

(* What is kept and what is dropped adds up. *)
LEMMA IdsAddUp ==
  ASSUME NEW m \in Models, NEW S \in SUBSET Candidates(m)
  PROVE  LET dropped == Candidates(m) \ S IN
         /\ CandidateIds(S) \cap CandidateIds(dropped) = {}
         /\ Cardinality(CandidateIds(S)) + Cardinality(CandidateIds(dropped)) = Cardinality(Candidates(m))
<1> DEFINE C == Candidates(m)
           T == C \ S
<1>1. CandidateIds(S) \cap CandidateIds(T) = {}
  BY IdsDiffer DEF CandidateIds, CandidateId
<1>2. CandidateIds(S) \cup CandidateIds(T) = CandidateIds(C)
  BY DEF CandidateIds
<1>3. IsFiniteSet(CandidateIds(S)) /\ IsFiniteSet(CandidateIds(T))
  <2>1. CandidateIds(S) \in SUBSET CandidateIds(C) /\ CandidateIds(T) \in SUBSET CandidateIds(C)
    BY <1>2
  <2> QED  BY <2>1, CandidatesCounted, FS_Subset
<1>4. Cardinality(CandidateIds(C)) = Cardinality(CandidateIds(S)) + Cardinality(CandidateIds(T)) - Cardinality(CandidateIds(S) \cap CandidateIds(T))
  BY <1>2, <1>3, FS_Union
<1>5. Cardinality(CandidateIds(S)) \in Nat /\ Cardinality(CandidateIds(T)) \in Nat /\ Cardinality({}) = 0
  BY <1>3, FS_CardinalityType, FS_EmptySet
<1>6. Cardinality(CandidateIds(S)) + Cardinality(CandidateIds(T)) = Cardinality(C)
  <2>1. Cardinality(CandidateIds(C)) = Cardinality(C)
    BY CandidatesCounted
  <2>2. Cardinality(CandidateIds(S) \cap CandidateIds(T)) = 0
    BY <1>1, <1>5
  <2> HIDE DEF C, T
  <2>3. Cardinality(CandidateIds(C)) = Cardinality(CandidateIds(S)) + Cardinality(CandidateIds(T)) - 0
    BY <1>4, <2>2
  <2> QED  BY <1>5, <2>1, <2>3
<1> QED  BY <1>1, <1>6

(* Adjudication. *)
LEMMA BridgedIs ==
  ASSUME NEW m \in Models, NEW c \in Candidates(m)
  PROVE  Bridged(c, atlas, index) \in Seq(DOMAIN Score)
<1>1. c.category \in Categories
  BY CandidateIs DEF Categories
<1>2. TopK \in Nat
  BY CorpusAssumption
<1>3. Bridge(c.category, atlas, TopK) \in Seq(DOMAIN Score)
  BY <1>1, <1>2, BridgeIs
<1>4. <<>> \in Seq(DOMAIN Score)
  OBVIOUS
<1> QED  BY <1>3, <1>4 DEF Bridged

LEMMA GroundedIs ==
  ASSUME NEW m \in Models, NEW c \in Grounded(m, atlas, index)
  PROVE  LET b == Bridged(c, atlas, index) IN
         /\ c \in Candidates(m) /\ b # <<>>
         /\ Score[BestEvidence(b)] >= Threshold
         /\ c.kind = "dataflow" => c.element \in DOMAIN m.flows /\ Endpoints(c, m) \subseteq DOMAIN m.components
         /\ c.kind # "dataflow" => c.element \in DOMAIN m.components
<1> DEFINE b == Bridged(c, atlas, index)
<1>1. c \in Candidates(m) /\ Grounding(c, m, b) = "ok"
  BY DEF Grounded
<1>2. b \in Seq(DOMAIN Score)
  BY <1>1, BridgedIs
<1> HIDE DEF b
<1>3. /\ c.kind = "dataflow" => c.element \in DOMAIN m.flows /\ Endpoints(c, m) \subseteq DOMAIN m.components
      /\ c.kind # "dataflow" => c.element \in DOMAIN m.components
  BY <1>1, CandidateIs DEF Grounding
<1>4. \E t \in Range(b) : Score[t] >= Threshold
  BY <1>1, <1>3, CandidateIs DEF Grounding
<1>5. PICK t \in Range(b) : Score[t] >= Threshold
  BY <1>4
<1>6. b # <<>>
  BY <1>5 DEF Range
<1>7. Score[t] \in Nat /\ Score[BestEvidence(b)] \in Nat /\ Score[t] =< Score[BestEvidence(b)]
  BY <1>2, <1>5, <1>6, EvidenceIs
<1>8. Score[BestEvidence(b)] >= Threshold
  BY <1>5, <1>7, CorpusAssumption
<1> QED  BY <1>1, <1>3, <1>6, <1>8 DEF b

(* Every candidate is adjudicated or rejected, on evidence that is strong  *)
(* enough.                                                                 *)
LEMMA GateIsPassed ==
  ASSUME NEW m \in Models, NEW reachable
  PROVE  PassesGroundingGate(Adjudications(m, atlas, index, reachable), Rejections(m, atlas, index),
                             Cardinality(Candidates(m)))
<1> DEFINE G == Grounded(m, atlas, index)
           A == Adjudications(m, atlas, index, reachable)
           R == Rejections(m, atlas, index)
<1>1. G \in SUBSET Candidates(m)
  BY DEF Grounded
<1>2. \A a \in A : Score[a.evidence] >= Threshold
  BY GroundedIs DEF Adjudications, Adjudicate
<1>3. {<<a.candidate.element, a.candidate.category>> : a \in A} = CandidateIds(G)
  <2>1. \A c \in G : Adjudicate(c, m, Bridged(c, atlas, index), reachable).candidate = c
    BY DEF Adjudicate
  <2> QED  BY <2>1 DEF Adjudications, CandidateIds, CandidateId
<1>4. {<<r.candidate.element, r.candidate.category>> : r \in R} = CandidateIds(Candidates(m) \ G)
  <2> DEFINE rejection(c) == [candidate |-> c, reason |-> Grounding(c, m, Bridged(c, atlas, index))]
  <2>1. \A c : rejection(c).candidate = c
    OBVIOUS
  <2>2. R = {rejection(c) : c \in Candidates(m) \ G}
    BY DEF Rejections
  <2> HIDE DEF rejection, R, G
  <2> QED  BY <2>1, <2>2 DEF CandidateIds, CandidateId
<1> HIDE DEF G, A, R
<1>5. /\ CandidateIds(G) \cap CandidateIds(Candidates(m) \ G) = {}
      /\ Cardinality(CandidateIds(G)) + Cardinality(CandidateIds(Candidates(m) \ G)) = Cardinality(Candidates(m))
  BY <1>1, IdsAddUp
<1>6. PassesGroundingGate(A, R, Cardinality(Candidates(m)))
  BY <1>2, <1>3, <1>4, <1>5 DEF PassesGroundingGate
<1> QED  BY <1>6 DEF A, R

(* A flow from an actor to an entity in scope lets the actor there, if     *)
(* anything does.                                                          *)
LEMMA FlowOpensMove ==
  ASSUME NEW m \in Models, NEW x \in Actors(m), NEW e \in DOMAIN m.components \ OutOfScope(m), CanEnter
  PROVE  \E n \in Moves(WithFlow(m, x, e, "new"), Start(x)) : n.entity = e
<1> DEFINE w == WithFlow(m, x, e, "new")
           s == Start(x)
<1>1. /\ w.components = m.components /\ "new" \in DOMAIN w.flows
      /\ w.flows["new"] = [source |-> x, destination |-> e, authenticated |-> FALSE]
  BY AttackAssumption DEF WithFlow, WellFormed
<1>2. PICK c \in StrideCategories("dataflow", {}) :
        c # "elevation_of_privilege" /\ Bridge(c, atlas, TechniquesPerTransition) # <<>>
  BY DEF CanEnter
<1> HIDE DEF w
<1>3. OutOfScope(w) = OutOfScope(m) /\ Actors(w) = Actors(m)
  BY <1>1 DEF OutOfScope, Actors
<1>4. x \in DOMAIN m.components \ OutOfScope(m)
  BY DEF Actors
<1>5. "new" \in FlowsFrom(w, s.entity)
  BY <1>1, <1>3, <1>4 DEF FlowsFrom, Start
<1>6. Exposed(w, s, "new") /\ Permitted(s, w.flows["new"], c)
  BY <1>1, <1>2, <1>3 DEF Exposed, Permitted
<1> DEFINE t == <<"new", c>>
<1>7. t \in {z \in FlowsFrom(w, s.entity) \X StrideCategories("dataflow", {}) :
             /\ Exposed(w, s, z[1]) /\ Permitted(s, w.flows[z[1]], z[2])
             /\ Bridge(z[2], atlas, TechniquesPerTransition) # <<>>}
  BY <1>2, <1>5, <1>6
<1>8. Target(w, s, "new", c) \in Moves(w, s)
  <2> HIDE DEF s
  <2>1. Target(w, s, t[1], t[2]) \in Moves(w, s)
    BY <1>7, Zenon DEF Moves
  <2> QED  BY <2>1
<1>9. Target(w, s, "new", c).entity = e
  BY <1>1 DEF Target
<1> QED  BY <1>8, <1>9 DEF w

LEMMA AccountsForAll == GInv => AdjudicationAccounts
<1> SUFFICES ASSUME GInv PROVE AdjudicationAccounts
  OBVIOUS
<1>1. model \in Models
  BY DEF GInv, GraphTypes
<1>2. PassesGroundingGate(Adjudications(model, atlas, index, ReachableEntities), Rejections(model, atlas, index),
                          Cardinality(Candidates(model)))
  BY <1>1, GateIsPassed
<1>3. {c.element : c \in Candidates(model)} \cap OutOfScope(model) = {}
  BY <1>1, CandidateIs DEF OutOfScope
<1>4. ASSUME NEW a \in Adjudications(model, atlas, index, ReachableEntities)
      PROVE  LET c == a.candidate IN
             /\ Applicable(a) /\ c.framework = "stride" =>
                  \E n \in nodes : n.entity \in (IF c.kind = "dataflow" THEN Endpoints(c, model) ELSE {c.element})
             /\ a.condition = "reachability" /\ CanEnter => c.framework = "stride" /\
                  \A e \in UnreachableEntities(c, model, ReachableEntities), x \in Actors(model) :
                    \E n \in Moves(WithFlow(model, x, e, "new"), Start(x)) : n.entity = e
  <2>1. PICK c \in Grounded(model, atlas, index) :
          a = Adjudicate(c, model, Bridged(c, atlas, index), ReachableEntities)
    BY DEF Adjudications
  <2>2. /\ a.candidate = c
        /\ a.condition = "none" => UnreachableEntities(c, model, ReachableEntities) = {}
        /\ a.condition = "reachability" =>
             OutOfScopeEntities(c, model) = {} /\ UnreachableEntities(c, model, ReachableEntities) # {}
    BY <2>1 DEF Adjudicate
  <2>3. ASSUME Applicable(a), c.framework = "stride"
        PROVE  \E n \in nodes : n.entity \in (IF c.kind = "dataflow" THEN Endpoints(c, model) ELSE {c.element})
    <3>1. UnreachableEntities(c, model, ReachableEntities) = {}
      BY <2>2, <2>3 DEF Applicable
    <3>2. (IF c.kind = "dataflow" THEN {model.flows[c.element].source} ELSE {c.element}) \subseteq ReachableEntities
      BY <2>3, <3>1 DEF UnreachableEntities
    <3> QED  BY <3>2 DEF ReachableEntities, Endpoints
  <2>4. ASSUME a.condition = "reachability", CanEnter PROVE c.framework = "stride"
    BY <2>2, <2>4 DEF UnreachableEntities
  <2>5. ASSUME a.condition = "reachability", CanEnter,
               NEW e \in UnreachableEntities(c, model, ReachableEntities), NEW x \in Actors(model)
        PROVE  \E n \in Moves(WithFlow(model, x, e, "new"), Start(x)) : n.entity = e
    <3>1. OutOfScopeEntities(c, model) = {}
      BY <2>2, <2>5
    <3>2. /\ c.kind = "dataflow" => c.element \in DOMAIN model.flows /\ Endpoints(c, model) \subseteq DOMAIN model.components
          /\ c.kind # "dataflow" => c.element \in DOMAIN model.components
      BY <1>1, GroundedIs
    <3>3. e \in (IF c.kind = "dataflow" THEN {model.flows[c.element].source} ELSE {c.element})
      BY <2>4, <2>5 DEF UnreachableEntities
    <3>4. e \in DOMAIN model.components \ OutOfScope(model)
      BY <3>1, <3>2, <3>3 DEF OutOfScopeEntities, Endpoints
    <3> QED  BY <1>1, <2>5, <3>4, FlowOpensMove
  <2> QED  BY <2>2, <2>3, <2>4, <2>5
<1> QED  BY <1>2, <1>3, <1>4 DEF AdjudicationAccounts

(* For any model, rules and corpus: every candidate is adjudicated or      *)
(* rejected and the gate passes; a threat is applicable only where an      *)
(* attacker can be; a verdict that waits for reach is lifted by reach.     *)
THEOREM EveryCandidateIsAdjudicated == CritiqueSpec => []AdjudicationAccounts
<1>1. CritiqueInit => GInv
  BY GInvInit DEF CritiqueInit, RevisionInit, PathsInit
<1> QED  BY <1>1, GInvCritique, AccountsForAll, PTL DEF CritiqueSpec

-----------------------------------------------------------------------------
(* Attack paths.                                                           *)

(* The products of the numbers of a sequence, from the first on.           *)
Products(s, n, g) == g = [i \in 0..n |-> IF i = 0 THEN 1 ELSE s[i] * g[i - 1]]

LEMMA ProductsExist ==
  ASSUME NEW n \in Nat, NEW s \in [1..n -> Nat]
  PROVE  \E g : Products(s, n, g)
<1> DEFINE step(g, i) == IF i = 0 THEN 1 ELSE s[i] * g[i - 1]
           M == {m \in 0..n : \E g : g = [i \in 0..m |-> step(g, i)]}
<1>1. 0 \in M
  <2> DEFINE g == [i \in 0..0 |-> 1]
  <2>1. g = [i \in 0..0 |-> step(g, i)]
    OBVIOUS
  <2>2. \E gg : gg = [i \in 0..0 |-> step(gg, i)]
    BY <2>1
  <2> QED  BY <2>2
<1>2. ASSUME NEW m \in 0..n, m + 1 \in 0..n, m \in M PROVE m + 1 \in M
  <2>1. PICK g : g = [i \in 0..m |-> step(g, i)]
    BY <1>2
  <2> DEFINE h == [i \in 0..(m + 1) |-> IF i = m + 1 THEN step(g, i) ELSE g[i]]
  <2>2. ASSUME NEW i \in 0..(m + 1) PROVE h[i] = step(h, i)
    <3>1. CASE i = m + 1
      <4>1. m \in 0..m /\ m \in 0..(m + 1) /\ m # m + 1 /\ i - 1 = m /\ i # 0
        BY <3>1
      <4>2. h[i - 1] = g[i - 1] /\ h[i] = step(g, i)
        BY <3>1, <4>1
      <4> HIDE DEF h
      <4> QED  BY <4>2
    <3>2. CASE i # m + 1
      <4>1. i \in 0..m /\ i \in Nat
        BY <3>2
      <4>2. h[i] = g[i] /\ g[i] = step(g, i)
        BY <2>1, <3>2, <4>1
      <4>3. i # 0 => h[i - 1] = g[i - 1]
        <5>1. i # 0 => i - 1 \in 0..(m + 1) /\ i - 1 # m + 1
          BY <4>1
        <5> QED  BY <5>1
      <4> HIDE DEF h
      <4> QED  BY <4>2, <4>3
    <3> QED  BY <3>1, <3>2
  <2>3. h = [i \in 0..(m + 1) |-> step(h, i)]
    <3>1. h = [i \in 0..(m + 1) |-> h[i]]
      OBVIOUS
    <3> HIDE DEF h
    <3> QED  BY <2>2, <3>1
  <2> QED  BY <1>2, <2>3
<1>3. n \in M
  <2> HIDE DEF M
  <2>1. \A i \in 0..n : i \in M
    BY <1>1, <1>2, UpTo
  <2> QED  BY <2>1
<1> QED  BY <1>3 DEF Products

(* Larger factors make no product smaller. *)
LEMMA ProductsGrow ==
  ASSUME NEW n \in Nat, NEW s \in [1..n -> Nat], NEW t \in [1..n -> Nat], \A i \in 1..n : s[i] =< t[i],
         NEW g, NEW h, Products(s, n, g), Products(t, n, h)
  PROVE  g[n] \in Nat /\ h[n] \in Nat /\ g[n] =< h[n]
<1> DEFINE G == {i \in 0..n : g[i] \in Nat /\ h[i] \in Nat /\ g[i] =< h[i]}
<1>0. /\ \A i \in 0..n : g[i] = IF i = 0 THEN 1 ELSE s[i] * g[i - 1]
      /\ \A i \in 0..n : h[i] = IF i = 0 THEN 1 ELSE t[i] * h[i - 1]
  BY DEF Products
<1>1. 0 \in G
  BY <1>0
<1>2. ASSUME NEW m \in 0..n, m + 1 \in 0..n, m \in G PROVE m + 1 \in G
  <2>1. m + 1 # 0 /\ (m + 1) - 1 = m /\ m + 1 \in 1..n
    BY <1>2
  <2>2. g[m + 1] = s[m + 1] * g[m] /\ h[m + 1] = t[m + 1] * h[m]
    BY <1>0, <1>2, <2>1
  <2>3. \A a, b, c, d \in Nat : a =< b /\ c =< d => a * c \in Nat /\ b * d \in Nat /\ a * c =< b * d
    <3> SUFFICES ASSUME NEW a \in Nat, NEW b \in Nat, NEW c \in Nat, NEW d \in Nat, a =< b, c =< d
                 PROVE  a * c \in Nat /\ b * d \in Nat /\ a * c =< b * d
      OBVIOUS
    <3> DEFINE x == b - a
               y == d - c
    <3>1. x \in Nat /\ y \in Nat /\ b = a + x /\ d = c + y
      OBVIOUS
    <3> HIDE DEF x, y
    <3>2. b * d = a * c + a * y + x * c + x * y
      BY <3>1
    <3>3. a * c \in Nat /\ a * y \in Nat /\ x * c \in Nat /\ x * y \in Nat
      BY <3>1
    <3> QED  BY <3>2, <3>3
  <2>4. g[m] \in Nat /\ h[m] \in Nat /\ g[m] =< h[m] /\ s[m + 1] \in Nat /\ t[m + 1] \in Nat /\ s[m + 1] =< t[m + 1]
    BY <1>2, <2>1
  <2>5. s[m + 1] * g[m] \in Nat /\ t[m + 1] * h[m] \in Nat /\ s[m + 1] * g[m] =< t[m + 1] * h[m]
    BY <2>3, <2>4
  <2> QED  BY <1>2, <2>2, <2>5
<1>3. \A i \in 0..n : i \in G
  <2> HIDE DEF G
  <2> QED  BY <1>1, <1>2, UpTo
<1>4. n \in G
  <2> HIDE DEF G
  <2> QED  BY <1>3
<1> QED  BY <1>4

IsWay(q, n) ==
  /\ q \in Seq(nodes) /\ Len(q) > 0 /\ q[1] = n
  /\ \A i \in 1..(Len(q) - 1) : <<q[i], q[i + 1]>> \in Links

LEMMA WayGrows ==
  ASSUME NEW n, NEW q, IsWay(q, n), NEW l \in Links, l = <<l[1], l[2]>>, l[2] \in nodes, l[1] = Last(q)
  PROVE  IsWay(Append(q, l[2]), n)
<1> DEFINE r == Append(q, l[2])
<1>1. /\ Len(q) \in Nat /\ r \in Seq(nodes) /\ Len(r) = Len(q) + 1 /\ r[Len(q) + 1] = l[2]
      /\ \A i \in 1..Len(q) : r[i] = q[i]
  BY DEF IsWay
<1>2. Last(q) = q[Len(q)]
  BY DEF Last
<1> HIDE DEF r
<1>3. ASSUME NEW i \in 1..(Len(r) - 1) PROVE <<r[i], r[i + 1]>> \in Links
  <2>1. CASE i = Len(q)
    <3>1. r[i] = l[1] /\ r[i + 1] = l[2]
      BY <1>1, <1>2, <2>1 DEF IsWay
    <3> QED  BY <3>1
  <2>2. CASE i # Len(q)
    <3>1. i \in 1..(Len(q) - 1) /\ i \in 1..Len(q) /\ i + 1 \in 1..Len(q)
      BY <1>1, <2>2
    <3>2. r[i] = q[i] /\ r[i + 1] = q[i + 1]
      BY <1>1, <3>1
    <3> QED  BY <3>1, <3>2 DEF IsWay
  <2> QED  BY <2>1, <2>2
<1>4. r[1] = n /\ Len(r) > 0
  BY <1>1 DEF IsWay
<1> QED  BY <1>1, <1>3, <1>4 DEF IsWay, r

(* What the search ranks are ways from the one state to the other.         *)
(* A simple path visits no state twice. *)
Distinct(q) == \A i, j \in 1..Len(q) : q[i] = q[j] => i = j

LEMMA SimplePathsAre ==
  ASSUME IsFiniteSet(nodes), Links \in SUBSET (nodes \X nodes), NEW n \in nodes, NEW t, NEW q \in SimplePaths(n, t)
  PROVE  IsWay(q, n) /\ Distinct(q) /\ Last(q) = t
<1> DEFINE N == Cardinality(nodes)
           more(p) == {Append(p, l[2]) : l \in {l \in Links : l[1] = Last(p) /\ l[2] \notin Range(p)}}
           step(g, i) == IF i = 0 THEN {<<n>>} ELSE g[i - 1] \cup UNION {more(p) : p \in g[i - 1]}
           f == CHOOSE g : g = [i \in 0..N |-> step(g, i)]
<1>1. N \in Nat
  BY FS_CardinalityType
<1>2. q \in f[N] /\ Last(q) = t
  BY DEF SimplePaths, Ways
<1>a. ASSUME NEW p, IsWay(p, n), Distinct(p), NEW r \in more(p) PROVE IsWay(r, n) /\ Distinct(r)
  <2>1. PICK l \in Links : l[1] = Last(p) /\ l[2] \notin Range(p) /\ r = Append(p, l[2])
    BY <1>a
  <2>2. l = <<l[1], l[2]>> /\ l[2] \in nodes
    OBVIOUS
  <2>3. IsWay(r, n)
    BY <1>a, <2>1, <2>2, WayGrows
  <2>4. /\ p \in Seq(nodes) /\ Len(p) \in Nat /\ Len(r) = Len(p) + 1 /\ r[Len(p) + 1] = l[2]
        /\ \A i \in 1..Len(p) : r[i] = p[i] /\ p[i] # l[2]
    BY <1>a, <2>1, <2>2 DEF IsWay, Range
  <2>5. \A i \in 1..Len(r) : i \in 1..Len(p) \/ i = Len(p) + 1
    BY <2>4
  <2>6. Distinct(r)
    BY <1>a, <2>4, <2>5 DEF Distinct
  <2> QED  BY <2>3, <2>6
<1> HIDE DEF more, N
<1> DEFINE M == {m \in 0..N : \E g : g = [i \in 0..m |-> step(g, i)]}
<1>3. 0 \in M
  <2> DEFINE g == [i \in 0..0 |-> {<<n>>}]
  <2>1. g = [i \in 0..0 |-> step(g, i)]
    OBVIOUS
  <2>2. \E gg : gg = [i \in 0..0 |-> step(gg, i)]
    BY <2>1
  <2> QED  BY <1>1, <2>2
<1>4. ASSUME NEW m \in 0..N, m + 1 \in 0..N, m \in M PROVE m + 1 \in M
  <2>1. PICK g : g = [i \in 0..m |-> step(g, i)]
    BY <1>4
  <2> DEFINE h == [i \in 0..(m + 1) |-> IF i = m + 1 THEN step(g, i) ELSE g[i]]
  <2>2. ASSUME NEW i \in 0..(m + 1) PROVE h[i] = step(h, i)
    <3>1. CASE i = m + 1
      <4>1. m \in 0..m /\ m \in 0..(m + 1) /\ m # m + 1 /\ i - 1 = m /\ i # 0
        BY <1>1, <3>1
      <4>2. h[i - 1] = g[i - 1] /\ h[i] = step(g, i)
        BY <3>1, <4>1
      <4> HIDE DEF h
      <4> QED  BY <4>2
    <3>2. CASE i # m + 1
      <4>1. i \in 0..m /\ i \in Nat
        BY <1>1, <3>2
      <4>2. h[i] = g[i] /\ g[i] = step(g, i)
        BY <2>1, <3>2, <4>1
      <4>3. i # 0 => h[i - 1] = g[i - 1]
        <5>1. i # 0 => i - 1 \in 0..(m + 1) /\ i - 1 # m + 1
          BY <1>1, <4>1
        <5> QED  BY <5>1
      <4> HIDE DEF h
      <4> QED  BY <4>2, <4>3
    <3> QED  BY <3>1, <3>2
  <2>3. h = [i \in 0..(m + 1) |-> step(h, i)]
    <3>1. h = [i \in 0..(m + 1) |-> h[i]]
      OBVIOUS
    <3> HIDE DEF h
    <3> QED  BY <2>2, <3>1
  <2> QED  BY <1>4, <2>3
<1>5. N \in M
  <2> HIDE DEF M
  <2>1. \A i \in 0..N : i \in M
    BY <1>1, <1>3, <1>4, UpTo
  <2> QED  BY <1>1, <2>1
<1>6. f = [i \in 0..N |-> step(f, i)]
  BY <1>5
<1> HIDE DEF f
<1> DEFINE G == {i \in 0..N : \A p \in f[i] : IsWay(p, n) /\ Distinct(p)}
<1>7. 0 \in G
  <2>1. f[0] = {<<n>>} /\ 0 \in 0..N
    BY <1>1, <1>6
  <2>2. IsWay(<<n>>, n) /\ Distinct(<<n>>)
    BY DEF IsWay, Distinct
  <2> QED  BY <2>1, <2>2
<1>8. ASSUME NEW m \in 0..N, m + 1 \in 0..N, m \in G PROVE m + 1 \in G
  <2>1. m + 1 # 0 /\ (m + 1) - 1 = m
    BY <1>1, <1>8
  <2>2. f[m + 1] = f[m] \cup UNION {more(p) : p \in f[m]}
    <3>1. f[m + 1] = step(f, m + 1)
      BY <1>6, <1>8, Zenon
    <3> QED  BY <2>1, <3>1
  <2>3. ASSUME NEW r \in f[m + 1] PROVE IsWay(r, n) /\ Distinct(r)
    <3>1. CASE r \in f[m]
      BY <1>8, <3>1
    <3>2. CASE \E p \in f[m] : r \in more(p)
      BY <1>8, <1>a, <3>2
    <3> QED  BY <2>2, <2>3, <3>1, <3>2
  <2> QED  BY <1>8, <2>3
<1>9. \A i \in 0..N : i \in G
  <2> HIDE DEF G
  <2> QED  BY <1>1, <1>7, <1>8, UpTo
<1>10. N \in G
  <2> HIDE DEF G
  <2>1. N \in 0..N
    BY <1>1
  <2> QED  BY <1>9, <2>1
<1> QED  BY <1>2, <1>10

-----------------------------------------------------------------------------
(* Likelihoods.                                                            *)

EdgeTypes ==
  \A k \in DOMAIN edges :
    /\ k = <<k[1], k[2], k[3]>> /\ k[3] \in DOMAIN Score /\ edges[k].category \in StrideCategories("dataflow", {})

LEMMA StepIsNat ==
  ASSUME EdgeTypes, NEW k \in DOMAIN edges
  PROVE  StepLikelihood(k) \in Nat /\ StepLikelihood(k) =< Unit
<1> DEFINE a == Exposure(k[1])
           b == CategoryLikelihood[edges[k].category]
           c == Prevalence[k[3]]
           d == ControlPresence(k[2])
           e == IntelUplift(k[3])
<1>1. a \in Nat /\ d \in Nat /\ e \in Nat /\ b \in Nat /\ c \in Nat
  BY SearchAssumption DEF EdgeTypes, Exposure, ControlPresence, IntelUplift
<1>2. StepLikelihood(k) = IF a * b * c * d * e > Unit THEN Unit ELSE a * b * c * d * e
  BY DEF StepLikelihood
<1> HIDE DEF a, b, c, d, e
<1>3. a * b * c * d * e \in Nat
  <2>1. a * b \in Nat
    BY <1>1
  <2>2. (a * b) * c \in Nat
    BY <1>1, <2>1
  <2>3. ((a * b) * c) * d \in Nat
    BY <1>1, <2>2
  <2> QED  BY <1>1, <2>3
<1>4. Unit \in Nat
  BY DEF Unit
<1> QED  BY <1>2, <1>3, <1>4

(* The collapsed graph has the likeliest edge for a step.                  *)
LEMMA CollapsedIs ==
  ASSUME EdgeTypes, NEW l \in Links
  PROVE  Collapse[l] \in Between(l[1], l[2]) /\ \A o \in Between(l[1], l[2]) : StepLikelihood(o) =< StepLikelihood(Collapse[l])
<1> DEFINE B == Between(l[1], l[2])
           S == {StepLikelihood(k) : k \in B}
<1>1. B \subseteq DOMAIN edges /\ B # {}
  BY DEF Between, Links
<1>2. S \in SUBSET Nat /\ S # {} /\ \A x \in S : x =< Unit
  BY <1>1, StepIsNat
<1>3. Unit \in Nat
  BY DEF Unit
<1>4. PICK s \in S : \A x \in S : x =< s
  <2> HIDE DEF S
  <2> QED  BY <1>2, <1>3, HasGreatest
<1>5. \E k \in B : \A o \in B : StepLikelihood(o) =< StepLikelihood(k)
  BY <1>4
<1>6. Likeliest(l[1], l[2]) = {k \in B : \A o \in B : StepLikelihood(o) =< StepLikelihood(k)}
  BY DEF Likeliest
<1>7. Collapse[l] = CHOOSE k \in Likeliest(l[1], l[2]) : TRUE
  BY DEF Collapse
<1> HIDE DEF B
<1>8. Collapse[l] \in Likeliest(l[1], l[2])
  BY <1>5, <1>6, <1>7
<1>9. Collapse[l] \in B /\ \A o \in B : StepLikelihood(o) =< StepLikelihood(Collapse[l])
  BY <1>6, <1>8
<1> QED  BY <1>9 DEF B

(* A path's likelihood, and an attack's, is the product of its factors.    *)
PathFactor(p, i) == IF i < Len(p) THEN StepLikelihood(simple[<<p[i], p[i + 1]>>]) ELSE Unit
AttackFactor(a, i) == IF i \in DOMAIN a THEN StepLikelihood(a[i]) ELSE Unit

LEMMA LikelihoodIs ==
  ASSUME NEW p, NEW n \in Nat, NEW s \in [1..n -> Nat], \A i \in 1..n : s[i] = PathFactor(p, i)
  PROVE  \E g : Products(s, n, g) /\ Likelihood(p, n) = g[n]
<1> DEFINE f == CHOOSE g : g = [i \in 0..n |-> IF i = 0 THEN 1 ELSE PathFactor(p, i) * g[i - 1]]
<1>1. Likelihood(p, n) = f[n]
  BY DEF Likelihood, PathFactor
<1>2. ASSUME NEW g
      PROVE  [i \in 0..n |-> IF i = 0 THEN 1 ELSE PathFactor(p, i) * g[i - 1]] =
             [i \in 0..n |-> IF i = 0 THEN 1 ELSE s[i] * g[i - 1]]
  <2>1. \A i \in 0..n : i # 0 => i \in 1..n
    OBVIOUS
  <2> QED  BY <2>1
<1>3. \E g : g = [i \in 0..n |-> IF i = 0 THEN 1 ELSE PathFactor(p, i) * g[i - 1]]
  <2>1. PICK g : Products(s, n, g)
    BY ProductsExist
  <2>2. g = [i \in 0..n |-> IF i = 0 THEN 1 ELSE PathFactor(p, i) * g[i - 1]]
    BY <1>2, <2>1 DEF Products
  <2> QED  BY <2>2
<1>4. f = [i \in 0..n |-> IF i = 0 THEN 1 ELSE PathFactor(p, i) * f[i - 1]]
  BY <1>3
<1> HIDE DEF f
<1>5. Products(s, n, f)
  BY <1>2, <1>4 DEF Products
<1> QED  BY <1>1, <1>5

LEMMA AttackLikelihoodIs ==
  ASSUME NEW a, NEW s \in [1..LongestPath -> Nat], \A i \in 1..LongestPath : s[i] = AttackFactor(a, i)
  PROVE  \E g : Products(s, LongestPath, g) /\ AttackLikelihood(a) = g[LongestPath]
<1> DEFINE n == LongestPath
           f == CHOOSE g : g = [i \in 0..n |-> IF i = 0 THEN 1 ELSE AttackFactor(a, i) * g[i - 1]]
<1>0. n \in Nat
  BY AttackAssumption DEF LongestPath
<1>1. AttackLikelihood(a) = f[n]
  BY DEF AttackLikelihood, AttackFactor
<1> HIDE DEF n
<1>2. ASSUME NEW g
      PROVE  [i \in 0..n |-> IF i = 0 THEN 1 ELSE AttackFactor(a, i) * g[i - 1]] =
             [i \in 0..n |-> IF i = 0 THEN 1 ELSE s[i] * g[i - 1]]
  <2>1. \A i \in 0..n : i # 0 => i \in 1..n
    BY <1>0
  <2>2. \A i \in 1..n : s[i] = AttackFactor(a, i)
    BY DEF n
  <2> QED  BY <2>1, <2>2
<1>3. \E g : g = [i \in 0..n |-> IF i = 0 THEN 1 ELSE AttackFactor(a, i) * g[i - 1]]
  <2>1. s \in [1..n -> Nat]
    BY DEF n
  <2>2. PICK g : Products(s, n, g)
    BY <1>0, <2>1, ProductsExist
  <2>3. g = [i \in 0..n |-> IF i = 0 THEN 1 ELSE AttackFactor(a, i) * g[i - 1]]
    BY <1>2, <2>2 DEF Products
  <2> QED  BY <2>3
<1>4. f = [i \in 0..n |-> IF i = 0 THEN 1 ELSE AttackFactor(a, i) * f[i - 1]]
  BY <1>3
<1> HIDE DEF f
<1>5. Products(s, n, f)
  BY <1>2, <1>4 DEF Products
<1> QED  BY <1>1, <1>5 DEF n

(* No attack along a path is more likely than the path.                    *)
LEMMA AttackBelow ==
  ASSUME EdgeTypes, simple = Collapse, NEW n, NEW q, IsWay(q, n), NEW a \in Attacks(q)
  PROVE  AttackLikelihood(a) \in Nat /\ PathLikelihood(q) \in Nat /\ AttackLikelihood(a) =< PathLikelihood(q)
<1> DEFINE L == LongestPath
           s == [i \in 1..L |-> AttackFactor(a, i)]
           t == [i \in 1..L |-> PathFactor(q, i)]
<1>0. L \in Nat /\ Unit \in Nat
  BY AttackAssumption DEF LongestPath, Unit
<1>1. /\ Len(q) \in Nat /\ DOMAIN a = 1..(Len(q) - 1)
      /\ \A i \in 1..(Len(q) - 1) : a[i] \in DOMAIN edges /\ a[i] \in Between(q[i], q[i + 1]) /\ <<q[i], q[i + 1]>> \in Links
  BY DEF Attacks, IsWay
<1>2. ASSUME NEW i \in 1..L
      PROVE  AttackFactor(a, i) \in Nat /\ PathFactor(q, i) \in Nat /\ AttackFactor(a, i) =< PathFactor(q, i)
  <2>1. CASE i < Len(q)
    <3>1. i \in 1..(Len(q) - 1) /\ i \in DOMAIN a
      BY <1>0, <1>1, <2>1
    <3> DEFINE l == <<q[i], q[i + 1]>>
    <3>2. l \in Links /\ l[1] = q[i] /\ l[2] = q[i + 1]
      BY <1>1, <3>1
    <3> HIDE DEF l
    <3>3. Collapse[l] \in Between(l[1], l[2]) /\ \A o \in Between(l[1], l[2]) : StepLikelihood(o) =< StepLikelihood(Collapse[l])
      BY <3>2, CollapsedIs
    <3>4. a[i] \in DOMAIN edges /\ a[i] \in Between(l[1], l[2])
      BY <1>1, <3>1, <3>2
    <3>5. Collapse[l] \in DOMAIN edges
      BY <3>3 DEF Between
    <3>6. StepLikelihood(a[i]) \in Nat /\ StepLikelihood(Collapse[l]) \in Nat /\ StepLikelihood(a[i]) =< StepLikelihood(Collapse[l])
      BY <3>3, <3>4, <3>5, StepIsNat
    <3>7. AttackFactor(a, i) = StepLikelihood(a[i]) /\ PathFactor(q, i) = StepLikelihood(Collapse[l])
      BY <2>1, <3>1 DEF AttackFactor, PathFactor, l
    <3> QED  BY <3>6, <3>7
  <2>2. CASE ~(i < Len(q))
    <3>1. i \notin DOMAIN a
      BY <1>0, <1>1, <2>2
    <3> QED  BY <1>0, <2>2, <3>1 DEF AttackFactor, PathFactor
  <2> QED  BY <2>1, <2>2
<1>3. s \in [1..L -> Nat] /\ t \in [1..L -> Nat] /\ \A i \in 1..L : s[i] =< t[i]
  BY <1>2
<1>4. (\A i \in 1..L : s[i] = AttackFactor(a, i)) /\ (\A i \in 1..L : t[i] = PathFactor(q, i))
  OBVIOUS
<1> HIDE DEF s, t
<1>5. PICK g : Products(s, L, g) /\ AttackLikelihood(a) = g[L]
  BY <1>3, <1>4, AttackLikelihoodIs
<1>6. PICK h : Products(t, L, h) /\ PathLikelihood(q) = h[L]
  BY <1>0, <1>3, <1>4, LikelihoodIs DEF PathLikelihood
<1>7. g[L] \in Nat /\ h[L] \in Nat /\ g[L] =< h[L]
  <2> HIDE DEF L
  <2> QED  BY <1>0, <1>3, <1>5, <1>6, ProductsGrow
<1> QED  BY <1>5, <1>6, <1>7

(* A path's likelihood is a number. *)
LEMMA LikelihoodIsNat ==
  ASSUME EdgeTypes, simple = Collapse, NEW n, NEW q, IsWay(q, n)
  PROVE  PathLikelihood(q) \in Nat
<1> DEFINE L == LongestPath
           t == [i \in 1..L |-> PathFactor(q, i)]
<1>0. L \in Nat /\ Unit \in Nat
  BY AttackAssumption DEF LongestPath, Unit
<1>1. ASSUME NEW i \in 1..L PROVE PathFactor(q, i) \in Nat
  <2>1. CASE i < Len(q)
    <3> DEFINE l == <<q[i], q[i + 1]>>
    <3>1. Len(q) \in Nat /\ i \in 1..(Len(q) - 1)
      BY <1>0, <2>1 DEF IsWay
    <3>2. l \in Links
      BY <3>1 DEF IsWay
    <3>3. PathFactor(q, i) = StepLikelihood(Collapse[l])
      BY <2>1 DEF PathFactor
    <3> HIDE DEF l
    <3>4. Collapse[l] \in DOMAIN edges
      BY <3>2, CollapsedIs DEF Between
    <3> QED  BY <3>3, <3>4, StepIsNat
  <2>2. CASE ~(i < Len(q))
    BY <1>0, <2>2 DEF PathFactor
  <2> QED  BY <2>1, <2>2
<1>2. t \in [1..L -> Nat] /\ \A i \in 1..L : t[i] = PathFactor(q, i)
  BY <1>1
<1> HIDE DEF t
<1>3. PICK h : Products(t, L, h) /\ PathLikelihood(q) = h[L]
  BY <1>0, <1>2, LikelihoodIs DEF PathLikelihood
<1>4. h[L] \in Nat
  <2>1. t \in [1..L -> Nat] /\ \A i \in 1..L : t[i] =< t[i]
    BY <1>2
  <2> HIDE DEF L
  <2> QED  BY <1>0, <1>3, <2>1, ProductsGrow
<1> QED  BY <1>3, <1>4

(* What the search works on stays the same while it goes on.               *)
LEMMA PairsStay ==
  ASSUME UNCHANGED <<model, nodes, edges>>
  PROVE  Links' = Links /\ Pairs' = Pairs
<1>1. Links' = Links
  BY DEF Links
<1>2. \A n, t : HasPath(n, t)' <=> HasPath(n, t)
  BY <1>1 DEF HasPath, NoLinkLeaves
<1> QED  BY <1>1, <1>2 DEF Pairs, EntryPoints, Actors, OutOfScope, CrownJewels

LEMMA SearchKept ==
  ASSUME UNCHANGED <<model, nodes, edges, articles, simple>>
  PROVE  /\ Links' = Links /\ Pairs' = Pairs /\ Collapse' = Collapse
         /\ \A p : PathLikelihood(p)' = PathLikelihood(p) /\ Attacks(p)' = Attacks(p)
         /\ \A a : AttackLikelihood(a)' = AttackLikelihood(a)
         /\ \A n, t : SimplePaths(n, t)' = SimplePaths(n, t)
         /\ \A q, n : IsWay(q, n)' <=> IsWay(q, n)
<1>1. Links' = Links /\ Pairs' = Pairs
  BY PairsStay
<1>4. \A k : StepLikelihood(k)' = StepLikelihood(k)
  BY DEF StepLikelihood, ControlPresence, IntelUplift, Exposure
<1>5. \A n, t : Between(n, t)' = Between(n, t)
  BY DEF Between
<1>6. Collapse' = Collapse
  <2>1. \A n, t : Likeliest(n, t)' = Likeliest(n, t)
    BY <1>4, <1>5 DEF Likeliest
  <2> QED  BY <1>1, <2>1 DEF Collapse
<1>7. ASSUME NEW p PROVE PathLikelihood(p)' = PathLikelihood(p) /\ Attacks(p)' = Attacks(p)
  <2>1. Attacks(p)' = Attacks(p)
    BY <1>5 DEF Attacks
  <2>2. PathLikelihood(p)' = PathLikelihood(p)
    BY <1>4, Zenon DEF PathLikelihood, Likelihood
  <2> QED  BY <2>1, <2>2
<1>8. ASSUME NEW a PROVE AttackLikelihood(a)' = AttackLikelihood(a)
  BY <1>4, Zenon DEF AttackLikelihood
<1>9. ASSUME NEW n, NEW t PROVE SimplePaths(n, t)' = SimplePaths(n, t)
  BY <1>1 DEF SimplePaths
<1>10. ASSUME NEW q, NEW n PROVE IsWay(q, n)' <=> IsWay(q, n)
  BY <1>1 DEF IsWay
<1> QED  BY <1>1, <1>6, <1>7, <1>8, <1>9, <1>10

(* The kinds of edges.                                                     *)
LEMMA EdgeTypesNext == GInv /\ EdgeTypes /\ [CritiqueNext]_critiqueVars => EdgeTypes'
<1> SUFFICES ASSUME GInv, EdgeTypes, [CritiqueNext]_critiqueVars PROVE EdgeTypes'
  OBVIOUS
<1>1. ASSUME NEW x \in todo, Transition(x[1], x[2]) PROVE EdgeTypes'
  <2>1. PICK n \in current : LeftFor(n, x) /\ (Skips(n, x) \/ Stops \/ Grows(n, x))
    BY <1>1, TransitionIs
  <2>2. CASE UNCHANGED edges
    BY <2>2 DEF EdgeTypes
  <2>3. CASE Grows(n, x)
    <3> DEFINE q == TechniquesOn(x)
               K == EdgesOf(n, x, Len(q))
    <3>1. q \in Seq(DOMAIN Score) /\ x[2].category \in StrideCategories("dataflow", {})
      BY <2>1 DEF LeftFor
    <3>2. edges' = [k \in DOMAIN edges \cup K |->
                      IF k \in K THEN [flow |-> x[1], category |-> x[2].category] ELSE edges[k]]
      BY <2>3 DEF Grows
    <3>3. ASSUME NEW k \in K PROVE k = <<k[1], k[2], k[3]>> /\ k[3] \in DOMAIN Score
      <4>1. PICK j \in 1..Len(q) : k = <<n, TargetOf(n, x), q[j]>>
        BY DEF EdgesOf
      <4>2. q[j] \in DOMAIN Score
        BY <3>1, <4>1
      <4> QED  BY <4>1, <4>2
    <3> HIDE DEF K
    <3> QED  BY <3>1, <3>2, <3>3 DEF EdgeTypes
  <2> QED  BY <2>1, <2>2, <2>3 DEF Skips, Stops
<1>2. CASE UNCHANGED edges
  BY <1>2 DEF EdgeTypes
<1>3. CASE AttackNext
  BY <1>1, <1>2, <1>3 DEF AttackNext, Seed, Seeded, Dequeue, GraphBuilt
<1>4. CASE PathsNext
  BY <1>2, <1>3, <1>4 DEF PathsNext, StartSearch, SearchDone, TakePair, NextPath, graphVars
<1> QED  BY <1>2, <1>4 DEF CritiqueNext, RevisionNext, Revise, Criticise, critiqueVars, revisionVars, attackVars, graphVars

(* The walk is over when a search has begun. *)
LEMMA WalkIs ==
  ASSUME GInv, AttackNext
  PROVE  built \in {"seeding", "walking"} /\ built' \in {"seeding", "walking", "built", "exceeded"}
<1>1. ASSUME NEW x \in todo, Transition(x[1], x[2]) PROVE built = "walking" /\ built' \in {"walking", "exceeded"}
  <2>1. built = "walking"
    BY <1>1 DEF GInv, TodoSound
  <2>2. PICK n \in current : Skips(n, x) \/ Stops \/ Grows(n, x)
    BY <1>1, TransitionIs
  <2> QED  BY <2>1, <2>2 DEF Skips, Stops, Grows
<1>2. ASSUME NEW a \in Actors(model), Seed(a) PROVE built = "seeding" /\ built' \in {"seeding", "exceeded"}
  BY <1>2 DEF Seed
<1> QED  BY <1>1, <1>2 DEF AttackNext, Seeded, Dequeue, GraphBuilt

-----------------------------------------------------------------------------
(* The search.                                                             *)

Kept(p) == {q \in paths : q[1] = p[1] /\ Last(q) = p[2]}
Others(p) == {q \in SimplePaths(p[1], p[2]) \ Kept(p) : Len(q) - 1 =< MaxDepth}

(* What a search must have found for a pair. *)
BestKept(p) ==
  /\ Kept(p) \subseteq SimplePaths(p[1], p[2]) /\ Cardinality(Kept(p)) =< PathsPerTarget
  /\ Kept(p) = {} => Others(p) = {}
  /\ \A q \in Kept(p), o \in Others(p) : PathLikelihood(o) =< PathLikelihood(q)
Searched(p) == BestKept(p) /\ (~capped => Others(p) = {})

(* The pair in hand: what is ranked is not kept yet, what is neither is    *)
(* too long, and nothing ranked is more likely than what is kept.          *)
InHand(h) ==
  /\ h \in Pairs \ pairs
  /\ DOMAIN ranked \subseteq SimplePaths(h[1], h[2]) \ Kept(h)
  /\ \A q \in DOMAIN ranked : ranked[q] = PathLikelihood(q)
  /\ Kept(h) \subseteq SimplePaths(h[1], h[2])
  /\ IsFiniteSet(Kept(h)) /\ Cardinality(Kept(h)) = found /\ found =< PathsPerTarget
  /\ \A o \in SimplePaths(h[1], h[2]) \ Kept(h) : o \in DOMAIN ranked \/ ~(Len(o) - 1 =< MaxDepth)
  /\ \A q \in Kept(h), o \in DOMAIN ranked : PathLikelihood(o) =< PathLikelihood(q)

(* A path that is kept is short and was found for a pair that was taken. *)
KeptFound ==
  /\ IsFiniteSet(paths)
  /\ \A q \in paths : Len(q) - 1 =< MaxDepth /\ \E p \in Pairs \ pairs : q \in SimplePaths(p[1], p[2])

SearchUnderWay ==
  /\ simple = Collapse /\ pairs \subseteq Pairs /\ KeptFound
  /\ ranked = <<>> => \A p \in Pairs \ pairs : Searched(p)
  /\ ranked # <<>> => \E h : InHand(h) /\ \A p \in (Pairs \ pairs) \ {h} : Searched(p)

PInv ==
  /\ GInv /\ EdgeTypes /\ looked \in Nat /\ found \in Nat
  /\ built \notin {"searching", "done", "exceeded", "criticised"} => ranked = <<>> /\ paths = {}
  /\ built \in {"searching", "done"} => SearchUnderWay
  /\ built = "done" => pairs = {} /\ ranked = <<>>

(* The ends of a pair, and of its paths. *)
LEMMA PairIs ==
  ASSUME GInv, NEW p \in Pairs
  PROVE  /\ p = <<p[1], p[2]>> /\ p[1] \in nodes
         /\ \A q \in SimplePaths(p[1], p[2]) : IsWay(q, p[1]) /\ q[1] = p[1] /\ Last(q) = p[2]
<1>1. Links \in SUBSET (nodes \X nodes) /\ IsFiniteSet(nodes)
  BY DEF GInv, GraphTypes, EdgesSound, Links
<1>2. p = <<p[1], p[2]>> /\ p[1] \in nodes
  BY <1>1 DEF Pairs
<1>3. ASSUME NEW q \in SimplePaths(p[1], p[2]) PROVE IsWay(q, p[1]) /\ Last(q) = p[2]
  BY <1>1, <1>2, SimplePathsAre
<1> QED  BY <1>2, <1>3 DEF IsWay

(* A pair whose paths are all looked at is searched. *)
LEMMA HandSearched ==
  ASSUME NEW h, InHand(h), ranked = <<>>
  PROVE  Searched(h)
<1>1. Others(h) = {}
  BY DEF InHand, Others
<1> QED  BY <1>1 DEF InHand, Searched, BestKept

(* So is one that has its number of paths, but for what is left out.       *)
LEMMA HandBest ==
  ASSUME NEW h, InHand(h), found >= PathsPerTarget
  PROVE  BestKept(h)
<1>1. Kept(h) # {}
  BY SearchAssumption, FS_EmptySet DEF InHand
<1>2. ASSUME NEW q \in Kept(h), NEW o \in Others(h)
      PROVE  PathLikelihood(o) =< PathLikelihood(q)
  BY DEF InHand, Others
<1> QED  BY <1>1, <1>2 DEF InHand, BestKept

(* What was searched stays so while another pair is. *)
LEMMA BestStays ==
  ASSUME UNCHANGED <<model, nodes, edges, articles, simple>>, NEW p, BestKept(p), Kept(p)' = Kept(p)
  PROVE  BestKept(p)' /\ Others(p)' = Others(p)
<1>1. Others(p)' = Others(p)
  BY SearchKept DEF Others
<1> QED  BY <1>1, SearchKept DEF BestKept

LEMMA SearchedStays ==
  ASSUME UNCHANGED <<model, nodes, edges, articles, simple>>, NEW p, Searched(p), Kept(p)' = Kept(p), capped => capped'
  PROVE  Searched(p)'
BY BestStays DEF Searched

LEMMA PInvInit == CritiqueInit => PInv
<1> SUFFICES ASSUME CritiqueInit PROVE PInv
  OBVIOUS
<1>1. AttackInit /\ ranked = <<>> /\ looked = 0 /\ found = 0 /\ paths = {} /\ built = "seeding" /\ edges = <<>>
  BY DEF CritiqueInit, RevisionInit, PathsInit, AttackInit
<1>2. EdgeTypes
  BY <1>1 DEF EdgeTypes
<1> QED  BY <1>1, <1>2, GInvInit DEF PInv

(* Nothing is searched yet when the search begins. *)
LEMMA PInvStart == ASSUME PInv, NEW intel \in ArticleSets, StartSearch(intel), GInv', EdgeTypes' PROVE PInv'
<1>1. /\ built = "built" /\ built' = "searching" /\ pairs' = Pairs /\ simple' = Collapse'
      /\ UNCHANGED <<model, nodes, edges, ranked, looked, found, paths>>
  BY DEF StartSearch
<1>2. Pairs' = Pairs
  BY <1>1, PairsStay
<1>3. ranked = <<>> /\ paths = {}
  BY <1>1 DEF PInv
<1>4. SearchUnderWay'
  BY <1>1, <1>2, <1>3, FS_EmptySet DEF SearchUnderWay, KeptFound
<1> QED  BY <1>1, <1>4 DEF PInv

(* The pair that is taken is in hand, and nothing is kept for it yet. *)
LEMMA PInvTake == ASSUME PInv, NEW h \in pairs, TakePair(h), GInv', EdgeTypes' PROVE PInv'
<1>1. /\ built = "searching" /\ ranked = <<>> /\ pairs' = pairs \ {h} /\ looked' = 0 /\ found' = 0
      /\ ranked' = [q \in SimplePaths(h[1], h[2]) |-> PathLikelihood(q)]
      /\ UNCHANGED <<model, nodes, edges, articles, simple, paths, capped, built>>
  BY DEF TakePair, graphVars
<1>2. /\ GInv /\ simple = Collapse /\ pairs \subseteq Pairs /\ KeptFound
      /\ \A p \in Pairs \ pairs : Searched(p)
  BY <1>1 DEF PInv, SearchUnderWay
<1>3. \A p : Kept(p)' = Kept(p)
  BY <1>1 DEF Kept
<1>4. \A p \in Pairs \ pairs : Searched(p)'
  BY <1>1, <1>2, <1>3, SearchedStays
<1>5. Kept(h) = {}
  <2> SUFFICES ASSUME NEW q \in paths, q[1] = h[1], Last(q) = h[2] PROVE FALSE
    BY DEF Kept
  <2>1. PICK p \in Pairs \ pairs : q \in SimplePaths(p[1], p[2])
    BY <1>2 DEF KeptFound
  <2>2. p = <<p[1], p[2]>> /\ h = <<h[1], h[2]>> /\ q[1] = p[1] /\ Last(q) = p[2]
    BY <1>2, <2>1, PairIs
  <2>3. p = h
    BY <2>2
  <2> QED  BY <2>1, <2>3
<1>6. /\ Pairs' = Pairs /\ Collapse' = Collapse /\ \A n, t : SimplePaths(n, t)' = SimplePaths(n, t)
      /\ \A q : PathLikelihood(q)' = PathLikelihood(q)
  BY <1>1, SearchKept
<1>7. DOMAIN ranked' = SimplePaths(h[1], h[2]) /\ \A q \in DOMAIN ranked' : ranked'[q] = PathLikelihood(q)
  BY <1>1
<1>8. InHand(h)'
  <2>1. h \in (Pairs \ pairs)' /\ Kept(h)' = {}
    BY <1>1, <1>2, <1>3, <1>5, <1>6
  <2>2. DOMAIN ranked' \subseteq SimplePaths(h[1], h[2])' \ Kept(h)' /\ \A q \in DOMAIN ranked' : ranked'[q] = PathLikelihood(q)'
    BY <1>6, <1>7, <2>1
  <2>3. IsFiniteSet(Kept(h)') /\ Cardinality(Kept(h)') = found' /\ found' =< PathsPerTarget
    BY <1>1, <2>1, FS_EmptySet, SearchAssumption
  <2>4. \A o \in SimplePaths(h[1], h[2])' : o \in DOMAIN ranked'
    BY <1>6, <1>7
  <2> QED  BY <2>1, <2>2, <2>3, <2>4 DEF InHand
<1>9. (Pairs \ pairs)' = (Pairs \ pairs) \cup {h}
  BY <1>1, <1>2, <1>6
<1>10. simple' = Collapse'
  BY <1>1, <1>2, <1>6
<1>11. ranked' = <<>> => Searched(h)'
  <2>1. ranked' = <<>> => Others(h)' = {}
    BY <1>8 DEF InHand, Others
  <2> QED  BY <1>8, <2>1 DEF InHand, Searched, BestKept
<1>12. KeptFound'
  BY <1>1, <1>2, <1>6, <1>9 DEF KeptFound
<1>13. SearchUnderWay'
  BY <1>1, <1>2, <1>4, <1>6, <1>8, <1>9, <1>10, <1>11, <1>12 DEF SearchUnderWay
<1> QED  BY <1>1, <1>13 DEF PInv

(* The most likely of those left is kept, unless it is too long, or ends   *)
(* the search of the pair.                                                 *)
LEMMA PInvNextPath == ASSUME PInv, NEW q \in DOMAIN ranked, NextPath(q), GInv', EdgeTypes' PROVE PInv'
<1>1. /\ built = "searching" /\ q \in NextPaths /\ looked' = looked + 1 /\ looked \in Nat /\ found \in Nat
      /\ UNCHANGED <<model, nodes, edges, articles, simple, pairs>>
      /\ \/ looked >= SearchBudget /\ built' = "exceeded" /\ UNCHANGED found
         \/ /\ Len(q) - 1 =< MaxDepth /\ found >= PathsPerTarget
            /\ capped' = TRUE /\ ranked' = <<>> /\ UNCHANGED <<found, paths, built>>
         \/ /\ ranked' = Restrict(ranked, DOMAIN ranked \ {q})
            /\ ~(Len(q) - 1 =< MaxDepth /\ found >= PathsPerTarget)
            /\ IF Len(q) - 1 > MaxDepth THEN UNCHANGED <<found, paths>>
               ELSE found' = found + 1 /\ paths' = paths \cup {q}
            /\ UNCHANGED <<capped, built>>
  <2>1. looked \in Nat /\ SearchBudget \in Nat
    BY SearchAssumption DEF PInv
  <2> QED  BY <2>1 DEF NextPath, PInv
<1>2. GInv /\ EdgeTypes /\ simple = Collapse /\ pairs \subseteq Pairs /\ KeptFound
  BY <1>1 DEF PInv, SearchUnderWay
<1>3. PICK h : InHand(h) /\ \A p \in (Pairs \ pairs) \ {h} : Searched(p)
  <2>1. ranked # <<>>
    OBVIOUS
  <2> QED  BY <1>1, <2>1 DEF PInv, SearchUnderWay
<1>4. /\ Pairs' = Pairs /\ Collapse' = Collapse /\ \A n, t : SimplePaths(n, t)' = SimplePaths(n, t)
      /\ \A o : PathLikelihood(o)' = PathLikelihood(o)
  BY <1>1, SearchKept
<1>5. q \in SimplePaths(h[1], h[2]) \ Kept(h) /\ h \in Pairs \ pairs /\ Len(q) \in Nat /\ q[1] = h[1] /\ Last(q) = h[2]
  <2>1. q \in SimplePaths(h[1], h[2]) \ Kept(h) /\ h \in Pairs \ pairs
    BY <1>3 DEF InHand
  <2>2. IsWay(q, h[1]) /\ q[1] = h[1] /\ Last(q) = h[2]
    BY <1>2, <2>1, PairIs
  <2> QED  BY <2>1, <2>2 DEF IsWay
<1>6. ASSUME NEW p \in (Pairs \ pairs) \ {h} PROVE p[1] # h[1] \/ p[2] # h[2]
  BY <1>2, <1>5, PairIs
<1>7. CASE built' = "exceeded"
  BY <1>1, <1>7 DEF PInv
<1>8. ASSUME built' = "searching", found' \in Nat, KeptFound', ranked' # <<>> => InHand(h)',
             ranked' = <<>> => Searched(h)', \A p \in (Pairs \ pairs) \ {h} : Searched(p)'
      PROVE  PInv'
  <2>1. \A p \in (Pairs \ pairs)' : p = h \/ p \in (Pairs \ pairs) \ {h}
    BY <1>1, <1>4
  <2>2. (Pairs \ pairs)' \ {h} = (Pairs \ pairs) \ {h}
    BY <1>1, <1>4
  <2>3. ranked' = <<>> => \A p \in (Pairs \ pairs)' : Searched(p)'
    BY <1>8, <2>1
  <2>4. ranked' # <<>> => \E o : InHand(o)' /\ \A p \in (Pairs \ pairs)' \ {o} : Searched(p)'
    BY <1>8, <2>2
  <2>5. SearchUnderWay'
    BY <1>1, <1>2, <1>4, <1>8, <2>3, <2>4 DEF SearchUnderWay
  <2> QED  BY <1>1, <1>8, <2>5 DEF PInv
<1>9. CASE /\ Len(q) - 1 =< MaxDepth /\ found >= PathsPerTarget
           /\ capped' = TRUE /\ ranked' = <<>> /\ UNCHANGED <<found, paths, built>>
  <2>1. \A p : Kept(p)' = Kept(p)
    BY <1>9 DEF Kept
  <2>2. \A p \in (Pairs \ pairs) \ {h} : Searched(p)'
    BY <1>1, <1>3, <1>9, <2>1, SearchedStays
  <2>3. BestKept(h)
    BY <1>3, <1>9, HandBest
  <2>4. Searched(h)'
    BY <1>1, <1>9, <2>1, <2>3, BestStays DEF Searched
  <2>5. KeptFound'
    BY <1>1, <1>2, <1>4, <1>9 DEF KeptFound
  <2> QED  BY <1>1, <1>8, <1>9, <2>2, <2>4, <2>5
<1>10. CASE /\ ranked' = Restrict(ranked, DOMAIN ranked \ {q}) /\ Len(q) - 1 > MaxDepth
            /\ UNCHANGED <<found, paths, capped, built>>
  <2>1. \A p : Kept(p)' = Kept(p)
    BY <1>10 DEF Kept
  <2>2. \A p \in (Pairs \ pairs) \ {h} : Searched(p)'
    BY <1>1, <1>3, <1>10, <2>1, SearchedStays
  <2>3. DOMAIN ranked' = DOMAIN ranked \ {q} /\ \A o \in DOMAIN ranked' : ranked'[o] = ranked[o]
    BY <1>10 DEF Restrict
  <2>4. ~(Len(q) - 1 =< MaxDepth)
    BY <1>5, <1>10, SearchAssumption
  <2>5. InHand(h)'
    BY <1>1, <1>3, <1>4, <1>10, <2>1, <2>3, <2>4 DEF InHand
  <2>6. ranked' = <<>> => Searched(h)'
    <3>1. ranked' = <<>> => Others(h)' = {}
      BY <2>5 DEF InHand, Others
    <3> QED  BY <2>5, <3>1 DEF InHand, Searched, BestKept
  <2>7. KeptFound'
    BY <1>1, <1>2, <1>4, <1>10 DEF KeptFound
  <2> QED  BY <1>1, <1>8, <1>10, <2>2, <2>5, <2>6, <2>7
<1>11. CASE /\ ranked' = Restrict(ranked, DOMAIN ranked \ {q}) /\ ~(found >= PathsPerTarget)
            /\ found' = found + 1 /\ paths' = paths \cup {q} /\ UNCHANGED <<capped, built>>
            /\ Len(q) - 1 =< MaxDepth
  <2>1. Kept(h)' = Kept(h) \cup {q} /\ q \notin Kept(h)
    BY <1>5, <1>11 DEF Kept
  <2>2. \A p \in (Pairs \ pairs) \ {h} : Kept(p)' = Kept(p)
    BY <1>5, <1>6, <1>11 DEF Kept
  <2>3. \A p \in (Pairs \ pairs) \ {h} : Searched(p)'
    BY <1>1, <1>3, <1>11, <2>2, SearchedStays
  <2>4. DOMAIN ranked' = DOMAIN ranked \ {q} /\ \A o \in DOMAIN ranked' : ranked'[o] = ranked[o]
    BY <1>11 DEF Restrict
  <2>5. IsFiniteSet(Kept(h)') /\ Cardinality(Kept(h)') = found' /\ found' =< PathsPerTarget /\ found' \in Nat
    <3>1. IsFiniteSet(Kept(h)) /\ Cardinality(Kept(h)) = found
      BY <1>3 DEF InHand
    <3>2. IsFiniteSet(Kept(h) \cup {q}) /\ Cardinality(Kept(h) \cup {q}) = found + 1
      BY <2>1, <3>1, FS_AddElement
    <3> QED  BY <1>1, <1>11, <2>1, <3>2, SearchAssumption
  <2>6. \A o \in DOMAIN ranked : PathLikelihood(o) =< PathLikelihood(q)
    <3> SUFFICES ASSUME NEW o \in DOMAIN ranked PROVE PathLikelihood(o) =< PathLikelihood(q)
      OBVIOUS
    <3>1. ranked[q] >= ranked[o]
      BY <1>1 DEF NextPaths
    <3>2. ranked[q] = PathLikelihood(q) /\ ranked[o] = PathLikelihood(o) /\ o \in SimplePaths(h[1], h[2])
      BY <1>3 DEF InHand
    <3>3. IsWay(o, h[1]) /\ IsWay(q, h[1])
      BY <1>2, <1>5, <3>2, PairIs
    <3>4. PathLikelihood(o) \in Nat /\ PathLikelihood(q) \in Nat
      BY <1>2, <3>3, LikelihoodIsNat
    <3> QED  BY <3>1, <3>2, <3>4
  <2>7. InHand(h)'
    <3>1. h \in (Pairs \ pairs)' /\ Kept(h)' \subseteq SimplePaths(h[1], h[2])'
      BY <1>1, <1>3, <1>4, <1>5, <2>1 DEF InHand
    <3>2. DOMAIN ranked' \subseteq SimplePaths(h[1], h[2])' \ Kept(h)' /\ \A o \in DOMAIN ranked' : ranked'[o] = PathLikelihood(o)'
      BY <1>3, <1>4, <2>1, <2>4 DEF InHand
    <3>3. \A o \in SimplePaths(h[1], h[2])' \ Kept(h)' : o \in DOMAIN ranked' \/ ~(Len(o) - 1 =< MaxDepth)
      BY <1>3, <1>4, <2>1, <2>4 DEF InHand
    <3>4. \A r \in Kept(h)', o \in DOMAIN ranked' : PathLikelihood(o)' =< PathLikelihood(r)'
      BY <1>3, <1>4, <2>1, <2>4, <2>6 DEF InHand
    <3> QED  BY <2>5, <3>1, <3>2, <3>3, <3>4 DEF InHand
  <2>8. ranked' = <<>> => Searched(h)'
    <3>1. ranked' = <<>> => Others(h)' = {}
      BY <2>7 DEF InHand, Others
    <3> QED  BY <2>7, <3>1 DEF InHand, Searched, BestKept
  <2>9. KeptFound'
    <3>1. IsFiniteSet(paths')
      BY <1>2, <1>11, FS_AddElement DEF KeptFound
    <3> QED  BY <1>1, <1>2, <1>4, <1>5, <1>11, <3>1 DEF KeptFound
  <2> QED  BY <1>1, <1>8, <1>11, <2>3, <2>5, <2>7, <2>8, <2>9
<1>12. Len(q) - 1 \in Int /\ MaxDepth \in Nat /\ (Len(q) - 1 =< MaxDepth \/ Len(q) - 1 > MaxDepth)
  BY <1>5, SearchAssumption
<1> QED  BY <1>1, <1>7, <1>9, <1>10, <1>11, <1>12

LEMMA PInvNext == PInv /\ [CritiqueNext]_critiqueVars => PInv'
<1> SUFFICES ASSUME PInv, [CritiqueNext]_critiqueVars PROVE PInv'
  OBVIOUS
<1>0. GInv' /\ EdgeTypes'
  BY GInvCritique, EdgeTypesNext DEF PInv
<1>1. ASSUME UNCHANGED <<model, nodes, edges, articles, simple, pairs, ranked, found, paths, capped>>, SearchUnderWay
      PROVE  SearchUnderWay'
  <2>1. \A p : Kept(p)' = Kept(p)
    BY <1>1 DEF Kept
  <2>2. Pairs' = Pairs /\ Collapse' = Collapse /\ (\A n, t : SimplePaths(n, t)' = SimplePaths(n, t))
        /\ \A q : PathLikelihood(q)' = PathLikelihood(q)
    BY <1>1, SearchKept
  <2>3. \A p : Searched(p) => Searched(p)'
    BY <1>1, <2>1, SearchedStays
  <2>4. \A h : InHand(h) => InHand(h)'
    BY <1>1, <2>1, <2>2 DEF InHand
  <2>5. KeptFound'
    BY <1>1, <2>2 DEF SearchUnderWay, KeptFound
  <2>6. simple' = Collapse' /\ (pairs \subseteq Pairs)' /\ (Pairs \ pairs)' = Pairs \ pairs
    BY <1>1, <2>2 DEF SearchUnderWay
  <2>7. ranked' = <<>> => \A p \in (Pairs \ pairs)' : Searched(p)'
    BY <1>1, <2>3, <2>6 DEF SearchUnderWay
  <2>8. ranked' # <<>> => \E h : InHand(h)' /\ \A p \in (Pairs \ pairs)' \ {h} : Searched(p)'
    BY <1>1, <2>3, <2>4, <2>6 DEF SearchUnderWay
  <2> QED  BY <2>5, <2>6, <2>7, <2>8 DEF SearchUnderWay
<1>2. CASE AttackNext /\ UNCHANGED pathVars
  <2>1. built \in {"seeding", "walking"} /\ built' \in {"seeding", "walking", "built", "exceeded"}
    BY <1>2, WalkIs DEF PInv
  <2> QED  BY <1>0, <1>2, <2>1 DEF PInv, pathVars
<1>3. CASE SearchDone
  <2>1. /\ built = "searching" /\ built' = "done" /\ pairs = {} /\ ranked = <<>>
        /\ UNCHANGED <<model, nodes, edges, articles, simple, pairs, ranked, looked, found, paths, capped>>
    BY <1>3 DEF SearchDone, pathVars
  <2> QED  BY <1>0, <1>1, <2>1 DEF PInv
<1>4. CASE Revise
  <2>1. built = "done" /\ built' = "built" /\ paths' = {} /\ UNCHANGED <<ranked, looked, found>>
    BY <1>4 DEF Revise
  <2> QED  BY <1>0, <2>1 DEF PInv
<1>5. CASE Criticise
  <2>1. built' = "criticised" /\ UNCHANGED <<looked, found>>
    BY <1>5 DEF Criticise, pathVars
  <2> QED  BY <1>0, <2>1 DEF PInv
<1>6. CASE UNCHANGED critiqueVars
  <2>1. UNCHANGED <<model, nodes, edges, built, articles, simple, pairs, ranked, looked, found, paths, capped>>
    BY <1>6 DEF critiqueVars, revisionVars, attackVars, graphVars, pathVars
  <2> QED  BY <1>0, <1>1, <2>1 DEF PInv
<1>7. ASSUME NEW intel \in ArticleSets, StartSearch(intel) PROVE PInv'
  BY <1>0, <1>7, PInvStart
<1>8. ASSUME NEW p \in pairs, TakePair(p) PROVE PInv'
  BY <1>0, <1>8, PInvTake
<1>9. ASSUME NEW q \in DOMAIN ranked, NextPath(q) PROVE PInv'
  BY <1>0, <1>9, PInvNextPath
<1> QED
  BY <1>2, <1>3, <1>4, <1>5, <1>6, <1>7, <1>8, <1>9 DEF CritiqueNext, RevisionNext, PathsNext

LEMMA PInvIsBest == PInv => PathsBest
<1> SUFFICES ASSUME PInv, built = "done", NEW p \in Pairs
             PROVE  LET kept == {q \in paths : q[1] = p[1] /\ Last(q) = p[2]}
                        others == {q \in SimplePaths(p[1], p[2]) \ kept : Len(q) - 1 =< MaxDepth} IN
                    /\ kept \subseteq SimplePaths(p[1], p[2]) /\ Cardinality(kept) =< PathsPerTarget
                    /\ kept = {} => others = {}
                    /\ \A q \in kept, o \in others : \A a \in Attacks(o) : AttackLikelihood(a) =< PathLikelihood(q)
                    /\ ~capped => others = {}
  BY DEF PathsBest
<1>1. Searched(p) /\ GInv /\ EdgeTypes /\ simple = Collapse
  BY DEF PInv, SearchUnderWay
<1>2. ASSUME NEW q \in Kept(p), NEW o \in Others(p), NEW a \in Attacks(o)
      PROVE  AttackLikelihood(a) =< PathLikelihood(q)
  <2>1. o \in SimplePaths(p[1], p[2]) /\ q \in SimplePaths(p[1], p[2])
    BY <1>1 DEF Searched, BestKept, Others
  <2>2. IsWay(o, p[1]) /\ IsWay(q, p[1])
    BY <1>1, <2>1, PairIs
  <2>3. AttackLikelihood(a) \in Nat /\ PathLikelihood(o) \in Nat /\ AttackLikelihood(a) =< PathLikelihood(o)
    BY <1>1, <2>2, AttackBelow
  <2>4. PathLikelihood(q) \in Nat /\ PathLikelihood(o) =< PathLikelihood(q)
    BY <1>1, <2>2, LikelihoodIsNat DEF Searched, BestKept
  <2> QED  BY <2>3, <2>4
<1> QED  BY <1>1, <1>2 DEF Searched, BestKept, Kept, Others

(* For any model, corpus, intel and limits, what a search returns for a    *)
(* pair: at most so many paths of the graph, such that no attack of the    *)
(* allowed length along another path is more likely, and all of them       *)
(* unless the result says that it was capped.                              *)
THEOREM BestPathsAreKept == CritiqueSpec => []PathsBest
BY PInvInit, PInvNext, PInvIsBest, PTL DEF CritiqueSpec

-----------------------------------------------------------------------------
(* The critique: what it finds is what the detectors see in the analysis   *)
(* that was just finished, and every path it looks at is in the graph.     *)

(* What is found stays while nothing that it depends on changes. *)
LEMMA IssuesStay ==
  ASSUME UNCHANGED <<model, atlas, index, nodes, edges, articles, simple, paths>>
  PROVE  Issues' = Issues
<1>1. ReachableEntities' = ReachableEntities
  BY DEF ReachableEntities
<1>2. CritiquedVerdicts' = CritiquedVerdicts
  BY <1>1 DEF CritiquedVerdicts
<1>3. \A f : ConditionsOn(f)' = ConditionsOn(f)
  BY <1>2 DEF ConditionsOn
<1>4. \A f : Ends(f)' = Ends(f) /\ (CrossesZones(f)' <=> CrossesZones(f)) /\ (CrossesUp(f)' <=> CrossesUp(f))
  BY DEF Ends, CrossesZones, CrossesUp, ZoneAt
<1>5. \A k : StepLikelihood(k)' = StepLikelihood(k)
  BY DEF StepLikelihood, ControlPresence, IntelUplift, Exposure
<1>6. ASSUME NEW p PROVE Likelihood(p, MaxDepth)' = Likelihood(p, MaxDepth) /\ PathId(p)' = PathId(p)
  <2>1. Likelihood(p, MaxDepth)' = Likelihood(p, MaxDepth)
    BY <1>5, Zenon DEF Likelihood
  <2>2. PathId(p)' = PathId(p)
    BY DEF PathId, StepOf
  <2> QED  BY <2>1, <2>2
<1>7. Found' = Found
  BY <1>6 DEF Found
<1>8. GapsFound' = GapsFound
  BY <1>7 DEF GapsFound
<1>9. \A c, t : Covered(c, t)' = Covered(c, t) /\ (OpenGap(t)' <=> OpenGap(t))
  BY <1>7, <1>8 DEF Covered, OpenGap
<1>10. DetectMissedThreats' = DetectMissedThreats /\ DetectOverTrustedBoundaries' = DetectOverTrustedBoundaries
  BY <1>3, <1>4 DEF DetectMissedThreats, DetectOverTrustedBoundaries
<1>11. DetectWeakMitigations' = DetectWeakMitigations
  BY <1>8, <1>9 DEF DetectWeakMitigations
<1> QED
  BY <1>10, <1>11 DEF Issues, DetectQuestionableAssumptions, DetectUnderScopedTiering

(* Every kept path is a way through the graph. *)
PathsInside == \A q \in paths : \E n : IsWay(q, n)

CritiqueInv == PInv /\ (built = "criticised" => issues = Issues /\ PathsInside)

LEMMA CritiqueInvNext == CritiqueInv /\ [CritiqueNext]_critiqueVars => CritiqueInv'
<1> SUFFICES ASSUME CritiqueInv, [CritiqueNext]_critiqueVars PROVE CritiqueInv'
  OBVIOUS
<1>1. PInv'
  BY PInvNext DEF CritiqueInv
<1>2. CASE Criticise
  <2>1. built = "done" /\ issues' = Issues /\ UNCHANGED <<model, atlas, index, nodes, edges, articles, simple, paths>>
    BY <1>2 DEF Criticise, pathVars
  <2>2. Issues' = Issues
    BY <2>1, IssuesStay
  <2>3. PathsInside
    <3> SUFFICES ASSUME NEW q \in paths PROVE \E n : IsWay(q, n)
      BY DEF PathsInside
    <3>1. GInv /\ KeptFound
      BY <2>1 DEF CritiqueInv, PInv, SearchUnderWay
    <3>2. PICK p \in Pairs : q \in SimplePaths(p[1], p[2])
      BY <3>1 DEF KeptFound
    <3> QED  BY <3>1, <3>2, PairIs
  <2>4. PathsInside'
    BY <2>1, <2>3, SearchKept DEF PathsInside
  <2> QED  BY <1>1, <2>1, <2>2, <2>4 DEF CritiqueInv
<1>3. CASE UNCHANGED critiqueVars
  <2>1. UNCHANGED <<model, atlas, index, nodes, edges, articles, simple, paths, built, issues>>
    BY <1>3 DEF critiqueVars, revisionVars, attackVars, graphVars, pathVars
  <2>2. Issues' = Issues /\ (PathsInside => PathsInside')
    BY <2>1, IssuesStay, SearchKept DEF PathsInside
  <2> QED  BY <1>1, <2>1, <2>2 DEF CritiqueInv
<1>4. CASE AttackNext
  <2>1. ASSUME NEW x \in todo, Transition(x[1], x[2]) PROVE built' # "criticised"
    <3>1. built = "walking" /\ GInv
      BY <2>1 DEF CritiqueInv, PInv, GInv, TodoSound
    <3>2. PICK n \in current : Skips(n, x) \/ Stops \/ Grows(n, x)
      BY <2>1, <3>1, TransitionIs
    <3> QED  BY <3>1, <3>2 DEF Skips, Stops, Grows
  <2>2. built' # "criticised"
    BY <1>4, <2>1 DEF AttackNext, Seed, Seeded, Dequeue, GraphBuilt
  <2> QED  BY <1>1, <2>2 DEF CritiqueInv
<1>5. CASE RevisionNext
  <2>1. CASE ~AttackNext
    <3>1. built' # "criticised"
      BY <1>5, <2>1 DEF RevisionNext, PathsNext, StartSearch, SearchDone, TakePair, NextPath, Revise, graphVars
    <3> QED  BY <1>1, <3>1 DEF CritiqueInv
  <2> QED  BY <1>4, <2>1
<1> QED  BY <1>2, <1>3, <1>5 DEF CritiqueNext

(* The shape of an issue. *)
LEMMA IssueIs ==
  ASSUME NEW i \in Issues
  PROVE  i = [category |-> i.category, elements |-> i.elements, statements |-> i.statements, about |-> i.about]
BY DEF Issues, DetectMissedThreats, DetectOverTrustedBoundaries, DetectWeakMitigations,
       DetectQuestionableAssumptions, DetectUnderScopedTiering, Issue

(* What touches a technique is in the model. *)
LEMMA EntitiesKnown ==
  ASSUME GInv, PathsInside, NEW t
  PROVE  EntitiesOf(Found, t) \subseteq DOMAIN model.components
<1> SUFFICES ASSUME NEW e \in EntitiesOf(Found, t) PROVE e \in DOMAIN model.components
  OBVIOUS
<1>1. PICK p \in paths : \E s \in Found[p].steps : e \in {s.source, s.target}
  BY DEF EntitiesOf, Found
<1>1a. PICK s \in Found[p].steps : e \in {s.source, s.target}
  BY <1>1
<1>2. PICK i \in 1..(Len(p) - 1) : s = StepOf(p, i)
  BY <1>1a DEF Found, PathId, Range
<1>3. p \in Seq(nodes)
  BY DEF PathsInside, IsWay
<1>4. p[i] \in nodes /\ p[i + 1] \in nodes
  BY <1>2, <1>3
<1>5. s.source = p[i].entity /\ s.target = p[i + 1].entity
  BY <1>2 DEF StepOf
<1> QED  BY <1>1a, <1>4, <1>5 DEF GInv, GraphTypes

(* An issue that was given a severity is grounded, but for one about an    *)
(* assumption.                                                             *)
LEMMA IssueGrounded ==
  ASSUME GInv, PathsInside, NEW i \in Issues, i \in allowed, i.category # "questionable_assumption"
  PROVE  ItemGrounding(i) = "ok"
<1>1. i.elements \subseteq KnownElements /\ i.statements \subseteq Posture.profile /\ (i.elements # {} \/ i.statements # {})
  <2>1. CASE i \in DetectMissedThreats
    <3>1. PICK f \in DOMAIN model.flows : i = Issue("missed_threat", {f} \cup Range(Ends(f)), {}, <<>>) /\ CrossesZones(f)
      BY <2>1 DEF DetectMissedThreats
    <3> QED  BY <3>1 DEF Issue, CrossesZones, KnownElements
  <2>2. CASE i \in DetectOverTrustedBoundaries
    <3>1. PICK f \in DOMAIN model.flows : i = Issue("over_trusted_boundary", {f, Ends(f)[2]}, {}, <<>>) /\ CrossesUp(f)
      BY <2>2 DEF DetectOverTrustedBoundaries
    <3>2. Ends(f)[2] \in DOMAIN model.components
      BY <3>1 DEF CrossesUp, Ends, Range
    <3> QED  BY <3>1, <3>2 DEF Issue, KnownElements
  <2>3. CASE i \in DetectWeakMitigations
    <3>1. PICK x : i = Issue("weak_mitigation", Covered(x[1], x[2]), {}, x) /\ Covered(x[1], x[2]) # {}
      BY <2>3 DEF DetectWeakMitigations
    <3>2. Covered(x[1], x[2]) \subseteq DOMAIN model.components
      BY EntitiesKnown DEF Covered
    <3> QED  BY <3>1, <3>2 DEF Issue, KnownElements
  <2>4. CASE i \in DetectQuestionableAssumptions
    BY <2>4 DEF DetectQuestionableAssumptions, Issue
  <2>5. CASE i \in DetectUnderScopedTiering
    BY <2>5 DEF DetectUnderScopedTiering, Issue
  <2> QED  BY <2>1, <2>2, <2>3, <2>4, <2>5 DEF Issues
<1> QED  BY <1>1 DEF ItemGrounding

(* A path through a technique that is open questions the controls of its   *)
(* entities.                                                               *)
LEMMA OpenGapsQuestioned ==
  ASSUME NEW p \in paths, NEW c \in DOMAIN model.controls, NEW i \in DOMAIN PathId(p), OpenGap(PathId(p)[i].technique)
  PROVE  {PathId(p)[i].source, PathId(p)[i].target} \cap model.controls[c] \subseteq
           UNION {x.elements : x \in {x \in Issues : x.category = "weak_mitigation"}}
<1> DEFINE s == PathId(p)[i]
           t == s.technique
           x == <<c, t>>
           w == Issue("weak_mitigation", Covered(c, t), {}, x)
<1>1. s \in Found[p].steps /\ DOMAIN Found = paths
  BY DEF Found, Range
<1>2. {s.source, s.target} \subseteq EntitiesOf(Found, t)
  <2> HIDE DEF s
  <2> QED  BY <1>1 DEF EntitiesOf
<1>3. t \in DOMAIN GapsFound
  <2>1. t \in TechniquesInPaths(Found)
    <3> HIDE DEF s
    <3> QED  BY <1>1 DEF TechniquesInPaths, TechniquesOf
  <2> QED  BY <2>1 DEF GapsFound, TechniqueGaps
<1> HIDE DEF s
<1>4. {s.source, s.target} \cap model.controls[c] \subseteq Covered(c, t)
  BY <1>2 DEF Covered
<1>5. CASE Covered(c, t) = {}
  BY <1>4, <1>5 DEF s
<1>6. CASE Covered(c, t) # {}
  <2> HIDE DEF t
  <2>1. OpenGap(t)
    BY DEF t, s
  <2>2. w \in DetectWeakMitigations
    <3>1. x \in {y \in (DOMAIN model.controls) \X (DOMAIN GapsFound) : OpenGap(y[2]) /\ Covered(y[1], y[2]) # {}}
      BY <1>3, <1>6, <2>1
    <3> DEFINE issue(y) == Issue("weak_mitigation", Covered(y[1], y[2]), {}, y)
    <3>2. issue(x) = w
      OBVIOUS
    <3> HIDE DEF w, x, issue
    <3>3. issue(x) \in DetectWeakMitigations
      BY <3>1 DEF DetectWeakMitigations, issue
    <3> QED  BY <3>2, <3>3
  <2>3. w \in Issues /\ w.category = "weak_mitigation" /\ w.elements = Covered(c, t)
    BY <2>2 DEF Issues, Issue
  <2> HIDE DEF w
  <2>4. {s.source, s.target} \cap model.controls[c] \subseteq
          UNION {y.elements : y \in {y \in Issues : y.category = "weak_mitigation"}}
    BY <1>4, <2>3
  <2> QED  BY <2>4 DEF s
<1> QED  BY <1>5, <1>6

LEMMA CritiqueInvInit == CritiqueInit => CritiqueInv
BY PInvInit DEF CritiqueInv, CritiqueInit, RevisionInit, PathsInit, AttackInit

(* What was given a severity is an item; what was not is known to be so.   *)
LEMMA Cited ==
  ASSUME GInv, PathsInside, issues = Issues, NEW i \in Issues, i.category # "questionable_assumption", NEW f \in i.elements
  PROVE  f \in UNION {j.elements : j \in ReviewItems \cup (issues \ allowed)}
<1>1. i \in ReviewItems \cup (issues \ allowed)
  BY IssueGrounded DEF ReviewItems
<1> QED  BY <1>1

(* A flow between zones on which nothing was decided is cited. *)
LEMMA CrossingCited ==
  ASSUME GInv, PathsInside, issues = Issues, NEW f \in DOMAIN model.flows, CrossesZones(f), ConditionsOn(f) = {}
  PROVE  f \in UNION {j.elements : j \in ReviewItems \cup (issues \ allowed)}
<1> DEFINE i == Issue("missed_threat", {f} \cup Range(Ends(f)), {}, <<>>)
<1>1. i \in Issues
  BY DEF Issues, DetectMissedThreats
<1>2. i.category # "questionable_assumption" /\ f \in i.elements
  BY DEF Issue
<1> HIDE DEF i
<1> QED  BY <1>1, <1>2, Cited

(* A flow into a more trusted zone is cited but for a threat that applies. *)
LEMMA CrossingUpCited ==
  ASSUME GInv, PathsInside, issues = Issues, NEW f \in DOMAIN model.flows, CrossesUp(f), "none" \notin ConditionsOn(f)
  PROVE  f \in UNION {j.elements : j \in ReviewItems \cup (issues \ allowed)}
<1>1. CASE ConditionsOn(f) = {}
  <2>1. \A z \in DOMAIN model.rating : model.rating[z] \in Int
    BY AttackAssumption DEF GInv, GraphTypes, WellFormed
  <2>2. CrossesZones(f)
    BY <2>1 DEF CrossesUp, CrossesZones
  <2> QED  BY <1>1, <2>2, CrossingCited
<1>2. CASE ConditionsOn(f) # {}
  <2> DEFINE i == Issue("over_trusted_boundary", {f, Ends(f)[2]}, {}, <<>>)
  <2>1. i \in Issues
    BY <1>2 DEF Issues, DetectOverTrustedBoundaries
  <2>2. i.category # "questionable_assumption" /\ f \in i.elements
    BY DEF Issue
  <2> HIDE DEF i
  <2> QED  BY <2>1, <2>2, Cited
<1> QED  BY <1>1, <1>2

(* What a grounded item cites. *)
LEMMA ItemIs ==
  ASSUME NEW i, ItemGrounding(i) = "ok"
  PROVE  (i.elements # {} \/ i.statements # {}) /\ i.elements \subseteq KnownElements
BY DEF ItemGrounding

LEMMA NothingIsLeft == CritiqueInv => NothingUnexamined
<1> SUFFICES ASSUME CritiqueInv, built = "criticised" PROVE NothingUnexamined!2
  BY DEF NothingUnexamined
<1>1. GInv /\ issues = Issues /\ PathsInside
  BY DEF CritiqueInv, PInv
<1> DEFINE cited == UNION {i.elements : i \in ReviewItems \cup (issues \ allowed)}
<1>2. ASSUME NEW f \in DOMAIN model.flows
      PROVE  /\ CrossesUp(f) => "none" \in ConditionsOn(f) \/ f \in cited
             /\ CrossesZones(f) /\ ConditionsOn(f) = {} => f \in cited
  BY <1>1, CrossingCited, CrossingUpCited
<1>3. ASSUME NEW p \in paths, NEW c \in DOMAIN model.controls, NEW i \in DOMAIN PathId(p),
             OpenGap(PathId(p)[i].technique)
      PROVE  {PathId(p)[i].source, PathId(p)[i].target} \cap model.controls[c] \subseteq
               UNION {x.elements : x \in {x \in issues : x.category = "weak_mitigation"}}
  BY <1>1, <1>3, OpenGapsQuestioned
<1>4. \A i \in Rejected : i \notin allowed \/ i.category = "questionable_assumption"
  BY <1>1, IssueGrounded DEF Rejected, ReviewItems
<1>5. UNION {i.elements : i \in ReviewItems} \subseteq KnownElements
  BY ItemIs DEF ReviewItems
<1>6. PassesCritiqueGate \/ \E i \in ReviewItems, j \in Rejected : i.about # j.about /\ ItemId(i) = ItemId(j)
  <2>1. \A i \in ReviewItems : i.elements # {} \/ i.statements # {}
    BY ItemIs DEF ReviewItems
  <2>2. ASSUME NEW i \in ReviewItems, NEW j \in Rejected, ItemId(i) = ItemId(j)
        PROVE  i.about # j.about
    <3>1. i \in Issues /\ j \in Issues /\ i # j
      BY <1>1 DEF ReviewItems, Rejected
    <3>2. i.category = j.category /\ i.elements = j.elements /\ i.statements = j.statements
      BY <2>2 DEF ItemId
    <3>3. /\ i = [category |-> i.category, elements |-> i.elements, statements |-> i.statements, about |-> i.about]
          /\ j = [category |-> j.category, elements |-> j.elements, statements |-> j.statements, about |-> j.about]
      BY <3>1, IssueIs
    <3> QED  BY <3>1, <3>2, <3>3
  <2> QED  BY <2>1, <2>2 DEF PassesCritiqueGate
<1> QED  BY <1>2, <1>3, <1>4, <1>5, <1>6

(* NothingUnexamined: what the critique leaves to no one, whatever model,  *)
(* whatever severities the language model gave (services/assurance).       *)
THEOREM NothingIsUnexamined == CritiqueSpec => []NothingUnexamined
<1>1. CritiqueInit => CritiqueInv
  BY CritiqueInvInit
<1>2. CritiqueInv /\ [CritiqueNext]_critiqueVars => CritiqueInv'
  BY CritiqueInvNext
<1>3. CritiqueInv => NothingUnexamined
  BY NothingIsLeft
<1> QED  BY <1>1, <1>2, <1>3, PTL DEF CritiqueSpec

-----------------------------------------------------------------------------
(* Revisions.  A snapshot records what the search kept; likelihoods are    *)
(* stated for any set of articles, so that those of two revisions compare. *)

(* What articles make of a step, and of a path as if it had n steps. *)
UpliftUnder(A, t) == IF t \in DOMAIN Score /\ \E a \in A : t \in a.techniques THEN UpliftFactor ELSE 1
StepUnder(A, k) ==
  LET product == Exposure(k[1]) * CategoryLikelihood[edges[k].category]
                   * Prevalence[k[3]] * ControlPresence(k[2]) * UpliftUnder(A, k[3])
  IN IF product > Unit THEN Unit ELSE product
BestStep(A, l) ==
  CHOOSE v \in {StepUnder(A, k) : k \in Between(l[1], l[2])} : \A o \in Between(l[1], l[2]) : StepUnder(A, o) =< v
FactorUnder(A, p, i) == IF i < Len(p) THEN BestStep(A, <<p[i], p[i + 1]>>) ELSE Unit
Factors(A, p, n) == [i \in 1..n |-> FactorUnder(A, p, i)]
Under(A, p, n) == (CHOOSE g : Products(Factors(A, p, n), n, g))[n]

LEMMA FactorsAreNat ==
  ASSUME EdgeTypes, NEW k \in DOMAIN edges
  PROVE  /\ Exposure(k[1]) \in Nat /\ CategoryLikelihood[edges[k].category] \in Nat
         /\ Prevalence[k[3]] \in Nat /\ ControlPresence(k[2]) \in Nat
         /\ \A A : UpliftUnder(A, k[3]) \in Nat
BY SearchAssumption DEF EdgeTypes, Exposure, ControlPresence, UpliftUnder

(* More uplift makes no step less likely. *)
LEMMA StepUnderGrows ==
  ASSUME EdgeTypes, NEW k \in DOMAIN edges, NEW A, NEW B, UpliftUnder(A, k[3]) =< UpliftUnder(B, k[3])
  PROVE  /\ StepUnder(A, k) \in Nat /\ StepUnder(B, k) \in Nat
         /\ StepUnder(A, k) =< StepUnder(B, k) /\ StepUnder(B, k) =< Unit
<1> DEFINE a == Exposure(k[1])
           b == CategoryLikelihood[edges[k].category]
           c == Prevalence[k[3]]
           d == ControlPresence(k[2])
           e == UpliftUnder(A, k[3])
           f == UpliftUnder(B, k[3])
           m == a * b * c * d
<1>1. a \in Nat /\ b \in Nat /\ c \in Nat /\ d \in Nat /\ e \in Nat /\ f \in Nat /\ e =< f /\ Unit \in Nat
  BY FactorsAreNat DEF Unit
<1>2. /\ StepUnder(A, k) = IF m * e > Unit THEN Unit ELSE m * e
      /\ StepUnder(B, k) = IF m * f > Unit THEN Unit ELSE m * f
  BY DEF StepUnder
<1> HIDE DEF a, b, c, d, e, f
<1>3. m \in Nat
  <2>1. a * b \in Nat
    BY <1>1
  <2>2. (a * b) * c \in Nat
    BY <1>1, <2>1
  <2> QED  BY <1>1, <2>2
<1> HIDE DEF m
<1>4. m * e \in Nat /\ m * f \in Nat /\ m * e =< m * f
  <2> DEFINE x == f - e
  <2>1. x \in Nat /\ f = e + x
    BY <1>1
  <2> HIDE DEF x
  <2>2. m * f = m * e + m * x /\ m * e \in Nat /\ m * x \in Nat
    BY <1>1, <1>3, <2>1
  <2> QED  BY <2>2
<1> QED  BY <1>1, <1>2, <1>4

(* The likelihood of a step is that of its likeliest edge. *)
LEMMA BestStepIs ==
  ASSUME EdgeTypes, NEW l \in Links, NEW A
  PROVE  /\ \E k \in Between(l[1], l[2]) : BestStep(A, l) = StepUnder(A, k)
         /\ \A o \in Between(l[1], l[2]) : StepUnder(A, o) =< BestStep(A, l)
         /\ BestStep(A, l) \in Nat /\ BestStep(A, l) =< Unit
<1> DEFINE B == Between(l[1], l[2])
           S == {StepUnder(A, k) : k \in B}
<1>1. B \subseteq DOMAIN edges /\ B # {}
  BY DEF Between, Links
<1>2. \A k \in B : StepUnder(A, k) \in Nat /\ StepUnder(A, k) =< Unit
  <2>1. \A k \in B : UpliftUnder(A, k[3]) =< UpliftUnder(A, k[3])
    BY <1>1, FactorsAreNat
  <2> QED  BY <1>1, <2>1, StepUnderGrows
<1>3. S \in SUBSET Nat /\ S # {} /\ (\A x \in S : x =< Unit) /\ Unit \in Nat
  BY <1>1, <1>2 DEF Unit
<1>4. \E s \in S : \A x \in S : x =< s
  <2> HIDE DEF S
  <2> QED  BY <1>3, HasGreatest
<1>5. \E s \in S : \A o \in B : StepUnder(A, o) =< s
  BY <1>4
<1>6. BestStep(A, l) \in S /\ \A o \in B : StepUnder(A, o) =< BestStep(A, l)
  BY <1>5 DEF BestStep
<1> QED  BY <1>2, <1>6

LEMMA FactorIs ==
  ASSUME EdgeTypes, NEW m, NEW q, IsWay(q, m), NEW A, NEW i \in Nat \ {0}
  PROVE  /\ FactorUnder(A, q, i) \in Nat /\ FactorUnder(A, q, i) =< Unit
         /\ i < Len(q) => <<q[i], q[i + 1]>> \in Links /\ FactorUnder(A, q, i) = BestStep(A, <<q[i], q[i + 1]>>)
         /\ i >= Len(q) => FactorUnder(A, q, i) = Unit
<1>1. Len(q) \in Nat /\ Unit \in Nat
  BY DEF IsWay, Unit
<1>2. CASE i < Len(q)
  <2>1. i \in 1..(Len(q) - 1)
    BY <1>1, <1>2
  <2>2. <<q[i], q[i + 1]>> \in Links
    BY <2>1 DEF IsWay
  <2> QED  BY <1>1, <1>2, <2>2, BestStepIs DEF FactorUnder
<1>3. CASE ~(i < Len(q))
  BY <1>1, <1>3 DEF FactorUnder
<1> QED  BY <1>2, <1>3

LEMMA UnderIs ==
  ASSUME EdgeTypes, NEW m, NEW q, IsWay(q, m), NEW A, NEW n \in Nat
  PROVE  /\ Factors(A, q, n) \in [1..n -> Nat]
         /\ \E g : Products(Factors(A, q, n), n, g) /\ Under(A, q, n) = g[n]
         /\ Under(A, q, n) \in Nat
<1> DEFINE s == Factors(A, q, n)
           f == CHOOSE g : Products(s, n, g)
<1>1. s \in [1..n -> Nat]
  <2>1. \A i \in 1..n : i \in Nat \ {0}
    OBVIOUS
  <2>2. \A i \in 1..n : FactorUnder(A, q, i) \in Nat
    BY <2>1, FactorIs
  <2> QED  BY <2>2 DEF Factors
<1>2. Under(A, q, n) = f[n]
  BY DEF Under
<1> HIDE DEF s
<1>3. Products(s, n, f)
  BY <1>1, ProductsExist
<1> HIDE DEF f
<1>4. f[n] \in Nat
  <2>1. \A i \in 1..n : s[i] =< s[i]
    BY <1>1
  <2> QED  BY <1>1, <1>3, <2>1, ProductsGrow
<1> QED  BY <1>1, <1>2, <1>3, <1>4 DEF s

(* When no step is less likely, no path is. *)
LEMMA UnderGrows ==
  ASSUME EdgeTypes, NEW m, NEW q, IsWay(q, m), NEW n \in Nat, NEW A, NEW B,
         \A k \in DOMAIN edges : UpliftUnder(A, k[3]) =< UpliftUnder(B, k[3])
  PROVE  Under(A, q, n) =< Under(B, q, n)
<1>1. ASSUME NEW i \in 1..n PROVE FactorUnder(A, q, i) =< FactorUnder(B, q, i)
  <2>0. i \in Nat \ {0} /\ Len(q) \in Nat
    BY DEF IsWay
  <2>1. CASE i < Len(q)
    <3> DEFINE l == <<q[i], q[i + 1]>>
    <3>1. l \in Links /\ FactorUnder(A, q, i) = BestStep(A, l) /\ FactorUnder(B, q, i) = BestStep(B, l)
      BY <2>0, <2>1, FactorIs
    <3> HIDE DEF l
    <3>2. PICK k \in Between(l[1], l[2]) : BestStep(A, l) = StepUnder(A, k)
      BY <3>1, BestStepIs
    <3>3. k \in DOMAIN edges
      BY DEF Between
    <3>4. StepUnder(A, k) \in Nat /\ StepUnder(B, k) \in Nat /\ StepUnder(A, k) =< StepUnder(B, k)
      BY <3>3, StepUnderGrows
    <3>5. StepUnder(B, k) =< BestStep(B, l) /\ BestStep(B, l) \in Nat
      BY <3>1, BestStepIs
    <3> QED  BY <3>1, <3>2, <3>4, <3>5
  <2>2. CASE ~(i < Len(q))
    <3>1. FactorUnder(A, q, i) = Unit /\ FactorUnder(B, q, i) = Unit /\ Unit \in Nat
      BY <2>2 DEF FactorUnder, Unit
    <3> QED  BY <3>1
  <2> QED  BY <2>1, <2>2
<1> DEFINE s == Factors(A, q, n)
           t == Factors(B, q, n)
<1>2. \A i \in 1..n : s[i] =< t[i]
  BY <1>1 DEF Factors
<1> HIDE DEF s, t
<1>3. PICK g : Products(s, n, g) /\ Under(A, q, n) = g[n]
  BY UnderIs DEF s
<1>4. PICK h : Products(t, n, h) /\ Under(B, q, n) = h[n]
  BY UnderIs DEF t
<1>5. s \in [1..n -> Nat] /\ t \in [1..n -> Nat]
  BY UnderIs DEF s, t
<1> QED  BY <1>2, <1>3, <1>4, <1>5, ProductsGrow

(* There is a bound on likelihoods. *)
LEMMA UnderBounded ==
  ASSUME EdgeTypes, NEW n \in Nat
  PROVE  \E b \in Nat : \A A, q, m : IsWay(q, m) => Under(A, q, n) =< b
<1> DEFINE t == [i \in 1..n |-> Unit]
<1>1. t \in [1..n -> Nat] /\ \A i \in 1..n : t[i] = Unit
  BY DEF Unit
<1> HIDE DEF t
<1>2. PICK h : Products(t, n, h)
  BY <1>1, ProductsExist
<1>3. h[n] \in Nat
  <2>1. \A i \in 1..n : t[i] =< t[i]
    BY <1>1
  <2> QED  BY <1>1, <1>2, <2>1, ProductsGrow
<1>4. ASSUME NEW A, NEW q, NEW m, IsWay(q, m) PROVE Under(A, q, n) =< h[n]
  <2> DEFINE s == Factors(A, q, n)
  <2>1. \A i \in 1..n : s[i] =< t[i]
    <3>1. \A i \in 1..n : i \in Nat \ {0}
      OBVIOUS
    <3>2. \A i \in 1..n : FactorUnder(A, q, i) =< Unit
      BY <1>4, <3>1, FactorIs
    <3> QED  BY <1>1, <3>2 DEF Factors
  <2> HIDE DEF s
  <2>2. s \in [1..n -> Nat] /\ \E g : Products(s, n, g) /\ Under(A, q, n) = g[n]
    BY <1>4, UnderIs DEF s
  <2> QED  BY <1>1, <1>2, <2>1, <2>2, ProductsGrow
<1> QED  BY <1>3, <1>4

(* A factor that stands for no step is the unit. *)
LEMMA UnderPadded ==
  ASSUME EdgeTypes, NEW m, NEW q, IsWay(q, m), NEW A, NEW n \in Nat, Len(q) - 1 =< n
  PROVE  Under(A, q, n + 1) = Unit * Under(A, q, n)
<1> DEFINE s == Factors(A, q, n)
           t == Factors(A, q, n + 1)
<1>0. n + 1 \in Nat /\ n + 1 # 0 /\ n + 1 >= Len(q) /\ Len(q) \in Nat
  BY DEF IsWay
<1>1. PICK g : Products(s, n, g) /\ Under(A, q, n) = g[n]
  BY UnderIs
<1>2. PICK h : Products(t, n + 1, h) /\ Under(A, q, n + 1) = h[n + 1]
  <2> DEFINE r == n + 1
  <2>1. r \in Nat
    BY <1>0
  <2> HIDE DEF r
  <2>2. \E h : Products(Factors(A, q, r), r, h) /\ Under(A, q, r) = h[r]
    BY <2>1, UnderIs
  <2> QED  BY <2>2 DEF r
<1>3. s \in [1..n -> Nat] /\ t \in [1..(n + 1) -> Nat]
  BY <1>0, UnderIs
<1>4. (\A i \in 1..n : s[i] = t[i]) /\ t[n + 1] = Unit
  <2>1. FactorUnder(A, q, n + 1) = Unit
    <3> DEFINE r == n + 1
    <3>1. r \in Nat \ {0} /\ r >= Len(q)
      BY <1>0
    <3> HIDE DEF r
    <3>2. FactorUnder(A, q, r) = Unit
      BY <3>1, FactorIs
    <3> QED  BY <3>2 DEF r
  <2> QED  BY <2>1 DEF Factors
<1> HIDE DEF s, t
<1> DEFINE k == [i \in 0..n |-> h[i]]
<1>5. Products(s, n, k)
  <2>1. \A i \in 0..(n + 1) : h[i] = IF i = 0 THEN 1 ELSE t[i] * h[i - 1]
    BY <1>2 DEF Products
  <2>2. ASSUME NEW i \in 0..n PROVE k[i] = IF i = 0 THEN 1 ELSE s[i] * k[i - 1]
    <3>1. i \in 0..(n + 1) /\ (i # 0 => i \in 1..n /\ i - 1 \in 0..n)
      BY <2>2
    <3> QED  BY <1>4, <2>1, <3>1
  <2>3. k = [i \in 0..n |-> k[i]]
    OBVIOUS
  <2> HIDE DEF k
  <2> QED  BY <2>2, <2>3 DEF Products
<1>6. k[n] = h[n] /\ h[n + 1] = Unit * h[n]
  <2>1. h[n + 1] = t[n + 1] * h[(n + 1) - 1] /\ (n + 1) - 1 = n
    BY <1>2 DEF Products
  <2> QED  BY <1>4, <2>1
<1> HIDE DEF k
<1>7. g[n] = k[n]
  <2>1. (\A i \in 1..n : s[i] =< s[i])
    BY <1>3
  <2>2. g[n] \in Nat /\ k[n] \in Nat /\ g[n] =< k[n] /\ k[n] =< g[n]
    BY <1>1, <1>3, <1>5, <2>1, ProductsGrow
  <2> QED  BY <2>2
<1> QED  BY <1>1, <1>2, <1>6, <1>7

(* So the number of factors does not matter for a comparison. *)
LEMMA UnderCompare ==
  ASSUME EdgeTypes, NEW v, NEW q, IsWay(q, v), NEW w, NEW o, IsWay(o, w), NEW A,
         NEW m \in Nat, NEW n \in Nat, m =< n, Len(q) - 1 =< m, Len(o) - 1 =< m
  PROVE  Under(A, o, n) =< Under(A, q, n) <=> Under(A, o, m) =< Under(A, q, m)
<1> DEFINE G == {i \in 0..(n - m) : Under(A, o, m + i) =< Under(A, q, m + i) <=> Under(A, o, m) =< Under(A, q, m)}
<1>1. n - m \in Nat /\ Len(q) \in Nat /\ Len(o) \in Nat
  BY DEF IsWay
<1>2. 0 \in G
  BY <1>1
<1>3. ASSUME NEW i \in 0..(n - m), i + 1 \in 0..(n - m), i \in G PROVE i + 1 \in G
  <2>1. m + i \in Nat /\ Len(q) - 1 =< m + i /\ Len(o) - 1 =< m + i /\ (m + i) + 1 = m + (i + 1)
    BY <1>1, <1>3
  <2>2. /\ Under(A, q, m + (i + 1)) = Unit * Under(A, q, m + i)
        /\ Under(A, o, m + (i + 1)) = Unit * Under(A, o, m + i)
    BY <2>1, UnderPadded
  <2>3. Under(A, q, m + i) \in Nat /\ Under(A, o, m + i) \in Nat
    BY <2>1, UnderIs
  <2>4. \A x, y \in Nat : Unit * x =< Unit * y <=> x =< y
    BY DEF Unit
  <2> QED  BY <1>3, <2>2, <2>3, <2>4
<1>4. n - m \in G
  <2> HIDE DEF G
  <2>1. \A i \in 0..(n - m) : i \in G
    BY <1>1, <1>2, <1>3, UpTo
  <2>2. n - m \in 0..(n - m)
    BY <1>1
  <2> QED  BY <2>1, <2>2
<1>5. m + (n - m) = n
  OBVIOUS
<1> QED  BY <1>4, <1>5

(* What the search calls a likelihood is that under its articles. *)
LEMMA LikelihoodUnder ==
  ASSUME EdgeTypes, simple = Collapse, NEW m, NEW q, IsWay(q, m), NEW n \in Nat
  PROVE  Likelihood(q, n) = Under(articles, q, n)
<1>1. \A k : StepLikelihood(k) = StepUnder(articles, k)
  BY DEF StepLikelihood, StepUnder, IntelUplift, UpliftUnder
<1>2. ASSUME NEW i \in 1..n PROVE PathFactor(q, i) = FactorUnder(articles, q, i)
  <2>0. i \in Nat \ {0} /\ Len(q) \in Nat
    BY DEF IsWay
  <2>1. CASE i < Len(q)
    <3> DEFINE l == <<q[i], q[i + 1]>>
    <3>1. l \in Links /\ FactorUnder(articles, q, i) = BestStep(articles, l)
      BY <2>0, <2>1, FactorIs
    <3>2. PathFactor(q, i) = StepLikelihood(Collapse[l])
      BY <2>1 DEF PathFactor
    <3> HIDE DEF l
    <3>3. Collapse[l] \in Between(l[1], l[2]) /\ \A o \in Between(l[1], l[2]) : StepLikelihood(o) =< StepLikelihood(Collapse[l])
      BY <3>1, CollapsedIs
    <3>4. PICK k \in Between(l[1], l[2]) : BestStep(articles, l) = StepUnder(articles, k)
      BY <3>1, BestStepIs
    <3>5. StepUnder(articles, Collapse[l]) =< BestStep(articles, l) /\ BestStep(articles, l) \in Nat
      BY <3>1, <3>3, BestStepIs
    <3>6. StepLikelihood(Collapse[l]) \in Nat
      BY <3>3, StepIsNat DEF Between
    <3> QED  BY <1>1, <3>1, <3>2, <3>3, <3>4, <3>5, <3>6
  <2>2. CASE ~(i < Len(q))
    BY <2>2 DEF PathFactor, FactorUnder
  <2> QED  BY <2>1, <2>2
<1> DEFINE s == Factors(articles, q, n)
<1>3. s \in [1..n -> Nat] /\ \A i \in 1..n : s[i] = PathFactor(q, i)
  <2>1. s \in [1..n -> Nat]
    BY UnderIs
  <2> QED  BY <1>2, <2>1 DEF Factors
<1>4. PICK g : Products(s, n, g) /\ Under(articles, q, n) = g[n]
  BY UnderIs
<1> HIDE DEF s
<1>5. PICK h : Products(s, n, h) /\ Likelihood(q, n) = h[n]
  BY <1>3, LikelihoodIs
<1>6. g[n] = h[n]
  <2>1. \A i \in 1..n : s[i] =< s[i]
    BY <1>3
  <2>2. g[n] \in Nat /\ h[n] \in Nat /\ g[n] =< h[n] /\ h[n] =< g[n]
    BY <1>3, <1>4, <1>5, <2>1, ProductsGrow
  <2> QED  BY <2>2
<1> QED  BY <1>4, <1>5, <1>6

-----------------------------------------------------------------------------

(* What a revision recorded, of the graph that is still there. *)
RevisionOf(r) ==
  IF index
  THEN /\ \A q \in DOMAIN r.paths :
            /\ Len(q) - 1 =< MaxDepth /\ \E p \in Pairs : q \in SimplePaths(p[1], p[2])
            /\ r.paths[q].likelihood = Under(r.articles, q, MaxDepth)
       /\ \A p \in Pairs : \A o \in SimplePaths(p[1], p[2]) : Len(o) - 1 =< MaxDepth =>
            \E q \in DOMAIN r.paths :
              /\ q[1] = p[1] /\ Last(q) = p[2]
              /\ Under(r.articles, o, MaxDepth) =< Under(r.articles, q, MaxDepth)
       /\ r.verdicts = Verdicts(r.articles, model)
       /\ r.risk \in Int
  ELSE r = EmptySnapshot(r.articles)

RevInv ==
  /\ PInv
  /\ \E S : revisions \in Seq(S)
  /\ revisions # <<>> => built \notin {"seeding", "walking"}
  /\ \A i \in DOMAIN revisions : RevisionOf(revisions[i])

(* It stays so while the graph is not touched. *)
LEMMA RevisionStays ==
  ASSUME UNCHANGED <<model, atlas, index, nodes, edges>>, NEW r, RevisionOf(r)
  PROVE  RevisionOf(r)'
<1>1. Pairs' = Pairs /\ Links' = Links
  BY PairsStay
<1>2. ASSUME NEW n, NEW t PROVE SimplePaths(n, t)' = SimplePaths(n, t)
  BY <1>1 DEF SimplePaths
<1>3. ASSUME NEW A, NEW q PROVE Under(A, q, MaxDepth)' = Under(A, q, MaxDepth)
  <2>1. ASSUME NEW k PROVE StepUnder(A, k)' = StepUnder(A, k)
    BY DEF StepUnder, ControlPresence, Exposure, UpliftUnder
  <2>2. ASSUME NEW l PROVE BestStep(A, l)' = BestStep(A, l)
    BY <2>1 DEF BestStep, Between
  <2>3. ASSUME NEW i PROVE FactorUnder(A, q, i)' = FactorUnder(A, q, i)
    BY <2>2 DEF FactorUnder
  <2>4. Factors(A, q, MaxDepth)' = Factors(A, q, MaxDepth)
    BY <2>3 DEF Factors
  <2> QED  BY <2>4 DEF Under
<1>4. ASSUME NEW A PROVE Verdicts(A, model)' = Verdicts(A, model)
  <2>1. ReachableEntities' = ReachableEntities
    BY DEF ReachableEntities
  <2>2. ASSUME NEW c PROVE VerdictOn(c, A, model)' = VerdictOn(c, A, model)
    BY <2>1 DEF VerdictOn
  <2>3. IntelCandidates(A, model)' = IntelCandidates(A, model)
    BY DEF IntelCandidates, ExistingKeys
  <2> QED  BY <2>2, <2>3 DEF Verdicts
<1> QED  BY <1>1, <1>2, <1>3, <1>4 DEF RevisionOf

(* A simple path has at most as many states as there are. *)
LEMMA SimplePathShort ==
  ASSUME GInv, NEW p \in Pairs, NEW q \in SimplePaths(p[1], p[2])
  PROVE  IsWay(q, p[1]) /\ q[1] = p[1] /\ Last(q) = p[2] /\ Len(q) \in Nat /\ Len(q) - 1 =< LongestPath
<1>1. Links \in SUBSET (nodes \X nodes) /\ IsFiniteSet(nodes) /\ Cardinality(nodes) =< NodeBudget
  BY DEF GInv, GraphTypes, EdgesSound, Links, WithinBudgets
<1>2. p[1] \in nodes /\ IsWay(q, p[1]) /\ q[1] = p[1] /\ Last(q) = p[2]
  BY PairIs
<1>3. Distinct(q)
  BY <1>1, <1>2, SimplePathsAre
<1>4. q \in [1..Len(q) -> nodes] /\ Len(q) \in Nat
  BY <1>2 DEF IsWay
<1>5. q \in Injection(1..Len(q), nodes)
  BY <1>3, <1>4 DEF Injection, Distinct, IsInjective
<1>6. Cardinality(1..Len(q)) =< Cardinality(nodes)
  BY <1>1, <1>5, FS_Injection
<1>7. Cardinality(1..Len(q)) = Len(q)
  <2>1. 1 \in Int /\ Len(q) \in Int
    BY <1>4
  <2>2. Cardinality(1..Len(q)) = IF 1 > Len(q) THEN 0 ELSE Len(q) - 1 + 1
    BY <2>1, FS_Interval
  <2> QED  BY <1>4, <2>2
<1>8. Cardinality(nodes) \in Nat
  BY <1>1, FS_CardinalityType
<1> QED  BY <1>1, <1>2, <1>4, <1>6, <1>7, <1>8, AttackAssumption DEF LongestPath

(* A snapshot records that, when the search is done. *)
LEMMA SnapshotTold ==
  ASSUME PInv, built = "done", TotalScore(RegisterFound) \in Int, NEW r, r = Snapshot
  PROVE  RevisionOf(r)
<1>1. CASE ~index
  BY <1>1 DEF Snapshot, EmptySnapshot, RevisionOf
<1>2. CASE index
  <2>1. /\ r.articles = articles /\ r.verdicts = Verdicts(articles, model) /\ r.risk \in Int
        /\ r.paths = [p \in paths |-> [id |-> PathId(p), likelihood |-> Likelihood(p, MaxDepth)]]
    BY <1>2 DEF Snapshot
  <2>2. /\ GInv /\ EdgeTypes /\ simple = Collapse /\ KeptFound /\ \A p \in Pairs : Searched(p)
    BY DEF PInv, SearchUnderWay
  <2>3. MaxDepth \in Nat /\ LongestPath \in Nat
    BY SearchAssumption, AttackAssumption DEF LongestPath
  <2>4. ASSUME NEW q \in paths
        PROVE  /\ Len(q) - 1 =< MaxDepth /\ \E p \in Pairs : q \in SimplePaths(p[1], p[2])
               /\ r.paths[q].likelihood = Under(articles, q, MaxDepth)
    <3>1. PICK p \in Pairs : q \in SimplePaths(p[1], p[2])
      BY <2>2 DEF KeptFound
    <3>2. IsWay(q, p[1])
      BY <2>2, <3>1, PairIs
    <3>3. Likelihood(q, MaxDepth) = Under(articles, q, MaxDepth)
      BY <2>2, <2>3, <3>2, LikelihoodUnder
    <3> QED  BY <2>1, <2>2, <3>1, <3>3 DEF KeptFound
  <2>5. ASSUME NEW p \in Pairs, NEW o \in SimplePaths(p[1], p[2]), Len(o) - 1 =< MaxDepth
        PROVE  \E q \in paths :
                 /\ q[1] = p[1] /\ Last(q) = p[2]
                 /\ Under(articles, o, MaxDepth) =< Under(articles, q, MaxDepth)
    <3>1. /\ IsWay(o, p[1]) /\ o[1] = p[1] /\ Last(o) = p[2] /\ Len(o) \in Nat /\ Len(o) - 1 =< LongestPath
      BY <2>2, SimplePathShort
    <3>2. CASE o \in Kept(p)
      <4>1. Under(articles, o, MaxDepth) \in Nat
        BY <2>2, <2>3, <3>1, UnderIs
      <4> QED  BY <3>1, <3>2, <4>1 DEF Kept
    <3>3. CASE o \notin Kept(p)
      <4>1. o \in Others(p)
        BY <2>5, <3>3 DEF Others
      <4>2. PICK q \in Kept(p) : PathLikelihood(o) =< PathLikelihood(q)
        BY <2>2, <4>1 DEF Searched, BestKept
      <4>3. q \in paths /\ q[1] = p[1] /\ Last(q) = p[2] /\ q \in SimplePaths(p[1], p[2])
        BY <2>2 DEF Searched, BestKept, Kept
      <4>4. IsWay(q, p[1]) /\ Len(q) \in Nat /\ Len(q) - 1 =< LongestPath
        BY <2>2, <4>3, SimplePathShort
      <4>5. Len(q) - 1 =< MaxDepth
        BY <2>4, <4>3
      <4>6. Under(articles, o, LongestPath) =< Under(articles, q, LongestPath)
        BY <2>2, <2>3, <3>1, <4>2, <4>4, LikelihoodUnder DEF PathLikelihood
      <4>7. CASE MaxDepth =< LongestPath
        <5>1. Under(articles, o, LongestPath) =< Under(articles, q, LongestPath) <=>
              Under(articles, o, MaxDepth) =< Under(articles, q, MaxDepth)
          BY <2>2, <2>3, <2>5, <3>1, <4>4, <4>5, <4>7, UnderCompare
        <5> QED  BY <4>3, <4>6, <5>1
      <4>8. CASE LongestPath =< MaxDepth
        <5>1. Under(articles, o, MaxDepth) =< Under(articles, q, MaxDepth) <=>
              Under(articles, o, LongestPath) =< Under(articles, q, LongestPath)
          BY <2>2, <2>3, <3>1, <4>4, <4>8, UnderCompare
        <5> QED  BY <4>3, <4>6, <5>1
      <4> QED  BY <2>3, <4>7, <4>8
    <3> QED  BY <3>2, <3>3
  <2> QED  BY <1>2, <2>1, <2>4, <2>5 DEF RevisionOf
<1> QED  BY <1>1, <1>2

(* The likelihoods that a revision recorded between two states. *)
Recorded(r, from, to) == {r.paths[p].likelihood : p \in {p \in DOMAIN r.paths : p[1] = from /\ Last(p) = to}}

LEMMA BestIs ==
  ASSUME GInv, EdgeTypes, NEW r, RevisionOf(r), NEW from, NEW to
  PROVE  LET L == {0} \cup Recorded(r, from, to) IN
         Best(r, from, to) \in L /\ L \subseteq Nat /\ \A x \in L : x =< Best(r, from, to)
<1> DEFINE L == {0} \cup Recorded(r, from, to)
<1>0. MaxDepth \in Nat
  BY SearchAssumption
<1>1. PICK b \in Nat : \A A, q, m : IsWay(q, m) => Under(A, q, MaxDepth) =< b
  BY <1>0, UnderBounded
<1>2. ASSUME NEW x \in L PROVE x \in Nat /\ x =< b
  <2>1. CASE x = 0
    BY <1>1, <2>1
  <2>2. CASE x # 0
    <3>1. PICK q \in DOMAIN r.paths : x = r.paths[q].likelihood
      BY <2>2 DEF Recorded
    <3>2. index
      <4>1. ASSUME ~index PROVE FALSE
        <5>1. r.paths = <<>>
          BY <4>1 DEF RevisionOf, EmptySnapshot
        <5> QED  BY <3>1, <5>1
      <4> QED  BY <4>1
    <3>3. PICK p \in Pairs : q \in SimplePaths(p[1], p[2])
      BY <3>1, <3>2 DEF RevisionOf
    <3>4. IsWay(q, p[1])
      BY <3>3, PairIs
    <3>5. x = Under(r.articles, q, MaxDepth)
      BY <3>1, <3>2 DEF RevisionOf
    <3> QED  BY <1>0, <1>1, <3>4, <3>5, UnderIs
  <2> QED  BY <2>1, <2>2
<1>3. L \in SUBSET Nat /\ L # {} /\ \A x \in L : x =< b
  BY <1>2
<1>4. Best(r, from, to) = Max(L)
  BY DEF Best, Recorded
<1> HIDE DEF L
<1>5. PICK m \in L : \A x \in L : x =< m
  BY <1>1, <1>3, HasGreatest
<1>6. Max(L) = m
  BY <1>3, <1>5, MaxIs
<1> QED  BY <1>3, <1>4, <1>5, <1>6 DEF L

(* Articles that uplift no technique of an edge less lower no target. *)
LEMMA BestGrows ==
  ASSUME GInv, EdgeTypes, NEW r, NEW s, RevisionOf(r), RevisionOf(s),
         \A k \in DOMAIN edges : UpliftUnder(r.articles, k[3]) =< UpliftUnder(s.articles, k[3]),
         NEW from, NEW to
  PROVE  Best(r, from, to) =< Best(s, from, to)
<1>0. MaxDepth \in Nat
  BY SearchAssumption
<1>1. /\ Best(r, from, to) \in {0} \cup Recorded(r, from, to)
      /\ Best(s, from, to) \in Nat /\ \A x \in Recorded(s, from, to) : x \in Nat /\ x =< Best(s, from, to)
  BY BestIs
<1>2. CASE Best(r, from, to) = 0
  BY <1>1, <1>2
<1>3. CASE Best(r, from, to) # 0
  <2>1. PICK q \in DOMAIN r.paths : q[1] = from /\ Last(q) = to /\ Best(r, from, to) = r.paths[q].likelihood
    BY <1>1, <1>3 DEF Recorded
  <2>2. index
    <3>1. ASSUME ~index PROVE FALSE
      <4>1. r.paths = <<>>
        BY <3>1 DEF RevisionOf, EmptySnapshot
      <4> QED  BY <2>1, <4>1
    <3> QED  BY <3>1
  <2>3. PICK p \in Pairs : q \in SimplePaths(p[1], p[2])
    BY <2>1, <2>2 DEF RevisionOf
  <2>4. /\ Len(q) - 1 =< MaxDepth /\ IsWay(q, p[1]) /\ p[1] = from /\ p[2] = to
        /\ Best(r, from, to) = Under(r.articles, q, MaxDepth)
    BY <2>1, <2>2, <2>3, PairIs DEF RevisionOf
  <2>5. PICK o \in DOMAIN s.paths : /\ o[1] = from /\ Last(o) = to
                                    /\ Under(s.articles, q, MaxDepth) =< Under(s.articles, o, MaxDepth)
    BY <2>2, <2>3, <2>4 DEF RevisionOf
  <2>6. s.paths[o].likelihood = Under(s.articles, o, MaxDepth) /\ s.paths[o].likelihood \in Recorded(s, from, to)
    BY <2>2, <2>5 DEF RevisionOf, Recorded
  <2>7. Under(r.articles, q, MaxDepth) =< Under(s.articles, q, MaxDepth)
    BY <1>0, <2>4, UnderGrows
  <2>8. Under(r.articles, q, MaxDepth) \in Nat /\ Under(s.articles, q, MaxDepth) \in Nat
    BY <1>0, <2>4, UnderIs
  <2> QED  BY <1>1, <2>4, <2>5, <2>6, <2>7, <2>8
<1> QED  BY <1>2, <1>3

LEMMA LikelihoodsMove ==
  ASSUME GInv, EdgeTypes, NEW r, NEW s, RevisionOf(r), RevisionOf(s)
  PROVE  LikelihoodByNews(r, s)
<1> SUFFICES ASSUME Uplifted(r) = Uplifted(s), NEW from \in nodes, NEW to \in nodes
             PROVE  Best(r, from, to) = Best(s, from, to)
  BY DEF LikelihoodByNews
<1>1. ASSUME NEW k \in DOMAIN edges PROVE UpliftUnder(r.articles, k[3]) = UpliftUnder(s.articles, k[3])
  <2>1. (\E a \in r.articles : k[3] \in a.techniques) <=> (\E a \in s.articles : k[3] \in a.techniques)
    BY DEF Uplifted
  <2> QED  BY <2>1 DEF UpliftUnder
<1>2. \A k \in DOMAIN edges : UpliftUnder(r.articles, k[3]) \in Nat
  BY FactorsAreNat
<1>3. Best(r, from, to) =< Best(s, from, to)
  BY <1>1, <1>2, BestGrows
<1>4. Best(s, from, to) =< Best(r, from, to)
  BY <1>1, <1>2, BestGrows
<1>5. Best(r, from, to) \in Nat /\ Best(s, from, to) \in Nat
  BY BestIs
<1> QED  BY <1>3, <1>4, <1>5

LEMMA MoreIntelMoreLikely ==
  ASSUME GInv, EdgeTypes, NEW r, NEW s, RevisionOf(r), RevisionOf(s), r.articles \subseteq s.articles,
         NEW from, NEW to
  PROVE  Best(r, from, to) =< Best(s, from, to)
<1>1. ASSUME NEW k \in DOMAIN edges PROVE UpliftUnder(r.articles, k[3]) =< UpliftUnder(s.articles, k[3])
  BY SearchAssumption DEF UpliftUnder
<1> QED  BY <1>1, BestGrows

LEMMA DiffIsSound ==
  ASSUME NEW r, NEW s, r.risk \in Int, s.risk \in Int
  PROVE  DiffAddsUp(r, s)
<1> DEFINE d == Diff(r, s)
           back == Diff(s, r)
<1>1. /\ d.new = PathIds(s) \ PathIds(r) /\ d.removed = PathIds(r) \ PathIds(s)
      /\ back.removed = PathIds(s) \ PathIds(r)
      /\ d.risk = s.risk - r.risk
      /\ DOMAIN d.movement = DOMAIN r.rollup \cup DOMAIN s.rollup
      /\ DOMAIN back.movement = DOMAIN s.rollup \cup DOMAIN r.rollup
  BY DEF Diff
<1>2. ASSUME NEW i \in PathIds(r) \cap PathIds(s), LikelihoodOf(s, i) # LikelihoodOf(r, i)
      PROVE  \E x \in d.changed, y \in back.changed :
               x.id = i /\ y.id = i /\ x.next = LikelihoodOf(s, i) /\ y.next = LikelihoodOf(r, i)
  <2> DEFINE x == [id |-> i, previous |-> LikelihoodOf(r, i), next |-> LikelihoodOf(s, i)]
             y == [id |-> i, previous |-> LikelihoodOf(s, i), next |-> LikelihoodOf(r, i)]
  <2>1. x \in d.changed
    BY <1>2 DEF Diff
  <2>2. y \in back.changed
    BY <1>2 DEF Diff
  <2>3. x.id = i /\ y.id = i /\ x.next = LikelihoodOf(s, i) /\ y.next = LikelihoodOf(r, i)
    OBVIOUS
  <2> QED  BY <2>1, <2>2, <2>3
<1> HIDE DEF d, back
<1>3. (PathIds(r) \ d.removed) \cup d.new = PathIds(s) /\ d.new = back.removed
  BY <1>1
<1>4. r.risk + d.risk = s.risk /\ DOMAIN d.movement = DOMAIN back.movement
  <2>1. d.risk = s.risk - r.risk
    BY <1>1
  <2>2. r.risk + (s.risk - r.risk) = s.risk
    OBVIOUS
  <2> QED  BY <1>1, <2>1, <2>2
<1> QED  BY <1>2, <1>3, <1>4 DEF DiffAddsUp, d, back

(* The ids of the candidates of the rules that are grounded, and of those  *)
(* that articles add.                                                      *)
GroundedIds(m) == {Id(c) : c \in Grounded(m, atlas, index)}
IntelIds(A, m) == {IntelId(k) : k \in {k \in IntelCandidates(A, m) : InCorpus(k[2])}}
OfId(m, id) == CHOOSE c \in Grounded(m, atlas, index) : Id(c) = id

(* A verdict of the rules goes before one of an article. *)
LEMMA VerdictsAre ==
  ASSUME NEW A, NEW m
  PROVE  /\ DOMAIN Verdicts(A, m) = GroundedIds(m) \cup IntelIds(A, m)
         /\ \A id \in GroundedIds(m) : Verdicts(A, m)[id] = VerdictOn(OfId(m, id), A, m)
         /\ \A id \in IntelIds(A, m) \ GroundedIds(m) : Verdicts(A, m)[id] = IntelVerdict(<<id[2], id[3]>>, m)
<1> DEFINE V(id) == IF id \in GroundedIds(m) THEN VerdictOn(OfId(m, id), A, m) ELSE IntelVerdict(<<id[2], id[3]>>, m)
<1>1. Verdicts(A, m) = [id \in GroundedIds(m) \cup IntelIds(A, m) |-> V(id)]
  BY DEF Verdicts, GroundedIds, IntelIds, OfId
<1> QED  BY <1>1

(* More articles match and widen more. *)
LEMMA MoreIntelWidens ==
  ASSUME NEW A, NEW B, A \subseteq B, NEW m
  PROVE  /\ \A b : Widened(A, b, m) \subseteq Widened(B, b, m)
         /\ IntelIds(A, m) \subseteq IntelIds(B, m)
<1>1. \A b : Widened(A, b, m) \subseteq Widened(B, b, m)
  <2>1. \A t : WidenedEntities(A, t, m) \subseteq WidenedEntities(B, t, m)
    BY DEF WidenedEntities
  <2> QED  BY <2>1 DEF Widened
<1>2. IntelCandidates(A, m) \subseteq IntelCandidates(B, m)
  BY DEF IntelCandidates
<1> QED  BY <1>1, <1>2 DEF IntelIds

(* A verdict on a candidate of the rules applies when nothing stands       *)
(* against it; what articles widen is taken off.                           *)
LEMMA VerdictIs ==
  ASSUME NEW c, NEW A, NEW m
  PROVE  LET W == Widened(A, Bridge(c.category, atlas, TopK), m) IN
         VerdictOn(c, A, m) = "none" <=>
           OutOfScopeEntities(c, m) = {} /\ UnreachableEntities(c, m, ReachableEntities) \subseteq W
<1> DEFINE W == Widened(A, Bridge(c.category, atlas, TopK), m)
           R == ReachableEntities
<1>1. UnreachableEntities(c, m, R \cup W) = UnreachableEntities(c, m, R) \ W
  BY DEF UnreachableEntities
<1>2. VerdictOn(c, A, m) = IF OutOfScopeEntities(c, m) # {} THEN "out_of_scope_status_change"
                           ELSE IF UnreachableEntities(c, m, R \cup W) # {} THEN "reachability" ELSE "none"
  BY DEF VerdictOn, Adjudicate
<1> HIDE DEF W, R
<1> QED  BY <1>1, <1>2 DEF W, R

(* At most one entity is out of reach. *)
LEMMA OneUnreachable ==
  ASSUME NEW c, NEW m, NEW R, NEW d \in UnreachableEntities(c, m, R), NEW e \in UnreachableEntities(c, m, R)
  PROVE  d = e
BY DEF UnreachableEntities

LEMMA WidenedBy ==
  ASSUME NEW A, NEW m, NEW b, NEW e
  PROVE  e \in Widened(A, b, m) <=> \E a \in A, t \in Range(b) : t \in a.techniques /\ e \in MatchedEntities(a, m)
BY DEF Widened, WidenedEntities

LEMMA IntelVerdictIs ==
  ASSUME NEW A, NEW m, NEW id, id \in IntelIds(A, m), id \notin GroundedIds(m)
  PROVE  Verdicts(A, m)[id] = IntelVerdict(<<id[2], id[3]>>, m)
BY VerdictsAre

LEMMA GroundedCandidate ==
  ASSUME NEW m, NEW id \in GroundedIds(m)
  PROVE  OfId(m, id) \in Candidates(m) /\ Id(OfId(m, id)) = id
<1>1. \E c \in Grounded(m, atlas, index) : Id(c) = id
  BY DEF GroundedIds
<1>2. OfId(m, id) \in Grounded(m, atlas, index) /\ Id(OfId(m, id)) = id
  BY <1>1 DEF OfId
<1> QED  BY <1>2 DEF Grounded

LEMMA NewsReopens ==
  ASSUME NEW r, NEW s, RevisionOf(r), RevisionOf(s)
  PROVE  ReopenedByNews(r, s)
<1> SUFFICES ASSUME NEW id \in Reopened(r, s)
             PROVE  \E c \in Candidates(model) :
               /\ id = Id(c) /\ OutOfScopeEntities(c, model) = {}
               /\ \A e \in UnreachableEntities(c, model, ReachableEntities) :
                    \E a \in s.articles \ r.articles :
                      \E t \in Range(Bridge(c.category, atlas, TopK)) : Names(a, t, e)
  BY DEF ReopenedByNews, Diff
<1>1. id \in DOMAIN r.verdicts /\ id \in DOMAIN s.verdicts /\ r.verdicts[id] # "none" /\ s.verdicts[id] = "none"
  BY DEF Reopened
<1>2. index
  <2>1. ASSUME ~index PROVE FALSE
    <3>1. r.verdicts = <<>>
      BY <2>1 DEF RevisionOf, EmptySnapshot
    <3> QED  BY <1>1, <3>1
  <2> QED  BY <2>1
<1>3. r.verdicts = Verdicts(r.articles, model) /\ s.verdicts = Verdicts(s.articles, model)
  BY <1>2 DEF RevisionOf
<1>4. id \in GroundedIds(model)
  <2>1. ASSUME id \notin GroundedIds(model) PROVE FALSE
    <3>1. id \in IntelIds(r.articles, model) /\ id \in IntelIds(s.articles, model)
      BY <1>1, <1>3, <2>1, VerdictsAre
    <3>2. r.verdicts[id] = IntelVerdict(<<id[2], id[3]>>, model)
      BY <1>3, <2>1, <3>1, IntelVerdictIs
    <3>3. s.verdicts[id] = IntelVerdict(<<id[2], id[3]>>, model)
      BY <1>3, <2>1, <3>1, IntelVerdictIs
    <3> QED  BY <1>1, <3>2, <3>3
  <2> QED  BY <2>1
<1> DEFINE c == OfId(model, id)
           b == Bridge(c.category, atlas, TopK)
           U == UnreachableEntities(c, model, ReachableEntities)
<1>5. VerdictOn(c, r.articles, model) # "none" /\ VerdictOn(c, s.articles, model) = "none"
  BY <1>1, <1>3, <1>4, VerdictsAre
<1>6. c \in Candidates(model) /\ Id(c) = id
  BY <1>4, GroundedCandidate
<1>7. OutOfScopeEntities(c, model) = {} /\ U \subseteq Widened(s.articles, b, model) /\ ~(U \subseteq Widened(r.articles, b, model))
  BY <1>5, VerdictIs
<1>8. ASSUME NEW e \in U PROVE \E a \in s.articles \ r.articles : \E t \in Range(b) : Names(a, t, e)
  <2>1. PICK a \in s.articles, t \in Range(b) : t \in a.techniques /\ e \in MatchedEntities(a, model)
    BY <1>7, <1>8, WidenedBy
  <2>2. e \notin Widened(r.articles, b, model)
    <3>1. PICK d \in U : d \notin Widened(r.articles, b, model)
      BY <1>7
    <3>2. d = e
      BY <1>8, <3>1, OneUnreachable
    <3> QED  BY <3>1, <3>2
  <2>3. a \notin r.articles
    BY <2>1, <2>2, WidenedBy
  <2> QED  BY <2>1, <2>3 DEF Names
<1> QED  BY <1>6, <1>7, <1>8

LEMMA IntelWidens ==
  ASSUME GInv, EdgeTypes, NEW r, NEW s, RevisionOf(r), RevisionOf(s)
  PROVE  IntelOnlyWidens(r, s)
<1> SUFFICES ASSUME r.articles \subseteq s.articles
             PROVE  /\ \A id \in DOMAIN r.verdicts : Applies(r, id) => Applies(s, id)
                    /\ \A id \in DOMAIN s.verdicts \ DOMAIN r.verdicts :
                         InCorpus(id[3]) /\ \E a \in s.articles \ r.articles : Names(a, id[3], id[2])
                    /\ \A from, to \in nodes : Best(r, from, to) =< Best(s, from, to)
  BY DEF IntelOnlyWidens
<1> DEFINE A == r.articles
           B == s.articles
<1>1. \A from, to \in nodes : Best(r, from, to) =< Best(s, from, to)
  BY MoreIntelMoreLikely
<1>2. CASE ~index
  <2>1. r.verdicts = <<>> /\ s.verdicts = <<>>
    BY <1>2 DEF RevisionOf, EmptySnapshot
  <2> QED  BY <1>1, <2>1
<1>3. CASE index
  <2>1. r.verdicts = Verdicts(A, model) /\ s.verdicts = Verdicts(B, model)
    BY <1>3 DEF RevisionOf
  <2>2. IntelIds(A, model) \subseteq IntelIds(B, model)
    BY MoreIntelWidens
  <2>0. /\ DOMAIN r.verdicts = GroundedIds(model) \cup IntelIds(A, model)
        /\ DOMAIN s.verdicts = GroundedIds(model) \cup IntelIds(B, model)
    <3>1. DOMAIN r.verdicts = GroundedIds(model) \cup IntelIds(A, model)
      BY <2>1, VerdictsAre
    <3>2. DOMAIN s.verdicts = GroundedIds(model) \cup IntelIds(B, model)
      BY <2>1, VerdictsAre
    <3> QED  BY <3>1, <3>2
  <2>3. ASSUME NEW id \in DOMAIN r.verdicts, Applies(r, id) PROVE Applies(s, id)
    <3>1. id \in DOMAIN s.verdicts /\ r.verdicts[id] = "none"
      BY <2>0, <2>2, <2>3 DEF Applies
    <3>2. CASE id \in GroundedIds(model)
      <4> DEFINE c == OfId(model, id)
                 b == Bridge(c.category, atlas, TopK)
      <4>1. VerdictOn(c, A, model) = "none"
        BY <2>1, <3>1, <3>2, VerdictsAre
      <4>2. Widened(A, b, model) \subseteq Widened(B, b, model)
        BY MoreIntelWidens
      <4>3. VerdictOn(c, B, model) = "none"
        BY <4>1, <4>2, VerdictIs
      <4>4. s.verdicts[id] = "none"
        BY <2>1, <3>2, <4>3, VerdictsAre
      <4> QED  BY <3>1, <4>4 DEF Applies
    <3>3. CASE id \notin GroundedIds(model)
      <4>1. id \in IntelIds(A, model) /\ id \in IntelIds(B, model)
        BY <2>0, <2>2, <2>3, <3>3
      <4>2. r.verdicts[id] = IntelVerdict(<<id[2], id[3]>>, model)
        BY <2>1, <3>3, <4>1, IntelVerdictIs
      <4>3. s.verdicts[id] = IntelVerdict(<<id[2], id[3]>>, model)
        BY <2>1, <3>3, <4>1, IntelVerdictIs
      <4> QED  BY <3>1, <4>2, <4>3 DEF Applies
    <3> QED  BY <3>2, <3>3
  <2>4. ASSUME NEW id \in DOMAIN s.verdicts \ DOMAIN r.verdicts
        PROVE  InCorpus(id[3]) /\ \E a \in s.articles \ r.articles : Names(a, id[3], id[2])
    <3>1. id \in IntelIds(B, model) /\ id \notin IntelIds(A, model)
      BY <2>0, <2>4
    <3>2. PICK k \in IntelCandidates(B, model) : InCorpus(k[2]) /\ id = IntelId(k)
      BY <3>1 DEF IntelIds
    <3>3. k \notin IntelCandidates(A, model)
      BY <3>1, <3>2 DEF IntelIds
    <3>4. id[2] = k[1] /\ id[3] = k[2]
      BY <3>2 DEF IntelId
    <3>5. PICK a \in B : k \in MatchedEntities(a, model) \X a.techniques
      BY <3>2 DEF IntelCandidates
    <3>6. a \notin A
      BY <3>2, <3>3, <3>5 DEF IntelCandidates
    <3>7. k[1] \in MatchedEntities(a, model) /\ k[2] \in a.techniques
      BY <3>5
    <3> QED  BY <3>2, <3>4, <3>5, <3>6, <3>7 DEF Names
  <2> QED  BY <1>1, <2>3, <2>4
<1> QED  BY <1>2, <1>3

(* The recursion of a sum over a set, up to subsets of n elements. *)
Small(S, n) == {s \in SUBSET S : Cardinality(s) =< n}
SumOf(score, g, s) ==
  IF s = {} THEN 0
  ELSE LET x == CHOOSE x \in s : TRUE IN score[x] + g[s \ {x}]
Sums(score, D, g) == g = [s \in D |-> SumOf(score, g, s)]

LEMMA SumsExist ==
  ASSUME NEW S, IsFiniteSet(S), NEW score
  PROVE  \E g : Sums(score, SUBSET S, g)
<1> DEFINE M == {m \in 0..Cardinality(S) : \E g : Sums(score, Small(S, m), g)}
           N == Cardinality(S)
<1>0. N \in Nat /\ \A s \in SUBSET S : IsFiniteSet(s) /\ Cardinality(s) \in Nat /\ Cardinality(s) =< N
  BY FS_CardinalityType, FS_Subset
<1>1. 0 \in M
  <2> DEFINE D == Small(S, 0)
             g == [s \in D |-> 0]
  <2>1. \A s \in D : s = {}
    BY <1>0, FS_EmptySet DEF Small
  <2>2. Sums(score, D, g)
    BY <2>1 DEF Sums, SumOf
  <2> HIDE DEF g
  <2> QED  BY <1>0, <2>2
<1>2. ASSUME NEW m \in 0..N, m + 1 \in 0..N, m \in M PROVE m + 1 \in M
  <2> DEFINE D == Small(S, m)
             E == Small(S, m + 1)
  <2>1. PICK g : Sums(score, D, g)
    BY <1>2
  <2> DEFINE h == [s \in E |-> SumOf(score, g, s)]
  <2>2. D \subseteq E
    BY <1>0, <1>2 DEF Small
  <2>3. ASSUME NEW s \in E, s # {} PROVE (CHOOSE x \in s : TRUE) \in s /\ s \ {CHOOSE x \in s : TRUE} \in D
    <3> DEFINE x == CHOOSE x \in s : TRUE
    <3>1. x \in s
      BY <2>3
    <3> HIDE DEF x
    <3>2. s \in SUBSET S /\ Cardinality(s) =< m + 1 /\ IsFiniteSet(s) /\ Cardinality(s) \in Nat
      BY <1>0 DEF Small
    <3>3. Cardinality(s \ {x}) = Cardinality(s) - 1
      BY <3>1, <3>2, FS_RemoveElement
    <3>4. s \ {x} \in D
      BY <1>0, <1>2, <3>2, <3>3 DEF Small
    <3> QED  BY <3>1, <3>4 DEF x
  <2>4. \A s \in D : h[s] = g[s]
    BY <2>1, <2>2 DEF Sums
  <2>6. ASSUME NEW s \in E PROVE h[s] = SumOf(score, h, s)
    <3>1. CASE s = {}
      BY <3>1 DEF SumOf
    <3>2. CASE s # {}
      <4> DEFINE x == CHOOSE x \in s : TRUE
      <4>1. s \ {x} \in D
        BY <2>3, <3>2
      <4>2. h[s] = score[x] + g[s \ {x}]
        BY <3>2 DEF SumOf
      <4>3. SumOf(score, h, s) = score[x] + h[s \ {x}]
        BY <3>2 DEF SumOf
      <4> HIDE DEF x, h
      <4> QED  BY <2>4, <4>1, <4>2, <4>3
    <3> QED  BY <3>1, <3>2
  <2>7. Sums(score, E, h)
    <3>1. h = [s \in E |-> h[s]]
      OBVIOUS
    <3> HIDE DEF h
    <3> QED  BY <2>6, <3>1 DEF Sums
  <2> HIDE DEF h
  <2> QED  BY <1>2, <2>7
<1>3. N \in M
  <2> HIDE DEF M
  <2>1. \A i \in 0..N : i \in M
    BY <1>0, <1>1, <1>2, UpTo
  <2> QED  BY <1>0, <2>1
<1>4. Small(S, N) = SUBSET S
  BY <1>0 DEF Small
<1> QED  BY <1>3, <1>4

(* Of two sums over a set, that of the smaller scores is the smaller.      *)
LEMMA SumsLess ==
  ASSUME NEW S, IsFiniteSet(S), NEW T, S \subseteq T, NEW score, NEW other,
         \A x \in S : score[x] \in Int /\ other[x] \in Int /\ score[x] =< other[x],
         NEW g, Sums(score, SUBSET S, g), NEW h, Sums(other, SUBSET T, h)
  PROVE  g[S] \in Int /\ h[S] \in Int /\ g[S] =< h[S]
<1> DEFINE Right(s) == g[s] \in Int /\ h[s] \in Int /\ g[s] =< h[s]
           M == {m \in 0..Cardinality(S) : \A s \in Small(S, m) : Right(s)}
           N == Cardinality(S)
<1>0. N \in Nat /\ \A s \in SUBSET S : IsFiniteSet(s) /\ Cardinality(s) \in Nat /\ Cardinality(s) =< N
  BY FS_CardinalityType, FS_Subset
<1>1. \A s \in SUBSET S : g[s] = SumOf(score, g, s) /\ h[s] = SumOf(other, h, s)
  BY DEF Sums
<1>2. \A s \in SUBSET S : s = {} => Right(s)
  <2>1. g[{}] = 0 /\ h[{}] = 0
    BY <1>1 DEF SumOf
  <2> QED  BY <2>1
<1>3. 0 \in M
  <2>1. \A s \in Small(S, 0) : s = {} /\ s \in SUBSET S
    BY <1>0, FS_EmptySet DEF Small
  <2> HIDE DEF Right
  <2> QED  BY <1>0, <1>2, <2>1
<1>4. ASSUME NEW m \in 0..N, m + 1 \in 0..N, m \in M PROVE m + 1 \in M
  <2>0. \A s \in Small(S, m + 1) : s = {} => Right(s)
    BY <1>2 DEF Small
  <2> SUFFICES ASSUME NEW s \in Small(S, m + 1), s # {} PROVE Right(s)
    BY <1>4, <2>0
  <2> DEFINE x == CHOOSE x \in s : TRUE
  <2>1. x \in s /\ g[s] = score[x] + g[s \ {x}] /\ h[s] = other[x] + h[s \ {x}]
    BY <1>1 DEF SumOf, Small
  <2> HIDE DEF x
  <2>2. s \in SUBSET S /\ Cardinality(s) =< m + 1 /\ IsFiniteSet(s) /\ Cardinality(s) \in Nat
    BY <1>0 DEF Small
  <2>3. Cardinality(s \ {x}) = Cardinality(s) - 1
    BY <2>1, <2>2, FS_RemoveElement
  <2>4. s \ {x} \in Small(S, m)
    BY <1>0, <1>4, <2>2, <2>3 DEF Small
  <2>5. Right(s \ {x})
    BY <1>4, <2>4
  <2>6. score[x] \in Int /\ other[x] \in Int /\ score[x] =< other[x]
    BY <2>1, <2>2
  <2> QED  BY <2>1, <2>5, <2>6
<1>5. N \in M
  <2> HIDE DEF M
  <2>1. \A i \in 0..N : i \in M
    BY <1>0, <1>3, <1>4, UpTo
  <2> QED  BY <1>0, <2>1
<1>6. S \in Small(S, N)
  BY <1>0 DEF Small
<1> QED  BY <1>5, <1>6

(* A sum does not depend on which element is taken first. *)
LEMMA SumsFrom ==
  ASSUME NEW S, IsFiniteSet(S), NEW score, \A x \in S : score[x] \in Int,
         NEW g, Sums(score, SUBSET S, g), NEW a \in S
  PROVE  g[S] = score[a] + g[S \ {a}]
<1> DEFINE Right(s) == \A x \in s : g[s] = score[x] + g[s \ {x}]
           M == {m \in 0..Cardinality(S) : \A s \in Small(S, m) : Right(s)}
           N == Cardinality(S)
<1>0. N \in Nat /\ \A s \in SUBSET S : IsFiniteSet(s) /\ Cardinality(s) \in Nat /\ Cardinality(s) =< N
  BY FS_CardinalityType, FS_Subset
<1>1. \A s \in SUBSET S : g[s] = SumOf(score, g, s)
  BY DEF Sums
<1>2. \A s \in SUBSET S : g[s] \in Int
  <2> SUFFICES ASSUME NEW s \in SUBSET S PROVE g[s] \in Int
    OBVIOUS
  <2>1. PICK f : Sums(score, SUBSET s, f)
    BY <1>0, SumsExist
  <2>2. \A x \in s : score[x] \in Int /\ score[x] =< score[x]
    OBVIOUS
  <2> QED  BY <1>0, <2>1, <2>2, SumsLess
<1>3. 0 \in M
  <2>1. \A s \in Small(S, 0) : s = {}
    BY <1>0, FS_EmptySet DEF Small
  <2>2. \A s \in Small(S, 0) : Right(s)
    BY <2>1
  <2> HIDE DEF Right
  <2> QED  BY <1>0, <2>2
<1>4. ASSUME NEW m \in 0..N, m + 1 \in 0..N, m \in M PROVE m + 1 \in M
  <2> SUFFICES ASSUME NEW s \in Small(S, m + 1) PROVE Right(s)
    BY <1>4
  <2> SUFFICES ASSUME NEW x \in s PROVE g[s] = score[x] + g[s \ {x}]
    OBVIOUS
  <2> DEFINE y == CHOOSE y \in s : TRUE
  <2>1. y \in s /\ g[s] = score[y] + g[s \ {y}]
    BY <1>1 DEF SumOf, Small
  <2> HIDE DEF y
  <2>2. s \in SUBSET S /\ Cardinality(s) =< m + 1 /\ IsFiniteSet(s) /\ Cardinality(s) \in Nat
    BY <1>0 DEF Small
  <2>3. ASSUME NEW z \in s PROVE s \ {z} \in Small(S, m)
    <3>1. Cardinality(s \ {z}) = Cardinality(s) - 1
      BY <2>2, FS_RemoveElement
    <3> QED  BY <1>0, <1>4, <2>2, <3>1 DEF Small
  <2>4. CASE x = y
    BY <2>1, <2>4
  <2>5. CASE x # y
    <3>1. x \in s \ {y} /\ y \in s \ {x}
      BY <2>1, <2>5
    <3>2. Right(s \ {y}) /\ Right(s \ {x})
      BY <1>4, <2>1, <2>3
    <3> DEFINE rest == (s \ {y}) \ {x}
    <3>3. g[s \ {y}] = score[x] + g[rest]
      BY <3>1, <3>2
    <3>4. rest = (s \ {x}) \ {y}
      OBVIOUS
    <3>5. g[s \ {x}] = score[y] + g[rest]
      BY <3>1, <3>2, <3>4
    <3>6. score[x] \in Int /\ score[y] \in Int /\ g[rest] \in Int
      BY <1>2, <2>1, <2>2
    <3> HIDE DEF rest
    <3> QED  BY <2>1, <3>3, <3>5, <3>6
  <2> QED  BY <2>4, <2>5
<1>5. N \in M
  <2> HIDE DEF M
  <2>1. \A i \in 0..N : i \in M
    BY <1>0, <1>3, <1>4, UpTo
  <2> QED  BY <1>0, <2>1
<1>6. S \in Small(S, N)
  BY <1>0 DEF Small
<1> QED  BY <1>5, <1>6

SumOver(score, S) == (CHOOSE g : Sums(score, SUBSET S, g))[S]

LEMMA SumOverLess ==
  ASSUME NEW S, IsFiniteSet(S), NEW score, NEW other,
         \A x \in S : score[x] \in Int /\ other[x] \in Int /\ score[x] =< other[x]
  PROVE  SumOver(score, S) \in Int /\ SumOver(other, S) \in Int /\ SumOver(score, S) =< SumOver(other, S)
<1> DEFINE g == CHOOSE g : Sums(score, SUBSET S, g)
           h == CHOOSE h : Sums(other, SUBSET S, h)
<1>1. Sums(score, SUBSET S, g) /\ Sums(other, SUBSET S, h)
  BY SumsExist
<1> HIDE DEF g, h
<1>2. g[S] \in Int /\ h[S] \in Int /\ g[S] =< h[S]
  BY <1>1, SumsLess
<1> QED  BY <1>2 DEF SumOver, g, h

LEMMA SumOverMore ==
  ASSUME NEW S, IsFiniteSet(S), NEW a, a \notin S, NEW score, NEW other,
         \A x \in S : score[x] \in Int /\ other[x] = score[x], other[a] \in Int
  PROVE  SumOver(other, S \cup {a}) = other[a] + SumOver(score, S)
<1> DEFINE T == S \cup {a}
           g == CHOOSE g : Sums(score, SUBSET S, g)
           h == CHOOSE h : Sums(other, SUBSET T, h)
<1>0. IsFiniteSet(T) /\ T \ {a} = S /\ S \subseteq T
  BY FS_AddElement
<1>1. Sums(score, SUBSET S, g) /\ Sums(other, SUBSET T, h)
  BY <1>0, SumsExist
<1> HIDE DEF g, h
<1>2. h[T] = other[a] + h[S]
  <2>1. (\A x \in T : other[x] \in Int) /\ a \in T
    OBVIOUS
  <2>2. h[T] = other[a] + h[T \ {a}]
    <3> HIDE DEF T
    <3> QED  BY <1>0, <1>1, <2>1, SumsFrom
  <2> QED  BY <1>0, <2>2
<1>3. \A x \in S : score[x] \in Int /\ other[x] \in Int /\ score[x] =< other[x] /\ other[x] =< score[x]
  OBVIOUS
<1>4. g[S] \in Int /\ h[S] \in Int /\ g[S] =< h[S]
  <2> HIDE DEF T
  <2> QED  BY <1>0, <1>1, <1>3, SumsLess
<1>5. h[S] =< g[S]
  <2> DEFINE r == [s \in SUBSET S |-> h[s]]
  <2>1. \A s \in SUBSET S : h[s] = SumOf(other, h, s)
    BY <1>0, <1>1 DEF Sums
  <2>2. ASSUME NEW s \in SUBSET S PROVE SumOf(other, h, s) = SumOf(other, r, s)
    BY DEF SumOf
  <2>3. Sums(other, SUBSET S, r) /\ r[S] = h[S]
    BY <2>1, <2>2 DEF Sums
  <2> HIDE DEF r
  <2> QED  BY <1>1, <1>3, <2>3, SumsLess
<1>6. h[S] = g[S]
  BY <1>4, <1>5
<1> QED  BY <1>2, <1>6 DEF SumOver, g, h

LEMMA SumOverNone == ASSUME NEW score PROVE SumOver(score, {}) = 0
<1> DEFINE g == CHOOSE g : Sums(score, SUBSET {}, g)
<1>1. Sums(score, SUBSET {}, g)
  BY FS_EmptySet, SumsExist
<1> HIDE DEF g
<1>2. g[{}] = 0
  BY <1>1 DEF Sums, SumOf
<1> QED  BY <1>2 DEF SumOver, g

(* Any function that satisfies the recursion of a sum gives the sum.       *)
LEMMA SumsAgree ==
  ASSUME NEW S, IsFiniteSet(S), NEW score, \A x \in S : score[x] \in Int, NEW f, Sums(score, SUBSET S, f)
  PROVE  f[S] = SumOver(score, S)
<1> DEFINE g == CHOOSE g : Sums(score, SUBSET S, g)
<1>1. Sums(score, SUBSET S, g)
  BY SumsExist
<1> HIDE DEF g
<1>2. \A x \in S : score[x] \in Int /\ score[x] =< score[x]
  OBVIOUS
<1>3. f[S] \in Int /\ g[S] \in Int /\ f[S] =< g[S] /\ g[S] =< f[S]
  BY <1>1, <1>2, SumsLess
<1>4. f[S] = g[S]
  BY <1>3
<1> QED  BY <1>4 DEF SumOver, g

LEMMA TotalIsSum ==
  ASSUME NEW register, IsFiniteSet(DOMAIN register.findings),
         \A p \in DOMAIN register.findings : register.findings[p].score \in Int
  PROVE  TotalScore(register) =
         SumOver([p \in DOMAIN register.findings |-> register.findings[p].score], DOMAIN register.findings)
<1> DEFINE S == DOMAIN register.findings
           score == [p \in S |-> register.findings[p].score]
           step(g) == [s \in SUBSET S |->
             IF s = {} THEN 0 ELSE register.findings[CHOOSE x \in s : TRUE].score + g[s \ {CHOOSE x \in s : TRUE}]]
           f == CHOOSE g : g = step(g)
<1>1. TotalScore(register) = f[S]
  BY DEF TotalScore, FoldSet, MapThenFoldSet
<1>2. PICK g : Sums(score, SUBSET S, g)
  BY SumsExist
<1>3. ASSUME NEW h PROVE Sums(score, SUBSET S, h) <=> h = step(h)
  <2>1. ASSUME NEW s \in SUBSET S
        PROVE  SumOf(score, h, s) =
               IF s = {} THEN 0 ELSE register.findings[CHOOSE x \in s : TRUE].score + h[s \ {CHOOSE x \in s : TRUE}]
    BY DEF SumOf
  <2> HIDE DEF score
  <2> QED  BY <2>1 DEF Sums
<1>4. \A p \in S : score[p] \in Int
  OBVIOUS
<1> HIDE DEF step, score
<1>5. f = step(f)
  BY <1>2, <1>3
<1> HIDE DEF f
<1>6. f[S] = SumOver(score, S)
  BY <1>3, <1>4, <1>5, SumsAgree
<1> QED  BY <1>1, <1>6 DEF score

LEMMA TotalIsInt ==
  ASSUME NEW register, IsFiniteSet(DOMAIN register.findings),
         \A p \in DOMAIN register.findings : register.findings[p].score \in Int
  PROVE  TotalScore(register) \in Int
<1> DEFINE score == [p \in DOMAIN register.findings |-> register.findings[p].score]
<1>1. \A p \in DOMAIN register.findings : score[p] \in Int /\ score[p] =< score[p]
  OBVIOUS
<1> HIDE DEF score
<1>2. SumOver(score, DOMAIN register.findings) \in Int
  BY <1>1, SumOverLess
<1> QED  BY <1>2, TotalIsSum DEF score

LEMMA QuotientIs ==
  ASSUME NEW x \in Nat, NEW b \in Nat \ {0}
  PROVE  x \div b \in Nat /\ x \div b =< x
OBVIOUS

LEMMA WeightOf ==
  ASSUME NEW c \in DOMAIN CriticalityWeight, NEW tier \in NoTier..4
  PROVE  ImpactWeight(c, tier) \in Nat
<1>1. CriticalityWeight[c] \in Nat
  BY DEF CriticalityWeight
<1>2. tier # NoTier => TierMultiplier[tier] \in Nat
  <2>1. tier # NoTier => tier \in 1..4
    BY DEF NoTier
  <2>2. \A t \in 1..4 : TierMultiplier[t] \in Nat
    BY DEF TierMultiplier
  <2> QED  BY <2>1, <2>2
<1> QED  BY <1>1, <1>2 DEF ImpactWeight, Hundred

LEMMA WeightIs == ImpactWeight(Posture.criticality, Posture.tier) \in Nat
<1>1. Posture.tier \in NoTier..4
  BY PostureAssumption DEF NoTier
<1> QED  BY <1>1, PostureAssumption, WeightOf

(* The share of the statements of a tier that are owed, in its unit. *)
LEMMA DensityIs ==
  ASSUME NEW t, NEW inventory, NEW profile, IsFiniteSet(profile), NEW tier
  PROVE  LET d == StatementDensity(GapOf(t, inventory, profile, tier)) IN
         d \in Nat /\ d =< DensityUnit * Cardinality(profile)
<1> DEFINE g == GapOf(t, inventory, profile, tier)
           n == Cardinality(g.statements)
           m == Cardinality(g.inTier)
<1>1. g.statements \in SUBSET profile /\ g.inTier \in SUBSET profile
  BY DEF GapOf, InTier, MappedStatements
<1>2. Cardinality(profile) \in Nat /\ n \in Nat /\ n =< Cardinality(profile) /\ m \in Nat /\ (g.inTier # {} => m # 0)
  <2> HIDE DEF g
  <2> QED  BY <1>1, FS_Subset, FS_CardinalityType, FS_EmptySet
<1>3. StatementDensity(g) = IF g.absent \/ g.inTier = {} THEN 0 ELSE (DensityUnit * n) \div m
  BY DEF StatementDensity
<1> HIDE DEF g, n, m
<1>4. DensityUnit * n \in Nat /\ DensityUnit * n =< DensityUnit * Cardinality(profile) /\ 0 =< DensityUnit * Cardinality(profile)
      /\ DensityUnit * Cardinality(profile) \in Nat
  BY <1>2 DEF DensityUnit
<1>5. CASE g.absent \/ g.inTier = {}
  BY <1>3, <1>4, <1>5 DEF g
<1>6. CASE ~(g.absent \/ g.inTier = {})
  <2> DEFINE x == DensityUnit * n
  <2>1. x \in Nat /\ m \in Nat \ {0} /\ x =< DensityUnit * Cardinality(profile)
    BY <1>2, <1>4, <1>6
  <2>2. StatementDensity(g) = x \div m
    BY <1>3, <1>6
  <2> HIDE DEF x
  <2>3. x \div m \in Nat /\ x \div m =< x
    BY <2>1, QuotientIs
  <2> QED  BY <1>4, <2>1, <2>2, <2>3 DEF g
<1> QED  BY <1>5, <1>6

LEMMA ScoreIs ==
  ASSUME NEW path, path.likelihood \in Int, NEW techniques, NEW inventory
  PROVE  ScorePath(path, TechniqueGaps(techniques, inventory, Posture.profile, Posture.tier),
                   Posture.criticality, Posture.tier).score \in Int
<1> DEFINE owed == TechniqueGaps(techniques, inventory, Posture.profile, Posture.tier)
           relevant == {owed[t] : t \in TechniquesOf(path) \cap DOMAIN owed}
           densities == {StatementDensity(g) : g \in {g \in relevant : ~g.absent}}
           density == IF densities = {} THEN 0 ELSE Max(densities)
           b == DensityUnit * Cardinality(Posture.profile)
           w == ImpactWeight(Posture.criticality, Posture.tier)
<1>1. b \in Nat
  BY PostureAssumption, FS_CardinalityType DEF DensityUnit
<1>2. \A d \in densities : d \in Nat /\ d =< b
  <2>1. \A g \in relevant : StatementDensity(g) \in Nat /\ StatementDensity(g) =< b
    BY PostureAssumption, DensityIs DEF TechniqueGaps
  <2> QED  BY <2>1
<1>3. density \in Nat
  <2> HIDE DEF densities
  <2>1. CASE densities = {}
    BY <2>1
  <2>2. CASE densities # {}
    <3>1. densities \in SUBSET Nat
      BY <1>2
    <3>2. PICK m \in densities : \A x \in densities : x =< m
      BY <1>1, <1>2, <2>2, <3>1, HasGreatest
    <3>3. Max(densities) = m
      BY <3>1, <3>2, MaxIs
    <3> QED  BY <2>2, <3>1, <3>2, <3>3
  <2> QED  BY <2>1, <2>2
<1>4. ScorePath(path, owed, Posture.criticality, Posture.tier).score = path.likelihood * w * (DensityUnit + density)
  BY DEF ScorePath
<1>5. w \in Nat
  BY WeightIs
<1> HIDE DEF density, w, owed
<1>6. path.likelihood * w \in Int
  BY <1>5
<1>7. DensityUnit + density \in Int
  BY <1>3 DEF DensityUnit
<1> QED  BY <1>4, <1>6, <1>7 DEF owed

LEMMA RiskIsInt == ASSUME PInv, built = "done" PROVE TotalScore(RegisterFound) \in Int
<1> DEFINE inventory == Inventory(DOMAIN model.controls, Posture.profile)
           techniques == TechniquesInPaths(Found)
<1>1. /\ GInv /\ EdgeTypes /\ simple = Collapse /\ KeptFound /\ MaxDepth \in Nat
  BY SearchAssumption DEF PInv, SearchUnderWay
<1>2. DOMAIN RegisterFound.findings = paths /\ IsFiniteSet(paths)
  BY <1>1 DEF RegisterFound, RiskRegister, Found, KeptFound
<1>3. ASSUME NEW q \in paths PROVE RegisterFound.findings[q].score \in Int
  <2>1. PICK p \in Pairs : q \in SimplePaths(p[1], p[2])
    BY <1>1 DEF KeptFound
  <2>2. IsWay(q, p[1])
    BY <1>1, <2>1, PairIs
  <2>3. Likelihood(q, MaxDepth) \in Int
    BY <1>1, <2>2, LikelihoodUnder, UnderIs
  <2>4. Found[q].likelihood \in Int
    BY <2>3 DEF Found
  <2>5. GapsFound = TechniqueGaps(techniques, inventory, Posture.profile, Posture.tier)
    BY DEF GapsFound
  <2>6. RegisterFound.findings[q] = ScorePath(Found[q], GapsFound, Posture.criticality, Posture.tier)
    BY DEF RegisterFound, RiskRegister, Found
  <2> HIDE DEF techniques, inventory
  <2> QED  BY <2>4, <2>5, <2>6, ScoreIs
<1> DEFINE register == RegisterFound
<1> HIDE DEF register
<1>4. register = RegisterFound
  BY DEF register
<1>5. TotalScore(register) \in Int
  BY <1>2, <1>3, <1>4, TotalIsInt
<1> QED  BY <1>4, <1>5

LEMMA RevInvInit == CritiqueInit => RevInv
<1> SUFFICES ASSUME CritiqueInit PROVE RevInv
  OBVIOUS
<1>1. PInv
  BY PInvInit
<1>2. revisions = <<>>
  BY DEF CritiqueInit, RevisionInit
<1>3. revisions \in Seq({})
  BY <1>2
<1> QED  BY <1>1, <1>2, <1>3 DEF RevInv

LEMMA RevInvNext == RevInv /\ [CritiqueNext]_critiqueVars => RevInv'
<1> SUFFICES ASSUME RevInv, [CritiqueNext]_critiqueVars PROVE RevInv'
  OBVIOUS
<1>0. PInv' /\ PInv /\ GInv
  BY PInvNext DEF RevInv, PInv
<1>1. ASSUME UNCHANGED <<model, atlas, index, nodes, edges, revisions>>,
             revisions # <<>> => built' \notin {"seeding", "walking"}
      PROVE  RevInv'
  <2>1. \A i \in DOMAIN revisions : RevisionOf(revisions[i])'
    BY <1>1, RevisionStays DEF RevInv
  <2>2. \A i \in DOMAIN revisions' : RevisionOf(revisions[i])'
    BY <1>1, <2>1
  <2> QED  BY <1>0, <1>1, <2>2 DEF RevInv
<1>2. CASE AttackNext /\ UNCHANGED revisions
  <2>1. revisions = <<>> /\ revisions' = <<>>
    BY <1>0, <1>2, WalkIs DEF RevInv
  <2>2. revisions' \in Seq({})
    BY <2>1
  <2> QED  BY <1>0, <2>1, <2>2 DEF RevInv
<1>3. CASE Revise
  <2> DEFINE s == Snapshot
  <2>1. RevisionOf(s)
    <3>1. built = "done"
      BY <1>3 DEF Revise
    <3> QED  BY <1>0, <3>1, RiskIsInt, SnapshotTold
  <2>2. /\ UNCHANGED <<model, atlas, index, nodes, edges>> /\ built' = "built"
        /\ revisions' = Append(revisions, s)
    BY <1>3 DEF Revise
  <2> HIDE DEF s
  <2>3. PICK S : revisions \in Seq(S)
    BY DEF RevInv
  <2>4. revisions' \in Seq(S \cup {s})
    <3>1. revisions \in Seq(S \cup {s})
      BY <2>3, SeqInMore
    <3> QED  BY <2>2, <3>1
  <2>5. ASSUME NEW i \in DOMAIN revisions' PROVE RevisionOf(revisions[i])'
    <3>1. (i \in DOMAIN revisions /\ revisions'[i] = revisions[i]) \/ revisions'[i] = s
      BY <2>2, <2>3
    <3>2. PICK t : t = revisions'[i]
      OBVIOUS
    <3>3. RevisionOf(t)
      BY <2>1, <3>1, <3>2 DEF RevInv
    <3>4. RevisionOf(t)'
      BY <2>2, <3>3, RevisionStays
    <3> QED  BY <3>2, <3>4
  <2>6. \A i \in DOMAIN revisions' : RevisionOf(revisions[i])'
    BY <2>5
  <2> QED  BY <1>0, <2>2, <2>4, <2>6 DEF RevInv
<1>4. CASE UNCHANGED critiqueVars
  <2>1. UNCHANGED <<model, atlas, index, nodes, edges, built, revisions>>
    BY <1>4 DEF critiqueVars, revisionVars, attackVars, graphVars
  <2> QED  BY <1>1, <2>1 DEF RevInv
<1>5. CASE Criticise
  BY <1>1, <1>5 DEF Criticise
<1>6. ASSUME NEW intel \in ArticleSets, StartSearch(intel), UNCHANGED revisions PROVE RevInv'
  BY <1>1, <1>6 DEF StartSearch
<1>7. ASSUME NEW p \in pairs, TakePair(p), UNCHANGED revisions PROVE RevInv'
  BY <1>1, <1>7 DEF TakePair, graphVars
<1>8. ASSUME NEW q \in DOMAIN ranked, NextPath(q), UNCHANGED revisions PROVE RevInv'
  BY <1>1, <1>8 DEF NextPath
<1>9. CASE SearchDone /\ UNCHANGED revisions
  BY <1>1, <1>9 DEF SearchDone
<1> QED
  BY <1>2, <1>3, <1>4, <1>5, <1>6, <1>7, <1>8, <1>9 DEF CritiqueNext, RevisionNext, PathsNext

LEMMA RevInvExplains == RevInv => RevisionsExplained
<1> SUFFICES ASSUME RevInv, Len(revisions) = MaxRevisions
             PROVE  /\ ReopenedByNews(revisions[1], revisions[2]) /\ IntelOnlyWidens(revisions[1], revisions[2])
                    /\ LikelihoodByNews(revisions[1], revisions[2]) /\ DiffAddsUp(revisions[1], revisions[2])
  BY DEF RevisionsExplained
<1>1. 1 \in DOMAIN revisions /\ 2 \in DOMAIN revisions
  BY DEF RevInv, MaxRevisions
<1> DEFINE r == revisions[1]
           s == revisions[2]
<1>2. RevisionOf(r) /\ RevisionOf(s) /\ GInv /\ EdgeTypes
  BY <1>1 DEF RevInv, PInv
<1>3. r.risk \in Int /\ s.risk \in Int
  <2>1. ASSUME NEW t, RevisionOf(t) PROVE t.risk \in Int
    <3>1. CASE index
      BY <2>1, <3>1 DEF RevisionOf
    <3>2. CASE ~index
      <4>1. t = EmptySnapshot(t.articles)
        BY <2>1, <3>2 DEF RevisionOf
      <4>2. EmptySnapshot(t.articles).risk = 0
        BY DEF EmptySnapshot
      <4> QED  BY <4>1, <4>2
    <3> QED  BY <3>1, <3>2
  <2> QED  BY <1>2, <2>1
<1> HIDE DEF r, s
<1>4. ReopenedByNews(r, s) /\ IntelOnlyWidens(r, s) /\ LikelihoodByNews(r, s) /\ DiffAddsUp(r, s)
  BY <1>2, <1>3, NewsReopens, IntelWidens, LikelihoodsMove, DiffIsSound
<1> QED  BY <1>4 DEF r, s

(* Of two revisions of one model, one that reopens a verdict waited for    *)
(* reach that a new article gives; more articles take nothing back; a      *)
(* target's likelihood moves only with a technique on an edge; and the     *)
(* diff of the two carries the one to the other, and back.                 *)
THEOREM RevisionsAreExplained == CritiqueSpec => []RevisionsExplained
BY RevInvInit, RevInvNext, RevInvExplains, PTL DEF CritiqueSpec

-----------------------------------------------------------------------------
(* Model building.                                                         *)

(* Lists. *)
LEMMA IsAList ==
  ASSUME NEW S, NEW s \in Seq(S)
  PROVE  IsList(s)
<1>1. Len(s) \in Nat /\ s \in [1..Len(s) -> S] /\ DOMAIN s = 1..Len(s)
  OBVIOUS
<1>2. s \in [1..Len(s) -> Range(s)]
  BY <1>1 DEF Range
<1> QED  BY <1>1, <1>2 DEF IsList

LEMMA ListIs ==
  ASSUME NEW s, IsList(s)
  PROVE  Len(s) \in Nat /\ DOMAIN s = 1..Len(s)
BY DEF IsList

LEMMA ListUpdated ==
  ASSUME NEW s, IsList(s), NEW t, DOMAIN t = DOMAIN s, t = [i \in DOMAIN t |-> t[i]]
  PROVE  IsList(t) /\ Len(t) = Len(s)
<1>1. Len(s) \in Nat /\ DOMAIN s = 1..Len(s)
  BY ListIs
<1>2. t \in [1..Len(s) -> Range(t)]
  BY <1>1 DEF Range
<1>3. t \in Seq(Range(t)) /\ Len(t) = Len(s)
  BY <1>1, <1>2
<1> QED  BY <1>3 DEF IsList

LEMMA ListLonger ==
  ASSUME NEW s, IsList(s), NEW x
  PROVE  /\ IsList(Append(s, x)) /\ Len(Append(s, x)) = Len(s) + 1
         /\ DOMAIN Append(s, x) = DOMAIN s \cup {Len(s) + 1}
         /\ Len(s) + 1 \notin DOMAIN s /\ Append(s, x)[Len(s) + 1] = x
         /\ \A i \in DOMAIN s : Append(s, x)[i] = s[i]
<1>1. Len(s) \in Nat /\ DOMAIN s = 1..Len(s) /\ s \in Seq(Range(s) \cup {x})
  BY DEF IsList
<1>2. /\ Append(s, x) \in Seq(Range(s) \cup {x}) /\ Len(Append(s, x)) = Len(s) + 1
      /\ Append(s, x)[Len(s) + 1] = x /\ (\A i \in 1..Len(s) : Append(s, x)[i] = s[i])
      /\ DOMAIN Append(s, x) = 1..(Len(s) + 1)
  BY <1>1
<1>3. IsList(Append(s, x))
  BY <1>2, IsAList
<1> QED  BY <1>1, <1>2, <1>3

(* The entry of a sequence that is selected. *)
LEMMA FirstOf ==
  ASSUME NEW n \in Nat, NEW I \in SUBSET (1..n)
  PROVE  LET f == IF I # {} THEN Min(I) ELSE 0 IN f # 0 => f \in I
<1>1. I \in SUBSET Nat
  OBVIOUS
<1>2. CASE I # {}
  <2>1. PICK m \in I : \A x \in I : m =< x
    BY <1>1, <1>2, HasLeast
  <2> QED  BY <1>2, <2>1 DEF Min
<1> QED  BY <1>2

(* The shape of a draft. *)
Columns == {"components", "actors", "flows", "zones", "assets", "controls", "assumptions", "names", "nodes"}

IsDraft(d) == DOMAIN d = Columns

Shaped(d) ==
  /\ IsDraft(d)
  /\ IsList(d.components) /\ IsList(d.actors) /\ IsList(d.flows)
  /\ IsList(d.zones) /\ IsList(d.assets) /\ IsList(d.controls)
  /\ \A i \in DOMAIN d.components : DOMAIN d.components[i] = {"name", "kind", "zone", "tags", "origin"}
  /\ \A i \in DOMAIN d.actors : DOMAIN d.actors[i] = {"name", "origin"}
  /\ \A i \in DOMAIN d.flows : DOMAIN d.flows[i] = {"source", "target", "stated", "origin"}
  /\ \A i \in DOMAIN d.zones : DOMAIN d.zones[i] = {"name", "members", "origin"}

ActorOf(label, origin) == [name |-> label, origin |-> origin]
ComponentOf(label, kind, tags, origin) ==
  [name |-> label, kind |-> kind, zone |-> Unstated, tags |-> tags, origin |-> origin]

NameIn(d, id) == IF id[1] = "actor" THEN d.actors[id[2]].name ELSE d.components[id[2]].name
KindIn(d, id) == IF id[1] = "actor" THEN "external_entity" ELSE d.components[id[2]].kind

(* Every element has a name of its own, and every name an element. *)
NamesAgree(d) ==
  /\ \A x \in ElementIds(d) : Normalize[NameIn(d, x)] \in DOMAIN d.names /\ d.names[Normalize[NameIn(d, x)]] = x
  /\ \A n \in DOMAIN d.names : d.names[n] \in ElementIds(d) /\ Normalize[NameIn(d, d.names[n])] = n

Resolved(d) ==
  /\ \A k \in DOMAIN d.nodes : d.nodes[k] \in ElementIds(d)
  /\ \A i \in DOMAIN d.flows : d.flows[i].source \in ElementIds(d) /\ d.flows[i].target \in ElementIds(d)
  /\ \A i \in DOMAIN d.zones : d.zones[i].members \subseteq ElementIds(d)
  /\ \A i \in DOMAIN d.assets : d.assets[i].owner \subseteq ElementIds(d)
  /\ \A i \in DOMAIN d.controls : d.controls[i].appliesTo \subseteq ElementIds(d)

(* A flow is drawn, or the ledger has its inference. *)
FlowTold(d, f) == IsDrawn(d, f) \/ Assume("inference", f.source, <<"to", f.target>>) \in d.assumptions

(* So with all that the draft has. *)
InLedger(d) ==
  /\ \A x \in ElementIds(d) :
       (\E k \in DOMAIN d.nodes : d.nodes[k] = x) \/ Assume("inference", x, Undrawn) \in d.assumptions
  /\ \A i \in DOMAIN d.flows : FlowTold(d, d.flows[i])
  /\ \A i \in DOMAIN d.zones :
       d.zones[i].name \in DrawnZones \/ Assume("inference", <<"zone", i>>, Undrawn) \in d.assumptions
  /\ \A i \in DOMAIN d.assets : Assume("inference", <<"asset", i>>, Undrawn) \in d.assumptions

Placed(d) ==
  \A i \in DOMAIN d.components : LET z == d.components[i].zone IN
    z # Unstated => z \in DOMAIN d.zones /\ <<"component", i>> \in d.zones[z].members

(* All that, and each component in a zone that lists it: what every step of  *)
(* the builder keeps.                                                       *)
DraftInv(d) == Shaped(d) /\ NamesAgree(d) /\ Resolved(d) /\ InLedger(d) /\ Placed(d)

(* What a later draft keeps of an earlier one. *)
Keeps(d, e) ==
  /\ \A n \in DOMAIN d.names : n \in DOMAIN e.names /\ e.names[n] = d.names[n]
  /\ d.assumptions \subseteq e.assumptions
  /\ \A k \in DOMAIN d.nodes : k \in DOMAIN e.nodes /\ e.nodes[k] = d.nodes[k]
  /\ \A x \in ElementIds(d) : x \in ElementIds(e) /\ KindIn(e, x) = KindIn(d, x)
  /\ \A i \in DOMAIN d.assets : i \in DOMAIN e.assets /\ e.assets[i] = d.assets[i]
  /\ \A i \in DOMAIN d.flows : LET f == d.flows[i] g == e.flows[i] IN
       /\ i \in DOMAIN e.flows /\ g.source = f.source /\ g.target = f.target
       /\ \A x \in Fields : f.stated[x] # Unstated => g.stated[x] = f.stated[x]

(* To keep is transitive. *)
LEMMA KeepsOn ==
  ASSUME NEW d, NEW e, NEW g, Keeps(d, e), Keeps(e, g)
  PROVE  Keeps(d, g)
BY DEF Keeps

(* What is told of a flow stays told. *)
LEMMA ToldOn ==
  ASSUME NEW d, NEW e, d.assumptions \subseteq e.assumptions,
         \A k \in DOMAIN d.nodes : k \in DOMAIN e.nodes /\ e.nodes[k] = d.nodes[k],
         NEW f, NEW g, g.source = f.source, g.target = f.target, FlowTold(d, f)
  PROVE  FlowTold(e, g)
BY DEF FlowTold, IsDrawn

LEMMA ElementIs ==
  ASSUME NEW d, NEW x
  PROVE  x \in ElementIds(d) <=> \/ \E i \in DOMAIN d.components : x = <<"component", i>>
                                 \/ \E i \in DOMAIN d.actors : x = <<"actor", i>>
BY DEF ElementIds

(* The elements of two drafts with the same lists. *)
LEMMA SameElements ==
  ASSUME NEW d, NEW e, e.components = d.components, e.actors = d.actors
  PROVE  /\ ElementIds(e) = ElementIds(d)
         /\ \A x : NameIn(e, x) = NameIn(d, x) /\ KindIn(e, x) = KindIn(d, x)
BY DEF ElementIds, NameIn, KindIn

(* Elements that are only updated. *)
LEMMA UpdatedElements ==
  ASSUME NEW d, NEW e,
         DOMAIN e.components = DOMAIN d.components, DOMAIN e.actors = DOMAIN d.actors,
         \A i \in DOMAIN d.components : e.components[i].name = d.components[i].name,
         \A i \in DOMAIN d.actors : e.actors[i].name = d.actors[i].name,
         \A i \in DOMAIN d.components : e.components[i].kind = d.components[i].kind
  PROVE  /\ ElementIds(e) = ElementIds(d)
         /\ \A x \in ElementIds(d) : NameIn(e, x) = NameIn(d, x) /\ KindIn(e, x) = KindIn(d, x)
<1>1. ElementIds(e) = ElementIds(d)
  BY DEF ElementIds
<1>2. ASSUME NEW x \in ElementIds(d)
      PROVE  NameIn(e, x) = NameIn(d, x) /\ KindIn(e, x) = KindIn(d, x)
  <2>1. CASE \E i \in DOMAIN d.components : x = <<"component", i>>
    <3>1. PICK i \in DOMAIN d.components : x = <<"component", i>>
      BY <2>1
    <3>2. x[1] = "component" /\ x[2] = i
      BY <3>1
    <3> QED  BY <3>2 DEF NameIn, KindIn
  <2>2. CASE \E i \in DOMAIN d.actors : x = <<"actor", i>>
    <3>1. PICK i \in DOMAIN d.actors : x = <<"actor", i>>
      BY <2>2
    <3>2. x[1] = "actor" /\ x[2] = i
      BY <3>1
    <3> QED  BY <3>2 DEF NameIn, KindIn
  <2> QED  BY <2>1, <2>2, ElementIs
<1> QED  BY <1>1, <1>2

(* An element that is new. *)
LEMMA OneMoreElement ==
  ASSUME NEW d, Shaped(d), NEW label, NEW kind, NEW tags, NEW origin
  PROVE  LET id == IF kind = "external_entity" THEN <<"actor", Len(d.actors) + 1>> ELSE <<"component", Len(d.components) + 1>>
             e == NewElement(d, label, kind, tags, origin)
         IN /\ Shaped(e) /\ id \notin ElementIds(d) /\ ElementIds(e) = ElementIds(d) \cup {id}
            /\ \A x \in ElementIds(d) : NameIn(e, x) = NameIn(d, x) /\ KindIn(e, x) = KindIn(d, x)
            /\ NameIn(e, id) = label /\ KindIn(e, id) = kind
            /\ Placed(d) => Placed(e)
<1> DEFINE e == NewElement(d, label, kind, tags, origin)
           c == ComponentOf(label, kind, tags, origin)
           a == ActorOf(label, origin)
<1>0. IsDraft(d) /\ IsList(d.components) /\ IsList(d.actors)
  BY DEF Shaped
<1>1. CASE kind = "external_entity"
  <2> DEFINE id == <<"actor", Len(d.actors) + 1>>
  <2>1. /\ IsDraft(e) /\ e.flows = d.flows /\ e.zones = d.zones /\ e.assets = d.assets
        /\ e.controls = d.controls /\ e.components = d.components /\ e.actors = Append(d.actors, a)
    BY <1>0, <1>1 DEF NewElement, IsDraft, Columns, ActorOf
  <2> HIDE DEF e
  <2>2. /\ IsList(e.actors) /\ DOMAIN e.actors = DOMAIN d.actors \cup {Len(d.actors) + 1}
        /\ Len(d.actors) + 1 \notin DOMAIN d.actors /\ e.actors[Len(d.actors) + 1] = a
        /\ \A i \in DOMAIN d.actors : e.actors[i] = d.actors[i]
    BY <1>0, <2>1, ListLonger
  <2>3. Shaped(e)
    BY <2>1, <2>2 DEF Shaped, ActorOf, ComponentOf
  <2>4. id \notin ElementIds(d) /\ ElementIds(e) = ElementIds(d) \cup {id}
    BY <2>1, <2>2 DEF ElementIds
  <2>5. ASSUME NEW x \in ElementIds(d) PROVE NameIn(e, x) = NameIn(d, x) /\ KindIn(e, x) = KindIn(d, x)
    <3>1. CASE \E i \in DOMAIN d.components : x = <<"component", i>>
      BY <3>1, <2>1 DEF NameIn, KindIn
    <3>2. CASE \E i \in DOMAIN d.actors : x = <<"actor", i>>
      BY <3>2, <2>2 DEF NameIn, KindIn
    <3> QED  BY <3>1, <3>2, ElementIs
  <2>6. NameIn(e, id) = label /\ KindIn(e, id) = kind
    BY <1>1, <2>2 DEF NameIn, KindIn, ActorOf, ComponentOf
  <2>7. Placed(d) => Placed(e)
    BY <2>1 DEF Placed
  <2> QED  BY <1>1, <2>3, <2>4, <2>5, <2>6, <2>7 DEF e
<1>2. CASE kind # "external_entity"
  <2> DEFINE id == <<"component", Len(d.components) + 1>>
  <2>1. /\ IsDraft(e) /\ e.flows = d.flows /\ e.zones = d.zones /\ e.assets = d.assets
        /\ e.controls = d.controls /\ e.actors = d.actors /\ e.components = Append(d.components, c)
    BY <1>0, <1>2 DEF NewElement, IsDraft, Columns, ComponentOf
  <2> HIDE DEF e
  <2>2. /\ IsList(e.components) /\ DOMAIN e.components = DOMAIN d.components \cup {Len(d.components) + 1}
        /\ Len(d.components) + 1 \notin DOMAIN d.components /\ e.components[Len(d.components) + 1] = c
        /\ \A i \in DOMAIN d.components : e.components[i] = d.components[i]
    BY <1>0, <2>1, ListLonger
  <2>3. Shaped(e)
    BY <2>1, <2>2 DEF Shaped, ActorOf, ComponentOf
  <2>4. id \notin ElementIds(d) /\ ElementIds(e) = ElementIds(d) \cup {id}
    BY <2>1, <2>2 DEF ElementIds
  <2>5. ASSUME NEW x \in ElementIds(d) PROVE NameIn(e, x) = NameIn(d, x) /\ KindIn(e, x) = KindIn(d, x)
    <3>1. CASE \E i \in DOMAIN d.components : x = <<"component", i>>
      BY <3>1, <2>2 DEF NameIn, KindIn
    <3>2. CASE \E i \in DOMAIN d.actors : x = <<"actor", i>>
      BY <3>2, <2>1 DEF NameIn, KindIn
    <3> QED  BY <3>1, <3>2, ElementIs
  <2>6. NameIn(e, id) = label /\ KindIn(e, id) = kind
    BY <2>2 DEF NameIn, KindIn, ActorOf, ComponentOf
  <2>7. Placed(d) => Placed(e)
    BY <2>1, <2>2 DEF Placed, ComponentOf
  <2> QED  BY <1>2, <2>3, <2>4, <2>5, <2>6, <2>7 DEF e
<1> QED  BY <1>1, <1>2

(* A new element, with the inference if prose has it, with the node if a   *)
(* diagram has it. *)
Introduce(d, key, label, kind, tags, origin) ==
  LET e == NewElement(d, label, kind, tags, origin) IN
  IF origin = "prose" THEN Inferred(e, IdOf(e, label), Undrawn) ELSE [e EXCEPT !.nodes = Put(@, key, IdOf(e, label))]

LEMMA Introduced ==
  ASSUME NEW d, DraftInv(d), NEW label, ~Named(d, label), NEW kind, NEW tags, NEW origin,
         NEW key, origin = "prose" \/ key \notin DOMAIN d.nodes
  PROVE  LET e == Introduce(d, key, label, kind, tags, origin) IN
         /\ DraftInv(e) /\ Keeps(d, e) /\ Named(e, label) /\ KindIn(e, IdOf(e, label)) = kind
         /\ origin = "prose" \/ key \in DOMAIN e.nodes
<1> DEFINE id == IF kind = "external_entity" THEN <<"actor", Len(d.actors) + 1>> ELSE <<"component", Len(d.components) + 1>>
           m == NewElement(d, label, kind, tags, origin)
           e == Introduce(d, key, label, kind, tags, origin)
           form == Normalize[label]
<1>1. Shaped(d) /\ IsDraft(d)
  BY DEF DraftInv, Shaped
<1>2. /\ Shaped(m) /\ id \notin ElementIds(d) /\ ElementIds(m) = ElementIds(d) \cup {id}
      /\ \A x \in ElementIds(d) : NameIn(m, x) = NameIn(d, x) /\ KindIn(m, x) = KindIn(d, x)
      /\ NameIn(m, id) = label /\ KindIn(m, id) = kind /\ Placed(m)
  BY <1>1, OneMoreElement DEF DraftInv
<1>3. /\ m.flows = d.flows /\ m.zones = d.zones /\ m.assets = d.assets /\ m.controls = d.controls
      /\ m.assumptions = d.assumptions /\ m.nodes = d.nodes
  BY <1>1 DEF NewElement, IsDraft, Columns
<1>4. m.names = Put(d.names, form, id)
  BY <1>1 DEF NewElement, IsDraft, Columns
<1> HIDE DEF m, id
<1>5. DOMAIN m.names = DOMAIN d.names \cup {form} /\ m.names[form] = id /\ (\A x \in DOMAIN d.names : m.names[x] = d.names[x])
      /\ form \notin DOMAIN d.names
  BY <1>4 DEF Named, Put
<1>6. IdOf(m, label) = id
  BY <1>5 DEF IdOf
<1>7. /\ e.components = m.components /\ e.actors = m.actors /\ e.flows = m.flows /\ e.zones = m.zones /\ e.assets = m.assets
      /\ e.controls = m.controls /\ e.names = m.names /\ IsDraft(e)
      /\ e.nodes = IF origin = "prose" THEN m.nodes ELSE Put(m.nodes, key, id)
      /\ e.assumptions = m.assumptions \cup IF origin = "prose" THEN {Assume("inference", id, Undrawn)} ELSE {}
  <2>1. IsDraft(m)
    BY <1>2 DEF Shaped
  <2>2. e = IF origin = "prose" THEN Inferred(m, id, Undrawn) ELSE [m EXCEPT !.nodes = Put(@, key, id)]
    BY <1>6 DEF Introduce, m
  <2> HIDE DEF e
  <2>3. CASE origin = "prose"
    BY <2>1, <2>2, <2>3 DEF Inferred, IsDraft, Columns
  <2>4. CASE origin # "prose"
    BY <2>1, <2>2, <2>4 DEF IsDraft, Columns
  <2> QED  BY <2>3, <2>4
<1> HIDE DEF e
<1>n. /\ \A k \in DOMAIN d.nodes : k \in DOMAIN e.nodes /\ e.nodes[k] = d.nodes[k]
      /\ \A k \in DOMAIN e.nodes : e.nodes[k] = id \/ (k \in DOMAIN d.nodes /\ e.nodes[k] = d.nodes[k])
      /\ origin = "prose" \/ (key \in DOMAIN e.nodes /\ e.nodes[key] = id)
  <2>1. CASE origin = "prose"
    BY <1>3, <1>7, <2>1
  <2>2. CASE origin # "prose"
    BY <1>3, <1>7, <2>2 DEF Put
  <2> QED  BY <2>1, <2>2
<1>8. /\ ElementIds(e) = ElementIds(d) \cup {id} /\ NameIn(e, id) = label /\ KindIn(e, id) = kind
      /\ \A x \in ElementIds(d) : NameIn(e, x) = NameIn(d, x) /\ KindIn(e, x) = KindIn(d, x)
  BY <1>2, <1>7, SameElements
<1>9. Shaped(e)
  BY <1>2, <1>7 DEF Shaped
<1>10. NamesAgree(e)
  <2>0. NamesAgree(d)
    BY DEF DraftInv
  <2>1. ASSUME NEW x \in ElementIds(e) PROVE Normalize[NameIn(e, x)] \in DOMAIN e.names /\ e.names[Normalize[NameIn(e, x)]] = x
    BY <1>5, <1>7, <1>8, <2>0 DEF NamesAgree, form
  <2>2. ASSUME NEW k \in DOMAIN e.names PROVE e.names[k] \in ElementIds(e) /\ Normalize[NameIn(e, e.names[k])] = k
    BY <1>5, <1>7, <1>8, <2>0 DEF NamesAgree, form
  <2> QED  BY <2>1, <2>2 DEF NamesAgree
<1>11. Resolved(e)
  <2>1. \A k \in DOMAIN e.nodes : e.nodes[k] \in ElementIds(e)
    BY <1>8, <1>n DEF Resolved, DraftInv
  <2> QED  BY <1>3, <1>7, <1>8, <2>1 DEF Resolved, DraftInv
<1>12. InLedger(e)
  <2>0. InLedger(d)
    BY DEF DraftInv
  <2>1. d.assumptions \subseteq e.assumptions /\ (origin = "prose" => Assume("inference", id, Undrawn) \in e.assumptions)
    BY <1>3, <1>7
  <2>2. ASSUME NEW x \in ElementIds(e)
        PROVE  (\E k \in DOMAIN e.nodes : e.nodes[k] = x) \/ Assume("inference", x, Undrawn) \in e.assumptions
    <3>1. CASE x = id
      BY <1>n, <2>1, <3>1
    <3>2. CASE x \in ElementIds(d)
      BY <1>n, <2>0, <2>1, <3>2 DEF InLedger
    <3> QED  BY <1>8, <3>1, <3>2
  <2>3. \A i \in DOMAIN e.flows : FlowTold(e, e.flows[i])
    <3>1. e.flows = d.flows /\ \A i \in DOMAIN d.flows : FlowTold(d, d.flows[i])
      BY <1>3, <1>7, <2>0 DEF InLedger
    <3> QED  BY <1>n, <2>1, <3>1, ToldOn
  <2> QED  BY <1>3, <1>7, <2>0, <2>1, <2>2, <2>3 DEF InLedger
<1>13. Placed(e)
  BY <1>2, <1>7 DEF Placed
<1>14. Keeps(d, e)
  BY <1>3, <1>5, <1>7, <1>8, <1>n DEF Keeps
<1>15. Named(e, label)
  BY <1>5, <1>7 DEF Named, form
<1>16. KindIn(e, IdOf(e, label)) = kind
  BY <1>5, <1>7, <1>8 DEF IdOf, form
<1> QED  BY <1>9, <1>10, <1>11, <1>12, <1>13, <1>14, <1>15, <1>16, <1>n DEF DraftInv, e

LEMMA IdIs ==
  ASSUME NEW d, DraftInv(d), NEW label, Named(d, label)
  PROVE  IdOf(d, label) \in ElementIds(d)
BY DEF DraftInv, NamesAgree, Named, IdOf

(* A node of a diagram. *)
LEMMA NodeAdded ==
  ASSUME NEW d, DraftInv(d), NEW key, NEW label, NEW kind
  PROVE  LET e == AddNode(d, key, label, kind) IN DraftInv(e) /\ Keeps(d, e) /\ key \in DOMAIN e.nodes
<1> DEFINE e == AddNode(d, key, label, kind)
           id == IdOf(d, label)
<1>1. CASE key \in DOMAIN d.nodes
  BY <1>1 DEF AddNode, Keeps
<1>2. CASE key \notin DOMAIN d.nodes /\ ~Named(d, label)
  <2>1. e = Introduce(d, key, label, kind, {}, "mermaid")
    BY <1>2 DEF AddNode, Introduce
  <2> HIDE DEF e
  <2> QED  BY <1>2, <2>1, Introduced DEF e
<1>3. CASE key \notin DOMAIN d.nodes /\ Named(d, label)
  <2>1. DraftInv(d) /\ IsDraft(d) /\ id \in ElementIds(d)
    BY <1>3, IdIs DEF DraftInv, Shaped
  <2>2. e = [d EXCEPT !.nodes = Put(@, key, id)]
    BY <1>3 DEF AddNode
  <2> HIDE DEF e, id
  <2>3. /\ e.components = d.components /\ e.actors = d.actors /\ e.flows = d.flows /\ e.zones = d.zones /\ e.assets = d.assets
        /\ e.controls = d.controls /\ e.names = d.names /\ e.assumptions = d.assumptions /\ IsDraft(e)
        /\ e.nodes = Put(d.nodes, key, id)
    BY <2>1, <2>2 DEF IsDraft, Columns
  <2>4. /\ key \in DOMAIN e.nodes
        /\ \A k \in DOMAIN d.nodes : k \in DOMAIN e.nodes /\ e.nodes[k] = d.nodes[k]
        /\ \A k \in DOMAIN e.nodes : e.nodes[k] = id \/ (k \in DOMAIN d.nodes /\ e.nodes[k] = d.nodes[k])
    BY <1>3, <2>3 DEF Put
  <2>5. /\ ElementIds(e) = ElementIds(d) /\ \A x : NameIn(e, x) = NameIn(d, x) /\ KindIn(e, x) = KindIn(d, x)
    BY <2>3, SameElements
  <2>6. Shaped(e) /\ NamesAgree(e) /\ Placed(e)
    BY <2>1, <2>3, <2>5 DEF Shaped, NamesAgree, Placed, DraftInv
  <2>7. InLedger(e)
    <3>1. \A x \in ElementIds(e) :
            (\E k \in DOMAIN e.nodes : e.nodes[k] = x) \/ Assume("inference", x, Undrawn) \in e.assumptions
      BY <2>1, <2>3, <2>4, <2>5 DEF InLedger, DraftInv
    <3>2. \A i \in DOMAIN e.flows : FlowTold(e, e.flows[i])
      BY <2>1, <2>3, <2>4, ToldOn DEF InLedger, DraftInv
    <3> QED  BY <2>1, <2>3, <3>1, <3>2 DEF InLedger, DraftInv
  <2>8. Resolved(e)
    <3>1. \A k \in DOMAIN e.nodes : e.nodes[k] \in ElementIds(e)
      BY <2>1, <2>4, <2>5 DEF DraftInv, Resolved
    <3> QED  BY <2>1, <2>3, <2>5, <3>1 DEF Resolved, DraftInv
  <2>9. Keeps(d, e)
    BY <2>3, <2>4, <2>5 DEF Keeps
  <2> QED  BY <2>4, <2>6, <2>7, <2>8, <2>9 DEF DraftInv, e
<1> QED  BY <1>1, <1>2, <1>3

(* A step that leaves the elements where they are. *)
Updates(d, e) ==
  /\ IsDraft(e) /\ e.names = d.names /\ e.nodes = d.nodes /\ d.assumptions \subseteq e.assumptions
  /\ DOMAIN e.components = DOMAIN d.components /\ DOMAIN e.actors = DOMAIN d.actors
  /\ \A i \in DOMAIN d.components : e.components[i].name = d.components[i].name
  /\ \A i \in DOMAIN d.actors : e.actors[i].name = d.actors[i].name
  /\ \A i \in DOMAIN d.components : e.components[i].kind = d.components[i].kind

LEMMA ElementsStay ==
  ASSUME NEW d, DraftInv(d), NEW e, Updates(d, e)
  PROVE  /\ ElementIds(e) = ElementIds(d) /\ NamesAgree(e)
         /\ \A x \in ElementIds(d) : KindIn(e, x) = KindIn(d, x)
         /\ \A x \in ElementIds(e) :
              (\E k \in DOMAIN e.nodes : e.nodes[k] = x) \/ Assume("inference", x, Undrawn) \in e.assumptions
         /\ \A k \in DOMAIN e.nodes : e.nodes[k] \in ElementIds(e)
<1>1. /\ ElementIds(e) = ElementIds(d)
      /\ \A x \in ElementIds(d) : NameIn(e, x) = NameIn(d, x) /\ KindIn(e, x) = KindIn(d, x)
  BY UpdatedElements DEF Updates
<1>2. NamesAgree(e)
  BY <1>1 DEF NamesAgree, DraftInv, Updates
<1>3. \A x \in ElementIds(e) :
        (\E k \in DOMAIN e.nodes : e.nodes[k] = x) \/ Assume("inference", x, Undrawn) \in e.assumptions
  BY <1>1 DEF DraftInv, InLedger, Updates
<1>4. \A k \in DOMAIN e.nodes : e.nodes[k] \in ElementIds(e)
  BY <1>1 DEF DraftInv, Resolved, Updates
<1> QED  BY <1>1, <1>2, <1>3, <1>4

(* Nothing but flows and the ledger changes. *)
FlowsOnly(d, e) ==
  /\ IsDraft(e) /\ e.names = d.names /\ e.nodes = d.nodes /\ d.assumptions \subseteq e.assumptions
  /\ e.components = d.components /\ e.actors = d.actors
  /\ e.zones = d.zones /\ e.assets = d.assets /\ e.controls = d.controls

LEMMA FlowsChange ==
  ASSUME NEW d, DraftInv(d), NEW e, FlowsOnly(d, e), IsList(e.flows),
         \A i \in DOMAIN e.flows :
           /\ DOMAIN e.flows[i] = {"source", "target", "stated", "origin"}
           /\ e.flows[i].source \in ElementIds(d) /\ e.flows[i].target \in ElementIds(d)
           /\ FlowTold(e, e.flows[i])
  PROVE  /\ DraftInv(e) /\ ElementIds(e) = ElementIds(d)
         /\ \A x \in ElementIds(d) : KindIn(e, x) = KindIn(d, x)
<1>1. Updates(d, e)
  BY DEF FlowsOnly, Updates
<1>2. /\ ElementIds(e) = ElementIds(d) /\ NamesAgree(e)
      /\ \A x \in ElementIds(d) : KindIn(e, x) = KindIn(d, x)
      /\ \A x \in ElementIds(e) :
           (\E k \in DOMAIN e.nodes : e.nodes[k] = x) \/ Assume("inference", x, Undrawn) \in e.assumptions
      /\ \A k \in DOMAIN e.nodes : e.nodes[k] \in ElementIds(e)
  BY <1>1, ElementsStay
<1>3. Shaped(e)
  BY DEF Shaped, DraftInv, FlowsOnly
<1>4. Resolved(e)
  BY <1>2 DEF Resolved, DraftInv, FlowsOnly
<1>5. InLedger(e)
  BY <1>2 DEF InLedger, DraftInv, FlowsOnly
<1>6. Placed(e)
  BY DEF Placed, DraftInv, FlowsOnly
<1> QED  BY <1>2, <1>3, <1>4, <1>5, <1>6 DEF DraftInv

LEMMA FlowAppended ==
  ASSUME NEW d, DraftInv(d), NEW e, FlowsOnly(d, e),
         NEW f, DOMAIN f = {"source", "target", "stated", "origin"},
         f.source \in ElementIds(d), f.target \in ElementIds(d), e.flows = Append(d.flows, f),
         FlowTold(e, f)
  PROVE  DraftInv(e) /\ Keeps(d, e) /\ \E i \in DOMAIN e.flows : e.flows[i] = f
<1>0. Resolved(d) /\ Shaped(d) /\ InLedger(d)
  BY DEF DraftInv
<1>1. /\ IsList(e.flows) /\ DOMAIN e.flows = DOMAIN d.flows \cup {Len(d.flows) + 1}
      /\ e.flows[Len(d.flows) + 1] = f /\ \A i \in DOMAIN d.flows : e.flows[i] = d.flows[i]
  BY <1>0, ListLonger DEF Shaped
<1>2. \A i \in DOMAIN e.flows :
        /\ DOMAIN e.flows[i] = {"source", "target", "stated", "origin"}
        /\ e.flows[i].source \in ElementIds(d) /\ e.flows[i].target \in ElementIds(d)
        /\ FlowTold(e, e.flows[i])
  <2>1. d.assumptions \subseteq e.assumptions /\ \A k \in DOMAIN d.nodes : k \in DOMAIN e.nodes /\ e.nodes[k] = d.nodes[k]
    BY DEF FlowsOnly
  <2>2. \A i \in DOMAIN d.flows : FlowTold(e, e.flows[i])
    BY <1>0, <1>1, <2>1, ToldOn DEF InLedger
  <2> QED  BY <1>0, <1>1, <2>2 DEF Resolved, Shaped
<1>3. /\ DraftInv(e) /\ ElementIds(e) = ElementIds(d)
      /\ \A x \in ElementIds(d) : KindIn(e, x) = KindIn(d, x)
  BY <1>1, <1>2, FlowsChange
<1>4. Keeps(d, e)
  BY <1>1, <1>3 DEF Keeps, FlowsOnly
<1> QED  BY <1>1, <1>3, <1>4

LEMMA EdgeAdded ==
  ASSUME NEW d, DraftInv(d), NEW name, NEW edge, << <<name, edge.source>>, <<name, edge.target>> >> \in DrawnEdges
  PROVE  LET e == AddEdge(d, name, edge) IN DraftInv(e) /\ Keeps(d, e)
<1> DEFINE m == AddNode(d, <<name, edge.source>>, edge.source, "process")
           n == AddNode(m, <<name, edge.target>>, edge.target, "process")
           f == [source |-> n.nodes[<<name, edge.source>>], target |-> n.nodes[<<name, edge.target>>],
                 stated |-> NothingStated, origin |-> "mermaid"]
           e == AddEdge(d, name, edge)
<1>1. DraftInv(m) /\ Keeps(d, m) /\ <<name, edge.source>> \in DOMAIN m.nodes
  BY NodeAdded
<1>2. DraftInv(n) /\ Keeps(m, n) /\ <<name, edge.target>> \in DOMAIN n.nodes
  <2> HIDE DEF m
  <2> QED  BY <1>1, NodeAdded
<1>3. <<name, edge.source>> \in DOMAIN n.nodes
  <2> HIDE DEF m, n
  <2> QED  BY <1>1, <1>2 DEF Keeps
<1>4. e = [n EXCEPT !.flows = Append(@, f)]
  BY DEF AddEdge
<1> HIDE DEF m, n, e
<1>5. IsDraft(n) /\ f.source \in ElementIds(n) /\ f.target \in ElementIds(n)
  BY <1>2, <1>3 DEF DraftInv, Shaped, Resolved
<1>6. /\ DOMAIN f = {"source", "target", "stated", "origin"}
      /\ f.source = n.nodes[<<name, edge.source>>] /\ f.target = n.nodes[<<name, edge.target>>]
  OBVIOUS
<1> HIDE DEF f
<1>7. FlowsOnly(n, e) /\ e.flows = Append(n.flows, f)
  BY <1>4, <1>5 DEF FlowsOnly, IsDraft, Columns
<1>t. FlowTold(e, f)
  <2> DEFINE k == << <<name, edge.source>>, <<name, edge.target>> >>
  <2>1. k \in DrawnEdges /\ k[1] = <<name, edge.source>> /\ k[2] = <<name, edge.target>> /\ e.nodes = n.nodes
    BY <1>7 DEF FlowsOnly
  <2> HIDE DEF k
  <2> QED  BY <1>2, <1>3, <1>6, <2>1 DEF FlowTold, IsDrawn
<1>8. DraftInv(e) /\ Keeps(n, e)
  BY <1>2, <1>5, <1>6, <1>7, <1>t, FlowAppended
<1> QED  BY <1>1, <1>2, <1>8, KeepsOn DEF e

(* Heard: the draft holds a flow with what an item says of it, or has      *)
(* recorded the conflict. *)
Says(d, i, stated) ==
  \A x \in Fields :
    \/ stated[x] \in {Unstated, d.flows[i].stated[x]}
    \/ d.flows[i].stated[x] # Unstated /\ Assume("conflict", <<"flow", i>>, <<x, stated[x]>>) \in d.assumptions

Heard(d, item) ==
  /\ Named(d, item.source) /\ Named(d, item.target)
  /\ \E i \in DOMAIN d.flows :
       /\ d.flows[i].source = IdOf(d, item.source) /\ d.flows[i].target = IdOf(d, item.target)
       /\ Says(d, i, item.stated)

LEMMA HeardOn ==
  ASSUME NEW d, NEW e, Keeps(d, e), NEW item, Heard(d, item)
  PROVE  Heard(e, item)
<1>1. PICK i \in DOMAIN d.flows :
        /\ d.flows[i].source = IdOf(d, item.source) /\ d.flows[i].target = IdOf(d, item.target)
        /\ Says(d, i, item.stated)
  BY DEF Heard
<1>2. /\ Named(e, item.source) /\ Named(e, item.target)
      /\ IdOf(e, item.source) = IdOf(d, item.source) /\ IdOf(e, item.target) = IdOf(d, item.target)
  BY DEF Keeps, Heard, Named, IdOf
<1>3. /\ i \in DOMAIN e.flows /\ e.flows[i].source = d.flows[i].source /\ e.flows[i].target = d.flows[i].target
      /\ \A x \in Fields : d.flows[i].stated[x] # Unstated => e.flows[i].stated[x] = d.flows[i].stated[x]
      /\ d.assumptions \subseteq e.assumptions
  BY DEF Keeps
<1>4. Says(e, i, item.stated)
  BY <1>1, <1>3 DEF Says
<1> QED  BY <1>1, <1>2, <1>3, <1>4 DEF Heard

(* A statement about a flow that is known: nothing that was said is lost.   *)
LEMMA FieldsMerged ==
  ASSUME NEW d, DraftInv(d), NEW i \in DOMAIN d.flows, NEW stated
  PROVE  LET e == MergeFields(d, i, stated) IN
         /\ DraftInv(e) /\ Keeps(d, e) /\ e.names = d.names
         /\ i \in DOMAIN e.flows /\ e.flows[i].source = d.flows[i].source /\ e.flows[i].target = d.flows[i].target
         /\ Says(e, i, stated)
<1> DEFINE e == MergeFields(d, i, stated)
           old == d.flows[i].stated
           new == [x \in Fields |-> IF old[x] = Unstated THEN stated[x] ELSE old[x]]
           f == [d.flows[i] EXCEPT !.origin = "merged", !.stated = new]
           conflict(x) == Unstated \notin {old[x], stated[x]} /\ old[x] # stated[x]
<1>0. Resolved(d) /\ Shaped(d) /\ IsDraft(d) /\ InLedger(d)
  BY DEF DraftInv, Shaped
<1>1. /\ FlowsOnly(d, e) /\ e.flows = [d.flows EXCEPT ![i] = f]
      /\ \A x \in Fields : conflict(x) => Assume("conflict", <<"flow", i>>, <<x, stated[x]>>) \in e.assumptions
  BY <1>0 DEF MergeFields, FlowsOnly, IsDraft, Columns
<1>2. /\ DOMAIN f = {"source", "target", "stated", "origin"} /\ f.source = d.flows[i].source /\ f.target = d.flows[i].target
      /\ \A x \in Fields : f.stated[x] = IF old[x] = Unstated THEN stated[x] ELSE old[x]
  BY <1>0 DEF Shaped
<1>3. \A x \in Fields : conflict(x) \/ old[x] = Unstated \/ stated[x] \in {Unstated, old[x]}
  OBVIOUS
<1> HIDE DEF e, f, conflict
<1>4. /\ DOMAIN e.flows = DOMAIN d.flows /\ e.flows = [j \in DOMAIN e.flows |-> e.flows[j]] /\ e.flows[i] = f
      /\ \A j \in DOMAIN d.flows : j # i => e.flows[j] = d.flows[j]
  BY <1>1
<1>5. IsList(e.flows)
  BY <1>0, <1>4, ListUpdated DEF Shaped
<1>6. \A j \in DOMAIN e.flows :
        /\ DOMAIN e.flows[j] = {"source", "target", "stated", "origin"}
        /\ e.flows[j].source \in ElementIds(d) /\ e.flows[j].target \in ElementIds(d)
        /\ FlowTold(e, e.flows[j])
  <2>1. d.assumptions \subseteq e.assumptions /\ \A k \in DOMAIN d.nodes : k \in DOMAIN e.nodes /\ e.nodes[k] = d.nodes[k]
    BY <1>1 DEF FlowsOnly
  <2>2. \A j \in DOMAIN d.flows : e.flows[j].source = d.flows[j].source /\ e.flows[j].target = d.flows[j].target
    BY <1>2, <1>4
  <2>3. \A j \in DOMAIN d.flows : FlowTold(e, e.flows[j])
    BY <1>0, <2>1, <2>2, ToldOn DEF InLedger
  <2> QED  BY <1>0, <1>2, <1>4, <2>3 DEF Resolved, Shaped
<1>7. /\ DraftInv(e) /\ ElementIds(e) = ElementIds(d)
      /\ \A x \in ElementIds(d) : KindIn(e, x) = KindIn(d, x)
  BY <1>1, <1>5, <1>6, FlowsChange
<1>8. Keeps(d, e)
  <2>1. ASSUME NEW j \in DOMAIN d.flows
        PROVE  /\ j \in DOMAIN e.flows /\ e.flows[j].source = d.flows[j].source /\ e.flows[j].target = d.flows[j].target
               /\ \A x \in Fields : d.flows[j].stated[x] # Unstated => e.flows[j].stated[x] = d.flows[j].stated[x]
    <3>1. CASE j = i
      BY <3>1, <1>2, <1>4
    <3>2. CASE j # i
      BY <3>2, <1>4
    <3> QED  BY <3>1, <3>2
  <2> QED  BY <1>1, <1>7, <2>1 DEF Keeps, FlowsOnly
<1>9. Says(e, i, stated)
  <2> SUFFICES ASSUME NEW x \in Fields
               PROVE  \/ stated[x] \in {Unstated, e.flows[i].stated[x]}
                      \/ e.flows[i].stated[x] # Unstated /\ Assume("conflict", <<"flow", i>>, <<x, stated[x]>>) \in e.assumptions
    BY DEF Says
  <2>1. e.flows[i].stated[x] = IF old[x] = Unstated THEN stated[x] ELSE old[x]
    BY <1>2, <1>4
  <2>2. CASE conflict(x)
    BY <1>1, <2>1, <2>2 DEF conflict
  <2> QED  BY <1>3, <2>1, <2>2
<1>10. e.names = d.names
  BY <1>1 DEF FlowsOnly
<1> QED  BY <1>2, <1>4, <1>7, <1>8, <1>9, <1>10 DEF e

(* Nothing but zones, assets, controls and the ledger changes. *)
LEMMA ListsChange ==
  ASSUME NEW d, DraftInv(d), NEW e, Updates(d, e), Shaped(e), Placed(e), e.flows = d.flows,
         \A i \in DOMAIN e.zones : /\ e.zones[i].members \subseteq ElementIds(d)
                                   /\ \/ e.zones[i].name \in DrawnZones
                                      \/ Assume("inference", <<"zone", i>>, Undrawn) \in e.assumptions,
         \A i \in DOMAIN d.assets : i \in DOMAIN e.assets /\ e.assets[i] = d.assets[i],
         \A i \in DOMAIN e.assets : /\ e.assets[i].owner \subseteq ElementIds(d)
                                    /\ Assume("inference", <<"asset", i>>, Undrawn) \in e.assumptions,
         \A i \in DOMAIN e.controls : e.controls[i].appliesTo \subseteq ElementIds(d)
  PROVE  DraftInv(e) /\ Keeps(d, e)
<1>1. /\ ElementIds(e) = ElementIds(d) /\ NamesAgree(e)
      /\ \A x \in ElementIds(d) : KindIn(e, x) = KindIn(d, x)
      /\ \A x \in ElementIds(e) :
           (\E k \in DOMAIN e.nodes : e.nodes[k] = x) \/ Assume("inference", x, Undrawn) \in e.assumptions
      /\ \A k \in DOMAIN e.nodes : e.nodes[k] \in ElementIds(e)
  BY ElementsStay
<1>2. Resolved(e)
  BY <1>1 DEF Resolved, DraftInv
<1>3. InLedger(e)
  <2>1. d.assumptions \subseteq e.assumptions /\ \A k \in DOMAIN d.nodes : k \in DOMAIN e.nodes /\ e.nodes[k] = d.nodes[k]
    BY DEF Updates
  <2>2. \A i \in DOMAIN e.flows : FlowTold(e, e.flows[i])
    BY <2>1, ToldOn DEF InLedger, DraftInv
  <2> QED  BY <1>1, <2>2 DEF InLedger
<1>4. Keeps(d, e)
  BY <1>1 DEF Keeps, Updates
<1> QED  BY <1>1, <1>2, <1>3, <1>4 DEF DraftInv

(* Heard: the draft holds what a statement has of an element, or has       *)
(* recorded the conflict; an actor keeps quiet. *)
HeardOf(d, label, kind) ==
  /\ Named(d, label)
  /\ LET id == IdOf(d, label) IN
     id[1] = "actor" \/ KindIn(d, id) = kind \/ Assume("conflict", id, <<kind>>) \in d.assumptions

(* What prose says of an element. *)
LEMMA ElementMerged ==
  ASSUME NEW d, DraftInv(d), NEW label, NEW kind, NEW tags
  PROVE  LET e == MergeElement(d, label, kind, tags) IN
         DraftInv(e) /\ Keeps(d, e) /\ Named(e, label) /\ HeardOf(e, label, kind)
<1> DEFINE e == MergeElement(d, label, kind, tags)
           id == IdOf(d, label)
<1>0. /\ Resolved(d) /\ Shaped(d) /\ IsDraft(d) /\ InLedger(d) /\ Placed(d)
      /\ IsList(d.components) /\ IsList(d.actors)
  BY DEF DraftInv, Shaped
<1>1. CASE ~Named(d, label)
  <2>1. e = Introduce(d, label, label, kind, tags, "prose")
    BY <1>1 DEF MergeElement, Introduce
  <2> HIDE DEF e
  <2>2. DraftInv(e) /\ Keeps(d, e) /\ Named(e, label) /\ KindIn(e, IdOf(e, label)) = kind
    BY <1>1, <2>1, Introduced
  <2> QED  BY <2>2 DEF HeardOf, e
<1>2. CASE Named(d, label)
  <2>1. id \in ElementIds(d)
    BY <1>2, IdIs
  <2>2. CASE \E i \in DOMAIN d.components : id = <<"component", i>>
    <3> DEFINE i == id[2]
    <3>1. i \in DOMAIN d.components /\ id = <<"component", i>>
      BY <2>2
    <3>2. id[1] # "actor"
      BY <3>1
    <3> DEFINE c == [d.components[i] EXCEPT !.tags = @ \cup tags, !.origin = "merged"]
    <3>3. e = [d EXCEPT
               !.components[i].tags = @ \cup tags, !.components[i].origin = "merged",
               !.assumptions = IF d.components[i].kind = kind THEN @ ELSE @ \cup {Assume("conflict", id, <<kind>>)}]
      BY <1>2, <3>2 DEF MergeElement
    <3> HIDE DEF e, i, id
    <3>4. /\ e.actors = d.actors /\ e.flows = d.flows /\ e.zones = d.zones /\ e.assets = d.assets
          /\ e.controls = d.controls /\ e.names = d.names /\ e.nodes = d.nodes /\ IsDraft(e)
          /\ d.assumptions \subseteq e.assumptions
          /\ d.components[i].kind = kind \/ Assume("conflict", id, <<kind>>) \in e.assumptions
      BY <1>0, <3>3 DEF IsDraft, Columns
    <3>5. e.components = [d.components EXCEPT ![i].tags = @ \cup tags, ![i].origin = "merged"]
      BY <1>0, <3>3 DEF IsDraft, Columns
    <3>7. /\ DOMAIN e.components = DOMAIN d.components /\ e.components = [j \in DOMAIN e.components |-> e.components[j]]
          /\ e.components[i] = c /\ \A j \in DOMAIN d.components : j # i => e.components[j] = d.components[j]
      <4> DEFINE C == d.components
                 u == [C EXCEPT ![i].tags = @ \cup tags]
      <4>1. DOMAIN u = DOMAIN C /\ u[i] = [C[i] EXCEPT !.tags = @ \cup tags] /\ \A j \in DOMAIN C : j # i => u[j] = C[j]
        BY <3>1
      <4>2. e.components = [u EXCEPT ![i] = [u[i] EXCEPT !.origin = "merged"]]
        BY <3>5
      <4> HIDE DEF u
      <4> QED  BY <3>1, <4>1, <4>2
    <3>6. /\ DOMAIN c = {"name", "kind", "zone", "tags", "origin"} /\ c.name = d.components[i].name
          /\ c.zone = d.components[i].zone /\ c.kind = d.components[i].kind
      BY <1>0, <3>1 DEF Shaped
    <3> HIDE DEF c
    <3>8. IsList(e.components)
      BY <1>0, <3>7, ListUpdated
    <3>9. Updates(d, e)
      BY <3>4, <3>6, <3>7 DEF Updates
    <3>10. Shaped(e)
      BY <1>0, <3>4, <3>6, <3>7, <3>8 DEF Shaped
    <3>11. Placed(e)
      BY <1>0, <3>4, <3>6, <3>7 DEF Placed
    <3>12. DraftInv(e) /\ Keeps(d, e)
      BY <1>0, <3>4, <3>9, <3>10, <3>11, ListsChange DEF Resolved, InLedger
    <3>13. Named(e, label) /\ IdOf(e, label) = id
      BY <1>2, <3>4 DEF Named, IdOf, id
    <3>14. KindIn(e, id) = d.components[i].kind
      BY <3>1, <3>6, <3>7 DEF KindIn
    <3>15. HeardOf(e, label, kind)
      BY <3>4, <3>13, <3>14 DEF HeardOf
    <3> QED  BY <3>12, <3>13, <3>15 DEF e
  <2>3. CASE \E i \in DOMAIN d.actors : id = <<"actor", i>>
    <3>1. PICK i \in DOMAIN d.actors : id = <<"actor", i>>
      BY <2>3
    <3>2. id[1] = "actor" /\ id[2] = i
      BY <3>1
    <3> DEFINE a == [d.actors[i] EXCEPT !.origin = "merged"]
    <3>3. e = [d EXCEPT !.actors[i] = a]
      BY <1>2, <3>2 DEF MergeElement
    <3> HIDE DEF e
    <3>4. /\ e.components = d.components /\ e.flows = d.flows /\ e.zones = d.zones /\ e.assets = d.assets
          /\ e.controls = d.controls /\ e.names = d.names /\ e.nodes = d.nodes /\ IsDraft(e)
          /\ e.assumptions = d.assumptions
      BY <1>0, <3>3 DEF IsDraft, Columns
    <3>5. e.actors = [d.actors EXCEPT ![i] = a]
      BY <1>0, <3>3 DEF IsDraft, Columns
    <3>6. DOMAIN a = {"name", "origin"} /\ a.name = d.actors[i].name
      BY <1>0 DEF Shaped
    <3> HIDE DEF a, id
    <3>7. /\ DOMAIN e.actors = DOMAIN d.actors /\ e.actors = [j \in DOMAIN e.actors |-> e.actors[j]]
          /\ e.actors[i] = a /\ \A j \in DOMAIN d.actors : j # i => e.actors[j] = d.actors[j]
      BY <3>5
    <3>8. IsList(e.actors)
      BY <1>0, <3>7, ListUpdated
    <3>9. Updates(d, e)
      BY <3>4, <3>6, <3>7 DEF Updates
    <3>10. Shaped(e)
      BY <1>0, <3>4, <3>6, <3>7, <3>8 DEF Shaped
    <3>11. Placed(e)
      BY <1>0, <3>4 DEF Placed
    <3>12. DraftInv(e) /\ Keeps(d, e)
      BY <1>0, <3>4, <3>9, <3>10, <3>11, ListsChange DEF Resolved, InLedger
    <3>13. Named(e, label) /\ IdOf(e, label) = id
      BY <1>2, <3>4 DEF Named, IdOf, id
    <3> QED  BY <3>2, <3>12, <3>13 DEF HeardOf, e
  <2> QED  BY <2>1, <2>2, <2>3, ElementIs
<1> QED  BY <1>1, <1>2

LEMMA ResolvedOrStubbed ==
  ASSUME NEW d, DraftInv(d), NEW label
  PROVE  LET e == ResolveOrStub(d, label) IN DraftInv(e) /\ Keeps(d, e) /\ Named(e, label)
<1>1. CASE Named(d, label)
  BY <1>1 DEF ResolveOrStub, Keeps
<1>2. CASE ~Named(d, label)
  BY <1>2, ElementMerged DEF ResolveOrStub
<1> QED  BY <1>1, <1>2

LEMMA NamedOn ==
  ASSUME NEW d, NEW e, Keeps(d, e), NEW label, Named(d, label)
  PROVE  Named(e, label) /\ IdOf(e, label) = IdOf(d, label)
BY DEF Keeps, Named, IdOf

(* Of a flow that was merged the draft has heard. *)
LEMMA FlowMerged ==
  ASSUME NEW d, DraftInv(d), NEW item
  PROVE  LET e == MergeFlow(d, item) IN DraftInv(e) /\ Keeps(d, e) /\ Heard(e, item)
<1> DEFINE n == ResolveOrStub(d, item.source)
           m == ResolveOrStub(n, item.target)
           source == IdOf(m, item.source)
           target == IdOf(m, item.target)
           I == {j \in 1..Len(m.flows) : m.flows[j].source = source /\ m.flows[j].target = target}
           i == IF I # {} THEN Min(I) ELSE 0
           f == [source |-> source, target |-> target, stated |-> item.stated, origin |-> "prose"]
           e == MergeFlow(d, item)
<1>1. DraftInv(n) /\ Keeps(d, n) /\ Named(n, item.source)
  BY ResolvedOrStubbed
<1>2. DraftInv(m) /\ Keeps(n, m) /\ Named(m, item.target)
  <2> HIDE DEF n
  <2> QED  BY <1>1, ResolvedOrStubbed
<1>3. e = IF i # 0 THEN MergeFields(m, i, item.stated) ELSE Inferred([m EXCEPT !.flows = Append(@, f)], source, <<"to", target>>)
  BY DEF MergeFlow, SelectInSeq
<1> HIDE DEF n, m, e
<1>4. Named(m, item.source) /\ Keeps(d, m)
  BY <1>1, <1>2, NamedOn, KeepsOn
<1>5. source \in ElementIds(m) /\ target \in ElementIds(m) /\ IsDraft(m)
  BY <1>2, <1>4, IdIs DEF DraftInv, Shaped
<1>6. Len(m.flows) \in Nat /\ DOMAIN m.flows = 1..Len(m.flows)
  BY <1>2, ListIs DEF DraftInv, Shaped
<1>7. i # 0 => i \in I
  BY <1>6, FirstOf
<1>8. CASE i # 0
  <2>1. i \in DOMAIN m.flows /\ m.flows[i].source = source /\ m.flows[i].target = target
    BY <1>6, <1>7, <1>8
  <2>2. e = MergeFields(m, i, item.stated)
    BY <1>3, <1>8
  <2> HIDE DEF i
  <2>3. /\ DraftInv(e) /\ Keeps(m, e) /\ e.names = m.names
        /\ i \in DOMAIN e.flows /\ e.flows[i].source = m.flows[i].source /\ e.flows[i].target = m.flows[i].target
        /\ Says(e, i, item.stated)
    BY <1>2, <2>1, <2>2, FieldsMerged
  <2>4. Heard(e, item)
    BY <1>2, <1>4, <2>1, <2>3 DEF Heard, Named, IdOf
  <2> QED  BY <1>4, <2>3, <2>4, KeepsOn DEF e
<1>9. CASE i = 0
  <2>1. e = Inferred([m EXCEPT !.flows = Append(@, f)], source, <<"to", target>>)
    BY <1>3, <1>9
  <2>2. DOMAIN f = {"source", "target", "stated", "origin"} /\ f.source = source /\ f.target = target /\ f.stated = item.stated
    OBVIOUS
  <2> HIDE DEF f, i, source, target
  <2>3. /\ FlowsOnly(m, e) /\ e.flows = Append(m.flows, f)
        /\ Assume("inference", source, <<"to", target>>) \in e.assumptions
    BY <1>5, <2>1 DEF Inferred, FlowsOnly, IsDraft, Columns
  <2>t. FlowTold(e, f)
    BY <2>2, <2>3 DEF FlowTold
  <2>4. DraftInv(e) /\ Keeps(m, e) /\ \E j \in DOMAIN e.flows : e.flows[j] = f
    BY <1>2, <1>5, <2>2, <2>3, <2>t, FlowAppended
  <2>5. PICK j \in DOMAIN e.flows : e.flows[j] = f
    BY <2>4
  <2>6. Says(e, j, item.stated)
    BY <2>2, <2>5 DEF Says
  <2>7. e.names = m.names
    BY <2>3 DEF FlowsOnly
  <2>8. Heard(e, item)
    BY <1>2, <1>4, <2>2, <2>5, <2>6, <2>7 DEF Heard, Named, IdOf, source, target
  <2> QED  BY <1>4, <2>4, <2>8, KeepsOn DEF e
<1> QED  BY <1>8, <1>9

LEMMA IdsAre ==
  ASSUME NEW d, DraftInv(d), NEW labels
  PROVE  Ids(d, labels) \subseteq ElementIds(d)
BY IdIs DEF Ids

HeardAsset(d, item) ==
  \E i \in DOMAIN d.assets :
    IF item.class = Unstated
    THEN d.assets[i].class = "unclassified" /\ Assume("default", <<"asset", i>>, <<"unclassified">>) \in d.assumptions
    ELSE d.assets[i].class = item.class

LEMMA AssetMerged ==
  ASSUME NEW d, DraftInv(d), NEW item
  PROVE  LET e == MergeAsset(d, item) IN DraftInv(e) /\ Keeps(d, e) /\ HeardAsset(e, item)
<1> DEFINE e == MergeAsset(d, item)
           n == Len(d.assets) + 1
           owner == Ids(d, {item.owner} \ {Unstated})
           a == [class |-> IF item.class = Unstated THEN "unclassified" ELSE item.class, owner |-> owner]
<1>1. /\ Resolved(d) /\ Shaped(d) /\ IsDraft(d) /\ InLedger(d) /\ Placed(d) /\ IsList(d.assets)
  BY DEF DraftInv, Shaped
<1>2. /\ e.components = d.components /\ e.actors = d.actors /\ e.flows = d.flows /\ e.zones = d.zones
      /\ e.controls = d.controls /\ e.names = d.names /\ e.nodes = d.nodes /\ IsDraft(e)
      /\ d.assumptions \subseteq e.assumptions /\ Assume("inference", <<"asset", n>>, Undrawn) \in e.assumptions
      /\ item.class = Unstated => Assume("default", <<"asset", n>>, <<"unclassified">>) \in e.assumptions
  BY <1>1 DEF MergeAsset, IsDraft, Columns
<1>3. e.assets = Append(d.assets, a)
  BY <1>1 DEF MergeAsset, IsDraft, Columns
<1>4. /\ owner \subseteq ElementIds(d) /\ a.owner = owner
      /\ a.class = IF item.class = Unstated THEN "unclassified" ELSE item.class
  BY IdsAre
<1> HIDE DEF e, a, owner
<1>5. /\ IsList(e.assets) /\ DOMAIN e.assets = DOMAIN d.assets \cup {n}
      /\ e.assets[n] = a /\ \A i \in DOMAIN d.assets : e.assets[i] = d.assets[i]
  BY <1>1, <1>3, ListLonger
<1> HIDE DEF n
<1>6. Updates(d, e)
  BY <1>2 DEF Updates
<1>7. Shaped(e)
  BY <1>1, <1>2, <1>5 DEF Shaped
<1>8. Placed(e)
  BY <1>1, <1>2 DEF Placed
<1>9. \A i \in DOMAIN e.assets : /\ e.assets[i].owner \subseteq ElementIds(d)
                                 /\ Assume("inference", <<"asset", i>>, Undrawn) \in e.assumptions
  <2>1. \A i \in DOMAIN d.assets : Assume("inference", <<"asset", i>>, Undrawn) \in d.assumptions
    BY <1>1 DEF InLedger
  <2> QED  BY <1>1, <1>2, <1>4, <1>5, <2>1 DEF Resolved
<1>10. DraftInv(e) /\ Keeps(d, e)
  BY <1>1, <1>2, <1>5, <1>6, <1>7, <1>8, <1>9, ListsChange DEF Resolved, InLedger
<1>11. HeardAsset(e, item)
  BY <1>2, <1>4, <1>5 DEF HeardAsset
<1> QED  BY <1>10, <1>11 DEF e

LEMMA ControlMerged ==
  ASSUME NEW d, DraftInv(d), NEW item
  PROVE  DraftInv(MergeControl(d, item)) /\ Keeps(d, MergeControl(d, item))
<1> DEFINE e == MergeControl(d, item)
           n == Len(d.controls) + 1
           ids == Ids(d, item.appliesTo)
           c == [appliesTo |-> ids]
<1>1. /\ Resolved(d) /\ Shaped(d) /\ IsDraft(d) /\ InLedger(d) /\ Placed(d) /\ IsList(d.controls)
  BY DEF DraftInv, Shaped
<1>2. /\ e.components = d.components /\ e.actors = d.actors /\ e.flows = d.flows /\ e.zones = d.zones
      /\ e.assets = d.assets /\ e.names = d.names /\ e.nodes = d.nodes /\ IsDraft(e)
      /\ d.assumptions = e.assumptions
  BY <1>1 DEF MergeControl, IsDraft, Columns
<1>3. e.controls = Append(d.controls, c)
  BY <1>1 DEF MergeControl, IsDraft, Columns
<1>4. ids \subseteq ElementIds(d) /\ c.appliesTo = ids
  BY IdsAre
<1> HIDE DEF e, c, ids
<1>5. /\ IsList(e.controls) /\ DOMAIN e.controls = DOMAIN d.controls \cup {n}
      /\ e.controls[n] = c /\ \A i \in DOMAIN d.controls : e.controls[i] = d.controls[i]
  BY <1>1, <1>3, ListLonger
<1> HIDE DEF n
<1>6. Updates(d, e)
  BY <1>2 DEF Updates
<1>7. Shaped(e)
  BY <1>1, <1>2, <1>5 DEF Shaped
<1>8. Placed(e)
  BY <1>1, <1>2 DEF Placed
<1>9. \A i \in DOMAIN e.controls : e.controls[i].appliesTo \subseteq ElementIds(d)
  BY <1>1, <1>4, <1>5 DEF Resolved
<1>10. DraftInv(e) /\ Keeps(d, e)
  BY <1>1, <1>2, <1>6, <1>7, <1>8, <1>9, ListsChange DEF Resolved, InLedger
<1> QED  BY <1>10 DEF e

(* A zone that is new, and its inference if prose has it. *)
LEMMA ZoneAdded ==
  ASSUME NEW d, DraftInv(d), NEW name, NEW members, members \subseteq ElementIds(d), NEW origin,
         origin = "prose" \/ name \in DrawnZones
  PROVE  LET m == AddZone(d, name, members, origin)
             e == IF origin = "prose" THEN Inferred(m, <<"zone", Len(d.zones) + 1>>, Undrawn) ELSE m
         IN DraftInv(e) /\ Keeps(d, e)
<1> DEFINE n == Len(d.zones) + 1
           z == [name |-> name, members |-> members, origin |-> origin]
           m == AddZone(d, name, members, origin)
           e == IF origin = "prose" THEN Inferred(m, <<"zone", n>>, Undrawn) ELSE m
<1>1. /\ Resolved(d) /\ Shaped(d) /\ IsDraft(d) /\ InLedger(d) /\ Placed(d) /\ IsList(d.zones) /\ IsList(d.components)
  BY DEF DraftInv, Shaped
<1>2. /\ m.actors = d.actors /\ m.flows = d.flows /\ m.zones = Append(d.zones, z) /\ m.assets = d.assets
      /\ m.controls = d.controls /\ m.names = d.names /\ m.nodes = d.nodes /\ IsDraft(m)
      /\ m.assumptions = d.assumptions /\ m.components = PlaceIn(d.components, members, n)
  BY <1>1 DEF AddZone, IsDraft, Columns
<1> HIDE DEF m
<1>3. /\ e.actors = m.actors /\ e.flows = m.flows /\ e.zones = m.zones /\ e.assets = m.assets
      /\ e.controls = m.controls /\ e.names = m.names /\ e.nodes = m.nodes /\ IsDraft(e)
      /\ e.components = m.components
      /\ e.assumptions = m.assumptions \cup IF origin = "prose" THEN {Assume("inference", <<"zone", n>>, Undrawn)} ELSE {}
  <2>1. CASE origin = "prose"
    BY <1>2, <2>1 DEF Inferred, IsDraft, Columns
  <2>2. CASE origin # "prose"
    BY <1>2, <2>2
  <2> QED  BY <2>1, <2>2
<1> HIDE DEF e
<1>4. /\ IsList(e.zones) /\ DOMAIN e.zones = DOMAIN d.zones \cup {n} /\ n \notin DOMAIN d.zones
      /\ e.zones[n] = z /\ \A i \in DOMAIN d.zones : e.zones[i] = d.zones[i]
  BY <1>1, <1>2, <1>3, ListLonger
<1>5. z.members = members /\ z.name = name /\ DOMAIN z = {"name", "members", "origin"}
  OBVIOUS
<1> HIDE DEF n, z
<1>6. /\ DOMAIN e.components = DOMAIN d.components /\ e.components = [i \in DOMAIN e.components |-> e.components[i]]
      /\ \A i \in DOMAIN d.components :
           IF <<"component", i>> \in members /\ d.components[i].zone = Unstated
           THEN e.components[i] = [d.components[i] EXCEPT !.zone = n]
           ELSE e.components[i] = d.components[i]
  BY <1>2, <1>3 DEF PlaceIn
<1>7. ASSUME NEW i \in DOMAIN d.components
      PROVE  /\ DOMAIN e.components[i] = {"name", "kind", "zone", "tags", "origin"}
             /\ e.components[i].name = d.components[i].name /\ e.components[i].kind = d.components[i].kind
             /\ \/ e.components[i].zone = d.components[i].zone
                \/ <<"component", i>> \in members /\ e.components[i].zone = n
  <2>1. DOMAIN d.components[i] = {"name", "kind", "zone", "tags", "origin"}
    BY <1>1 DEF Shaped
  <2>2. CASE <<"component", i>> \in members /\ d.components[i].zone = Unstated
    <3>1. e.components[i] = [d.components[i] EXCEPT !.zone = n]
      BY <1>6, <2>2
    <3> QED  BY <2>1, <2>2, <3>1
  <2>3. CASE ~(<<"component", i>> \in members /\ d.components[i].zone = Unstated)
    BY <1>6, <2>1, <2>3
  <2> QED  BY <2>2, <2>3
<1>8. IsList(e.components)
  BY <1>1, <1>6, ListUpdated
<1>9. d.assumptions \subseteq e.assumptions /\ (origin = "prose" => Assume("inference", <<"zone", n>>, Undrawn) \in e.assumptions)
  BY <1>2, <1>3
<1>10. Updates(d, e)
  BY <1>2, <1>3, <1>6, <1>7, <1>9 DEF Updates
<1>11. Shaped(e)
  <2>1. \A i \in DOMAIN e.components : DOMAIN e.components[i] = {"name", "kind", "zone", "tags", "origin"}
    BY <1>6, <1>7
  <2>2. \A i \in DOMAIN e.zones : DOMAIN e.zones[i] = {"name", "members", "origin"}
    BY <1>1, <1>4, <1>5 DEF Shaped
  <2> QED  BY <1>1, <1>2, <1>3, <1>4, <1>8, <2>1, <2>2 DEF Shaped
<1>12. Placed(e)
  BY <1>1, <1>4, <1>5, <1>6, <1>7 DEF Placed
<1>13. \A i \in DOMAIN e.zones : /\ e.zones[i].members \subseteq ElementIds(d)
                                 /\ \/ e.zones[i].name \in DrawnZones
                                    \/ Assume("inference", <<"zone", i>>, Undrawn) \in e.assumptions
  <2>1. \A i \in DOMAIN d.zones : d.zones[i].name \in DrawnZones \/ Assume("inference", <<"zone", i>>, Undrawn) \in d.assumptions
    BY <1>1 DEF InLedger
  <2> QED  BY <1>1, <1>4, <1>5, <1>9, <2>1 DEF Resolved
<1>14. DraftInv(e) /\ Keeps(d, e)
  BY <1>1, <1>2, <1>3, <1>9, <1>10, <1>11, <1>12, <1>13, ListsChange DEF Resolved, InLedger
<1> QED  BY <1>14 DEF e, m, n

LEMMA SubgraphAdded ==
  ASSUME NEW d, DraftInv(d), NEW name, NEW s, s.title \in DrawnZones
  PROVE  LET e == AddSubgraph(d, name, s) IN DraftInv(e) /\ Keeps(d, e)
<1> DEFINE members == {d.nodes[k] : k \in {<<name, n>> : n \in s.nodes} \cap DOMAIN d.nodes}
<1>1. members \subseteq ElementIds(d)
  BY DEF DraftInv, Resolved
<1>2. AddSubgraph(d, name, s) = AddZone(d, s.title, members, "mermaid")
  BY DEF AddSubgraph
<1> HIDE DEF members
<1> QED  BY <1>1, <1>2, ZoneAdded

LEMMA ZoneMerged ==
  ASSUME NEW d, DraftInv(d), NEW item
  PROVE  LET e == MergeZone(d, item) IN DraftInv(e) /\ Keeps(d, e)
<1> DEFINE members == Ids(d, item.members)
           I == {j \in 1..Len(d.zones) : Normalize[d.zones[j].name] = Normalize[item.name]}
           i == IF I # {} THEN Min(I) ELSE 0
           e == MergeZone(d, item)
<1>1. /\ Resolved(d) /\ Shaped(d) /\ IsDraft(d) /\ InLedger(d) /\ Placed(d) /\ IsList(d.zones)
  BY DEF DraftInv, Shaped
<1>2. e = IF i # 0 THEN [d EXCEPT !.zones[i].members = @ \cup members, !.zones[i].origin = "merged"]
          ELSE Inferred(AddZone(d, item.name, members, "prose"), <<"zone", Len(d.zones) + 1>>, Undrawn)
  BY DEF MergeZone, SelectInSeq
<1>3. members \subseteq ElementIds(d)
  BY IdsAre
<1>4. Len(d.zones) \in Nat /\ DOMAIN d.zones = 1..Len(d.zones)
  BY <1>1, ListIs
<1>5. i # 0 => i \in I
  BY <1>4, FirstOf
<1> HIDE DEF e, members
<1>6. CASE i = 0
  BY <1>2, <1>3, <1>6, ZoneAdded DEF e
<1>7. CASE i # 0
  <2>1. i \in DOMAIN d.zones
    BY <1>4, <1>5, <1>7
  <2>2. e = [d EXCEPT !.zones[i].members = @ \cup members, !.zones[i].origin = "merged"]
    BY <1>2, <1>7
  <2> HIDE DEF i, I
  <2>3. /\ e.components = d.components /\ e.actors = d.actors /\ e.flows = d.flows /\ e.assets = d.assets
        /\ e.controls = d.controls /\ e.names = d.names /\ e.nodes = d.nodes /\ IsDraft(e)
        /\ e.assumptions = d.assumptions
    BY <1>1, <2>2 DEF IsDraft, Columns
  <2>4. e.zones = [d.zones EXCEPT ![i].members = @ \cup members, ![i].origin = "merged"]
    BY <1>1, <2>2 DEF IsDraft, Columns
  <2> DEFINE z == [d.zones[i] EXCEPT !.members = @ \cup members, !.origin = "merged"]
  <2>5. /\ DOMAIN e.zones = DOMAIN d.zones /\ e.zones = [j \in DOMAIN e.zones |-> e.zones[j]]
        /\ e.zones[i] = z /\ \A j \in DOMAIN d.zones : j # i => e.zones[j] = d.zones[j]
    <3> DEFINE C == d.zones
               u == [C EXCEPT ![i].members = @ \cup members]
    <3>1. DOMAIN u = DOMAIN C /\ u[i] = [C[i] EXCEPT !.members = @ \cup members] /\ \A j \in DOMAIN C : j # i => u[j] = C[j]
      BY <2>1
    <3>2. e.zones = [u EXCEPT ![i] = [u[i] EXCEPT !.origin = "merged"]]
      BY <2>4
    <3> HIDE DEF u
    <3> QED  BY <2>1, <3>1, <3>2
  <2>6. /\ DOMAIN z = {"name", "members", "origin"} /\ z.members = d.zones[i].members \cup members /\ z.name = d.zones[i].name
    BY <1>1, <2>1 DEF Shaped
  <2> HIDE DEF z
  <2>7. IsList(e.zones)
    BY <1>1, <2>5, ListUpdated
  <2>8. Updates(d, e)
    BY <2>3 DEF Updates
  <2>9. Shaped(e)
    BY <1>1, <2>3, <2>5, <2>6, <2>7 DEF Shaped
  <2>10. Placed(e)
    BY <1>1, <2>3, <2>5, <2>6 DEF Placed
  <2>11. \A j \in DOMAIN e.zones : /\ e.zones[j].members \subseteq ElementIds(d)
                                   /\ \/ e.zones[j].name \in DrawnZones
                                      \/ Assume("inference", <<"zone", j>>, Undrawn) \in e.assumptions
    <3>1. \A j \in DOMAIN d.zones : d.zones[j].name \in DrawnZones \/ Assume("inference", <<"zone", j>>, Undrawn) \in d.assumptions
      BY <1>1 DEF InLedger
    <3> QED  BY <1>1, <1>3, <2>3, <2>5, <2>6, <3>1 DEF Resolved
  <2>12. DraftInv(e) /\ Keeps(d, e)
    BY <1>1, <2>3, <2>8, <2>9, <2>10, <2>11, ListsChange DEF Resolved, InLedger
  <2> QED  BY <2>12 DEF e
<1> QED  BY <1>6, <1>7

ItemLists == {"node", "edge", "subgraph", "component", "actor", "flow", "asset", "zone", "control"}

(* Of an item of a diagram, that it is drawn; of an item of prose, that    *)
(* the draft has heard it. *)
DrawnItem(name, x) ==
  /\ x.list = "edge" => << <<name, x.item.source>>, <<name, x.item.target>> >> \in DrawnEdges
  /\ x.list = "subgraph" => x.item.title \in DrawnZones

HeardItem(d, x) ==
  /\ x.list = "component" => HeardOf(d, x.item.name, ProseKind(x.item.kind))
  /\ x.list = "actor" => HeardOf(d, x.item, "external_entity")
  /\ x.list = "flow" => Heard(d, x.item)
  /\ x.list = "asset" => HeardAsset(d, x.item)

(* What is heard stays heard. *)
LEMMA ElementHeardOn ==
  ASSUME NEW d, NEW e, DraftInv(d), Keeps(d, e), NEW label, NEW kind, HeardOf(d, label, kind)
  PROVE  HeardOf(e, label, kind)
<1> DEFINE id == IdOf(d, label)
<1>1. Named(e, label) /\ IdOf(e, label) = id
  BY NamedOn DEF HeardOf
<1>2. id \in ElementIds(d)
  BY IdIs DEF HeardOf
<1>3. id[1] = "actor" \/ KindIn(d, id) = kind \/ Assume("conflict", id, <<kind>>) \in d.assumptions
  BY DEF HeardOf
<1> HIDE DEF id
<1> QED  BY <1>1, <1>2, <1>3 DEF HeardOf, Keeps

LEMMA AssetHeardOn ==
  ASSUME NEW d, NEW e, Keeps(d, e), NEW item, HeardAsset(d, item)
  PROVE  HeardAsset(e, item)
BY DEF HeardAsset, Keeps

LEMMA ItemHeardOn ==
  ASSUME NEW d, NEW e, DraftInv(d), Keeps(d, e), NEW x, HeardItem(d, x)
  PROVE  HeardItem(e, x)
BY HeardOn, ElementHeardOn, AssetHeardOn DEF HeardItem

LEMMA ItemMerged ==
  ASSUME NEW d, DraftInv(d), NEW name, NEW x, x.list \in ItemLists, DrawnItem(name, x)
  PROVE  LET e == MergeItem(d, name, x) IN DraftInv(e) /\ Keeps(d, e) /\ HeardItem(e, x)
<1> DEFINE e == MergeItem(d, name, x)
<1>1. CASE x.list = "node"
  <2>1. e = AddNode(d, <<name, x.item.id>>, x.item.label, InferKind(x.item.shape))
    BY <1>1 DEF MergeItem
  <2> HIDE DEF e
  <2> QED  BY <1>1, <2>1, NodeAdded DEF HeardItem, e
<1>2. CASE x.list = "edge"
  <2>1. e = AddEdge(d, name, x.item)
    BY <1>2 DEF MergeItem
  <2> HIDE DEF e
  <2> QED  BY <1>2, <2>1, EdgeAdded DEF HeardItem, DrawnItem, e
<1>3. CASE x.list = "subgraph"
  <2>1. e = AddSubgraph(d, name, x.item)
    BY <1>3 DEF MergeItem
  <2> HIDE DEF e
  <2> QED  BY <1>3, <2>1, SubgraphAdded DEF HeardItem, DrawnItem, e
<1>4. CASE x.list = "component"
  <2>1. e = MergeElement(d, x.item.name, ProseKind(x.item.kind), x.item.tags)
    BY <1>4 DEF MergeItem
  <2> HIDE DEF e
  <2> QED  BY <1>4, <2>1, ElementMerged DEF HeardItem, e
<1>5. CASE x.list = "actor"
  <2>1. e = MergeElement(d, x.item, "external_entity", {})
    BY <1>5 DEF MergeItem
  <2> HIDE DEF e
  <2> QED  BY <1>5, <2>1, ElementMerged DEF HeardItem, e
<1>6. CASE x.list = "flow"
  <2>1. e = MergeFlow(d, x.item)
    BY <1>6 DEF MergeItem
  <2> HIDE DEF e
  <2> QED  BY <1>6, <2>1, FlowMerged DEF HeardItem, e
<1>7. CASE x.list = "asset"
  <2>1. e = MergeAsset(d, x.item)
    BY <1>7 DEF MergeItem
  <2> HIDE DEF e
  <2> QED  BY <1>7, <2>1, AssetMerged DEF HeardItem, e
<1>8. CASE x.list = "zone"
  <2>1. e = MergeZone(d, x.item)
    BY <1>8 DEF MergeItem
  <2> HIDE DEF e
  <2> QED  BY <1>8, <2>1, ZoneMerged DEF HeardItem, e
<1>9. CASE x.list = "control"
  <2>1. e = MergeControl(d, x.item)
    BY <1>9 DEF MergeItem
  <2> HIDE DEF e
  <2> QED  BY <1>9, <2>1, ControlMerged DEF HeardItem, e
<1> QED  BY <1>1, <1>2, <1>3, <1>4, <1>5, <1>6, <1>7, <1>8, <1>9 DEF ItemLists

(* The drafts between one item and the next. *)
Merges(d, name, items, f, n) ==
  f = [i \in 0..n |-> IF i = 0 THEN d ELSE MergeItem(f[i - 1], name, items[i])]

LEMMA MergesExist ==
  ASSUME NEW d, NEW name, NEW items, NEW n \in Nat
  PROVE  \E f : Merges(d, name, items, f, n)
<1> DEFINE step(f, i) == IF i = 0 THEN d ELSE MergeItem(f[i - 1], name, items[i])
           M == {m \in 0..n : \E f : f = [i \in 0..m |-> step(f, i)]}
<1>1. 0 \in M
  <2> DEFINE g == [i \in 0..0 |-> d]
  <2>1. g = [i \in 0..0 |-> step(g, i)]
    OBVIOUS
  <2>2. \E f : f = [i \in 0..0 |-> step(f, i)]
    BY <2>1
  <2> QED  BY <2>2
<1>2. ASSUME NEW m \in 0..n, m + 1 \in 0..n, m \in M PROVE m + 1 \in M
  <2>1. PICK g : g = [i \in 0..m |-> step(g, i)]
    BY <1>2
  <2> DEFINE h == [i \in 0..(m + 1) |-> IF i = m + 1 THEN step(g, i) ELSE g[i]]
  <2>2. ASSUME NEW i \in 0..(m + 1) PROVE h[i] = step(h, i)
    <3>1. CASE i = m + 1
      <4>1. m \in 0..m /\ m \in 0..(m + 1) /\ m # m + 1 /\ i - 1 = m /\ i # 0
        BY <3>1
      <4>2. h[i - 1] = g[i - 1] /\ h[i] = step(g, i)
        BY <3>1, <4>1
      <4> HIDE DEF h
      <4> QED  BY <4>2
    <3>2. CASE i # m + 1
      <4>1. i \in 0..m /\ i \in Nat
        BY <3>2
      <4>2. h[i] = g[i] /\ g[i] = step(g, i)
        BY <2>1, <3>2, <4>1
      <4>3. i # 0 => h[i - 1] = g[i - 1]
        <5>1. i # 0 => i - 1 \in 0..(m + 1) /\ i - 1 # m + 1
          BY <4>1
        <5> QED  BY <5>1
      <4> HIDE DEF h
      <4> QED  BY <4>2, <4>3
    <3> QED  BY <3>1, <3>2
  <2>3. h = [i \in 0..(m + 1) |-> step(h, i)]
    <3>1. h = [i \in 0..(m + 1) |-> h[i]]
      OBVIOUS
    <3> HIDE DEF h
    <3> QED  BY <2>2, <3>1
  <2>4. \E f : f = [i \in 0..(m + 1) |-> step(f, i)]
    <3> HIDE DEF h
    <3> QED  BY <2>3
  <2> QED  BY <1>2, <2>4
<1> HIDE DEF M
<1>3. n \in M
  BY <1>1, <1>2, UpTo
<1> QED  BY <1>3 DEF M, Merges

(* One item after the other, so all of them. *)
LEMMA AllMerged ==
  ASSUME NEW d, DraftInv(d), NEW name, NEW items, IsList(items),
         \A x \in Range(items) : x.list \in ItemLists /\ DrawnItem(name, x)
  PROVE  LET e == MergeAll(d, name, items) IN
         /\ DraftInv(e) /\ Keeps(d, e)
         /\ \A x \in Range(items) : HeardItem(e, x)
<1> DEFINE n == Len(items)
           e == MergeAll(d, name, items)
           f == CHOOSE g : Merges(d, name, items, g, n)
<1>0. n \in Nat /\ DOMAIN items = 1..n
  BY ListIs
<1>1. e = f[n]
  BY DEF MergeAll, Merges
<1>2. Merges(d, name, items, f, n)
  BY <1>0, MergesExist
<1> HIDE DEF n, e, f
<1> DEFINE Good(i) == /\ DraftInv(f[i]) /\ Keeps(d, f[i])
                      /\ \A j \in 1..i : HeardItem(f[i], items[j])
           S == {i \in 0..n : Good(i)}
<1>3. 0 \in S
  <2>1. f[0] = d /\ 0 \in 0..n
    BY <1>0, <1>2 DEF Merges
  <2>2. Keeps(d, d)
    BY DEF Keeps
  <2> QED  BY <2>1, <2>2
<1>4. ASSUME NEW i \in 0..n, i + 1 \in 0..n, i \in S PROVE i + 1 \in S
  <2> DEFINE r == i + 1
  <2>1. /\ i \in Nat /\ r \in 1..n /\ r \in 0..n /\ r # 0 /\ r - 1 = i
        /\ \A j \in 1..r : j = r \/ j \in 1..i
    BY <1>0, <1>4
  <2>2. DraftInv(f[i]) /\ Keeps(d, f[i]) /\ \A j \in 1..i : HeardItem(f[i], items[j])
    BY <1>4
  <2> HIDE DEF r
  <2>3. f[r] = MergeItem(f[i], name, items[r])
    BY <1>2, <2>1 DEF Merges
  <2>4. items[r].list \in ItemLists /\ DrawnItem(name, items[r])
    BY <1>0, <2>1 DEF Range
  <2>5. DraftInv(f[r]) /\ Keeps(f[i], f[r]) /\ HeardItem(f[r], items[r])
    BY <2>2, <2>3, <2>4, ItemMerged
  <2>6. ASSUME NEW j \in 1..r PROVE HeardItem(f[r], items[j])
    BY <2>1, <2>2, <2>5, ItemHeardOn
  <2>7. Keeps(d, f[r])
    BY <2>2, <2>5, KeepsOn
  <2> QED  BY <2>1, <2>5, <2>6, <2>7 DEF r
<1>u. PICK T : T = S
  OBVIOUS
<1> HIDE DEF S
<1>5. n \in S
  <2>1. 0 \in T /\ \A i \in 0..n : i + 1 \in 0..n /\ i \in T => i + 1 \in T
    BY <1>u, <1>3, <1>4
  <2>2. PICK m \in Nat : m = n
    BY <1>0
  <2>3. \A i \in 0..m : i \in T
    BY <2>1, <2>2, UpTo
  <2> QED  BY <1>u, <2>2, <2>3
<1>6. Good(n)
  BY <1>5 DEF S
<1>7. ASSUME NEW x \in Range(items) PROVE HeardItem(e, x)
  BY <1>0, <1>1, <1>6 DEF Range
<1> QED  BY <1>1, <1>6, <1>7 DEF e

(* The items of a diagram and of an extraction. *)
LEMMA ListsJoined ==
  ASSUME NEW s, IsList(s), NEW t, IsList(t)
  PROVE  IsList(s \o t) /\ Range(s \o t) = Range(s) \cup Range(t)
<1> DEFINE S == Range(s) \cup Range(t)
<1>1. s \in Seq(S) /\ t \in Seq(S)
  BY DEF IsList
<1>2. s \o t \in Seq(S)
  BY <1>1
<1>3. IsList(s \o t)
  BY <1>2, IsAList
<1>4. /\ Len(s) \in Nat /\ Len(t) \in Nat /\ DOMAIN s = 1..Len(s) /\ DOMAIN t = 1..Len(t)
      /\ Len(s \o t) = Len(s) + Len(t) /\ DOMAIN (s \o t) = 1..(Len(s) + Len(t))
  BY <1>1, <1>2
<1>5. \A i \in 1..(Len(s) + Len(t)) : (s \o t)[i] = IF i =< Len(s) THEN s[i] ELSE t[i - Len(s)]
  BY <1>1
<1> DEFINE u == s \o t
<1> HIDE DEF u
<1>6. ASSUME NEW x \in Range(u) PROVE x \in S
  <2>1. PICK i \in 1..(Len(s) + Len(t)) : x = u[i]
    BY <1>4, <1>6 DEF Range, u
  <2>2. CASE i =< Len(s)
    BY <1>4, <1>5, <2>1, <2>2 DEF Range, u
  <2>3. CASE ~(i =< Len(s))
    <3>1. i - Len(s) \in 1..Len(t)
      BY <1>4, <2>1, <2>3
    <3> QED  BY <1>4, <1>5, <2>1, <2>3, <3>1 DEF Range, u
  <2> QED  BY <2>2, <2>3
<1>7. ASSUME NEW x \in Range(s) PROVE x \in Range(u)
  <2>1. PICK i \in 1..Len(s) : x = s[i]
    BY <1>4 DEF Range
  <2>2. i \in 1..(Len(s) + Len(t)) /\ i =< Len(s)
    BY <1>4, <2>1
  <2> QED  BY <1>4, <1>5, <2>1, <2>2 DEF Range, u
<1>8. ASSUME NEW x \in Range(t) PROVE x \in Range(u)
  <2>1. PICK i \in 1..Len(t) : x = t[i]
    BY <1>4 DEF Range
  <2> DEFINE j == Len(s) + i
  <2>2. j \in 1..(Len(s) + Len(t)) /\ ~(j =< Len(s)) /\ j - Len(s) = i
    BY <1>4, <2>1
  <2> HIDE DEF j
  <2>3. u[j] = t[i]
    BY <1>5, <2>2 DEF u
  <2> QED  BY <1>4, <2>1, <2>2, <2>3 DEF Range, u
<1> QED  BY <1>3, <1>6, <1>7, <1>8 DEF u

LEMMA TaggedIs ==
  ASSUME NEW list, NEW s, IsList(s)
  PROVE  /\ IsList(Tagged(list, s)) /\ \A x \in Range(Tagged(list, s)) : x.list = list /\ x.item \in Range(s)
         /\ \A y \in Range(s) : \E x \in Range(Tagged(list, s)) : x.list = list /\ x.item = y
<1> DEFINE t == Tagged(list, s)
<1>1. DOMAIN t = DOMAIN s /\ t = [i \in DOMAIN t |-> t[i]] /\ \A i \in DOMAIN s : t[i] = [list |-> list, item |-> s[i]]
  BY DEF Tagged
<1> HIDE DEF t
<1>2. IsList(t)
  BY <1>1, ListUpdated
<1>3. \A x \in Range(t) : x.list = list /\ x.item \in Range(s)
  BY <1>1 DEF Range
<1>4. ASSUME NEW y \in Range(s) PROVE \E x \in Range(t) : x.list = list /\ x.item = y
  <2>1. PICK i \in DOMAIN s : y = s[i]
    BY DEF Range
  <2>2. t[i] \in Range(t) /\ t[i].list = list /\ t[i].item = y
    BY <1>1, <2>1 DEF Range
  <2> QED  BY <2>2
<1> QED  BY <1>2, <1>3, <1>4 DEF t

LEMMA DiagramItemsAre ==
  ASSUME NEW m, IsList(m.nodes), IsList(m.edges), IsList(m.subgraphs)
  PROVE  /\ IsList(DiagramItems(m))
         /\ \A x \in Range(DiagramItems(m)) :
              /\ x.list \in ItemLists
              /\ x.list = "edge" => x.item \in Range(m.edges)
              /\ x.list = "subgraph" => x.item \in Range(m.subgraphs)
<1> DEFINE a == Tagged("node", m.nodes)
           b == Tagged("edge", m.edges)
           c == Tagged("subgraph", m.subgraphs)
<1>1. IsList(a) /\ IsList(b) /\ IsList(c)
  BY TaggedIs
<1>2. /\ \A x \in Range(a) : x.list = "node"
      /\ \A x \in Range(b) : x.list = "edge" /\ x.item \in Range(m.edges)
      /\ \A x \in Range(c) : x.list = "subgraph" /\ x.item \in Range(m.subgraphs)
  BY TaggedIs
<1>3. DiagramItems(m) = (a \o b) \o c
  BY DEF DiagramItems
<1> HIDE DEF a, b, c
<1>4. IsList(a \o b) /\ Range(a \o b) = Range(a) \cup Range(b)
  BY <1>1, ListsJoined
<1>5. IsList((a \o b) \o c) /\ Range((a \o b) \o c) = Range(a \o b) \cup Range(c)
  BY <1>1, <1>4, ListsJoined
<1> QED  BY <1>2, <1>3, <1>4, <1>5 DEF ItemLists

LEMMA ProseItemsAre ==
  ASSUME NEW p, IsList(p.components), IsList(p.actors), IsList(p.flows), IsList(p.assets), IsList(p.zones),
         IsList(p.controls)
  PROVE  /\ IsList(ProseItems(p)) /\ \A x \in Range(ProseItems(p)) : x.list \in ItemLists \ {"edge", "subgraph"}
         /\ \A y \in Range(p.components) : \E x \in Range(ProseItems(p)) : x.list = "component" /\ x.item = y
         /\ \A y \in Range(p.actors) : \E x \in Range(ProseItems(p)) : x.list = "actor" /\ x.item = y
         /\ \A y \in Range(p.flows) : \E x \in Range(ProseItems(p)) : x.list = "flow" /\ x.item = y
         /\ \A y \in Range(p.assets) : \E x \in Range(ProseItems(p)) : x.list = "asset" /\ x.item = y
<1> DEFINE a == Tagged("component", p.components)
           b == Tagged("actor", p.actors)
           c == Tagged("flow", p.flows)
           d == Tagged("asset", p.assets)
           e == Tagged("zone", p.zones)
           f == Tagged("control", p.controls)
<1>1. IsList(a) /\ IsList(b) /\ IsList(c) /\ IsList(d) /\ IsList(e) /\ IsList(f)
  BY TaggedIs
<1>2. /\ \A x \in Range(a) : x.list \in ItemLists \ {"edge", "subgraph"}
      /\ \A x \in Range(b) : x.list \in ItemLists \ {"edge", "subgraph"}
      /\ \A x \in Range(c) : x.list \in ItemLists \ {"edge", "subgraph"}
      /\ \A x \in Range(d) : x.list \in ItemLists \ {"edge", "subgraph"}
      /\ \A x \in Range(e) : x.list \in ItemLists \ {"edge", "subgraph"}
      /\ \A x \in Range(f) : x.list \in ItemLists \ {"edge", "subgraph"}
  BY TaggedIs DEF ItemLists
<1>3. /\ \A y \in Range(p.components) : \E x \in Range(a) : x.list = "component" /\ x.item = y
      /\ \A y \in Range(p.actors) : \E x \in Range(b) : x.list = "actor" /\ x.item = y
      /\ \A y \in Range(p.flows) : \E x \in Range(c) : x.list = "flow" /\ x.item = y
      /\ \A y \in Range(p.assets) : \E x \in Range(d) : x.list = "asset" /\ x.item = y
  BY TaggedIs
<1>4. ProseItems(p) = ((((a \o b) \o c) \o d) \o e) \o f
  BY DEF ProseItems
<1> HIDE DEF a, b, c, d, e, f
<1>5. IsList(a \o b) /\ Range(a \o b) = Range(a) \cup Range(b)
  BY <1>1, ListsJoined
<1> DEFINE g == a \o b
<1> HIDE DEF g
<1>6. IsList(g \o c) /\ Range(g \o c) = Range(g) \cup Range(c)
  BY <1>1, <1>5, ListsJoined DEF g
<1> DEFINE h == g \o c
<1> HIDE DEF h
<1>7. IsList(h \o d) /\ Range(h \o d) = Range(h) \cup Range(d)
  BY <1>1, <1>6, ListsJoined DEF h
<1> DEFINE i == h \o d
<1> HIDE DEF i
<1>8. IsList(i \o e) /\ Range(i \o e) = Range(i) \cup Range(e)
  BY <1>1, <1>7, ListsJoined DEF i
<1> DEFINE j == i \o e
<1> HIDE DEF j
<1>9. IsList(j \o f) /\ Range(j \o f) = Range(j) \cup Range(f)
  BY <1>1, <1>8, ListsJoined DEF j
<1>10. ProseItems(p) = j \o f
  BY <1>4 DEF g, h, i, j
<1>11. Range(j \o f) = Range(a) \cup Range(b) \cup Range(c) \cup Range(d) \cup Range(e) \cup Range(f)
  BY <1>5, <1>6, <1>7, <1>8, <1>9 DEF g, h, i, j
<1> QED  BY <1>2, <1>3, <1>9, <1>10, <1>11

(* What the diagrams of a document have is drawn. *)
LEMMA DrawnIs ==
  ASSUME NEW y \in Range(documents), NEW m \in Range(y.diagrams) \ {Unparsed}
  PROVE  /\ \A e \in Range(m.edges) : << <<y.name, e.source>>, <<y.name, e.target>> >> \in DrawnEdges
         /\ \A s \in Range(m.subgraphs) : s.title \in DrawnZones
<1> DEFINE g == [name |-> y.name, diagram |-> m]
<1>1. g \in Drawings
  BY DEF Drawings
<1>2. g.name = y.name /\ g.diagram = m
  OBVIOUS
<1> HIDE DEF g
<1>3. /\ \A e \in Range(g.diagram.edges) : << <<g.name, e.source>>, <<g.name, e.target>> >> \in DrawnEdges
      /\ \A s \in Range(g.diagram.subgraphs) : s.title \in DrawnZones
  BY <1>1 DEF DrawnEdges, DrawnZones
<1> QED  BY <1>2, <1>3

-----------------------------------------------------------------------------

(* What a document's prose says has been heard. *)
HeardAll(d, p) ==
  /\ \A item \in Range(p.components) : HeardOf(d, item.name, ProseKind(item.kind))
  /\ \A actor \in Range(p.actors) : HeardOf(d, actor, "external_entity")
  /\ \A item \in Range(p.flows) : Heard(d, item)
  /\ \A item \in Range(p.assets) : HeardAsset(d, item)

(* The draft in hand is sound, has heard what the documents that are done  *)
(* with say, and what was made of it follows from it.                      *)
BuildInv ==
  /\ documents \in DocumentLists /\ doc \in Nat \ {0} /\ block \in Nat \ {0}
  /\ DraftInv(draft)
  /\ \A i \in 1..(doc - 1) : i \in DOMAIN documents /\ HeardAll(draft, documents[i].prose)
  /\ \A f \in findings : f.kind # "dangling_flow"
  /\ phase = "frozen" =>
       frozen = [model |-> FreezeDraft(draft), outOfScope |-> DetectOutOfScope(FreezeDraft(draft))]

LEMMA EmptyIsSound == DraftInv(EmptyBuilder)
<1> DEFINE d == EmptyBuilder
<1>1. /\ IsDraft(d) /\ d.components = <<>> /\ d.actors = <<>> /\ d.flows = <<>> /\ d.zones = <<>> /\ d.assets = <<>>
      /\ d.controls = <<>> /\ d.assumptions = {} /\ d.names = <<>> /\ d.nodes = <<>>
  BY DEF EmptyBuilder, IsDraft, Columns
<1> HIDE DEF d
<1>2. DOMAIN <<>> = {}
  OBVIOUS
<1>3. IsList(<<>>)
  <2>1. <<>> \in Seq({})
    OBVIOUS
  <2> QED  BY <2>1, IsAList
<1>4. ElementIds(d) = {}
  BY <1>1, <1>2 DEF ElementIds
<1>5. Shaped(d)
  BY <1>1, <1>2, <1>3 DEF Shaped
<1>6. NamesAgree(d) /\ Resolved(d) /\ InLedger(d) /\ Placed(d)
  BY <1>1, <1>2, <1>4 DEF NamesAgree, Resolved, InLedger, Placed
<1> QED  BY <1>5, <1>6 DEF DraftInv, d

LEMMA BuildInvInit == BuildInit => BuildInv
<1> SUFFICES ASSUME BuildInit PROVE BuildInv
  OBVIOUS
<1>1. /\ documents \in DocumentLists /\ doc = 1 /\ block = 1 /\ draft = EmptyBuilder /\ findings = {} /\ phase = "merging"
  BY DEF BuildInit
<1>2. 1..(doc - 1) = {}
  BY <1>1
<1> QED  BY <1>1, <1>2, EmptyIsSound DEF BuildInv

(* So with a whole document. *)
LEMMA AllHeardOn ==
  ASSUME NEW d, NEW e, DraftInv(d), Keeps(d, e), NEW p, HeardAll(d, p)
  PROVE  HeardAll(e, p)
BY HeardOn, ElementHeardOn, AssetHeardOn DEF HeardAll

LEMMA DocumentsStayHeard ==
  ASSUME BuildInv, NEW d, Keeps(draft, d)
  PROVE  \A i \in 1..(doc - 1) : HeardAll(d, documents[i].prose)
BY AllHeardOn DEF BuildInv

(* The drawings stay the same, so what is sound stays sound. *)
LEMMA SoundLater ==
  ASSUME documents' = documents, NEW e, e = draft', DraftInv(e)
  PROVE  DraftInv(draft)'
<1>1. DrawnEdges' = DrawnEdges /\ DrawnZones' = DrawnZones
  BY DEF DrawnEdges, DrawnZones, Drawings
<1> QED  BY <1>1 DEF DraftInv, InLedger, FlowTold, IsDrawn

(* A draft that is sound has nothing to dangle. *)
LEMMA NothingDangles ==
  ASSUME NEW d, DraftInv(d), NEW f \in CheckCompleteness(d)
  PROVE  f.kind # "dangling_flow"
<1>1. DanglingFlows(d) = {}
  BY DEF DanglingFlows, Flows, DraftInv, Resolved
<1>2. f \in {Finding("sourceless_sink", x) : x \in SourcelessSinks(d)} \cup
           {Finding("unclassified_asset", x) : x \in UnclassifiedAssets(d)} \cup
           {Finding("untagged_boundary_crossing", x) : x \in UntaggedCrossings(d)}
  BY <1>1 DEF CheckCompleteness
<1> QED  BY <1>2 DEF Finding

LEMMA BuildInvNext == BuildInv /\ [BuildNext]_buildVars => BuildInv'
<1> SUFFICES ASSUME BuildInv, [BuildNext]_buildVars PROVE BuildInv'
  OBVIOUS
<1>0. /\ documents \in DocumentLists /\ doc \in Nat \ {0} /\ block \in Nat \ {0} /\ DraftInv(draft)
      /\ IsList(documents) /\ DOMAIN documents = 1..Len(documents) /\ Len(documents) \in Nat
  BY DocumentsAssumption, ListIs DEF BuildInv
<1>d. ASSUME More
      PROVE  /\ phase = "merging" /\ doc \in DOMAIN documents /\ Document \in Range(documents) /\ IsList(Document.diagrams)
             /\ \A l \in {"components", "actors", "flows", "assets", "zones", "controls"} : IsList(Document.prose[l])
             /\ \A m \in Range(Document.diagrams) \ {Unparsed} : \A l \in {"nodes", "edges", "subgraphs"} : IsList(m[l])
  <2>1. phase = "merging" /\ doc \in DOMAIN documents /\ Document \in Range(documents)
    BY <1>0, <1>d DEF More, Document, Range
  <2> QED  BY <1>0, <2>1, DocumentsAssumption
<1>1. CASE ParseAndAdd
  <2> DEFINE m == Document.diagrams[block]
             items == DiagramItems(m)
  <2>1. /\ More /\ block =< Len(Document.diagrams) /\ m # Unparsed /\ draft' = MergeAll(draft, Document.name, items)
        /\ block' = block + 1 /\ UNCHANGED <<documents, doc, findings, frozen, phase>>
    BY <1>1 DEF ParseAndAdd
  <2>2. m \in Range(Document.diagrams) \ {Unparsed}
    <3>1. DOMAIN Document.diagrams = 1..Len(Document.diagrams) /\ Len(Document.diagrams) \in Nat
      BY <1>d, <2>1, ListIs
    <3>2. block \in 1..Len(Document.diagrams)
      BY <1>0, <2>1, <3>1
    <3> QED  BY <2>1, <3>1, <3>2 DEF Range
  <2>3. IsList(m["nodes"]) /\ IsList(m["edges"]) /\ IsList(m["subgraphs"])
    BY <1>d, <2>1, <2>2
  <2> HIDE DEF m
  <2>4. IsList(items) /\ \A x \in Range(items) : x.list \in ItemLists /\ DrawnItem(Document.name, x)
    <3>1. /\ IsList(items)
          /\ \A x \in Range(items) :
               /\ x.list \in ItemLists
               /\ x.list = "edge" => x.item \in Range(m.edges)
               /\ x.list = "subgraph" => x.item \in Range(m.subgraphs)
      BY <2>3, DiagramItemsAre
    <3> HIDE DEF items
    <3>2. /\ \A e \in Range(m.edges) : << <<Document.name, e.source>>, <<Document.name, e.target>> >> \in DrawnEdges
          /\ \A s \in Range(m.subgraphs) : s.title \in DrawnZones
      <4>1. PICK y \in Range(documents) : y = Document
        BY <1>d, <2>1
      <4> QED  BY <2>2, <4>1, DrawnIs
    <3> QED  BY <3>1, <3>2 DEF DrawnItem
  <2> HIDE DEF items
  <2>5. PICK e : e = draft'
    OBVIOUS
  <2>6. DraftInv(e) /\ Keeps(draft, e)
    BY <1>0, <2>1, <2>4, <2>5, AllMerged
  <2>7. \A i \in 1..(doc - 1) : HeardAll(e, documents[i].prose)
    BY <2>6, DocumentsStayHeard
  <2>8. block' \in Nat \ {0} /\ phase' # "frozen"
    BY <1>0, <1>d, <2>1
  <2>9. DraftInv(draft)'
    BY <2>1, <2>5, <2>6, SoundLater
  <2> QED  BY <2>1, <2>5, <2>7, <2>8, <2>9 DEF BuildInv
<1>2. CASE ParseFails
  <2> DEFINE e == [draft EXCEPT !.assumptions = @ \cup {Assume("default", <<"document", Document.name>>, <<"unparsed">>)}]
  <2>1. More /\ draft' = e /\ block' = block + 1 /\ UNCHANGED <<documents, doc, findings, frozen, phase>>
    BY <1>2 DEF ParseFails
  <2>2. FlowsOnly(draft, e) /\ e.flows = draft.flows
    BY <1>0 DEF FlowsOnly, IsDraft, Columns, DraftInv, Shaped
  <2>3. DraftInv(e) /\ Keeps(draft, e)
    <3> HIDE DEF e
    <3>1. Shaped(draft) /\ Resolved(draft) /\ InLedger(draft)
      BY <1>0 DEF DraftInv
    <3>2. \A i \in DOMAIN e.flows : FlowTold(e, e.flows[i])
      <4>1. draft.assumptions \subseteq e.assumptions /\ \A k \in DOMAIN draft.nodes : k \in DOMAIN e.nodes /\ e.nodes[k] = draft.nodes[k]
        BY <2>2 DEF FlowsOnly
      <4> QED  BY <2>2, <3>1, <4>1, ToldOn DEF InLedger
    <3>3. /\ DraftInv(e) /\ ElementIds(e) = ElementIds(draft)
          /\ \A x \in ElementIds(draft) : KindIn(e, x) = KindIn(draft, x)
      BY <1>0, <2>2, <3>1, <3>2, FlowsChange DEF Shaped, Resolved
    <3> QED  BY <2>2, <3>3 DEF Keeps, FlowsOnly
  <2>7. \A i \in 1..(doc - 1) : HeardAll(e, documents[i].prose)
    <3> HIDE DEF e
    <3> QED  BY <2>3, DocumentsStayHeard
  <2>8. block' \in Nat \ {0} /\ phase' # "frozen"
    BY <1>0, <1>d, <2>1
  <2>9. PICK g : g = e
    OBVIOUS
  <2> HIDE DEF e
  <2>10. DraftInv(draft)'
    BY <2>1, <2>3, <2>9, SoundLater
  <2> QED  BY <2>1, <2>7, <2>8, <2>9, <2>10 DEF BuildInv
<1>3. CASE AddExtraction
  <2> DEFINE p == Document.prose
             items == ProseItems(p)
  <2>1. /\ More /\ draft' = MergeAll(draft, Document.name, items)
        /\ doc' = doc + 1 /\ block' = 1 /\ UNCHANGED <<documents, findings, frozen, phase>>
    BY <1>3 DEF AddExtraction
  <2>2. IsList(p["components"]) /\ IsList(p["actors"]) /\ IsList(p["flows"]) /\ IsList(p["assets"]) /\ IsList(p["zones"])
        /\ IsList(p["controls"])
    BY <1>d, <2>1
  <2>3. p = documents[doc].prose /\ doc \in DOMAIN documents
    BY <1>d, <2>1 DEF Document
  <2> HIDE DEF p
  <2>4. /\ IsList(items) /\ \A x \in Range(items) : x.list \in ItemLists /\ DrawnItem(Document.name, x)
        /\ \A y \in Range(p.components) : \E x \in Range(items) : x.list = "component" /\ x.item = y
        /\ \A y \in Range(p.actors) : \E x \in Range(items) : x.list = "actor" /\ x.item = y
        /\ \A y \in Range(p.flows) : \E x \in Range(items) : x.list = "flow" /\ x.item = y
        /\ \A y \in Range(p.assets) : \E x \in Range(items) : x.list = "asset" /\ x.item = y
    BY <2>2, ProseItemsAre DEF DrawnItem
  <2> HIDE DEF items
  <2>5. PICK e : e = draft'
    OBVIOUS
  <2>6. DraftInv(e) /\ Keeps(draft, e) /\ \A x \in Range(items) : HeardItem(e, x)
    BY <1>0, <2>1, <2>4, <2>5, AllMerged
  <2>7. \A i \in 1..(doc - 1) : HeardAll(e, documents[i].prose)
    BY <2>6, DocumentsStayHeard
  <2>8. HeardAll(e, documents[doc].prose)
    BY <2>3, <2>4, <2>6 DEF HeardItem, HeardAll
  <2>9. doc' \in Nat \ {0} /\ block' \in Nat \ {0} /\ phase' # "frozen" /\ \A i \in 1..(doc' - 1) : i = doc \/ i \in 1..(doc - 1)
    BY <1>0, <1>d, <2>1
  <2>10. ASSUME NEW i \in 1..(doc' - 1) PROVE i \in DOMAIN documents /\ HeardAll(e, documents[i].prose)
    BY <2>3, <2>7, <2>8, <2>9 DEF BuildInv
  <2>11. \A f \in findings : f.kind # "dangling_flow"
    BY DEF BuildInv
  <2>12. DraftInv(draft)'
    BY <2>1, <2>5, <2>6, SoundLater
  <2> QED  BY <1>0, <2>1, <2>5, <2>9, <2>10, <2>11, <2>12 DEF BuildInv
<1>4. CASE CheckDraft
  <2>1. /\ findings' = CheckCompleteness(draft) /\ phase' = "checked" /\ UNCHANGED <<documents, doc, block, draft, frozen>>
    BY <1>4 DEF CheckDraft
  <2>2. \A f \in findings' : f.kind # "dangling_flow"
    BY <1>0, <2>1, NothingDangles
  <2>3. DraftInv(draft)'
    BY <1>0, <2>1, SoundLater
  <2> QED  BY <2>1, <2>2, <2>3 DEF BuildInv
<1>5. CASE FreezeTheDraft
  <2>1. /\ frozen' = [model |-> FreezeDraft(draft), outOfScope |-> DetectOutOfScope(FreezeDraft(draft))]
        /\ UNCHANGED <<documents, doc, block, draft, findings>>
    BY <1>5 DEF FreezeTheDraft
  <2>2. DraftInv(draft)'
    BY <1>0, <2>1, SoundLater
  <2> QED  BY <2>1, <2>2 DEF BuildInv
<1>6. CASE UNCHANGED buildVars
  <2>1. UNCHANGED <<documents, draft>>
    BY <1>6 DEF buildVars
  <2>2. DraftInv(draft)'
    BY <1>0, <2>1, SoundLater
  <2> QED  BY <1>6, <2>2 DEF BuildInv, buildVars
<1> QED  BY <1>1, <1>2, <1>3, <1>4, <1>5, <1>6 DEF BuildNext

LEMMA NamesOf ==
  ASSUME NEW x
  PROVE  NameOf(x) = NameIn(draft, x) /\ KindOf(x) = KindIn(draft, x)
BY DEF NameOf, NameIn, KindOf, KindIn

LEMMA ScopeIs ==
  ASSUME NEW c
  PROVE  ScopeCategory(c) # "in_scope" <=> c.marks \cap (OtIndicated \cup MobileIndicated) # {}
<1>1. CASE c.marks \cap OtIndicated # {}
  <2>1. ScopeCategory(c) = "ot_ics"
    BY <1>1 DEF ScopeCategory
  <2> QED  BY <1>1, <2>1
<1>2. CASE c.marks \cap OtIndicated = {} /\ c.marks \cap MobileIndicated # {}
  <2>1. ScopeCategory(c) = "mobile_client"
    BY <1>2 DEF ScopeCategory
  <2> QED  BY <1>2, <2>1
<1>3. CASE c.marks \cap OtIndicated = {} /\ c.marks \cap MobileIndicated = {}
  <2>1. ScopeCategory(c) = "in_scope"
    BY <1>3 DEF ScopeCategory
  <2> QED  BY <1>3, <2>1
<1> QED  BY <1>1, <1>2, <1>3

(* What is frozen: a zone that there is, for each element. *)
LEMMA FrozenIs ==
  ASSUME NEW d, DraftInv(d)
  PROVE  LET m == FreezeDraft(d) IN
         /\ DOMAIN m.components = ElementIds(d)
         /\ \A c \in Range(m.components) : c.zone \in m.zones
<1> DEFINE m == FreezeDraft(d)
           unzoned == Len(d.actors) > 0 \/ \E c \in Range(d.components) : c.zone = Unstated
           component(c) == [kind |-> c.kind, zone |-> IF c.zone = Unstated THEN Unclassified ELSE c.zone, marks |-> {c.name} \cup c.tags]
           actor(a) == [kind |-> "external_entity", zone |-> Unclassified, marks |-> {a.name}]
           frozenAs(x) == IF x[1] = "actor" THEN actor(d.actors[x[2]]) ELSE component(d.components[x[2]])
<1>1. m.components = [x \in ElementIds(d) |-> frozenAs(x)]
  BY DEF FreezeDraft
<1>2. m.zones = DOMAIN d.zones \cup IF unzoned THEN {Unclassified} ELSE {}
  BY DEF FreezeDraft
<1> HIDE DEF m
<1>3. ASSUME NEW x \in ElementIds(d) PROVE frozenAs(x).zone \in m.zones
  <2>1. CASE \E i \in DOMAIN d.components : x = <<"component", i>>
    <3>1. PICK i \in DOMAIN d.components : x = <<"component", i>>
      BY <2>1
    <3>2. x[1] # "actor" /\ x[2] = i
      BY <3>1
    <3>3. frozenAs(x).zone = IF d.components[i].zone = Unstated THEN Unclassified ELSE d.components[i].zone
      BY <3>2
    <3>4. d.components[i].zone = Unstated => unzoned
      BY DEF Range
    <3>5. d.components[i].zone # Unstated => d.components[i].zone \in DOMAIN d.zones
      BY DEF DraftInv, Placed
    <3> HIDE DEF unzoned, frozenAs
    <3> QED  BY <1>2, <3>3, <3>4, <3>5
  <2>2. CASE \E i \in DOMAIN d.actors : x = <<"actor", i>>
    <3>1. PICK i \in DOMAIN d.actors : x = <<"actor", i>>
      BY <2>2
    <3>2. frozenAs(x).zone = Unclassified
      BY <3>1
    <3>3. unzoned
      BY ListIs DEF DraftInv, Shaped
    <3> QED  BY <1>2, <3>2, <3>3
  <2> QED  BY <2>1, <2>2, ElementIs
<1> HIDE DEF frozenAs
<1>4. ASSUME NEW c \in Range(m.components) PROVE c.zone \in m.zones
  BY <1>1, <1>3 DEF Range
<1> QED  BY <1>1, <1>4 DEF m

(* The invariant is what the property asks of the draft in hand. *)
LEMMA BuildInvIsSound == BuildInv => DraftSound
<1> SUFFICES ASSUME BuildInv PROVE DraftSound
  OBVIOUS
<1>1. /\ Shaped(draft) /\ NamesAgree(draft) /\ Resolved(draft) /\ InLedger(draft) /\ Placed(draft) /\ DraftInv(draft)
  BY DEF BuildInv, DraftInv
<1>2. ReferencesResolve
  <2>1. ASSUME NEW x \in ElementIds(draft), NEW y \in ElementIds(draft), x # y PROVE Normalize[NameOf(x)] # Normalize[NameOf(y)]
    BY <1>1, <2>1, NamesOf DEF NamesAgree
  <2>2. ASSUME NEW n \in DOMAIN draft.names
        PROVE  draft.names[n] \in ElementIds(draft) /\ Normalize[NameOf(draft.names[n])] = n
    BY <1>1, NamesOf DEF NamesAgree
  <2>3. /\ \A f \in Range(draft.flows) : {f.source, f.target} \subseteq ElementIds(draft)
        /\ \A z \in Range(draft.zones) : z.members \subseteq ElementIds(draft)
        /\ \A a \in Range(draft.assets) : a.owner \subseteq ElementIds(draft)
        /\ \A c \in Range(draft.controls) : c.appliesTo \subseteq ElementIds(draft)
    BY <1>1 DEF Resolved, Range
  <2> QED  BY <2>1, <2>2, <2>3 DEF ReferencesResolve
<1>3. LedgerTold
  <2>1. UndrawnRecorded
    BY <1>1 DEF InLedger, FlowTold, UndrawnRecorded, OnLedger, Range
  <2>2. ASSUME NEW d \in MergedDocuments, NEW item \in Range(d.prose.flows)
        PROVE  \E i \in DOMAIN draft.flows :
                 /\ draft.flows[i].source = IdOf(draft, item.source) /\ draft.flows[i].target = IdOf(draft, item.target)
                 /\ \A x \in Fields :
                      \/ item.stated[x] \in {Unstated, draft.flows[i].stated[x]}
                      \/ draft.flows[i].stated[x] # Unstated /\ OnLedger("conflict", <<"flow", i>>, <<x, item.stated[x]>>)
    <3>1. Heard(draft, item)
      BY DEF BuildInv, HeardAll, MergedDocuments
    <3> QED  BY <3>1 DEF Heard, Says, OnLedger
  <2>3. ASSUME NEW d \in MergedDocuments, NEW item \in Range(d.prose.components), IdOf(draft, item.name)[1] # "actor"
        PROVE  KindKept(item.name, ProseKind(item.kind))
    <3>1. HeardOf(draft, item.name, ProseKind(item.kind))
      BY DEF BuildInv, HeardAll, MergedDocuments
    <3> QED  BY <2>3, <3>1, NamesOf DEF HeardOf, KindKept, OnLedger
  <2>4. ASSUME NEW d \in MergedDocuments, NEW actor \in Range(d.prose.actors)
        PROVE  KindKept(actor, "external_entity")
    <3>1. HeardOf(draft, actor, "external_entity")
      BY DEF BuildInv, HeardAll, MergedDocuments
    <3> QED  BY <3>1, NamesOf DEF HeardOf, KindKept, OnLedger, KindIn
  <2>5. ASSUME NEW d \in MergedDocuments, NEW item \in Range(d.prose.assets)
        PROVE  \E i \in DOMAIN draft.assets :
                 IF item.class = Unstated
                 THEN draft.assets[i].class = "unclassified" /\ OnLedger("default", <<"asset", i>>, <<"unclassified">>)
                 ELSE draft.assets[i].class = item.class
    <3>1. HeardAsset(draft, item)
      BY DEF BuildInv, HeardAll, MergedDocuments
    <3> QED  BY <3>1 DEF HeardAsset, OnLedger
  <2>6. StatementsKept
    BY <2>2, <2>3, <2>4, <2>5 DEF StatementsKept
  <2> QED  BY <2>1, <2>6 DEF LedgerTold
<1>4. FrozenWhole
  <2> SUFFICES ASSUME phase = "frozen" PROVE FrozenWhole
    BY DEF FrozenWhole
  <2> DEFINE m == FreezeDraft(draft)
  <2>1. frozen = [model |-> m, outOfScope |-> DetectOutOfScope(m)]
    BY DEF BuildInv
  <2>2. DOMAIN m.components = ElementIds(draft) /\ \A c \in Range(m.components) : c.zone \in m.zones
    BY <1>1, FrozenIs
  <2> HIDE DEF m
  <2>3. frozen.model = m /\ frozen.outOfScope = DetectOutOfScope(m)
    BY <2>1
  <2>4. {o.subject : o \in DetectOutOfScope(m)} =
          {x \in ElementIds(draft) : m.components[x].marks \cap (OtIndicated \cup MobileIndicated) # {}}
    <3>1. {o.subject : o \in DetectOutOfScope(m)} = {x \in DOMAIN m.components : ScopeCategory(m.components[x]) # "in_scope"}
      <4> DEFINE S == {x \in DOMAIN m.components : ScopeCategory(m.components[x]) # "in_scope"}
                 mark(x) == [subject |-> x, category |-> ScopeCategory(m.components[x])]
      <4>1. DetectOutOfScope(m) = {mark(x) : x \in S}
        BY DEF DetectOutOfScope
      <4>2. \A x : mark(x).subject = x
        OBVIOUS
      <4> HIDE DEF S, mark
      <4>3. {o.subject : o \in DetectOutOfScope(m)} = S
        BY <4>1, <4>2
      <4> QED  BY <4>3 DEF S
    <3> QED  BY <2>2, <3>1, ScopeIs
  <2>5. \A i \in DOMAIN draft.components :
          draft.components[i].zone # Unstated => <<"component", i>> \in draft.zones[draft.components[i].zone].members
    BY <1>1 DEF Placed
  <2>6. \A f \in findings : f.kind # "dangling_flow"
    BY DEF BuildInv
  <2> QED  BY <2>2, <2>3, <2>4, <2>5, <2>6 DEF FrozenWhole
<1> QED  BY <1>2, <1>3, <1>4 DEF DraftSound

(* Whatever documents there are, however many diagrams and statements each *)
(* has and whatever they agree or disagree about: in the draft every name  *)
(* is one element and every reference an element; the ledger has each      *)
(* element, flow, zone and asset that no diagram draws, each field of a    *)
(* flow and kind of a component that prose states and the draft does not   *)
(* hold, and each default, but no declared control, and nothing of an      *)
(* actor that is called a component; and the frozen model has each element *)
(* in a zone of its own (ModelBuilder, freeze_draft).                      *)
THEOREM DraftsAreSound == BuildSpec => []DraftSound
<1>1. BuildSpec => []BuildInv
  BY BuildInvInit, BuildInvNext, PTL DEF BuildSpec
<1> QED  BY <1>1, BuildInvIsSound, PTL

-----------------------------------------------------------------------------
(* Mitigation.                                                             *)

LEMMA ReductionIsSum ==
  ASSUME NEW roadmap, IsFiniteSet(DOMAIN roadmap), \A i \in DOMAIN roadmap : roadmap[i].reduction \in Int
  PROVE  ReductionOf(roadmap) = SumOver([i \in DOMAIN roadmap |-> roadmap[i].reduction], DOMAIN roadmap)
<1> DEFINE S == DOMAIN roadmap
           score == [i \in S |-> roadmap[i].reduction]
           step(g) == [s \in SUBSET S |->
             IF s = {} THEN 0 ELSE roadmap[CHOOSE x \in s : TRUE].reduction + g[s \ {CHOOSE x \in s : TRUE}]]
           f == CHOOSE g : g = step(g)
<1>1. ReductionOf(roadmap) = f[S]
  BY DEF ReductionOf, FoldSet, MapThenFoldSet
<1>2. PICK g : Sums(score, SUBSET S, g)
  BY SumsExist
<1>3. ASSUME NEW h PROVE Sums(score, SUBSET S, h) <=> h = step(h)
  <2>1. ASSUME NEW s \in SUBSET S
        PROVE  SumOf(score, h, s) =
               IF s = {} THEN 0 ELSE roadmap[CHOOSE x \in s : TRUE].reduction + h[s \ {CHOOSE x \in s : TRUE}]
    BY DEF SumOf
  <2> HIDE DEF score
  <2> QED  BY <2>1 DEF Sums
<1>4. \A i \in S : score[i] \in Int
  OBVIOUS
<1> HIDE DEF step, score
<1>5. f = step(f)
  BY <1>2, <1>3
<1> HIDE DEF f
<1>6. f[S] = SumOver(score, S)
  BY <1>3, <1>4, <1>5, SumsAgree
<1> QED  BY <1>1, <1>6 DEF score

(* Gaps that a roadmap has made smaller. *)
Shrunk(g, h) ==
  /\ DOMAIN h = DOMAIN g
  /\ \A t \in DOMAIN g :
       /\ h[t].absent = g[t].absent /\ h[t].inTier = g[t].inTier
       /\ h[t].defences \subseteq g[t].defences /\ h[t].statements \subseteq g[t].statements

Sound(g) == \A t \in DOMAIN g :
  g[t].absent \in BOOLEAN /\ IsFiniteSet(g[t].inTier) /\ g[t].statements \subseteq g[t].inTier

LEMMA ShareIs ==
  ASSUME NEW m \in Nat, NEW n \in Nat, NEW b \in Nat \ {0}, m =< n, n =< b
  PROVE  /\ (6 * m) \div b \in Nat /\ (6 * n) \div b \in Nat
         /\ (6 * m) \div b =< (6 * n) \div b /\ (6 * n) \div b =< 6
<1> DEFINE x == (6 * m) \div b
           y == (6 * n) \div b
<1>1. x \in Nat /\ b * x =< 6 * m /\ 6 * m < b * x + b
  OBVIOUS
<1>2. y \in Nat /\ b * y =< 6 * n /\ 6 * n < b * y + b
  OBVIOUS
<1> HIDE DEF x, y
<1>3. x =< y
  <2> SUFFICES ASSUME x >= y + 1 PROVE FALSE
    BY <1>1, <1>2
  <2>1. b * x >= b * (y + 1)
    BY <1>1, <1>2
  <2>2. b * (y + 1) = b * y + b
    BY <1>2
  <2>3. b * x \in Int /\ b * y \in Int
    BY <1>1, <1>2
  <2> HIDE DEF x
  <2> QED  BY <1>1, <1>2, <2>1, <2>2, <2>3
<1>4. y =< 6
  <2> SUFFICES ASSUME y >= 7 PROVE FALSE
    BY <1>2
  <2>1. b * y >= b * 7
    BY <1>2
  <2> QED  BY <1>2, <2>1
<1> QED  BY <1>1, <1>2, <1>3, <1>4 DEF x, y

LEMMA DensityIsLess ==
  ASSUME NEW g, NEW h, Shrunk(g, h), Sound(g), NEW t \in DOMAIN g
  PROVE  /\ StatementDensity(g[t]) \in 0..6 /\ StatementDensity(h[t]) \in 0..6
         /\ StatementDensity(h[t]) =< StatementDensity(g[t])
<1> DEFINE A == h[t].statements
           B == g[t].statements
           T == g[t].inTier
<1>1. A \subseteq B /\ B \subseteq T /\ IsFiniteSet(T) /\ h[t].inTier = T /\ h[t].absent = g[t].absent
  BY DEF Shrunk, Sound
<1> HIDE DEF A, B, T
<1>2. /\ Cardinality(A) \in Nat /\ Cardinality(B) \in Nat /\ Cardinality(T) \in Nat
      /\ Cardinality(A) =< Cardinality(B) /\ Cardinality(B) =< Cardinality(T)
  <2>1. IsFiniteSet(A) /\ IsFiniteSet(B)
    BY <1>1, FS_Subset
  <2> QED  BY <1>1, <2>1, FS_Subset, FS_CardinalityType
<1>3. CASE g[t].absent \/ T = {}
  <2>1. StatementDensity(g[t]) = 0 /\ StatementDensity(h[t]) = 0
    BY <1>1, <1>3 DEF StatementDensity, T
  <2> QED  BY <2>1
<1>4. CASE ~(g[t].absent \/ T = {})
  <2>1. Cardinality(T) \in Nat \ {0}
    BY <1>1, <1>2, <1>4, FS_EmptySet
  <2>2. /\ StatementDensity(g[t]) = (6 * Cardinality(B)) \div Cardinality(T)
        /\ StatementDensity(h[t]) = (6 * Cardinality(A)) \div Cardinality(T)
    BY <1>1, <1>4 DEF StatementDensity, DensityUnit, T, A, B
  <2>3. /\ (6 * Cardinality(A)) \div Cardinality(T) \in Nat /\ (6 * Cardinality(B)) \div Cardinality(T) \in Nat
        /\ (6 * Cardinality(A)) \div Cardinality(T) =< (6 * Cardinality(B)) \div Cardinality(T)
        /\ (6 * Cardinality(B)) \div Cardinality(T) =< 6
    BY <1>2, <2>1, ShareIs
  <2> QED  BY <2>2, <2>3
<1> QED  BY <1>3, <1>4

(* The greatest of a set of densities. *)
LEMMA TopIsLess ==
  ASSUME NEW D \in SUBSET (0..6), NEW E \in SUBSET (0..6), D = {} <=> E = {},
         \A d \in D : \E e \in E : d =< e
  PROVE  LET top(X) == IF X = {} THEN 0 ELSE Max(X)
         IN  top(D) \in 0..6 /\ top(E) \in 0..6 /\ top(D) =< top(E)
<1>1. CASE D = {}
  BY <1>1
<1>2. CASE D # {}
  <2>1. PICK d \in D : \A x \in D : x =< d
    <3>1. D \in SUBSET Nat /\ 6 \in Nat /\ \A x \in D : x =< 6
      OBVIOUS
    <3> QED  BY <1>2, <3>1, HasGreatest
  <2>2. PICK e \in E : \A x \in E : x =< e
    <3>1. E \in SUBSET Nat /\ E # {} /\ 6 \in Nat /\ \A x \in E : x =< 6
      BY <1>2
    <3> QED  BY <3>1, HasGreatest
  <2>3. Max(D) = d /\ Max(E) = e
    <3>1. D \in SUBSET Nat /\ E \in SUBSET Nat
      OBVIOUS
    <3>2. Max(D) = d
      BY <2>1, <3>1, MaxIs
    <3>3. Max(E) = e
      BY <2>2, <3>1, MaxIs
    <3> QED  BY <3>2, <3>3
  <2>4. PICK f \in E : d =< f
    OBVIOUS
  <2>5. d \in 0..6 /\ e \in 0..6 /\ f \in 0..6 /\ f =< e
    BY <2>2
  <2>6. d =< e
    BY <2>4, <2>5
  <2>7. E # {}
    BY <1>2
  <2> QED  BY <1>2, <2>3, <2>5, <2>6, <2>7
<1> QED  BY <1>1, <1>2

LEMMA ProductIsLess ==
  ASSUME NEW a \in Nat, NEW m \in Nat, NEW n \in Nat, m =< n
  PROVE  a * m \in Nat /\ a * n \in Nat /\ a * m =< a * n
OBVIOUS

(* What of a path is exposed shrinks with the gaps. *)
LEMMA ScoreIsLess ==
  ASSUME NEW g, NEW h, Shrunk(g, h), Sound(g), NEW path, path.likelihood \in Nat,
         NEW c \in DOMAIN CriticalityWeight, NEW tier \in NoTier..4
  PROVE  LET before == ScorePath(path, g, c, tier)
             after == ScorePath(path, h, c, tier)
         IN  before.score \in Nat /\ after.score \in Nat /\ after.score =< before.score
<1> DEFINE R == TechniquesOf(path) \cap DOMAIN g
           densities(f) == {StatementDensity(x) : x \in {x \in {f[t] : t \in R} : ~x.absent}}
           top(X) == IF X = {} THEN 0 ELSE Max(X)
           w == ImpactWeight(c, tier)
<1>1. DOMAIN h = DOMAIN g /\ \A t \in R : t \in DOMAIN g /\ h[t].absent = g[t].absent
  BY DEF Shrunk
<1>2. /\ ScorePath(path, g, c, tier).score = path.likelihood * w * (6 + top(densities(g)))
      /\ ScorePath(path, h, c, tier).score = path.likelihood * w * (6 + top(densities(h)))
  BY <1>1 DEF ScorePath, DensityUnit
<1> HIDE DEF R
<1>3. \A t \in R : /\ StatementDensity(g[t]) \in 0..6 /\ StatementDensity(h[t]) \in 0..6
                   /\ StatementDensity(h[t]) =< StatementDensity(g[t])
  BY <1>1, DensityIsLess
<1>4. densities(g) \in SUBSET (0..6) /\ densities(h) \in SUBSET (0..6)
  BY <1>3
<1>5. densities(h) = {} <=> densities(g) = {}
  BY <1>1
<1>6. ASSUME NEW d \in densities(h) PROVE \E e \in densities(g) : d =< e
  <2>1. PICK t \in R : d = StatementDensity(h[t]) /\ ~h[t].absent
    OBVIOUS
  <2>2. StatementDensity(g[t]) \in densities(g)
    BY <1>1, <2>1
  <2> QED  BY <1>3, <2>1, <2>2
<1> HIDE DEF densities
<1>7. top(densities(h)) \in 0..6 /\ top(densities(g)) \in 0..6 /\ top(densities(h)) =< top(densities(g))
  BY <1>4, <1>5, <1>6, TopIsLess
<1>8. path.likelihood * w \in Nat
  BY WeightOf
<1> HIDE DEF top, w
<1>9. 6 + top(densities(h)) \in Nat /\ 6 + top(densities(g)) \in Nat /\ 6 + top(densities(h)) =< 6 + top(densities(g))
  BY <1>7
<1> QED  BY <1>2, <1>8, <1>9, ProductIsLess

RiskOf(routes, x, g) == TotalScore(RiskRegister(routes, g, x.criticality, x.tier))

LEMMA RiskIsLess ==
  ASSUME NEW g, NEW h, Shrunk(g, h), Sound(g), NEW routes, IsFiniteSet(DOMAIN routes),
         \A p \in DOMAIN routes : routes[p].likelihood \in Nat,
         NEW x, x.criticality \in DOMAIN CriticalityWeight, x.tier \in NoTier..4
  PROVE  RiskOf(routes, x, g) \in Int /\ RiskOf(routes, x, h) \in Int /\ RiskOf(routes, x, h) =< RiskOf(routes, x, g)
<1> DEFINE D == DOMAIN routes
           before == RiskRegister(routes, g, x.criticality, x.tier)
           after == RiskRegister(routes, h, x.criticality, x.tier)
           scores(register) == [p \in DOMAIN register.findings |-> register.findings[p].score]
<1>1. /\ DOMAIN before.findings = D /\ DOMAIN after.findings = D
      /\ \A p \in D : /\ before.findings[p] = ScorePath(routes[p], g, x.criticality, x.tier)
                      /\ after.findings[p] = ScorePath(routes[p], h, x.criticality, x.tier)
  BY DEF RiskRegister
<1>2. ASSUME NEW p \in D
      PROVE  /\ before.findings[p].score \in Int /\ after.findings[p].score \in Int
             /\ after.findings[p].score =< before.findings[p].score
  <2>1. routes[p].likelihood \in Nat
    OBVIOUS
  <2>2. LET b == ScorePath(routes[p], g, x.criticality, x.tier)
            a == ScorePath(routes[p], h, x.criticality, x.tier)
        IN  b.score \in Nat /\ a.score \in Nat /\ a.score =< b.score
    BY <2>1, ScoreIsLess
  <2> HIDE DEF before, after
  <2> QED  BY <1>1, <2>2
<1> HIDE DEF before, after
<1>3. TotalScore(before) = SumOver(scores(before), D) /\ TotalScore(after) = SumOver(scores(after), D)
  <2> HIDE DEF D
  <2>1. IsFiniteSet(DOMAIN before.findings) /\ IsFiniteSet(DOMAIN after.findings)
    BY <1>1 DEF D
  <2>2. TotalScore(before) = SumOver(scores(before), DOMAIN before.findings)
    BY <1>1, <1>2, <2>1, TotalIsSum
  <2>3. TotalScore(after) = SumOver(scores(after), DOMAIN after.findings)
    BY <1>1, <1>2, <2>1, TotalIsSum
  <2> QED  BY <1>1, <2>2, <2>3
<1>4. \A p \in D : /\ scores(after)[p] \in Int /\ scores(before)[p] \in Int
                   /\ scores(after)[p] =< scores(before)[p]
  BY <1>1, <1>2
<1> HIDE DEF scores
<1>5. SumOver(scores(after), D) \in Int /\ SumOver(scores(before), D) \in Int
      /\ SumOver(scores(after), D) =< SumOver(scores(before), D)
  BY <1>4, SumOverLess
<1> QED  BY <1>3, <1>5 DEF RiskOf, before, after

(* What the gaps of a request are, of which paths and project. *)
Ground(routes, x, g) ==
  /\ x \in Projects /\ IsFiniteSet(DOMAIN routes)
  /\ \A p \in DOMAIN routes : routes[p].likelihood \in Nat
  /\ g = TechniqueGaps(TechniquesInPaths(routes), Inventory(x.controls, x.profile), x.profile, x.tier)

GapFields == {"required", "observed", "defences", "absent", "inTier", "statements", "fallback"}

LEMMA GroundIs ==
  ASSUME NEW routes, NEW x, NEW g, Ground(routes, x, g)
  PROVE  /\ DOMAIN g = TechniquesInPaths(routes)
         /\ x.criticality \in DOMAIN CriticalityWeight /\ x.tier \in NoTier..4
         /\ \A t \in DOMAIN g :
              /\ DOMAIN g[t] = GapFields
              /\ g[t] = GapOf(t, Inventory(x.controls, x.profile), x.profile, x.tier)
         /\ Sound(g)
<1> DEFINE inventory == Inventory(x.controls, x.profile)
<1>1. DOMAIN g = TechniquesInPaths(routes) /\ \A t \in DOMAIN g : g[t] = GapOf(t, inventory, x.profile, x.tier)
  BY DEF Ground, TechniqueGaps
<1>2. x.criticality \in DOMAIN CriticalityWeight /\ x.tier \in NoTier..4 /\ IsFiniteSet(x.profile)
  BY MitigationAssumption DEF Ground
<1> HIDE DEF inventory
<1>3. ASSUME NEW t \in DOMAIN g
      PROVE  /\ DOMAIN g[t] = GapFields
             /\ g[t].absent \in BOOLEAN /\ IsFiniteSet(g[t].inTier) /\ g[t].statements \subseteq g[t].inTier
  <2>1. /\ DOMAIN g[t] = GapFields /\ g[t].absent \in BOOLEAN
        /\ g[t].inTier = InTier(MappedStatements(x.profile, t), x.tier)
        /\ g[t].statements \subseteq g[t].inTier
    <3> DEFINE mapped == MappedStatements(x.profile, t)
               gap == GapOf(t, inventory, x.profile, x.tier)
    <3>1. DOMAIN gap = GapFields
      BY DEF GapOf, GapFields
    <3>2. gap.absent = (mapped = {}) /\ gap.inTier = InTier(mapped, x.tier)
      BY DEF GapOf
    <3>3. gap.statements = InTier(mapped, x.tier) \ ObservedStatements(inventory)
      BY DEF GapOf
    <3> HIDE DEF gap, mapped
    <3>4. gap.absent \in BOOLEAN
      BY <3>2
    <3>5. g[t] = gap
      BY <1>1 DEF gap
    <3> QED  BY <3>1, <3>2, <3>3, <3>4, <3>5 DEF mapped
  <2>2. InTier(MappedStatements(x.profile, t), x.tier) \in SUBSET x.profile
    BY DEF InTier, MappedStatements
  <2>3. IsFiniteSet(g[t].inTier)
    BY <1>2, <2>1, <2>2, FS_Subset
  <2> QED  BY <2>1, <2>3
<1> QED  BY <1>1, <1>2, <1>3 DEF Sound, inventory

(* apply_mitigations, of any advice. *)
Applied(adv, g, recs) ==
  LET mine(t) == {id \in recs : id[1] = t} IN
  [t \in DOMAIN g |->
     [g[t] EXCEPT !.defences = @ \ {id[2] : id \in mine(t)},
                  !.statements = @ \ UNION {adv[id].statements : id \in mine(t)}]]

LEMMA AppliedIs ==
  ASSUME NEW g, \A t \in DOMAIN g : DOMAIN g[t] = GapFields, NEW adv, NEW recs
  PROVE  LET h == Applied(adv, g, recs) IN
         /\ DOMAIN h = DOMAIN g
         /\ \A t \in DOMAIN g :
              /\ DOMAIN h[t] = GapFields /\ h[t].absent = g[t].absent /\ h[t].inTier = g[t].inTier
              /\ \A d : d \in h[t].defences <=> d \in g[t].defences /\ ~\E id \in recs : id[1] = t /\ id[2] = d
              /\ \A s : s \in h[t].statements <=>
                   s \in g[t].statements /\ ~\E id \in recs : id[1] = t /\ s \in adv[id].statements
<1> DEFINE h == Applied(adv, g, recs)
           mine(t) == {id \in recs : id[1] = t}
<1>1. DOMAIN h = DOMAIN g
  BY DEF Applied
<1>2. ASSUME NEW t \in DOMAIN g
      PROVE  /\ DOMAIN h[t] = GapFields /\ h[t].absent = g[t].absent /\ h[t].inTier = g[t].inTier
             /\ h[t].defences = g[t].defences \ {id[2] : id \in mine(t)}
             /\ h[t].statements = g[t].statements \ UNION {adv[id].statements : id \in mine(t)}
  <2>1. h[t] = [g[t] EXCEPT !.defences = @ \ {id[2] : id \in mine(t)},
                            !.statements = @ \ UNION {adv[id].statements : id \in mine(t)}]
    BY DEF Applied
  <2>2. DOMAIN g[t] = GapFields
    OBVIOUS
  <2> HIDE DEF h, mine
  <2> QED  BY <2>1, <2>2 DEF GapFields
<1> HIDE DEF h
<1>3. ASSUME NEW t \in DOMAIN g
      PROVE  /\ \A d : d \in h[t].defences <=> d \in g[t].defences /\ ~\E id \in recs : id[1] = t /\ id[2] = d
             /\ \A s : s \in h[t].statements <=>
                  s \in g[t].statements /\ ~\E id \in recs : id[1] = t /\ s \in adv[id].statements
  <2>1. ASSUME NEW d
        PROVE  d \in h[t].defences <=> d \in g[t].defences /\ ~\E id \in recs : id[1] = t /\ id[2] = d
    BY <1>2
  <2>2. ASSUME NEW s
        PROVE  s \in h[t].statements <=>
               s \in g[t].statements /\ ~\E id \in recs : id[1] = t /\ s \in adv[id].statements
    BY <1>2
  <2> QED  BY <2>1, <2>2
<1> QED  BY <1>1, <1>2, <1>3 DEF h

(* More advice leaves less. *)
LEMMA AppliedShrinks ==
  ASSUME NEW g, \A t \in DOMAIN g : DOMAIN g[t] = GapFields, Sound(g), NEW adv, NEW Q, NEW R, Q \subseteq R
  PROVE  /\ Shrunk(Applied(adv, g, Q), Applied(adv, g, R)) /\ Sound(Applied(adv, g, Q))
         /\ Shrunk(g, Applied(adv, g, R))
         /\ \A t \in DOMAIN g : DOMAIN Applied(adv, g, Q)[t] = GapFields
<1> DEFINE a == Applied(adv, g, Q)
           b == Applied(adv, g, R)
<1>1. DOMAIN a = DOMAIN g /\ DOMAIN b = DOMAIN g
  BY AppliedIs
<1>2. ASSUME NEW t \in DOMAIN g
      PROVE  /\ DOMAIN a[t] = GapFields /\ a[t].absent = g[t].absent /\ a[t].inTier = g[t].inTier
             /\ b[t].absent = g[t].absent /\ b[t].inTier = g[t].inTier
             /\ b[t].defences \subseteq a[t].defences /\ b[t].statements \subseteq a[t].statements
             /\ a[t].defences \subseteq g[t].defences /\ a[t].statements \subseteq g[t].statements
  <2>1. /\ DOMAIN a[t] = GapFields /\ a[t].absent = g[t].absent /\ a[t].inTier = g[t].inTier
        /\ \A d : d \in a[t].defences <=> d \in g[t].defences /\ ~\E id \in Q : id[1] = t /\ id[2] = d
        /\ \A s : s \in a[t].statements <=>
             s \in g[t].statements /\ ~\E id \in Q : id[1] = t /\ s \in adv[id].statements
    BY AppliedIs
  <2>2. /\ b[t].absent = g[t].absent /\ b[t].inTier = g[t].inTier
        /\ \A d : d \in b[t].defences <=> d \in g[t].defences /\ ~\E id \in R : id[1] = t /\ id[2] = d
        /\ \A s : s \in b[t].statements <=>
             s \in g[t].statements /\ ~\E id \in R : id[1] = t /\ s \in adv[id].statements
    BY AppliedIs
  <2> HIDE DEF a, b
  <2>3. \A d \in b[t].defences : d \in a[t].defences
    BY <2>1, <2>2
  <2>4. \A s \in b[t].statements : s \in a[t].statements
    BY <2>1, <2>2
  <2> QED  BY <2>1, <2>2, <2>3, <2>4
<1> HIDE DEF a, b
<1>3. Shrunk(a, b) /\ Shrunk(g, b)
  <2>1. \A t \in DOMAIN g : b[t].defences \subseteq g[t].defences /\ b[t].statements \subseteq g[t].statements
    BY <1>2
  <2> QED  BY <1>1, <1>2, <2>1 DEF Shrunk
<1>4. Sound(a)
  <2>1. ASSUME NEW t \in DOMAIN g
        PROVE  a[t].absent \in BOOLEAN /\ IsFiniteSet(a[t].inTier) /\ a[t].statements \subseteq a[t].inTier
    BY <1>2 DEF Sound
  <2> QED  BY <1>1, <2>1 DEF Sound
<1> QED  BY <1>2, <1>3, <1>4 DEF a, b

(* No advice leaves the gaps as they are. *)
LEMMA NothingApplied ==
  ASSUME NEW routes, NEW x, NEW g, Ground(routes, x, g), NEW adv
  PROVE  Applied(adv, g, {}) = g
<1> DEFINE h == Applied(adv, g, {})
<1>1. \A t \in DOMAIN g : DOMAIN g[t] = GapFields
  BY GroundIs
<1>2. ASSUME NEW t \in DOMAIN g PROVE h[t] = g[t]
  <2>1. h[t] = [g[t] EXCEPT !.defences = @ \ {id[2] : id \in {}},
                            !.statements = @ \ UNION {adv[id].statements : id \in {}}]
    <3>1. {id \in {} : id[1] = t} = {}
      OBVIOUS
    <3>2. h[t] = [g[t] EXCEPT !.defences = @ \ {id[2] : id \in {id \in {} : id[1] = t}},
                              !.statements = @ \ UNION {adv[id].statements : id \in {id \in {} : id[1] = t}}]
      BY DEF Applied
    <3> QED  BY <3>1, <3>2
  <2>2. g[t].defences \ {id[2] : id \in {}} = g[t].defences
        /\ g[t].statements \ UNION {adv[id].statements : id \in {}} = g[t].statements
    OBVIOUS
  <2>3. h[t] = [g[t] EXCEPT !.defences = @, !.statements = @]
    <3> HIDE DEF h
    <3> QED  BY <2>1, <2>2
  <2>4. g[t] = GapOf(t, Inventory(x.controls, x.profile), x.profile, x.tier)
    BY GroundIs
  <2>5. g[t] = [f \in DOMAIN g[t] |-> g[t][f]]
    BY <2>4 DEF GapOf
  <2> HIDE DEF h
  <2> QED  BY <2>3, <2>5
<1>3. DOMAIN h = DOMAIN g /\ h = [t \in DOMAIN g |-> h[t]]
  BY DEF Applied
<1>4. g = [t \in DOMAIN g |-> g[t]]
  BY DEF Ground, TechniqueGaps
<1> HIDE DEF h
<1>5. h = g
  BY <1>2, <1>3, <1>4
<1> QED  BY <1>5 DEF h

OpenPath(routes, p, g) == \E t \in TechniquesOf(routes[p]) : HasGap(g[t])
InPhases(road) == UNION {road[i].recommendations : i \in DOMAIN road}
ClosedIn(road, p) == {i \in DOMAIN road : p \in road[i].closed}
Reductions(road) == SumOver([i \in DOMAIN road |-> road[i].reduction], DOMAIN road)

(* The phases made so far take away what their recommendations do. *)
RoadMap(road, adv, routes, x, g) ==
  LET left == Applied(adv, g, InPhases(road)) IN
  /\ IsList(road)
  /\ \A i, j \in DOMAIN road : i # j => road[i].recommendations \cap road[j].recommendations = {}
  /\ \A i \in DOMAIN road : road[i].reduction \in Int /\ road[i].reduction >= 0
  /\ Reductions(road) = RiskOf(routes, x, g) - RiskOf(routes, x, left)
  /\ \A p \in DOMAIN routes :
       IF OpenPath(routes, p, g) /\ ~OpenPath(routes, p, left)
       THEN \E i \in DOMAIN road : ClosedIn(road, p) = {i}
       ELSE ClosedIn(road, p) = {}

(* What build_roadmap says of a phase. *)
IsPhase(row, road, adv, routes, x, g, recs) ==
  LET before == Applied(adv, g, InPhases(road))
      after == Applied(adv, g, InPhases(road) \cup recs)
  IN /\ row.recommendations = recs
     /\ row.reduction = RiskOf(routes, x, before) - RiskOf(routes, x, after)
     /\ row.closed = {p \in DOMAIN routes : OpenPath(routes, p, before) /\ ~OpenPath(routes, p, after)}

LEMMA RiskOfApplied ==
  ASSUME NEW routes, NEW x, NEW g, Ground(routes, x, g), NEW adv, NEW Q, NEW R, Q \subseteq R
  PROVE  LET a == Applied(adv, g, Q)
             b == Applied(adv, g, R)
         IN  /\ RiskOf(routes, x, g) \in Int /\ RiskOf(routes, x, a) \in Int /\ RiskOf(routes, x, b) \in Int
             /\ RiskOf(routes, x, b) =< RiskOf(routes, x, a)
             /\ \A p \in DOMAIN routes : OpenPath(routes, p, b) => OpenPath(routes, p, a) /\ OpenPath(routes, p, g)
             /\ \A p \in DOMAIN routes : OpenPath(routes, p, a) => OpenPath(routes, p, g)
<1> DEFINE a == Applied(adv, g, Q)
           b == Applied(adv, g, R)
<1>1. /\ x.criticality \in DOMAIN CriticalityWeight /\ x.tier \in NoTier..4 /\ Sound(g)
      /\ DOMAIN g = TechniquesInPaths(routes) /\ \A t \in DOMAIN g : DOMAIN g[t] = GapFields
  BY GroundIs
<1>2. IsFiniteSet(DOMAIN routes) /\ \A p \in DOMAIN routes : routes[p].likelihood \in Nat
  BY DEF Ground
<1>3. Shrunk(a, b) /\ Sound(a) /\ Shrunk(g, b) /\ Shrunk(g, a)
  <2>1. Shrunk(a, b) /\ Sound(a) /\ Shrunk(g, b)
    BY <1>1, AppliedShrinks
  <2>2. Shrunk(g, a)
    BY <1>1, AppliedShrinks
  <2> QED  BY <2>1, <2>2
<1> HIDE DEF a, b
<1>4. RiskOf(routes, x, a) \in Int /\ RiskOf(routes, x, b) \in Int /\ RiskOf(routes, x, b) =< RiskOf(routes, x, a)
  BY <1>1, <1>2, <1>3, RiskIsLess
<1>5. RiskOf(routes, x, g) \in Int
  BY <1>1, <1>2, <1>3, RiskIsLess
<1>6. ASSUME NEW e, NEW f, Shrunk(e, f), DOMAIN e = DOMAIN g, NEW p \in DOMAIN routes, OpenPath(routes, p, f)
      PROVE  OpenPath(routes, p, e)
  <2>1. PICK t \in TechniquesOf(routes[p]) : f[t].defences # {} \/ f[t].statements # {}
    BY <1>6 DEF OpenPath, HasGap
  <2>2. t \in DOMAIN e
    BY <1>1, <1>6 DEF TechniquesInPaths
  <2>3. f[t].defences \subseteq e[t].defences /\ f[t].statements \subseteq e[t].statements
    BY <1>6, <2>2 DEF Shrunk
  <2>4. e[t].defences # {} \/ e[t].statements # {}
    BY <2>1, <2>3
  <2> QED  BY <2>4 DEF OpenPath, HasGap
<1>7. DOMAIN a = DOMAIN g
  BY <1>3 DEF Shrunk
<1>8. /\ \A p \in DOMAIN routes : OpenPath(routes, p, b) => OpenPath(routes, p, a) /\ OpenPath(routes, p, g)
      /\ \A p \in DOMAIN routes : OpenPath(routes, p, a) => OpenPath(routes, p, g)
  BY <1>3, <1>6, <1>7
<1> QED  BY <1>4, <1>5, <1>8 DEF a, b

LEMMA NoRoadYet ==
  ASSUME NEW routes, NEW x, NEW g, Ground(routes, x, g), NEW adv
  PROVE  RoadMap(<<>>, adv, routes, x, g) /\ InPhases(<<>>) = {}
<1> DEFINE road == <<>>
<1>1. IsList(road) /\ DOMAIN road = {}
  BY DEF IsList
<1> HIDE DEF road
<1>2. InPhases(road) = {} /\ \A p : ClosedIn(road, p) = {}
  BY <1>1 DEF InPhases, ClosedIn
<1>3. Reductions(road) = 0
  BY <1>1, SumOverNone DEF Reductions
<1>4. Applied(adv, g, {}) = g
  BY NothingApplied
<1>5. RiskOf(routes, x, g) \in Int
  BY RiskOfApplied
<1>6. RoadMap(road, adv, routes, x, g)
  BY <1>1, <1>2, <1>3, <1>4, <1>5 DEF RoadMap
<1> QED  BY <1>2, <1>6 DEF road

LEMMA RoadMapGrows ==
  ASSUME NEW routes, NEW x, NEW g, Ground(routes, x, g), NEW adv, NEW road, RoadMap(road, adv, routes, x, g),
         NEW recs, recs \cap InPhases(road) = {}, NEW row, IsPhase(row, road, adv, routes, x, g, recs)
  PROVE  RoadMap(Append(road, row), adv, routes, x, g) /\ InPhases(Append(road, row)) = InPhases(road) \cup recs
<1> DEFINE more == Append(road, row)
           n == Len(road) + 1
           Q == InPhases(road)
           R == Q \cup recs
           before == Applied(adv, g, Q)
           after == Applied(adv, g, R)
<1>1. IsList(road)
  BY DEF RoadMap
<1>2. /\ IsList(more) /\ DOMAIN more = DOMAIN road \cup {n} /\ n \notin DOMAIN road /\ more[n] = row
      /\ \A i \in DOMAIN road : more[i] = road[i]
  BY <1>1, ListLonger
<1>3. DOMAIN road = 1..Len(road) /\ Len(road) \in Nat
  BY <1>1, ListIs
<1>4. IsFiniteSet(DOMAIN road)
  BY <1>3, FS_Interval
<1>5. /\ RiskOf(routes, x, g) \in Int /\ RiskOf(routes, x, before) \in Int /\ RiskOf(routes, x, after) \in Int
      /\ RiskOf(routes, x, after) =< RiskOf(routes, x, before)
      /\ \A p \in DOMAIN routes : OpenPath(routes, p, after) => OpenPath(routes, p, before) /\ OpenPath(routes, p, g)
      /\ \A p \in DOMAIN routes : OpenPath(routes, p, before) => OpenPath(routes, p, g)
  <2>1. Q \subseteq R
    OBVIOUS
  <2> HIDE DEF Q, R
  <2> QED  BY <2>1, RiskOfApplied
<1>6. /\ row.recommendations = recs
      /\ row.reduction = RiskOf(routes, x, before) - RiskOf(routes, x, after)
      /\ row.closed = {p \in DOMAIN routes : OpenPath(routes, p, before) /\ ~OpenPath(routes, p, after)}
  BY DEF IsPhase
<1>7. InPhases(more) = R
  <2> HIDE DEF more, n
  <2>1. ASSUME NEW id PROVE id \in InPhases(more) <=> \E i \in DOMAIN more : id \in more[i].recommendations
    BY DEF InPhases
  <2>2. ASSUME NEW id PROVE id \in InPhases(road) <=> \E i \in DOMAIN road : id \in road[i].recommendations
    BY DEF InPhases
  <2>3. ASSUME NEW id PROVE id \in InPhases(more) <=> id \in InPhases(road) \/ id \in recs
    BY <1>2, <1>6, <2>1, <2>2
  <2> QED  BY <2>3
<1>8. \A i \in DOMAIN road : road[i].recommendations \subseteq Q
  BY DEF InPhases
<1>9. /\ \A i, j \in DOMAIN road : i # j => road[i].recommendations \cap road[j].recommendations = {}
      /\ \A i \in DOMAIN road : road[i].reduction \in Int /\ road[i].reduction >= 0
      /\ Reductions(road) = RiskOf(routes, x, g) - RiskOf(routes, x, before)
      /\ \A p \in DOMAIN routes :
           IF OpenPath(routes, p, g) /\ ~OpenPath(routes, p, before)
           THEN \E i \in DOMAIN road : ClosedIn(road, p) = {i}
           ELSE ClosedIn(road, p) = {}
  BY DEF RoadMap
<1> HIDE DEF more, n, before, after, R
<1>10. \A i, j \in DOMAIN more : i # j => more[i].recommendations \cap more[j].recommendations = {}
  <2> SUFFICES ASSUME NEW i \in DOMAIN more, NEW j \in DOMAIN more, i # j
               PROVE  more[i].recommendations \cap more[j].recommendations = {}
    OBVIOUS
  <2>1. CASE i \in DOMAIN road /\ j \in DOMAIN road
    BY <1>2, <1>9, <2>1
  <2>2. CASE i = n /\ j \in DOMAIN road
    BY <1>2, <1>6, <1>8, <2>2
  <2>3. CASE i \in DOMAIN road /\ j = n
    BY <1>2, <1>6, <1>8, <2>3
  <2> QED  BY <1>2, <2>1, <2>2, <2>3
<1>11. row.reduction \in Int /\ row.reduction >= 0
  BY <1>5, <1>6
<1>12. \A i \in DOMAIN more : more[i].reduction \in Int /\ more[i].reduction >= 0
  BY <1>2, <1>9, <1>11
<1>13. Reductions(more) = RiskOf(routes, x, g) - RiskOf(routes, x, after)
  <2> DEFINE S == DOMAIN road
             score == [i \in S |-> road[i].reduction]
             other == [i \in DOMAIN more |-> more[i].reduction]
  <2>1. /\ \A i \in S : score[i] \in Int /\ other[i] = score[i]
        /\ other[n] \in Int /\ other[n] = row.reduction /\ DOMAIN more = S \cup {n} /\ n \notin S
    BY <1>2, <1>9, <1>11
  <2>2. Reductions(more) = SumOver(other, DOMAIN more) /\ Reductions(road) = SumOver(score, S)
    BY DEF Reductions
  <2> HIDE DEF score, other
  <2>3. SumOver(other, S \cup {n}) = other[n] + SumOver(score, S)
    BY <1>4, <2>1, SumOverMore
  <2>4. Reductions(more) = row.reduction + Reductions(road)
    BY <2>1, <2>2, <2>3
  <2> QED  BY <1>5, <1>6, <1>9, <2>4
<1>14. ASSUME NEW p \in DOMAIN routes
       PROVE  IF OpenPath(routes, p, g) /\ ~OpenPath(routes, p, after)
              THEN \E i \in DOMAIN more : ClosedIn(more, p) = {i}
              ELSE ClosedIn(more, p) = {}
  <2>1. ClosedIn(more, p) = ClosedIn(road, p) \cup (IF p \in row.closed THEN {n} ELSE {})
    BY <1>2 DEF ClosedIn
  <2>2. p \in row.closed <=> OpenPath(routes, p, before) /\ ~OpenPath(routes, p, after)
    BY <1>6
  <2>3. CASE p \in row.closed
    <3>1. OpenPath(routes, p, g) /\ ~OpenPath(routes, p, after) /\ OpenPath(routes, p, before)
      BY <1>5, <2>2, <2>3
    <3>2. ClosedIn(road, p) = {}
      BY <1>9, <3>1
    <3>3. ClosedIn(more, p) = {n} /\ n \in DOMAIN more
      BY <1>2, <2>1, <2>3, <3>2
    <3> QED  BY <3>1, <3>3
  <2>4. CASE p \notin row.closed
    <3>1. ClosedIn(more, p) = ClosedIn(road, p)
      BY <2>1, <2>4
    <3>2. (OpenPath(routes, p, g) /\ ~OpenPath(routes, p, after)) <=>
          (OpenPath(routes, p, g) /\ ~OpenPath(routes, p, before))
      BY <1>5, <2>2, <2>4
    <3> QED  BY <1>2, <1>9, <3>1, <3>2
  <2> QED  BY <2>3, <2>4
<1>15. RoadMap(more, adv, routes, x, g)
  BY <1>2, <1>7, <1>10, <1>12, <1>13, <1>14 DEF RoadMap, after
<1> QED  BY <1>7, <1>15 DEF more, R

(* Every open countermeasure is advised, refused or to do, and one of      *)
(* them; what is advised answers a gap of its technique.                   *)
Advice(adv, ref, asking, routes, g) ==
  /\ DOMAIN adv \cup DOMAIN ref \cup asking = OpenDefences(g)
  /\ DOMAIN adv \cap DOMAIN ref = {} /\ DOMAIN adv \cap asking = {} /\ DOMAIN ref \cap asking = {}
  /\ \A id \in DOMAIN adv :
       adv[id].statements \subseteq g[id[1]].statements /\ adv[id].entities \subseteq EntitiesOf(routes, id[1])

(* What is advised is in a phase or waits for one. *)
Shared(road, waiting, asking, adv) ==
  /\ DOMAIN adv = {} => road = <<>> /\ waiting = {}
  /\ road # <<>> \/ waiting # {} =>
       asking = {} /\ InPhases(road) \cup waiting = DOMAIN adv /\ InPhases(road) \cap waiting = {}

PlanInv ==
  /\ Ground(pathsFound, project, gaps)
  /\ Advice(advised, refused, todoGaps, pathsFound, gaps)
  /\ RoadMap(phases, advised, pathsFound, project, gaps)
  /\ Shared(phases, toPhase, todoGaps, advised)
  /\ answer = "served" /\ wanted = "plan" =>
       todoGaps = {} /\ toPhase = {} /\ InPhases(phases) = DOMAIN advised

LEMMA EmptyFunction ==
  ASSUME NEW f, DOMAIN f = {}, f = [x \in DOMAIN f |-> f[x]]
  PROVE  f = <<>>
<1>1. DOMAIN <<>> = {} /\ <<>> = [x \in {} |-> <<>>[x]]
  OBVIOUS
<1> QED  BY <1>1

LEMMA OpenIs ==
  ASSUME NEW g, NEW id
  PROVE  id \in OpenDefences(g) <=> \E t \in DOMAIN g : \E d \in g[t].defences : id = <<t, d>>
BY DEF OpenDefences

LEMMA NothingOpen == OpenDefences(<<>>) = {}
<1>1. DOMAIN <<>> = {}
  OBVIOUS
<1> QED  BY <1>1, OpenIs

LEMMA PlanStarts == MitigationInit => PlanInv
<1> SUFFICES ASSUME MitigationInit PROVE PlanInv
  OBVIOUS
<1>1. /\ project \in Projects /\ pathsFound = <<>> /\ gaps = <<>> /\ todoGaps = {} /\ advised = <<>>
      /\ refused = <<>> /\ toPhase = {} /\ phases = <<>> /\ answer = ""
  BY DEF MitigationInit
<1>2. DOMAIN <<>> = {}
  OBVIOUS
<1>3. Ground(pathsFound, project, gaps)
  <2> DEFINE g == TechniqueGaps(TechniquesInPaths(<<>>), Inventory(project.controls, project.profile), project.profile, project.tier)
  <2>1. TechniquesInPaths(<<>>) = {}
    BY <1>2 DEF TechniquesInPaths
  <2>2. DOMAIN g = {} /\ g = [x \in DOMAIN g |-> g[x]]
    BY <2>1 DEF TechniqueGaps
  <2>3. g = <<>>
    <3> HIDE DEF g
    <3> QED  BY <2>2, EmptyFunction
  <2>4. IsFiniteSet({})
    BY FS_EmptySet
  <2> QED  BY <1>1, <1>2, <2>3, <2>4 DEF Ground
<1>4. Advice(advised, refused, todoGaps, pathsFound, gaps)
  BY <1>1, <1>2, NothingOpen DEF Advice
<1>5. RoadMap(phases, advised, pathsFound, project, gaps)
  BY <1>1, <1>3, NoRoadYet
<1>6. Shared(phases, toPhase, todoGaps, advised)
  BY <1>1 DEF Shared
<1> QED  BY <1>1, <1>3, <1>4, <1>5, <1>6 DEF PlanInv

(* _gather_gap_context *)
LEMMA GatherKeeps == ASSUME PlanInv, GatherGapContext PROVE PlanInv'
<1> DEFINE g == TechniqueGaps(TechniquesInPaths(pathsFound'), Inventory(project.controls, project.profile),
                              project.profile, project.tier)
<1>1. /\ answer = "" /\ gaps = <<>>
      /\ pathsFound' \in (IF snapshot THEN PathResults ELSE {<<>>}) /\ gaps' = g
      /\ todoGaps' = OpenDefences(gaps')
      /\ answer' = IF wanted = "plan" /\ gaps' # <<>> THEN "" ELSE "served"
      /\ UNCHANGED <<wanted, project, snapshot, advised, refused, toPhase, phases>>
  BY DEF GatherGapContext
<1>2. DOMAIN advised = {} /\ DOMAIN refused = {}
  BY <1>1, NothingOpen DEF PlanInv, Advice
<1>3. phases = <<>> /\ toPhase = {}
  BY <1>2 DEF PlanInv, Shared
<1>4. IsFiniteSet(DOMAIN pathsFound') /\ \A p \in DOMAIN pathsFound' : pathsFound'[p].likelihood \in Nat
  <2>1. DOMAIN <<>> = {} /\ IsFiniteSet({})
    BY FS_EmptySet
  <2>2. CASE snapshot
    BY <1>1, <2>2, MitigationAssumption
  <2>3. CASE ~snapshot
    <3>1. pathsFound' = <<>>
      BY <1>1, <2>3
    <3> QED  BY <2>1, <3>1
  <2> QED  BY <2>2, <2>3
<1>5. Ground(pathsFound', project', gaps')
  BY <1>1, <1>4 DEF PlanInv, Ground
<1>6. Advice(advised', refused', todoGaps', pathsFound', gaps')
  BY <1>1, <1>2 DEF Advice
<1>7. RoadMap(phases', advised', pathsFound', project', gaps') /\ InPhases(phases') = {}
  <2>1. phases' = <<>>
    BY <1>1, <1>3
  <2>2. PICK pp, xx, gg, aa : pp = pathsFound' /\ xx = project' /\ gg = gaps' /\ aa = advised'
    OBVIOUS
  <2>3. Ground(pp, xx, gg)
    BY <1>5, <2>2
  <2>4. RoadMap(<<>>, aa, pp, xx, gg) /\ InPhases(<<>>) = {}
    BY <2>3, NoRoadYet
  <2> QED  BY <2>1, <2>2, <2>4
<1>8. Shared(phases', toPhase', todoGaps', advised')
  BY <1>1, <1>3 DEF Shared
<1>9. answer' = "served" /\ wanted' = "plan" =>
        todoGaps' = {} /\ toPhase' = {} /\ InPhases(phases') = DOMAIN advised'
  BY <1>1, <1>2, <1>3, <1>7, NothingOpen
<1> QED  BY <1>5, <1>6, <1>7, <1>8, <1>9 DEF PlanInv

LEMMA EnteredIs ==
  ASSUME NEW f, NEW id, NEW v
  PROVE  LET e == Entered(f, id, v) IN
         DOMAIN e = DOMAIN f \cup {id} /\ e[id] = v /\ \A x \in DOMAIN f : x # id => e[x] = f[x]
BY DEF Entered

(* mitigation_agent: the handler's step *)
LEMMA RecommendKeeps ==
  ASSUME PlanInv, NEW id \in todoGaps, NEW statements, NEW names, NEW effort, Recommend(id, statements, names, effort)
  PROVE  PlanInv'
<1> DEFINE rec == [statements |-> statements, entities |-> ResolveNames(id[1], names), effort |-> effort]
           reason == RecommendationGrounding(id[1], id[2], rec)
<1>1. /\ answer = "" /\ todoGaps # {} /\ todoGaps' = todoGaps \ {id}
      /\ UNCHANGED <<wanted, project, snapshot, pathsFound, gaps, toPhase, phases, answer>>
  BY DEF Recommend, Advising
<1>2. \/ advised' = Entered(advised, id, rec) /\ refused' = refused /\ reason = "ok"
      \/ (\E why : refused' = Entered(refused, id, why)) /\ advised' = advised
  BY DEF Recommend, Refuse
<1>3. reason = "ok" => rec.statements \subseteq gaps[id[1]].statements /\ rec.entities \subseteq EntitiesOf(pathsFound, id[1])
  BY DEF RecommendationGrounding, Touched
<1> HIDE DEF rec, reason
<1>4. /\ Ground(pathsFound, project, gaps) /\ Advice(advised, refused, todoGaps, pathsFound, gaps)
      /\ phases = <<>> /\ toPhase = {}
  BY <1>1 DEF PlanInv, Shared
<1>5. Advice(advised', refused', todoGaps', pathsFound, gaps)
  <2>1. CASE advised' = Entered(advised, id, rec) /\ refused' = refused /\ reason = "ok"
    <3>1. /\ DOMAIN advised' = DOMAIN advised \cup {id} /\ advised'[id] = rec
          /\ \A x \in DOMAIN advised : x # id => advised'[x] = advised[x]
      BY <2>1 DEF Entered
    <3>2. \A x \in DOMAIN advised' :
            /\ advised'[x].statements \subseteq gaps[x[1]].statements
            /\ advised'[x].entities \subseteq EntitiesOf(pathsFound, x[1])
      BY <1>3, <1>4, <2>1, <3>1 DEF Advice
    <3> QED  BY <1>1, <1>4, <2>1, <3>1, <3>2 DEF Advice
  <2>2. CASE (\E why : refused' = Entered(refused, id, why)) /\ advised' = advised
    <3>1. DOMAIN refused' = DOMAIN refused \cup {id}
      BY <2>2, EnteredIs
    <3> QED  BY <1>1, <1>4, <2>2, <3>1 DEF Advice
  <2> QED  BY <1>2, <2>1, <2>2
<1>6. RoadMap(phases', advised', pathsFound', project', gaps')
  <2>1. PICK aa : aa = advised'
    OBVIOUS
  <2>2. RoadMap(<<>>, aa, pathsFound, project, gaps)
    BY <1>4, NoRoadYet
  <2> QED  BY <1>1, <1>4, <2>1, <2>2
<1>7. Shared(phases', toPhase', todoGaps', advised')
  BY <1>1, <1>4 DEF Shared
<1> QED  BY <1>1, <1>4, <1>5, <1>6, <1>7 DEF PlanInv

(* validate_mitigation_grounding and the ranking *)
LEMMA RankKeeps == ASSUME PlanInv, Rank PROVE PlanInv'
<1>1. /\ todoGaps = {} /\ toPhase = {} /\ phases = <<>>
      /\ \/ answer' = "failed" /\ UNCHANGED toPhase
         \/ toPhase' = DOMAIN advised /\ answer' = IF advised = <<>> THEN "served" ELSE ""
      /\ UNCHANGED <<wanted, project, snapshot, pathsFound, gaps, todoGaps, advised, refused, phases>>
  BY DEF Rank
<1>2. InPhases(phases) = {}
  BY <1>1, NoRoadYet DEF PlanInv
<1>3. DOMAIN <<>> = {}
  OBVIOUS
<1>4. Shared(phases', toPhase', todoGaps', advised')
  BY <1>1, <1>2 DEF Shared
<1>5. answer' = "served" => toPhase' = {} /\ InPhases(phases) = DOMAIN advised
  BY <1>1, <1>2, <1>3
<1> QED  BY <1>1, <1>4, <1>5 DEF PlanInv

(* The definitions of the model are those of the invariant. *)
LEMMA InTermsOf ==
  /\ \A g, recs : ApplyMitigations(g, recs) = Applied(advised, g, recs)
  /\ \A g : Total(g) = RiskOf(pathsFound, project, g)
  /\ \A p, g : HasPathGap(p, g) <=> OpenPath(pathsFound, p, g)
  /\ Planned = InPhases(phases)
BY DEF ApplyMitigations, Applied, Total, Register, RiskOf, HasPathGap, OpenPath, Planned, InPhases

(* build_roadmap: a phase *)
LEMMA PhaseKeeps == ASSUME PlanInv, NEW recs \in SUBSET toPhase, Phase(recs) PROVE PlanInv'
<1> DEFINE before == ApplyMitigations(gaps, Planned)
           after == ApplyMitigations(gaps, Planned \cup recs)
           row == [recommendations |-> recs,
                   cumulative |-> Total(gaps) - Total(after),
                   reduction |-> Total(before) - Total(after),
                   statements |-> UNION {before[t].statements \ after[t].statements : t \in DOMAIN gaps},
                   closed |-> {p \in DOMAIN pathsFound : HasPathGap(p, before) /\ ~HasPathGap(p, after)}]
<1>1. /\ toPhase # {} /\ phases' = Append(phases, row) /\ toPhase' = toPhase \ recs
      /\ answer' = IF toPhase' = {} THEN "served" ELSE ""
      /\ UNCHANGED <<wanted, project, snapshot, pathsFound, gaps, todoGaps, advised, refused>>
  BY DEF Phase
<1>2. /\ row.recommendations = recs /\ row.reduction = Total(before) - Total(after)
      /\ row.closed = {p \in DOMAIN pathsFound : HasPathGap(p, before) /\ ~HasPathGap(p, after)}
  OBVIOUS
<1> HIDE DEF row
<1>3. IsPhase(row, phases, advised, pathsFound, project, gaps, recs)
  <2>1. before = Applied(advised, gaps, InPhases(phases)) /\ after = Applied(advised, gaps, InPhases(phases) \cup recs)
    BY InTermsOf
  <2> HIDE DEF before, after
  <2> QED  BY <1>2, <2>1, InTermsOf DEF IsPhase
<1>4. /\ todoGaps = {} /\ InPhases(phases) \cup toPhase = DOMAIN advised /\ InPhases(phases) \cap toPhase = {}
      /\ Ground(pathsFound, project, gaps) /\ RoadMap(phases, advised, pathsFound, project, gaps)
  BY <1>1 DEF PlanInv, Shared
<1> HIDE DEF before, after
<1>5. RoadMap(phases', advised, pathsFound, project, gaps) /\ InPhases(phases') = InPhases(phases) \cup recs
  <2>1. recs \cap InPhases(phases) = {}
    BY <1>4
  <2>2. /\ RoadMap(Append(phases, row), advised, pathsFound, project, gaps)
        /\ InPhases(Append(phases, row)) = InPhases(phases) \cup recs
    BY <1>3, <1>4, <2>1, RoadMapGrows
  <2> QED  BY <1>1, <2>2
<1>6. InPhases(phases') \cup toPhase' = DOMAIN advised /\ InPhases(phases') \cap toPhase' = {}
  BY <1>1, <1>4, <1>5
<1>7. Shared(phases', toPhase', todoGaps', advised')
  BY <1>1, <1>4, <1>6 DEF Shared
<1>8. answer' = "served" => toPhase' = {} /\ InPhases(phases') = DOMAIN advised
  BY <1>1, <1>6
<1> QED  BY <1>1, <1>4, <1>5, <1>7, <1>8 DEF PlanInv

LEMMA PlanInvariant == MitigationSpec => []PlanInv
<1>1. PlanInv /\ [MitigationNext]_mitigationVars => PlanInv'
  <2> SUFFICES ASSUME PlanInv, [MitigationNext]_mitigationVars PROVE PlanInv'
    OBVIOUS
  <2>1. CASE GatherGapContext
    BY <2>1, GatherKeeps
  <2>2. CASE BudgetExceeded \/ RecommendationFails
    BY <2>2 DEF BudgetExceeded, RecommendationFails, PlanInv
  <2>3. CASE Rank
    BY <2>3, RankKeeps
  <2>4. ASSUME NEW recs \in SUBSET toPhase, Phase(recs) PROVE PlanInv'
    BY <2>4, PhaseKeeps
  <2>5. ASSUME NEW id \in todoGaps, NEW statements, NEW names, NEW effort, Recommend(id, statements, names, effort)
        PROVE  PlanInv'
    BY <2>5, RecommendKeeps
  <2>6. CASE UNCHANGED mitigationVars
    BY <2>6 DEF mitigationVars, PlanInv
  <2> QED  BY <2>1, <2>2, <2>3, <2>4, <2>5, <2>6 DEF MitigationNext
<1> QED  BY <1>1, PlanStarts, PTL DEF MitigationSpec

LEMMA GapsAreThere ==
  ASSUME PlanInv
  PROVE  \A p \in DOMAIN pathsFound : \A t \in TechniquesOf(pathsFound[p]) :
           /\ t \in DOMAIN gaps
           /\ gaps[t] = GapOf(t, Inventory(project.controls, project.profile), project.profile, project.tier)
<1>1. /\ DOMAIN gaps = TechniquesInPaths(pathsFound)
      /\ \A t \in DOMAIN gaps :
           gaps[t] = GapOf(t, Inventory(project.controls, project.profile), project.profile, project.tier)
  BY GroundIs DEF PlanInv
<1>2. \A p \in DOMAIN pathsFound : TechniquesOf(pathsFound[p]) \subseteq TechniquesInPaths(pathsFound)
  BY DEF TechniquesInPaths
<1> QED  BY <1>1, <1>2

(* What a gap holds, said of the declared controls. *)
LEMMA OwesDefenceIs ==
  ASSUME PlanInv, NEW p \in DOMAIN pathsFound, NEW t, NEW d
  PROVE  d \in Required(t) /\ OwesDefence(p, t, d) <=>
         t \in TechniquesOf(pathsFound[p]) /\ d \in gaps[t].defences
<1>1. t \in TechniquesOf(pathsFound[p]) =>
        t \in DOMAIN gaps /\ gaps[t] = GapOf(t, Inventory(project.controls, project.profile), project.profile, project.tier)
  BY GapsAreThere
<1>2. d \in ObservedDefences(Inventory(project.controls, project.profile)) <=>
        \E c \in project.controls : d \in Matched[c].defences
  BY DEF ObservedDefences, Inventory
<1>3. GapOf(t, Inventory(project.controls, project.profile), project.profile, project.tier).defences =
        Required(t) \ ObservedDefences(Inventory(project.controls, project.profile))
  BY DEF GapOf
<1> QED  BY <1>1, <1>2, <1>3 DEF OwesDefence

LEMMA OwesStatementIs ==
  ASSUME PlanInv, NEW p \in DOMAIN pathsFound, NEW t, NEW s
  PROVE  /\ OwesStatement(p, t, s) <=> t \in TechniquesOf(pathsFound[p]) /\ s \in gaps[t].statements
         /\ OwesStatement(p, t, s) => s \in DOMAIN Statements
<1> DEFINE inventory == Inventory(project.controls, project.profile)
<1>1. t \in TechniquesOf(pathsFound[p]) =>
        t \in DOMAIN gaps /\ gaps[t] = GapOf(t, inventory, project.profile, project.tier)
  BY GapsAreThere
<1>2. s \in ObservedStatements(inventory) <=> s \in project.profile /\ \E c \in project.controls : s \in Matched[c].statements
  <2>1. DOMAIN inventory = project.controls
        /\ \A c \in project.controls : inventory[c].statements = Matched[c].statements \cap project.profile
    BY DEF Inventory
  <2>2. s \in ObservedStatements(inventory) <=> \E c \in DOMAIN inventory : s \in inventory[c].statements
    BY DEF ObservedStatements
  <2> HIDE DEF inventory
  <2>3. (\E c \in DOMAIN inventory : s \in inventory[c].statements) <=>
        \E c \in project.controls : s \in Matched[c].statements /\ s \in project.profile
    BY <2>1
  <2> QED  BY <2>2, <2>3
<1>3. GapOf(t, inventory, project.profile, project.tier).statements =
        InTier(MappedStatements(project.profile, t), project.tier) \ ObservedStatements(inventory)
  BY DEF GapOf
<1> HIDE DEF inventory
<1>4. s \in InTier(MappedStatements(project.profile, t), project.tier) <=>
        /\ s \in project.profile /\ t \in Statements[s].techniques
        /\ project.tier = NoTier \/ project.tier \in Statements[s].tiers
  BY DEF InTier, MappedStatements
<1>5. project.profile \subseteq DOMAIN Statements
  BY MitigationAssumption DEF PlanInv, Ground
<1> QED  BY <1>1, <1>2, <1>3, <1>4, <1>5 DEF OwesStatement

LEMMA OwesIs ==
  ASSUME PlanInv, NEW p \in DOMAIN pathsFound
  PROVE  Owes(p) <=> OpenPath(pathsFound, p, gaps)
<1>1. ASSUME NEW t \in TechniquesOf(pathsFound[p])
      PROVE  ((\E d \in Required(t) : OwesDefence(p, t, d)) \/ \E s \in DOMAIN Statements : OwesStatement(p, t, s))
             <=> HasGap(gaps[t])
  <2>1. (\E d \in Required(t) : OwesDefence(p, t, d)) <=> \E d : d \in gaps[t].defences
    BY OwesDefenceIs
  <2>2. (\E s \in DOMAIN Statements : OwesStatement(p, t, s)) <=> \E s : s \in gaps[t].statements
    BY OwesStatementIs
  <2> QED  BY <2>1, <2>2 DEF HasGap
<1> QED  BY <1>1 DEF Owes, OpenPath

(* What is left when all that is advised is carried out. *)
LEMMA LeftIs ==
  ASSUME PlanInv, NEW t \in DOMAIN gaps
  PROVE  LET left == Applied(advised, gaps, DOMAIN advised) IN
         /\ DOMAIN left = DOMAIN gaps
         /\ \A d : d \in left[t].defences <=> d \in gaps[t].defences /\ <<t, d>> \notin DOMAIN advised
         /\ \A s : s \in left[t].statements <=>
              s \in gaps[t].statements /\
              ~\E d \in Required(t) : <<t, d>> \in DOMAIN advised /\ s \in advised[<<t, d>>].statements
<1> DEFINE left == Applied(advised, gaps, DOMAIN advised)
<1>1. \A u \in DOMAIN gaps :
        /\ DOMAIN gaps[u] = GapFields
        /\ gaps[u] = GapOf(u, Inventory(project.controls, project.profile), project.profile, project.tier)
  BY GroundIs DEF PlanInv
<1>2. /\ DOMAIN left = DOMAIN gaps
      /\ \A d : d \in left[t].defences <=> d \in gaps[t].defences /\ ~\E id \in DOMAIN advised : id[1] = t /\ id[2] = d
      /\ \A s : s \in left[t].statements <=>
           s \in gaps[t].statements /\ ~\E id \in DOMAIN advised : id[1] = t /\ s \in advised[id].statements
  BY <1>1, AppliedIs
<1> HIDE DEF left
<1>3. ASSUME NEW id \in DOMAIN advised PROVE id = <<id[1], id[2]>> /\ id[2] \in Required(id[1])
  <2>1. id \in OpenDefences(gaps)
    BY DEF PlanInv, Advice
  <2>2. PICK u \in DOMAIN gaps : \E d \in gaps[u].defences : id = <<u, d>>
    BY <2>1, OpenIs
  <2>3. gaps[u].defences \subseteq Required(u)
    BY <1>1 DEF GapOf
  <2> QED  BY <2>2, <2>3
<1>4. ASSUME NEW d
      PROVE  (\E id \in DOMAIN advised : id[1] = t /\ id[2] = d) <=> <<t, d>> \in DOMAIN advised
  <2>1. <<t, d>>[1] = t /\ <<t, d>>[2] = d
    OBVIOUS
  <2> QED  BY <1>3, <2>1
<1>5. ASSUME NEW s
      PROVE  (\E id \in DOMAIN advised : id[1] = t /\ s \in advised[id].statements) <=>
             \E d \in Required(t) : <<t, d>> \in DOMAIN advised /\ s \in advised[<<t, d>>].statements
  <2>1. ASSUME NEW id \in DOMAIN advised, id[1] = t, s \in advised[id].statements
        PROVE  \E d \in Required(t) : <<t, d>> \in DOMAIN advised /\ s \in advised[<<t, d>>].statements
    <3>1. id = <<t, id[2]>> /\ id[2] \in Required(t)
      BY <1>3, <2>1
    <3> QED  BY <2>1, <3>1
  <2>2. ASSUME NEW d, <<t, d>> \in DOMAIN advised, s \in advised[<<t, d>>].statements
        PROVE  \E id \in DOMAIN advised : id[1] = t /\ s \in advised[id].statements
    <3>1. <<t, d>>[1] = t
      OBVIOUS
    <3> QED  BY <2>2, <3>1
  <2> QED  BY <2>1, <2>2
<1> QED  BY <1>2, <1>4, <1>5 DEF left

LEMMA StillOwesIs ==
  ASSUME PlanInv, NEW p \in DOMAIN pathsFound
  PROVE  StillOwes(p) <=> OpenPath(pathsFound, p, Applied(advised, gaps, DOMAIN advised))
<1> DEFINE left == Applied(advised, gaps, DOMAIN advised)
<1>1. ASSUME NEW t \in TechniquesOf(pathsFound[p])
      PROVE  ((\E d \in Required(t) : OwesDefence(p, t, d) /\ <<t, d>> \notin DOMAIN advised)
               \/ \E s \in DOMAIN Statements : OwesStatement(p, t, s) /\
                    ~\E d \in Required(t) : <<t, d>> \in DOMAIN advised /\ s \in advised[<<t, d>>].statements)
             <=> HasGap(left[t])
  <2>0. t \in DOMAIN gaps
    BY GapsAreThere
  <2>1. /\ \A d : d \in left[t].defences <=> d \in gaps[t].defences /\ <<t, d>> \notin DOMAIN advised
        /\ \A s : s \in left[t].statements <=>
             s \in gaps[t].statements /\
             ~\E d \in Required(t) : <<t, d>> \in DOMAIN advised /\ s \in advised[<<t, d>>].statements
    BY <2>0, LeftIs
  <2> HIDE DEF left
  <2>2. (\E d \in Required(t) : OwesDefence(p, t, d) /\ <<t, d>> \notin DOMAIN advised) <=> left[t].defences # {}
    BY <2>1, OwesDefenceIs
  <2>3. (\E s \in DOMAIN Statements : OwesStatement(p, t, s) /\
           ~\E d \in Required(t) : <<t, d>> \in DOMAIN advised /\ s \in advised[<<t, d>>].statements)
        <=> left[t].statements # {}
    BY <2>1, OwesStatementIs
  <2> QED  BY <2>2, <2>3 DEF HasGap
<1> HIDE DEF left
<1>2. StillOwes(p) <=> OpenPath(pathsFound, p, left)
  BY <1>1 DEF StillOwes, OpenPath
<1> QED  BY <1>2 DEF left

(* The advice of a plan that is done. *)
LEMMA AdviceIsGrounded ==
  ASSUME PlanInv, todoGaps = {}
  PROVE  AdviceGrounded
<1>1. /\ DOMAIN advised \cup DOMAIN refused = OpenDefences(gaps) /\ DOMAIN advised \cap DOMAIN refused = {}
      /\ \A id \in DOMAIN advised : /\ advised[id].statements \subseteq gaps[id[1]].statements
                                    /\ advised[id].entities \subseteq EntitiesOf(pathsFound, id[1])
  BY DEF PlanInv, Advice
<1>2. DOMAIN gaps = TechniquesInPaths(pathsFound)
  BY GroundIs DEF PlanInv
<1>3. \A t : t \in DOMAIN gaps <=> \E p \in DOMAIN pathsFound : t \in TechniquesOf(pathsFound[p])
  BY <1>2 DEF TechniquesInPaths
<1> DEFINE asked == UNION {{<<t, d>> : d \in Required(t)} : t \in TechniquesInPaths(pathsFound)}
<1>4. ASSUME NEW id
      PROVE  id \in OpenDefences(gaps) <=>
             id \in {i \in asked : \E p \in DOMAIN pathsFound : OwesDefence(p, i[1], i[2])}
  <2>1. ASSUME NEW t \in DOMAIN gaps, NEW d \in gaps[t].defences, id = <<t, d>>
        PROVE  id \in asked /\ \E p \in DOMAIN pathsFound : OwesDefence(p, id[1], id[2])
    <3>1. PICK p \in DOMAIN pathsFound : t \in TechniquesOf(pathsFound[p])
      BY <1>3
    <3>2. d \in Required(t) /\ OwesDefence(p, t, d)
      BY <3>1, OwesDefenceIs
    <3>3. id \in asked
      BY <1>2, <2>1, <3>2
    <3> QED  BY <2>1, <3>2, <3>3
  <2>2. ASSUME id \in asked, NEW p \in DOMAIN pathsFound, OwesDefence(p, id[1], id[2])
        PROVE  id \in OpenDefences(gaps)
    <3>1. PICK t \in TechniquesInPaths(pathsFound) : \E d \in Required(t) : id = <<t, d>>
      BY <2>2
    <3>2. PICK d \in Required(t) : id = <<t, d>>
      BY <3>1
    <3>3. OwesDefence(p, t, d)
      BY <2>2, <3>2
    <3>4. d \in gaps[t].defences
      BY <3>3, OwesDefenceIs
    <3> QED  BY <1>2, <3>2, <3>4, OpenIs
  <2> HIDE DEF asked
  <2> QED  BY <2>1, <2>2, OpenIs
<1>5. OpenDefences(gaps) = {i \in asked : \E p \in DOMAIN pathsFound : OwesDefence(p, i[1], i[2])}
  <2> HIDE DEF asked
  <2> QED  BY <1>4
<1>6. ASSUME NEW id \in DOMAIN advised
      PROVE  /\ \A s \in advised[id].statements : \E p \in DOMAIN pathsFound : OwesStatement(p, id[1], s)
             /\ \A e \in advised[id].entities : \E p \in DOMAIN pathsFound : \E s \in pathsFound[p].steps :
                  s.technique = id[1] /\ e \in {s.source, s.target}
  <2>1. PICK u \in DOMAIN gaps : \E d \in gaps[u].defences : id = <<u, d>>
    BY <1>1, OpenIs
  <2>2. id[1] = u
    BY <2>1
  <2>3. PICK p \in DOMAIN pathsFound : u \in TechniquesOf(pathsFound[p])
    BY <1>3
  <2>4. \A s \in advised[id].statements : OwesStatement(p, id[1], s)
    BY <1>1, <2>2, <2>3, OwesStatementIs
  <2>5. ASSUME NEW e \in EntitiesOf(pathsFound, id[1])
        PROVE  \E q \in DOMAIN pathsFound : \E s \in pathsFound[q].steps :
                 s.technique = id[1] /\ e \in {s.source, s.target}
    BY DEF EntitiesOf
  <2> QED  BY <1>1, <2>4, <2>5
<1> QED  BY <1>1, <1>5, <1>6 DEF AdviceGrounded

(* The phases of a plan that is done. *)
LEMMA RoadmapIsSound ==
  ASSUME PlanInv, toPhase = {}, InPhases(phases) = DOMAIN advised
  PROVE  RoadmapAddsUp
<1> DEFINE left == Applied(advised, gaps, DOMAIN advised)
<1>1. /\ IsList(phases)
      /\ \A i, j \in DOMAIN phases : i # j => phases[i].recommendations \cap phases[j].recommendations = {}
      /\ \A i \in DOMAIN phases : phases[i].reduction \in Int /\ phases[i].reduction >= 0
      /\ Reductions(phases) = RiskOf(pathsFound, project, gaps) - RiskOf(pathsFound, project, left)
      /\ \A p \in DOMAIN pathsFound :
           IF OpenPath(pathsFound, p, gaps) /\ ~OpenPath(pathsFound, p, left)
           THEN \E i \in DOMAIN phases : ClosedIn(phases, p) = {i}
           ELSE ClosedIn(phases, p) = {}
  BY DEF PlanInv, RoadMap
<1>2. IsFiniteSet(DOMAIN phases)
  <2>1. DOMAIN phases = 1..Len(phases) /\ Len(phases) \in Nat
    BY <1>1, ListIs
  <2> QED  BY <2>1, FS_Interval
<1>3. ASSUME NEW id \in DOMAIN advised
      PROVE  Cardinality({i \in DOMAIN phases : id \in phases[i].recommendations}) = 1
  <2>1. PICK i \in DOMAIN phases : id \in phases[i].recommendations
    BY DEF InPhases
  <2>2. {j \in DOMAIN phases : id \in phases[j].recommendations} = {i}
    BY <1>1, <2>1
  <2> QED  BY <2>2, FS_Singleton
<1>4. ReductionOf(phases) = RiskReduction
  <2>1. PICK road : road = phases
    OBVIOUS
  <2>2. ReductionOf(road) = Reductions(road)
    BY <1>1, <1>2, <2>1, ReductionIsSum DEF Reductions
  <2>3. RiskReduction = RiskOf(pathsFound, project, gaps) - RiskOf(pathsFound, project, left)
    BY InTermsOf DEF RiskReduction
  <2> QED  BY <1>1, <2>1, <2>2, <2>3
<1> HIDE DEF left
<1>5. ASSUME NEW p \in DOMAIN pathsFound
      PROVE  Cardinality({i \in DOMAIN phases : p \in phases[i].closed}) = IF Owes(p) /\ ~StillOwes(p) THEN 1 ELSE 0
  <2>1. (Owes(p) <=> OpenPath(pathsFound, p, gaps)) /\ (StillOwes(p) <=> OpenPath(pathsFound, p, left))
    BY OwesIs, StillOwesIs DEF left
  <2>2. {i \in DOMAIN phases : p \in phases[i].closed} = ClosedIn(phases, p)
    BY DEF ClosedIn
  <2>3. CASE Owes(p) /\ ~StillOwes(p)
    <3>1. PICK i \in DOMAIN phases : ClosedIn(phases, p) = {i}
      BY <1>1, <2>1, <2>3
    <3> QED  BY <2>2, <2>3, <3>1, FS_Singleton
  <2>4. CASE ~(Owes(p) /\ ~StillOwes(p))
    <3>1. ClosedIn(phases, p) = {}
      BY <1>1, <2>1, <2>4
    <3> QED  BY <2>2, <2>4, <3>1, FS_EmptySet
  <2> QED  BY <2>3, <2>4
<1>6. Planned = DOMAIN advised
  BY InTermsOf
<1> QED  BY <1>1, <1>3, <1>4, <1>5, <1>6 DEF RoadmapAddsUp

(* A roll-up of smaller gaps: fewer statements of a function are owed. *)
LEMMA RollupIsLess ==
  ASSUME NEW g, NEW h, Shrunk(g, h), Sound(g), IsFiniteSet(UNION {g[t].inTier : t \in DOMAIN g}),
         NEW f \in DOMAIN CsfRollup(g)
  PROVE  CsfRollup(h)[f].unsatisfied =< CsfRollup(g)[f].unsatisfied
<1> DEFINE of(ids) == {s \in ids : Statements[s].function = f}
           owed(e) == UNION {e[t].statements : t \in DOMAIN e}
           scope(e) == UNION {e[t].inTier : t \in DOMAIN e}
<1>1. DOMAIN h = DOMAIN g /\ \A t \in DOMAIN g : h[t].inTier = g[t].inTier /\ h[t].statements \subseteq g[t].statements
  BY DEF Shrunk
<1>2. scope(h) = scope(g)
  BY <1>1
<1>3. owed(h) \subseteq owed(g) /\ owed(g) \subseteq scope(g)
  BY <1>1 DEF Sound
<1>4. f \in {Statements[s].function : s \in scope(g)}
  BY DEF CsfRollup
<1>5. CsfRollup(g)[f].unsatisfied = Cardinality(of(owed(g)))
  BY <1>4 DEF CsfRollup
<1>6. CsfRollup(h)[f].unsatisfied = Cardinality(of(owed(h)))
  BY <1>2, <1>4 DEF CsfRollup
<1> HIDE DEF owed, scope
<1>7. IsFiniteSet(of(owed(g))) /\ of(owed(h)) \in SUBSET of(owed(g))
  <2>1. of(owed(g)) \in SUBSET scope(g) /\ IsFiniteSet(scope(g))
    BY <1>3 DEF scope
  <2> QED  BY <1>3, <2>1, FS_Subset
<1> HIDE DEF of
<1>8. Cardinality(of(owed(h))) =< Cardinality(of(owed(g)))
  BY <1>7, FS_Subset
<1> QED  BY <1>5, <1>6, <1>8

LEMMA ExposureIsLess ==
  ASSUME NEW g, NEW h, Shrunk(g, h), NEW path, NEW c, NEW tier
  PROVE  LET before == ScorePath(path, g, c, tier)
             after == ScorePath(path, h, c, tier)
         IN  /\ after.exposure \subseteq before.exposure
             /\ TechniquesOf(path) \subseteq DOMAIN h =>
                  (after.defences \cup after.statements = {} <=> ~\E t \in TechniquesOf(path) : HasGap(h[t]))
<1> DEFINE R == TechniquesOf(path) \cap DOMAIN g
           owed(e) == UNION {x.statements : x \in {e[t] : t \in TechniquesOf(path) \cap DOMAIN e}}
           open(e) == UNION {x.defences : x \in {e[t] : t \in TechniquesOf(path) \cap DOMAIN e}}
<1>1. DOMAIN h = DOMAIN g /\ \A t \in DOMAIN g : h[t].statements \subseteq g[t].statements
  BY DEF Shrunk
<1>2. /\ ScorePath(path, h, c, tier).exposure = RegulatoryExposure(owed(h))
      /\ ScorePath(path, g, c, tier).exposure = RegulatoryExposure(owed(g))
      /\ ScorePath(path, h, c, tier).statements = owed(h)
      /\ ScorePath(path, h, c, tier).defences = open(h)
  BY DEF ScorePath
<1>3. owed(h) \subseteq owed(g)
  BY <1>1
<1>4. ASSUME TechniquesOf(path) \subseteq DOMAIN h
      PROVE  open(h) \cup owed(h) = {} <=> ~\E t \in TechniquesOf(path) : HasGap(h[t])
  <2>1. \A d : d \in open(h) <=> \E t \in TechniquesOf(path) : d \in h[t].defences
    BY <1>4
  <2>2. \A s : s \in owed(h) <=> \E t \in TechniquesOf(path) : s \in h[t].statements
    BY <1>4
  <2> HIDE DEF open, owed
  <2>3. open(h) \cup owed(h) = {} <=>
          ~\E t \in TechniquesOf(path) : (\E d : d \in h[t].defences) \/ \E s : s \in h[t].statements
    BY <2>1, <2>2
  <2> QED  BY <2>3 DEF HasGap
<1> HIDE DEF owed, open
<1>5. RegulatoryExposure(owed(h)) \subseteq RegulatoryExposure(owed(g))
  BY <1>3 DEF RegulatoryExposure
<1> QED  BY <1>2, <1>4, <1>5

(* What is left of the risk when the plan is carried out. *)
LEMMA ResidualIsSound == ASSUME PlanInv PROVE ResidualIsLess
<1> DEFINE left == Applied(advised, gaps, DOMAIN advised)
           baseline == Register(gaps)
           residual == Register(left)
<1>1. /\ project.criticality \in DOMAIN CriticalityWeight /\ project.tier \in NoTier..4 /\ Sound(gaps)
      /\ DOMAIN gaps = TechniquesInPaths(pathsFound) /\ (\A t \in DOMAIN gaps : DOMAIN gaps[t] = GapFields)
      /\ \A p \in DOMAIN pathsFound : pathsFound[p].likelihood \in Nat
  BY GroundIs DEF PlanInv, Ground
<1>2. Shrunk(gaps, left)
  BY <1>1, AppliedShrinks
<1>3. ApplyMitigations(gaps, DOMAIN advised) = left
  BY InTermsOf
<1> HIDE DEF left
<1>4. /\ \A p \in DOMAIN pathsFound :
           /\ baseline.findings[p] = ScorePath(pathsFound[p], gaps, project.criticality, project.tier)
           /\ residual.findings[p] = ScorePath(pathsFound[p], left, project.criticality, project.tier)
      /\ baseline.rollup = CsfRollup(gaps) /\ residual.rollup = CsfRollup(left)
  BY DEF Register, RiskRegister
<1> HIDE DEF baseline, residual
<1>5. ASSUME NEW p \in DOMAIN pathsFound
      PROVE  /\ residual.findings[p].score =< baseline.findings[p].score
             /\ residual.findings[p].exposure \subseteq baseline.findings[p].exposure
             /\ residual.findings[p].defences \cup residual.findings[p].statements = {} <=> ~StillOwes(p)
  <2> DEFINE before == ScorePath(pathsFound[p], gaps, project.criticality, project.tier)
             after == ScorePath(pathsFound[p], left, project.criticality, project.tier)
  <2>1. after.score =< before.score
    BY <1>1, <1>2, ScoreIsLess
  <2>2. TechniquesOf(pathsFound[p]) \subseteq DOMAIN left
    BY <1>1, <1>2 DEF Shrunk, TechniquesInPaths
  <2>3. /\ after.exposure \subseteq before.exposure
        /\ after.defences \cup after.statements = {} <=> ~\E t \in TechniquesOf(pathsFound[p]) : HasGap(left[t])
    BY <1>2, <2>2, ExposureIsLess
  <2>4. StillOwes(p) <=> \E t \in TechniquesOf(pathsFound[p]) : HasGap(left[t])
    BY StillOwesIs DEF left, OpenPath
  <2> HIDE DEF before, after
  <2>5. residual.findings[p] = after /\ baseline.findings[p] = before
    BY <1>4 DEF before, after
  <2> QED  BY <2>1, <2>3, <2>4, <2>5
<1>6. IsFiniteSet(UNION {gaps[t].inTier : t \in DOMAIN gaps})
  <2>1. \A t \in DOMAIN gaps :
          gaps[t] = GapOf(t, Inventory(project.controls, project.profile), project.profile, project.tier)
    BY GroundIs DEF PlanInv
  <2>2. \A t \in DOMAIN gaps : gaps[t].inTier \subseteq project.profile
    BY <2>1 DEF GapOf, InTier, MappedStatements
  <2>3. UNION {gaps[t].inTier : t \in DOMAIN gaps} \in SUBSET project.profile
    BY <2>2
  <2>4. IsFiniteSet(project.profile)
    BY MitigationAssumption DEF PlanInv, Ground
  <2> QED  BY <2>3, <2>4, FS_Subset
<1>7. \A f \in DOMAIN baseline.rollup : residual.rollup[f].unsatisfied =< baseline.rollup[f].unsatisfied
  BY <1>1, <1>2, <1>4, <1>6, RollupIsLess
<1> QED  BY <1>3, <1>5, <1>7 DEF ResidualIsLess, baseline, residual

(* A mitigation plan that is served advises or refuses every open           *)
(* countermeasure on grounds of its gap, shares the advice out to phases    *)
(* whose reductions add up to the residual comparison's, closes each path   *)
(* in one of them, and leaves nothing worse (agent.py, roadmap.py,          *)
(* residual_risk.py): for any paths, controls, profile and advice.          *)
THEOREM PlansHold == MitigationSpec => []PlanHolds
<1>1. PlanInv => PlanHolds
  BY AdviceIsGrounded, RoadmapIsSound, ResidualIsSound DEF PlanInv, PlanHolds, Served
<1> QED  BY <1>1, PlanInvariant, PTL
=============================================================================
