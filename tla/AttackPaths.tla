---------------------------- MODULE AttackPaths ----------------------------
(***************************************************************************)
(* Attack paths (services/enumeration/path_enumeration.py): once the graph *)
(* is built, for every entry state and every state of a crown jewel, the   *)
(* simple paths between them, most likely first, at most PathsPerTarget of *)
(* at most MaxDepth steps, within a budget of paths looked at.             *)
(*                                                                         *)
(* A likelihood is an integer: a step's is out of Unit, a path's product   *)
(* is brought to the same number of factors before it is compared.         *)
(***************************************************************************)
EXTENDS AttackGraph

CONSTANTS
  CategoryLikelihood,  \* category -> tenths
  Prevalence,          \* technique -> halves: min(1, 20 * fused_score)
  ArticleSets,         \* the intel a search may apply: sets of [techniques, products]
  UpliftFactor,        \* DEFAULT_UPLIFT_FACTOR
  MaxDepth, PathsPerTarget, SearchBudget

(* find_paths keeps one path of a pair at least; uplift lowers nothing.    *)
ASSUME SearchAssumption ==
  /\ MaxDepth \in Nat /\ SearchBudget \in Nat /\ PathsPerTarget \in Nat \ {0} /\ UpliftFactor \in Nat \ {0}
  /\ \A c \in StrideCategories("dataflow", {}) : CategoryLikelihood[c] \in Nat
  /\ \A t \in DOMAIN Score : Prevalence[t] \in Nat

VARIABLES
  articles, \* the intel that applies; none but for a revision
  simple,   \* the collapsed graph: <<state, state>> -> its likeliest edge
  pairs,    \* the entry and target states left to search
  ranked,   \* for the pair in hand: its paths not looked at yet -> likelihood
  looked,   \* how many paths were looked at for it
  found,    \* how many of them were kept
  paths,    \* the paths kept, sequences of states
  capped

(* built goes on to "searching" and ends as "done" or "exceeded".          *)
pathVars == <<articles, simple, pairs, ranked, looked, found, paths, capped>>
attackVars == <<graphVars, pathVars>>

PathsInit ==
  /\ AttackInit
  /\ articles = {} /\ simple = <<>> /\ pairs = {} /\ ranked = <<>> /\ looked = 0 /\ found = 0
  /\ paths = {} /\ capped = FALSE

-----------------------------------------------------------------------------
(* compute_step_likelihood and _collapse_to_simple_graph; of two edges as  *)
(* likely the code takes the one that was added first.                     *)

Unit == 5 * 10 * 2 * 2
Exposure(n) == IF n.position = "external" THEN 5 ELSE 4
ControlPresence(n) == IF n.entity \in UNION Range(model.controls) THEN 1 ELSE 2

(* corroborated_uplift: of techniques that the corpus knows. *)
IntelUplift(t) ==
  IF t \in DOMAIN Score /\ \E a \in articles : t \in a.techniques THEN UpliftFactor ELSE 1

StepLikelihood(k) ==
  LET product == Exposure(k[1]) * CategoryLikelihood[edges[k].category]
                   * Prevalence[k[3]] * ControlPresence(k[2]) * IntelUplift(k[3])
  IN IF product > Unit THEN Unit ELSE product

Between(n, t) == {k \in DOMAIN edges : k[1] = n /\ k[2] = t}

(* A programming error: the first technique found stands for the step.     *)
BugAnyTechnique == [l \in Links |-> CHOOSE k \in Between(l[1], l[2]) : TRUE]

Likeliest(n, t) == {k \in Between(n, t) : \A o \in Between(n, t) : StepLikelihood(o) =< StepLikelihood(k)}
Collapse == [l \in Links |-> CHOOSE k \in Likeliest(l[1], l[2]) : TRUE]

(* The product over a path, as if it had n steps. *)
Likelihood(p, n) ==
  LET step(i) == IF i < Len(p) THEN StepLikelihood(simple[<<p[i], p[i + 1]>>]) ELSE Unit
      product[i \in 0..n] == IF i = 0 THEN 1 ELSE step(i) * product[i - 1]
  IN product[n]

(* A simple path visits a state at most once. *)
LongestPath == NodeBudget - 1
PathLikelihood(p) == Likelihood(p, LongestPath)

(* The simple paths, a state longer at each turn. *)
Ways(links, n, turns) ==
  LET grown[i \in 0..turns] ==
        IF i = 0 THEN {<<n>>}
        ELSE grown[i - 1] \cup
             UNION {{Append(p, l[2]) : l \in {l \in links : l[1] = Last(p) /\ l[2] \notin Range(p)}} :
                      p \in grown[i - 1]}
  IN grown[turns]

SimplePaths(n, t) == {p \in Ways(Links, n, Cardinality(nodes)) : Last(p) = t}

Pairs ==
  LET linked == UNION {{l[1], l[2]} : l \in Links} IN
  {p \in linked \X linked :
     /\ p[1].entity \in EntryPoints(model) /\ p[2].entity \in CrownJewels(model)
     /\ p[1] # p[2] /\ HasPath(p[1], p[2])}

-----------------------------------------------------------------------------

StartSearch(intel) ==
  /\ built = "built" /\ built' = "searching"
  /\ articles' = intel /\ pairs' = Pairs
  /\ UNCHANGED <<model, atlas, index, nodes, edges, queue, current, todo, ranked, looked, found, paths, capped>>
  /\ simple' = Collapse'

TakePair(p) ==
  /\ built = "searching" /\ ranked = <<>> /\ p \in pairs
  /\ pairs' = pairs \ {p} /\ looked' = 0 /\ found' = 0
  /\ ranked' = [q \in SimplePaths(p[1], p[2]) |-> PathLikelihood(q)]
  /\ UNCHANGED <<graphVars, articles, simple, paths, capped>>

(* A programming error: the shortest path next, not the most likely one. *)
BugShortestNext == {q \in DOMAIN ranked : \A o \in DOMAIN ranked : Len(q) =< Len(o)}

(* shortest_simple_paths over -log(likelihood); ties in any order, in two  *)
(* searches not always the same one.                                       *)
NextPaths == {q \in DOMAIN ranked : \A o \in DOMAIN ranked : ranked[q] >= ranked[o]}

NextPath(q) ==
  /\ built = "searching" /\ q \in NextPaths
  /\ looked' = looked + 1
  /\ CASE looked >= SearchBudget ->
            built' = "exceeded" /\ UNCHANGED <<ranked, found, paths, capped>>
       [] looked < SearchBudget /\ Len(q) - 1 =< MaxDepth /\ found >= PathsPerTarget ->
            capped' = TRUE /\ ranked' = <<>> /\ UNCHANGED <<found, paths, built>>
       [] OTHER ->
            /\ ranked' = Restrict(ranked, DOMAIN ranked \ {q})
            /\ IF Len(q) - 1 > MaxDepth THEN UNCHANGED <<found, paths>>
               ELSE found' = found + 1 /\ paths' = paths \cup {q}
            /\ UNCHANGED <<capped, built>>
  /\ UNCHANGED <<model, atlas, index, nodes, edges, queue, current, todo, articles, simple, pairs>>

SearchDone ==
  /\ built = "searching" /\ pairs = {} /\ ranked = <<>>
  /\ built' = "done"
  /\ UNCHANGED <<model, atlas, index, nodes, edges, queue, current, todo, pathVars>>

PathsNext ==
  \/ AttackNext /\ UNCHANGED pathVars
  \/ \E intel \in ArticleSets : StartSearch(intel)
  \/ SearchDone
  \/ \E p \in pairs : TakePair(p)
  \/ \E q \in DOMAIN ranked : NextPath(q)
PathsSpec == PathsInit /\ [][PathsNext]_attackVars

-----------------------------------------------------------------------------

(* The ways to attack along a path, an edge for each step. *)
Attacks(p) == {a \in [1..(Len(p) - 1) -> DOMAIN edges] : \A i \in DOMAIN a : a[i] \in Between(p[i], p[i + 1])}
AttackLikelihood(a) ==
  LET product[i \in 0..LongestPath] ==
        IF i = 0 THEN 1 ELSE (IF i \in DOMAIN a THEN StepLikelihood(a[i]) ELSE Unit) * product[i - 1]
  IN product[LongestPath]

(* What a search returns, against every way to attack in the graph: a path *)
(* goes from an entry point to a crown jewel in steps that exist; at most  *)
(* PathsPerTarget are kept for a pair; no attack of MaxDepth steps at most *)
(* that is not along a kept path is more likely than a kept one; and if it *)
(* is not marked as capped, nothing was left out.                          *)
PathsBest ==
  built = "done" =>
    \A p \in Pairs :
      LET kept == {q \in paths : q[1] = p[1] /\ Last(q) = p[2]}
          others == {q \in SimplePaths(p[1], p[2]) \ kept : Len(q) - 1 =< MaxDepth} IN
      /\ kept \subseteq SimplePaths(p[1], p[2]) /\ Cardinality(kept) =< PathsPerTarget
      /\ kept = {} => others = {}
      /\ \A q \in kept, o \in others : \A a \in Attacks(o) : AttackLikelihood(a) =< PathLikelihood(q)
      /\ ~capped => others = {}
=============================================================================
