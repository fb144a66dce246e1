---------------------------- MODULE AttackGraph ----------------------------
(***************************************************************************)
(* The attack graph (services/enumeration/attack_graph.py): a breadth      *)
(* first walk from the in-scope external actors over states of an entity,  *)
(* a position and a privilege, each edge enabled by a technique, within    *)
(* budgets of nodes and edges.  One action per candidate of a flow; the    *)
(* code takes flows and candidates in the order of its lists, here they    *)
(* come in any order.                                                      *)
(***************************************************************************)
EXTENDS Enumeration

CONSTANTS
  Models,
  NodeBudget, EdgeBudget,
  TechniquesPerTransition

None == 0
User == 1
Admin == 2

ASSUME AttackAssumption ==
  /\ NodeBudget \in Nat \ {0} /\ EdgeBudget \in Nat /\ TechniquesPerTransition \in Nat \ {0}
  /\ \A m \in Models : WellFormed(m)

VARIABLES
  model, atlas, index,   \* the input: atlas_enabled; whether a snapshot exists
  nodes,                 \* [entity, position, privilege]
  edges,                 \* <<node, node, technique>> -> flow and category
  queue,
  current,               \* the node being expanded: none, or a set of one
  todo,                  \* the <<flow, candidate>> pairs left for it
  built                  \* "seeding", "walking", "built" or "exceeded"

graphVars == <<model, atlas, index, nodes, edges, queue, current, todo, built>>

Actors(m) == {c \in DOMAIN m.components \ OutOfScope(m) : m.components[c].kind = "external_entity"}
EntryPoints(m) == Actors(m)
CrownJewels(m) == {a.owner : a \in m.assets}

AttackInit ==
  /\ model \in Models /\ atlas \in BOOLEAN /\ index \in BOOLEAN
  /\ nodes = {} /\ edges = <<>> /\ queue = <<>>
  /\ current = {} /\ todo = {} /\ built = "seeding"

-----------------------------------------------------------------------------

Start(a) == [entity |-> a, position |-> "external", privilege |-> None]

Exceeds == Cardinality(nodes) >= NodeBudget

Seed(a) ==
  /\ built = "seeding" /\ Start(a) \notin nodes
  /\ IF Exceeds THEN built' = "exceeded" /\ UNCHANGED <<nodes, queue>>
     ELSE nodes' = nodes \cup {Start(a)} /\ queue' = Append(queue, Start(a)) /\ UNCHANGED built
  /\ UNCHANGED <<model, atlas, index, edges, current, todo>>

Seeded ==
  /\ built = "seeding" /\ \A a \in Actors(model) : Start(a) \in nodes
  /\ built' = "walking"
  /\ UNCHANGED <<model, atlas, index, nodes, edges, queue, current, todo>>

(* Flows that touch nothing out of scope and end at a component. *)
FlowsFrom(m, e) ==
  {f \in DOMAIN m.flows :
     /\ m.flows[f].source = e /\ m.flows[f].destination \in DOMAIN m.components
     /\ {m.flows[f].source, m.flows[f].destination} \cap OutOfScope(m) = {}}

FlowCandidates(m, f) ==
  {c \in Candidates(m) : c.element = f /\ c.kind = "dataflow" /\ c.framework = "stride"}

(* check_reachability holds for a flow that is there; check_exposure. *)
Exposed(m, n, f) == n.position # "external" \/ m.flows[f].source \in Actors(m)

(* A programming error: an elevation from nowhere. *)
BugNoFoothold(n, flow, category) ==
  ~flow.authenticated \/ category = "spoofing" \/ n.privilege >= User

(* check_authentication and check_required_privilege. *)
Permitted(n, flow, category) ==
  /\ ~flow.authenticated \/ category = "spoofing" \/ n.privilege >= User
  /\ category = "elevation_of_privilege" => n.privilege >= User

(* _next_privilege *)
Gained(category, privilege) ==
  IF category = "elevation_of_privilege" THEN Admin ELSE IF privilege > User THEN privilege ELSE User

Target(m, n, f, category) ==
  LET e == m.flows[f].destination IN
  [entity |-> e, position |-> m.components[e].zone, privilege |-> Gained(category, n.privilege)]

Dequeue ==
  /\ built = "walking" /\ todo = {} /\ queue # <<>>
  /\ current' = {Head(queue)} /\ queue' = Tail(queue)
  /\ todo' = IF ~index THEN {}
             ELSE {t \in FlowsFrom(model, Head(queue).entity) \X Candidates(model) :
                     t[2] \in FlowCandidates(model, t[1]) /\ Exposed(model, Head(queue), t[1])}
  /\ UNCHANGED <<model, atlas, index, nodes, edges, built>>

(* nx.has_path: to is in every set of states that holds from and that no   *)
(* link leaves.                                                            *)
Links == {<<e[1], e[2]>> : e \in DOMAIN edges}
NoLinkLeaves(S) == \A l \in Links : l[1] \in S => l[2] \in S
HasPath(from, to) == \A S \in SUBSET nodes : from \in S /\ NoLinkLeaves(S) => to \in S

(* A programming error: only an edge from a state to itself is a cycle. *)
BugSelfLoops(from, to) == from = to

Closes(target, n) == HasPath(target, n)

Transition(f, c) ==
  \E n \in current :
    LET techniques == Bridge(c.category, atlas, TechniquesPerTransition)
        target == Target(model, n, f, c.category)
        keys(i) == {<<n, target, techniques[j]>> : j \in 1..i}
        allowed == Permitted(n, model.flows[f], c.category) /\ techniques # <<>>
    IN
    /\ <<f, c>> \in todo
    /\ CASE ~allowed \/ (target \in nodes /\ Closes(target, n)) ->
              todo' = todo \ {<<f, c>>} /\ UNCHANGED <<nodes, edges, queue, built>>
         [] allowed /\ target \notin nodes /\ Exceeds ->
              built' = "exceeded" /\ todo' = {} /\ UNCHANGED <<nodes, edges, queue>>
         [] OTHER ->
              IF \E i \in DOMAIN techniques : Cardinality(DOMAIN edges \cup keys(i - 1)) >= EdgeBudget
              THEN built' = "exceeded" /\ todo' = {} /\ UNCHANGED <<nodes, edges, queue>>
              ELSE /\ nodes' = nodes \cup {target}
                   /\ edges' = [k \in DOMAIN edges \cup keys(Len(techniques)) |->
                        IF k \in keys(Len(techniques)) THEN [flow |-> f, category |-> c.category] ELSE edges[k]]
                   /\ queue' = IF target \in nodes THEN queue ELSE Append(queue, target)
                   /\ todo' = todo \ {<<f, c>>}
                   /\ UNCHANGED built
    /\ UNCHANGED <<model, atlas, index, current>>

GraphBuilt ==
  /\ built = "walking" /\ todo = {} /\ queue = <<>>
  /\ built' = "built"
  /\ UNCHANGED <<model, atlas, index, nodes, edges, queue, current, todo>>

AttackNext ==
  \/ \E a \in Actors(model) : Seed(a)
  \/ Seeded \/ Dequeue \/ GraphBuilt
  \/ \E t \in todo : Transition(t[1], t[2])
AttackSpec == AttackInit /\ [][AttackNext]_graphVars

-----------------------------------------------------------------------------

(* What an attacker can come to hold, written down without a walk, a queue *)
(* or a graph: the least set that holds the actors and is closed under the *)
(* transitions whose preconditions are met.                                *)
Moves(m, n) ==
  {Target(m, n, t[1], t[2]) : t \in
     {t \in FlowsFrom(m, n.entity) \X StrideCategories("dataflow", {}) :
        /\ Exposed(m, n, t[1]) /\ Permitted(n, m.flows[t[1]], t[2])
        /\ Bridge(t[2], atlas, TechniquesPerTransition) # <<>>}}

HoldsAll(S) ==
  /\ \A a \in Actors(model) : Start(a) \in S
  /\ index => \A n \in S : Moves(model, n) \subseteq S

(* At every point of the walk the graph has no cycle, keeps to its         *)
(* budgets and gains no privilege without a foothold; each edge is one     *)
(* flow's, between its two ends.  A graph that is built without running    *)
(* into a budget holds exactly what can be held: leaving out an edge that  *)
(* would close a cycle, or replacing one technique's edge by another       *)
(* flow's, loses no state.                                                 *)
GraphSound ==
  /\ built \in {"walking", "built"} =>
     /\ Cardinality(nodes) =< NodeBudget /\ Cardinality(DOMAIN edges) =< EdgeBudget
     /\ \A k \in DOMAIN edges :
          /\ model.flows[edges[k].flow].source = k[1].entity
          /\ model.flows[edges[k].flow].destination = k[2].entity
          /\ k[1].privilege =< k[2].privilege
          /\ k[2].privilege = Admin => k[1].privilege # None
          /\ ~HasPath(k[2], k[1])
  /\ built = "built" => HoldsAll(nodes) /\ \A S \in SUBSET nodes : HoldsAll(S) => S = nodes

ReachableEntities == {n.entity : n \in nodes}

(* A model with one more flow, from an actor to an entity. *)
WithFlow(m, a, e, new) ==
  [m EXCEPT !.flows = [f \in DOMAIN m.flows \cup {new} |->
     IF f = new THEN [source |-> a, destination |-> e, authenticated |-> FALSE] ELSE m.flows[f]]]

CanEnter == \E c \in StrideCategories("dataflow", {}) :
  c # "elevation_of_privilege" /\ Bridge(c, atlas, TechniquesPerTransition) # <<>>

(* Every candidate of the built graph's model is adjudicated or rejected   *)
(* and passes the gate; a STRIDE threat is applicable only where an        *)
(* attacker can be; and a verdict that waits for a flow from an entry      *)
(* point to some entity would be lifted by exactly such a flow.            *)
AdjudicationAccounts ==
  built = "built" =>
    LET verdicts == Adjudications(model, atlas, index, ReachableEntities)
        refused == Rejections(model, atlas, index) IN
    /\ PassesGroundingGate(verdicts, refused, Cardinality(Candidates(model)))
    /\ {c.element : c \in Candidates(model)} \cap OutOfScope(model) = {}
    /\ \A a \in verdicts :
         LET c == a.candidate IN
         /\ Applicable(a) /\ c.framework = "stride" =>
              \E n \in nodes : n.entity \in (IF c.kind = "dataflow" THEN Endpoints(c, model) ELSE {c.element})
         /\ a.condition = "reachability" /\ CanEnter => c.framework = "stride" /\
              \A e \in UnreachableEntities(c, model, ReachableEntities), x \in Actors(model) :
                \E n \in Moves(WithFlow(model, x, e, "new"), Start(x)) : n.entity = e
=============================================================================
