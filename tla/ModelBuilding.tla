--------------------------- MODULE ModelBuilding ---------------------------
(***************************************************************************)
(* Model building (services/modelbuilding): the diagrams and the prose of  *)
(* a project's documents are merged, document by document, into one draft  *)
(* with a ledger of assumptions; the draft is checked for completeness and *)
(* frozen into a system model (services/systemmodel/freeze.py), in which   *)
(* what is out of scope is marked.                                         *)
(*                                                                         *)
(* Elements are numbered as the code numbers them: the id of the nth       *)
(* component is <<"component", n>>, so an id tells the place in its list.  *)
(***************************************************************************)
EXTENDS Naturals, Sequences, FiniteSets, SequencesExt, FiniteSetsExt

CONSTANTS
  DocumentLists,   \* the projects considered: sequences of documents
  Normalize,       \* label -> its normal form: trimmed, one space, lower case
  Unparsed,        \* a Mermaid block that does not parse
  OtIndicated,     \* names and tags that match an OT/ICS indicator
  MobileIndicated,
  Unstated         \* None

IsList(s) == s \in Seq(Range(s))

(* What the parsers and the extraction give are lists. *)
ASSUME DocumentsAssumption ==
  \A list \in DocumentLists : IsList(list) /\ \A x \in Range(list) :
    /\ IsList(x.diagrams)
    /\ \A l \in {"components", "actors", "flows", "assets", "zones", "controls"} : IsList(x.prose[l])
    /\ \A m \in Range(x.diagrams) \ {Unparsed} : \A l \in {"nodes", "edges", "subgraphs"} : IsList(m[l])

VARIABLES
  documents, doc, block,   \* the input; the document and block in hand
  draft,                       \* the builder: the draft and its two indexes
  findings,                \* completeness_findings
  frozen,                  \* the system model, or Unstated
  phase                    \* "merging", "checked" or "frozen"

buildVars == <<documents, doc, block, draft, findings, frozen, phase>>

Fields == {"protocol", "authenticated", "encrypted"}
NothingStated == [x \in Fields |-> Unstated]

EmptyBuilder ==
  [components |-> <<>>, actors |-> <<>>, flows |-> <<>>, zones |-> <<>>, assets |-> <<>>,
   controls |-> <<>>, assumptions |-> {}, names |-> <<>>, nodes |-> <<>>]

BuildInit ==
  /\ documents \in DocumentLists
  /\ doc = 1 /\ block = 1 /\ draft = EmptyBuilder
  /\ findings = {} /\ frozen = Unstated /\ phase = "merging"

(* An entry of the ledger: its kind, what it is about and what it says of  *)
(* it, which is what the message has that no other entry of that kind has. *)
Assume(kind, subject, says) == [kind |-> kind, subject |-> subject, says |-> says]

Undrawn == <<"appears only in prose">>

(* dict[key] = value *)
Put(f, key, value) == [x \in DOMAIN f \cup {key} |-> IF x = key THEN value ELSE f[x]]

-----------------------------------------------------------------------------
(* Diagrams *)

InferKind(shape) ==
  CASE shape = "cylinder" -> "datastore"
    [] shape \in {"circle", "double_circle", "stadium"} -> "external_entity"
    [] OTHER -> "process"

NewElement(d, label, kind, tags, origin) ==
  LET actor == kind = "external_entity"
      id == IF actor THEN <<"actor", Len(d.actors) + 1>> ELSE <<"component", Len(d.components) + 1>>
  IN [d EXCEPT
        !.actors = IF actor THEN Append(@, [name |-> label, origin |-> origin]) ELSE @,
        !.components = IF actor THEN @
          ELSE Append(@, [name |-> label, kind |-> kind, zone |-> Unstated, tags |-> tags, origin |-> origin]),
        !.names = Put(@, Normalize[label], id)]

Named(d, label) == Normalize[label] \in DOMAIN d.names
IdOf(d, label) == d.names[Normalize[label]]

(* _add_mermaid_node: by node id within the document, then by name. *)
AddNode(d, key, label, kind) ==
  IF key \in DOMAIN d.nodes THEN d
  ELSE LET e == IF Named(d, label) THEN d ELSE NewElement(d, label, kind, {}, "mermaid")
       IN [e EXCEPT !.nodes = Put(@, key, IdOf(e, label))]

AddEdge(d, name, edge) ==
  LET e == AddNode(AddNode(d, <<name, edge.source>>, edge.source, "process"),
                   <<name, edge.target>>, edge.target, "process")
  IN [e EXCEPT !.flows = Append(@, [source |-> e.nodes[<<name, edge.source>>],
        target |-> e.nodes[<<name, edge.target>>], stated |-> NothingStated, origin |-> "mermaid"])]

(* A component stays in the first zone that claims it. *)
PlaceIn(components, members, zone) ==
  [i \in DOMAIN components |->
     IF <<"component", i>> \in members /\ components[i].zone = Unstated
     THEN [components[i] EXCEPT !.zone = zone] ELSE components[i]]

AddZone(d, name, members, origin) ==
  [d EXCEPT !.zones = Append(@, [name |-> name, members |-> members, origin |-> origin]),
            !.components = PlaceIn(@, members, Len(d.zones) + 1)]

AddSubgraph(d, name, s) ==
  AddZone(d, s.title, {d.nodes[k] : k \in {<<name, n>> : n \in s.nodes} \cap DOMAIN d.nodes}, "mermaid")

-----------------------------------------------------------------------------
(* Prose *)

Inferred(d, subject, says) == [d EXCEPT !.assumptions = @ \cup {Assume("inference", subject, says)}]

(* _merge_component_or_actor; an actor that prose calls a component keeps  *)
(* quiet about it.                                                         *)
MergeElement(d, label, kind, tags) ==
  IF ~Named(d, label)
  THEN LET e == NewElement(d, label, kind, tags, "prose") IN Inferred(e, IdOf(e, label), Undrawn)
  ELSE LET id == IdOf(d, label) IN
       IF id[1] = "actor" THEN [d EXCEPT !.actors[id[2]].origin = "merged"]
       ELSE [d EXCEPT
               !.components[id[2]].tags = @ \cup tags, !.components[id[2]].origin = "merged",
               !.assumptions = IF d.components[id[2]].kind = kind THEN @ ELSE @ \cup {Assume("conflict", id, <<kind>>)}]

ResolveOrStub(d, label) == IF Named(d, label) THEN d ELSE MergeElement(d, label, "process", {})

(* A programming error: the later of two values is kept, unrecorded. *)
BugMergeFields(d, i, stated) ==
  [d EXCEPT !.flows[i] = [@ EXCEPT !.origin = "merged",
     !.stated = [x \in Fields |-> IF stated[x] = Unstated THEN @[x] ELSE stated[x]]]]

(* Each field of an existing flow: filled in, or in conflict and kept. *)
MergeFields(d, i, stated) ==
  LET old == d.flows[i].stated
      conflicts == {x \in Fields : Unstated \notin {old[x], stated[x]} /\ old[x] # stated[x]}
  IN [d EXCEPT
        !.flows[i] = [@ EXCEPT !.origin = "merged",
           !.stated = [x \in Fields |-> IF old[x] = Unstated THEN stated[x] ELSE old[x]]],
        !.assumptions = @ \cup {Assume("conflict", <<"flow", i>>, <<x, stated[x]>>) : x \in conflicts}]

MergeFlow(d, item) ==
  LET e == ResolveOrStub(ResolveOrStub(d, item.source), item.target)
      source == IdOf(e, item.source)
      target == IdOf(e, item.target)
      i == SelectInSeq(e.flows, LAMBDA f : f.source = source /\ f.target = target)
  IN IF i # 0 THEN MergeFields(e, i, item.stated)
     ELSE Inferred([e EXCEPT !.flows = Append(@,
            [source |-> source, target |-> target, stated |-> item.stated, origin |-> "prose"])], source, <<"to", target>>)

Ids(d, labels) == {IdOf(d, n) : n \in {n \in labels : Named(d, n)}}

MergeAsset(d, item) ==
  LET id == <<"asset", Len(d.assets) + 1>>
      blank == item.class = Unstated
  IN [d EXCEPT
        !.assets = Append(@, [class |-> IF blank THEN "unclassified" ELSE item.class,
                              owner |-> Ids(d, {item.owner} \ {Unstated})]),
        !.assumptions = @ \cup {Assume("inference", id, Undrawn)}
                          \cup IF blank THEN {Assume("default", id, <<"unclassified">>)} ELSE {}]

(* A zone that is known gets members, which keep the zone they had. *)
MergeZone(d, item) ==
  LET members == Ids(d, item.members)
      i == SelectInSeq(d.zones, LAMBDA z : Normalize[z.name] = Normalize[item.name])
  IN IF i # 0
     THEN [d EXCEPT !.zones[i].members = @ \cup members, !.zones[i].origin = "merged"]
     ELSE Inferred(AddZone(d, item.name, members, "prose"), <<"zone", Len(d.zones) + 1>>, Undrawn)

MergeControl(d, item) == [d EXCEPT !.controls = Append(@, [appliesTo |-> Ids(d, item.appliesTo)])]

ProseKind(kind) == IF kind \in {"process", "datastore"} THEN kind ELSE "process"

-----------------------------------------------------------------------------
(* What a diagram or an extraction adds, one item after the other: the     *)
(* lists of either are merged in this order.                               *)

Tagged(list, s) == [i \in DOMAIN s |-> [list |-> list, item |-> s[i]]]

DiagramItems(diagram) ==
  Tagged("node", diagram.nodes) \o Tagged("edge", diagram.edges) \o Tagged("subgraph", diagram.subgraphs)
ProseItems(p) ==
  Tagged("component", p.components) \o Tagged("actor", p.actors) \o Tagged("flow", p.flows) \o
  Tagged("asset", p.assets) \o Tagged("zone", p.zones) \o Tagged("control", p.controls)

MergeItem(d, name, x) ==
  CASE x.list = "node" -> AddNode(d, <<name, x.item.id>>, x.item.label, InferKind(x.item.shape))
    [] x.list = "edge" -> AddEdge(d, name, x.item)
    [] x.list = "subgraph" -> AddSubgraph(d, name, x.item)
    [] x.list = "component" -> MergeElement(d, x.item.name, ProseKind(x.item.kind), x.item.tags)
    [] x.list = "actor" -> MergeElement(d, x.item, "external_entity", {})
    [] x.list = "flow" -> MergeFlow(d, x.item)
    [] x.list = "asset" -> MergeAsset(d, x.item)
    [] x.list = "zone" -> MergeZone(d, x.item)
    [] x.list = "control" -> MergeControl(d, x.item)

MergeAll(d, name, items) ==
  LET merged[i \in 0..Len(items)] == IF i = 0 THEN d ELSE MergeItem(merged[i - 1], name, items[i])
  IN merged[Len(items)]

-----------------------------------------------------------------------------
(* Completeness *)

ElementIds(d) == {<<"component", i>> : i \in DOMAIN d.components} \cup {<<"actor", i>> : i \in DOMAIN d.actors}

(* element_trust_zone: the first zone in the list with this member. *)
ZoneOf(d, id) == SelectInSeq(d.zones, LAMBDA z : id \in z.members)

Finding(kind, subject) == [kind |-> kind, subject |-> subject]
Flows(d, Test(_)) == {<<"flow", i>> : i \in {i \in DOMAIN d.flows : Test(d.flows[i])}}

DanglingFlows(d) == Flows(d, LAMBDA f : ~({f.source, f.target} \subseteq ElementIds(d)))
UntaggedCrossings(d) ==
  Flows(d, LAMBDA f : ZoneOf(d, f.source) # ZoneOf(d, f.target) /\ f.stated = NothingStated)
SourcelessSinks(d) ==
  {<<"component", i>> : i \in {i \in DOMAIN d.components :
     d.components[i].kind = "datastore" /\ <<"component", i>> \notin {f.target : f \in Range(d.flows)}}}
UnclassifiedAssets(d) == {<<"asset", i>> : i \in {i \in DOMAIN d.assets : d.assets[i].class = "unclassified"}}

CheckCompleteness(d) ==
  {Finding("dangling_flow", x) : x \in DanglingFlows(d)} \cup
  {Finding("sourceless_sink", x) : x \in SourcelessSinks(d)} \cup
  {Finding("unclassified_asset", x) : x \in UnclassifiedAssets(d)} \cup
  {Finding("untagged_boundary_crossing", x) : x \in UntaggedCrossings(d)}

-----------------------------------------------------------------------------
(* freeze_draft and detect_out_of_scope *)

Unclassified == 0

FreezeDraft(d) ==
  LET unzoned == Len(d.actors) > 0 \/ \E c \in Range(d.components) : c.zone = Unstated
      component(c) == [kind |-> c.kind, zone |-> IF c.zone = Unstated THEN Unclassified ELSE c.zone, marks |-> {c.name} \cup c.tags]
      actor(a) == [kind |-> "external_entity", zone |-> Unclassified, marks |-> {a.name}]
  IN [zones      |-> DOMAIN d.zones \cup IF unzoned THEN {Unclassified} ELSE {},
      components |-> [id \in ElementIds(d) |->
                        IF id[1] = "actor" THEN actor(d.actors[id[2]]) ELSE component(d.components[id[2]])],
      flows      |-> d.flows,
      assets     |-> d.assets,
      controls   |-> d.controls]

(* The category of the declaration, OT/ICS before mobile. *)
ScopeCategory(c) ==
  CASE c.marks \cap OtIndicated # {} -> "ot_ics"
    [] c.marks \cap OtIndicated = {} /\ c.marks \cap MobileIndicated # {} -> "mobile_client"
    [] OTHER -> "in_scope"

DetectOutOfScope(m) ==
  {[subject |-> id, category |-> ScopeCategory(m.components[id])] :
     id \in {id \in DOMAIN m.components : ScopeCategory(m.components[id]) # "in_scope"}}

-----------------------------------------------------------------------------
(* The agent's tool calls, in its order. *)

Document == documents[doc]
More == phase = "merging" /\ doc =< Len(documents)

ParseAndAdd ==
  /\ More /\ block =< Len(Document.diagrams) /\ Document.diagrams[block] # Unparsed
  /\ draft' = MergeAll(draft, Document.name, DiagramItems(Document.diagrams[block]))
  /\ block' = block + 1
  /\ UNCHANGED <<documents, doc, findings, frozen, phase>>

ParseFails ==
  /\ More /\ block =< Len(Document.diagrams) /\ Document.diagrams[block] = Unparsed
  /\ draft' = [draft EXCEPT !.assumptions = @ \cup {Assume("default", <<"document", Document.name>>, <<"unparsed">>)}]
  /\ block' = block + 1
  /\ UNCHANGED <<documents, doc, findings, frozen, phase>>

AddExtraction ==
  /\ More /\ block > Len(Document.diagrams)
  /\ draft' = MergeAll(draft, Document.name, ProseItems(Document.prose))
  /\ doc' = doc + 1 /\ block' = 1
  /\ UNCHANGED <<documents, findings, frozen, phase>>

CheckDraft ==
  /\ phase = "merging" /\ doc > Len(documents)
  /\ findings' = CheckCompleteness(draft) /\ phase' = "checked"
  /\ UNCHANGED <<documents, doc, block, draft, frozen>>

FreezeTheDraft ==
  /\ phase = "checked"
  /\ frozen' = [model |-> FreezeDraft(draft), outOfScope |-> DetectOutOfScope(FreezeDraft(draft))]
  /\ phase' = "frozen"
  /\ UNCHANGED <<documents, doc, block, draft, findings>>

BuildNext == ParseAndAdd \/ ParseFails \/ AddExtraction \/ CheckDraft \/ FreezeTheDraft
BuildSpec == BuildInit /\ [][BuildNext]_buildVars

-----------------------------------------------------------------------------

OnLedger(kind, subject, says) == Assume(kind, subject, says) \in draft.assumptions
NameOf(id) == IF id[1] = "actor" THEN draft.actors[id[2]].name ELSE draft.components[id[2]].name
KindOf(id) == IF id[1] = "actor" THEN "external_entity" ELSE draft.components[id[2]].kind
MergedDocuments == {documents[i] : i \in 1..(doc - 1)}

(* Names and ids: one element for each name, and nothing refers to an      *)
(* element that is not there.                                              *)
ReferencesResolve ==
  /\ \A x, y \in ElementIds(draft) : x # y => Normalize[NameOf(x)] # Normalize[NameOf(y)]
  /\ \A n \in DOMAIN draft.names : draft.names[n] \in ElementIds(draft) /\ Normalize[NameOf(draft.names[n])] = n
  /\ \A f \in Range(draft.flows) : {f.source, f.target} \subseteq ElementIds(draft)
  /\ \A z \in Range(draft.zones) : z.members \subseteq ElementIds(draft)
  /\ \A a \in Range(draft.assets) : a.owner \subseteq ElementIds(draft)
  /\ \A c \in Range(draft.controls) : c.appliesTo \subseteq ElementIds(draft)

(* What the diagrams of the documents draw: ends of edges, and zones.      *)
Drawings == UNION {{[name |-> x.name, diagram |-> m] : m \in Range(x.diagrams) \ {Unparsed}} : x \in Range(documents)}
DrawnEdges == UNION {{<< <<g.name, e.source>>, <<g.name, e.target>> >> : e \in Range(g.diagram.edges)} : g \in Drawings}
DrawnZones == UNION {{s.title : s \in Range(g.diagram.subgraphs)} : g \in Drawings}

(* A flow that an edge of a diagram stands for. *)
IsDrawn(d, f) ==
  \E k \in DrawnEdges : /\ k[1] \in DOMAIN d.nodes /\ k[2] \in DOMAIN d.nodes
                        /\ f.source = d.nodes[k[1]] /\ f.target = d.nodes[k[2]]

(* Each element, flow, zone and asset that no diagram draws has its        *)
(* inference in the ledger, however many documents speak of it.            *)
UndrawnRecorded ==
  /\ \A x \in ElementIds(draft) : x \in Range(draft.nodes) \/ OnLedger("inference", x, Undrawn)
  /\ \A f \in Range(draft.flows) : IsDrawn(draft, f) \/ OnLedger("inference", f.source, <<"to", f.target>>)
  /\ \A i \in DOMAIN draft.zones : draft.zones[i].name \in DrawnZones \/ OnLedger("inference", <<"zone", i>>, Undrawn)
  /\ \A i \in DOMAIN draft.assets : OnLedger("inference", <<"asset", i>>, Undrawn)

KindKept(label, kind) ==
  LET id == IdOf(draft, label) IN KindOf(id) = kind \/ OnLedger("conflict", id, <<kind>>)

(* What a document says of a flow, field by field, of a component's kind   *)
(* (one that is unknown is read as process) and of an asset's class, is    *)
(* what the draft holds, or the ledger has just that conflict or default.  *)
StatementsKept ==
  \A d \in MergedDocuments :
    /\ \A item \in Range(d.prose.flows) : \E i \in DOMAIN draft.flows :
         /\ draft.flows[i].source = IdOf(draft, item.source) /\ draft.flows[i].target = IdOf(draft, item.target)
         /\ \A x \in Fields :
              \/ item.stated[x] \in {Unstated, draft.flows[i].stated[x]}
              \/ draft.flows[i].stated[x] # Unstated /\ OnLedger("conflict", <<"flow", i>>, <<x, item.stated[x]>>)
    /\ \A item \in Range(d.prose.components) :
         IdOf(draft, item.name)[1] # "actor" => KindKept(item.name, ProseKind(item.kind))
    /\ \A actor \in Range(d.prose.actors) : KindKept(actor, "external_entity")
    /\ \A item \in Range(d.prose.assets) : \E i \in DOMAIN draft.assets :
         IF item.class = Unstated
         THEN draft.assets[i].class = "unclassified" /\ OnLedger("default", <<"asset", i>>, <<"unclassified">>)
         ELSE draft.assets[i].class = item.class

(* So much of what prose adds or contradicts is in the ledger. Not in it:  *)
(* declared controls, that an actor was called a component, a further zone *)
(* of a component, and what prose fills in (tags, fields, members).        *)
LedgerTold == UndrawnRecorded /\ StatementsKept

(* A frozen model places every element in a zone it has, loses none, and   *)
(* its out-of-scope marks are those of its own elements; a draft never has *)
(* a dangling flow to report.                                              *)
FrozenWhole ==
  phase = "frozen" =>
    /\ \A c \in Range(frozen.model.components) : c.zone \in frozen.model.zones
    /\ DOMAIN frozen.model.components = ElementIds(draft)
    /\ \A i \in DOMAIN draft.components :
         draft.components[i].zone # Unstated => <<"component", i>> \in draft.zones[draft.components[i].zone].members
    /\ \A f \in findings : f.kind # "dangling_flow"
    /\ {o.subject : o \in frozen.outOfScope} =
         {x \in ElementIds(draft) : frozen.model.components[x].marks \cap (OtIndicated \cup MobileIndicated) # {}}

(* Whatever documents are merged and in whatever order, the draft is one   *)
(* consistent model; its ledger has the elements, flows, zones and assets  *)
(* that no diagram draws, the fields of flows and the kinds of components  *)
(* that prose states and the draft does not hold, and the defaults; and    *)
(* freezing it keeps the elements and their zones (ModelBuilder,           *)
(* check_completeness, freeze_draft). What the ledger does not have is     *)
(* named at LedgerTold; LedgerComplete asks for what the code promises.    *)
DraftSound == ReferencesResolve /\ LedgerTold /\ FrozenWhole

(* Nothing that prose says enters or leaves the draft silently: every      *)
(* control it declares has an entry of the ledger, and every kind it       *)
(* states is the element's or in conflict with it (_merge_declared_control,*)
(* _merge_component_or_actor).  Neither is so: controls are added without  *)
(* an entry, and an actor that prose calls a component stays an actor.     *)
LedgerComplete ==
  /\ \A i \in DOMAIN draft.controls : \E a \in draft.assumptions : a.subject = <<"control", i>>
  /\ \A d \in MergedDocuments : \A item \in Range(d.prose.components) : KindKept(item.name, ProseKind(item.kind))
=============================================================================
