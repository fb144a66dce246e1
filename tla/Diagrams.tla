------------------------------ MODULE Diagrams ------------------------------
(***************************************************************************)
(* Design documents as they are read: the Mermaid blocks that are taken    *)
(* out of a document (services/mermaid_extraction.py), the two parsers of  *)
(* a block (services/mermaid), each line by line, and the renderer that    *)
(* writes a parsed diagram as a flowchart again.                           *)
(*                                                                         *)
(* A line is what the regular expressions make of it: a statement with its *)
(* parts, or "bad" when they make nothing of it.  A chain is a sequence of *)
(* nodes with an edge between each two, all of one kind.                   *)
(*                                                                         *)
(* A label is abstracted to what becomes of it when it is written and read *)
(* again: "plain", which comes back; "slash", which begins with / or \ and *)
(* opens a shape that nothing closes; "slashes", which ends with one too;  *)
(* "backslash", which is quoted and has one before a quote as written;     *)
(* "ampersand", with & between words, from an entity or a C4 text; "bar",  *)
(* with | in it.                                                           *)
(***************************************************************************)
EXTENDS Naturals, Sequences, FiniteSets, SequencesExt

CONSTANTS
  FlowLines, C4Lines,  \* the statements considered
  AutoIds,             \* ids of the first, second... subgraph without a name
  TextLines,           \* lines of a document: [char, run, rest]
  MaxLines,            \* of a block
  MaxText              \* lines of a document

Unnamed == "unnamed"
NoLabel == "none"
Form(shape, label) == [shape |-> shape, label |-> label]
Default == Form("default", NoLabel)   \* no shape at this occurrence

(* A chain has its nodes in a sequence; a subgraph without a name is given *)
(* one, and a boundary has one.  An id is one that the flowchart grammar   *)
(* reads as the renderer writes it: not a quoted subgraph id, nor a C4 id  *)
(* that is no word, nor one that begins another statement (end, subgraph,  *)
(* direction, style, class).                                               *)
ASSUME StatementsAssumption ==
  /\ \A l \in FlowLines : l.kind = "chain" => l.nodes \in Seq(Range(l.nodes))
  /\ \A l \in C4Lines : l.kind = "boundary" => l.id # Unnamed
  /\ MaxLines \in Nat /\ \A n \in 1..MaxLines : AutoIds[n] # Unnamed

(* A run is a number of equal characters, and its character is one of them. *)
ASSUME TextAssumption ==
  /\ MaxText \in Nat
  /\ \A l \in TextLines : l = [char |-> l.char, run |-> l.run, rest |-> l.rest] /\ l.run \in Nat

VARIABLES
  grammar,   \* "none" before the header, "flowchart", "c4" or "error"
  parser,    \* what the parser has of the block
  lines,     \* lines read
  text,      \* the document's lines so far
  blocks,    \* the spans of the extracted blocks
  kept,      \* the line numbers of the prose that is kept
  extracting, stripping   \* the fence each of the two functions is in

blockVars == <<grammar, parser, lines>>
fenceVars == <<text, blocks, kept, extracting, stripping>>

Start0 == [nodes |-> <<>>, edges |-> <<>>, stack |-> <<>>, members |-> <<>>,
           children |-> <<>>, subgraphs |-> <<>>, auto |-> 0]

NoFence == [in |-> FALSE, char |-> " ", len |-> 0, mermaid |-> FALSE, start |-> 0]

BlockInit == grammar = "none" /\ parser = Start0 /\ lines = 0
FenceInit == text = <<>> /\ blocks = {} /\ kept = {} /\ extracting = NoFence /\ stripping = NoFence

-----------------------------------------------------------------------------
(* Subgraphs and boundaries: a stack, kept by id. *)

PutAt(f, x, value) == [y \in DOMAIN f \cup {x} |-> IF y = x THEN value ELSE f[y]]

(* Lists by subgraph, with an id more in that of the innermost subgraph.   *)
Filed(s, lists, id) ==
  IF s.stack = <<>> THEN lists ELSE PutAt(lists, Last(s.stack), lists[Last(s.stack)] \cup {id})

EnterSubgraph(s, id) ==
  [s EXCEPT !.members = PutAt(s.members, id, {}),
            !.children = Filed(s, PutAt(s.children, id, {}), id),
            !.stack = Append(s.stack, id)]

ExitSubgraph(s) ==
  LET id == Last(s.stack) IN
  [s EXCEPT !.stack = Front(s.stack),
     !.subgraphs = Append(s.subgraphs, [id |-> id, nodes |-> s.members[id], children |-> s.children[id]])]

(* A programming error: the last mention of a node decides its form.       *)
BugRegisterNode(s, n) ==
  [s EXCEPT !.members = Filed(s, s.members, n.id), !.nodes = PutAt(s.nodes, n.id, n.form)]

(* The first shape that is given stays; a bare mention is no shape. *)
RegisterNode(s, n) ==
  [s EXCEPT !.members = Filed(s, s.members, n.id),
     !.nodes = IF n.id \notin DOMAIN s.nodes \/ (n.form # Default /\ s.nodes[n.id] = Default)
               THEN PutAt(s.nodes, n.id, n.form) ELSE s.nodes]

Registered(s, nodes) ==
  LET after[k \in 0..Len(nodes)] == IF k = 0 THEN s ELSE RegisterNode(after[k - 1], nodes[k]) IN
  after[Len(nodes)]

Edge(x, y, both, label) == [source |-> x, target |-> y, bidirectional |-> both, label |-> label]

Chain(s, nodes, both, label) ==
  [Registered(s, nodes) EXCEPT
     !.edges = s.edges \o [i \in 1..(Len(nodes) - 1) |-> Edge(nodes[i].id, nodes[i + 1].id, both, label)]]

(* A subgraph without a name is numbered. *)
AutoId(s) == AutoIds[s.auto + 1]

FlowAccepts(s, l) == l.kind # "bad" /\ (l.kind = "end" => s.stack # <<>>)

FlowLine(s, l) ==
  CASE l.kind = "chain" -> Chain(s, l.nodes, l.both, l.label)
    [] l.kind = "subgraph" /\ l.id # Unnamed -> EnterSubgraph(s, l.id)
    [] l.kind = "subgraph" /\ l.id = Unnamed -> EnterSubgraph([s EXCEPT !.auto = s.auto + 1], AutoId(s))
    [] l.kind = "end" -> ExitSubgraph(s)
    [] OTHER -> s

(* C4: a relation does not register its ends; an element belongs to every  *)
(* boundary that it is declared in, and to the diagram by its first.       *)
C4Accepts(s, l) == l.kind # "bad" /\ (l.kind = "close" => s.stack # <<>>)

C4Line(s, l) ==
  CASE l.kind = "element" -> RegisterNode(s, [id |-> l.id, form |-> Default])
    [] l.kind = "boundary" -> EnterSubgraph(s, l.id)
    [] l.kind = "close" -> ExitSubgraph(s)
    [] l.kind = "rel" -> [s EXCEPT !.edges = Append(s.edges,
         IF l.macro = "Rel_Back" THEN Edge(l.target, l.source, FALSE, l.label)
         ELSE Edge(l.source, l.target, l.macro = "BiRel", l.label))]
    [] OTHER -> s

(* parse_diagram: the first line with content decides. *)
Header(g) ==
  /\ grammar = "none" /\ g \in {"flowchart", "c4", "error"}
  /\ grammar' = g
  /\ UNCHANGED <<parser, lines>>

ReadFlowLine(l) ==
  /\ grammar = "flowchart" /\ lines < MaxLines
  /\ IF FlowAccepts(parser, l) THEN parser' = FlowLine(parser, l) /\ UNCHANGED grammar
     ELSE grammar' = "error" /\ UNCHANGED parser
  /\ lines' = lines + 1

ReadC4Line(l) ==
  /\ grammar = "c4" /\ lines < MaxLines
  /\ IF C4Accepts(parser, l) THEN parser' = C4Line(parser, l) /\ UNCHANGED grammar
     ELSE grammar' = "error" /\ UNCHANGED parser
  /\ lines' = lines + 1

BlockNext ==
  \/ \E g \in {"flowchart", "c4", "error"} : Header(g)
  \/ \E l \in FlowLines : ReadFlowLine(l)
  \/ \E l \in C4Lines : ReadC4Line(l)

(* A block that ends here is a diagram. *)
Parsed == grammar \in {"flowchart", "c4"} /\ parser.stack = <<>>

-----------------------------------------------------------------------------
(* render_flowchart, as the lines it writes. *)

Joined(texts) ==
  LET upTo[k \in 0..Len(texts)] == IF k = 0 THEN <<>> ELSE upTo[k - 1] \o texts[k] IN
  upTo[Len(texts)]

(* What becomes of a label in its delimiters. Only one of "[](){}| in it   *)
(* makes for quotes, so that in a rectangle a slash at its beginning opens *)
(* another shape; a backslash before a quote escapes it; and an ampersand  *)
(* between words is refused wherever it is.                                *)
Illegible(form) ==
  form.label \in {"backslash", "ampersand"} \/ (form.shape = "rectangle" /\ form.label = "slash")
Reread(form) ==
  IF form.shape = "rectangle" /\ form.label = "slashes" THEN Form("slanted", "plain") ELSE form

Refused == [kind |-> "bad"]

Mention(d, id) ==
  IF Illegible(d.nodes[id]) THEN Refused
  ELSE [kind |-> "chain", both |-> FALSE, label |-> NoLabel, nodes |-> <<[id |-> id, form |-> Reread(d.nodes[id])]>>]

(* An edge with its label between bars, as it is. *)
EdgeText(e) ==
  IF e.label \in {"bar", "ampersand"} THEN Refused
  ELSE [kind |-> "chain", both |-> e.bidirectional, label |-> e.label,
        nodes |-> <<[id |-> e.source, form |-> Default], [id |-> e.target, form |-> Default]>>]

Mentions(d, ids) == LET each == SetToSeq(ids) IN [k \in DOMAIN each |-> Mention(d, each[k])]

(* An id stands for the last subgraph that has it. *)
ById(d, id) ==
  CHOOSE i \in DOMAIN d.subgraphs :
    d.subgraphs[i].id = id /\ \A j \in DOMAIN d.subgraphs : j > i => d.subgraphs[j].id # id

(* The text of a subgraph, given those of its children. *)
SubgraphText(d, i, textOf) ==
  LET s == d.subgraphs[i]
      inner == SetToSeq(s.children) IN
  <<[kind |-> "subgraph", id |-> s.id]>>
    \o Mentions(d, s.nodes \cap DOMAIN d.nodes)
    \o Joined([k \in DOMAIN inner |-> textOf[ById(d, inner[k])]])
    \o <<[kind |-> "end"]>>

RenderSubgraph(d, i) ==
  LET textOf[j \in DOMAIN d.subgraphs] == SubgraphText(d, j, textOf) IN textOf[i]

Children(d) == UNION {s.children : s \in Range(d.subgraphs)}
Grouped(d) == UNION {s.nodes : s \in Range(d.subgraphs)}

Render(d) ==
  Joined([i \in DOMAIN d.subgraphs |->
           IF d.subgraphs[i].id \in Children(d) THEN <<>> ELSE RenderSubgraph(d, i)])
    \o Mentions(d, DOMAIN d.nodes \ Grouped(d))
    \o [i \in DOMAIN d.edges |-> EdgeText(d.edges[i])]

(* What the flowchart parser makes of a text, unless it refuses a line.    *)
ReadOn(r, l) ==
  IF r.ok /\ FlowAccepts(r.state, l) THEN [ok |-> TRUE, state |-> FlowLine(r.state, l)] ELSE [ok |-> FALSE, state |-> r.state]

Reading(txt) ==
  LET after[k \in 0..Len(txt)] == IF k = 0 THEN [ok |-> TRUE, state |-> Start0] ELSE ReadOn(after[k - 1], txt[k]) IN
  after[Len(txt)]

(* What a text means: nodes with their shapes, edges in order, subgraphs   *)
(* with their nodes and subgraphs.                                         *)
Topology(d) ==
  [nodes |-> [id \in DOMAIN d.nodes |-> d.nodes[id].shape],
   edges |-> [i \in DOMAIN d.edges |-> [d.edges[i] EXCEPT !.label = NoLabel]],
   subgraphs |-> {[id |-> s.id, nodes |-> s.nodes \cap DOMAIN d.nodes, children |-> s.children] : s \in Range(d.subgraphs)}]

(* The ends of the relations of a C4 diagram that it does not declare.     *)
Undeclared(d) == (UNION {{e.source, e.target} : e \in Range(d.edges)}) \ DOMAIN d.nodes

SubgraphIds(d) == [i \in DOMAIN d.subgraphs |-> d.subgraphs[i].id]

(* The labels that the renderer gets across. *)
Legible(d) ==
  /\ \A id \in DOMAIN d.nodes :
       ~Illegible(d.nodes[id]) /\ ~(d.nodes[id].shape = "rectangle" /\ d.nodes[id].label = "slashes")
  /\ \A e \in Range(d.edges) : e.label \notin {"bar", "ampersand"}

(* Whatever is parsed, from either grammar, when its labels are legible    *)
(* and no subgraph id occurs twice: its rendering parses without an error  *)
(* to the same nodes, edges and subgraphs; a C4 relation's undeclared ends *)
(* become nodes.                                                           *)
RendersBack ==
  Parsed /\ IsInjective(SubgraphIds(parser)) /\ Legible(parser) =>
    LET reading == Reading(Render(parser))
        again == reading.state
        known == [again EXCEPT !.nodes = Restrict(again.nodes, DOMAIN again.nodes \ Undeclared(parser))] IN
    /\ reading.ok /\ again.stack = <<>>
    /\ Topology(known) = Topology(parser)
    /\ DOMAIN again.nodes = DOMAIN parser.nodes \cup Undeclared(parser)

-----------------------------------------------------------------------------
(* Fences: extract_mermaid_blocks and strip_mermaid_blocks each track them *)
(* on their own.                                                           *)

Opens(l) == l.run >= 3
Open(l, n) == [in |-> TRUE, char |-> l.char, len |-> l.run, mermaid |-> l.rest = "mermaid", start |-> n]
EndsFence(f, l) == l.char = f.char /\ l.run >= f.len /\ l.rest = "blank"

Tracked(f, l, n) ==
  CASE ~f.in /\ Opens(l) -> Open(l, n)
    [] f.in /\ EndsFence(f, l) -> NoFence
    [] OTHER -> f

ExtractBlock(f, l, n, spans) ==
  IF f.in /\ f.mermaid /\ EndsFence(f, l) THEN spans \cup {<<f.start, n>>} ELSE spans

(* A programming error: the prose ends a block at any fence line.          *)
BugStrip(f, l, n, keep) ==
  IF (f.in /\ f.mermaid /\ ~Opens(l)) \/ (~f.in /\ Opens(l) /\ l.rest = "mermaid") THEN keep ELSE keep \cup {n}

Strip(f, l, n, keep) ==
  IF (f.in /\ f.mermaid) \/ (~f.in /\ Opens(l) /\ l.rest = "mermaid") THEN keep ELSE keep \cup {n}

ReadTextLine(l) ==
  LET n == Len(text) + 1 IN
  /\ Len(text) < MaxText
  /\ text' = Append(text, l)
  /\ extracting' = Tracked(extracting, l, n) /\ blocks' = ExtractBlock(extracting, l, n, blocks)
  /\ stripping' = Tracked(stripping, l, n) /\ kept' = Strip(stripping, l, n, kept)

FenceNext == \E l \in TextLines : ReadTextLine(l)

(* A fence that is not closed runs to the end of the document. *)
Spans == blocks \cup IF extracting.in /\ extracting.mermaid THEN {<<extracting.start, Len(text)>>} ELSE {}

(* Every line of a document goes to the diagrams or to the prose, never to *)
(* both; and a block is never opened or closed inside another fence.       *)
FencesPartition ==
  /\ \A n \in 1..Len(text) : (n \in kept) # (\E s \in Spans : n \in s[1]..s[2])
  /\ \A s \in Spans, n \in 1..Len(text) : n > s[1] /\ n < s[2] =>
       ~EndsFence([char |-> text[s[1]].char, len |-> text[s[1]].run], text[n])

(* Blocks and documents share no state: a line is read of one or the other. *)
DiagramsInit == BlockInit /\ FenceInit
DiagramsNext == (BlockNext /\ UNCHANGED fenceVars) \/ (FenceNext /\ UNCHANGED blockVars)
DiagramsSpec == DiagramsInit /\ [][DiagramsNext]_<<blockVars, fenceVars>>

(* What is read from a design document is what it says: its Mermaid blocks *)
(* and its prose share out the lines, and a diagram that parses and whose  *)
(* labels the renderer gets across means the same when it is rendered and  *)
(* parsed again.                                                           *)
DiagramsFaithful == FencesPartition /\ RendersBack
=============================================================================
