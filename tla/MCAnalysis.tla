----------------------------- MODULE MCAnalysis -----------------------------
(* The analyses, one part at a time: the parts share no state, so a        *)
(* behaviour is that of one of them while the others stay as they are at   *)
(* the start.                                                              *)
EXTENDS Invalidation, Critique, ModelBuilding, Diagrams, Mitigation

CONSTANTS a1, a2, a3, ty1, ty2, ty3

VARIABLE part

-----------------------------------------------------------------------------
(* Registries of three agents that each consume at least one type and      *)
(* produce at most one: chains, diamonds and cycles of up to three agents. *)
MCAgents == {a1, a2, a3}
MCTypes == {ty1, ty2, ty3}
Singles == {{t} : t \in MCTypes}
MCRegistries == [MCAgents -> [inputs : Singles \cup {{ty1, ty2}}, outputs : Singles \cup {{}}]]

-----------------------------------------------------------------------------
(* An actor e, a web component w and a log store d; technique 3 has no     *)
(* CAPEC reference, 4 is of the ATLAS matrix and scores nothing, 9 is not  *)
(* in the corpus.                                                          *)
MCRules ==
  {[kind |-> "process", tag |-> "*", categories |-> {"elevation_of_privilege", "tampering"}],
   [kind |-> "external_entity", tag |-> "*", categories |-> {"spoofing"}],
   [kind |-> "datastore", tag |-> "log", categories |-> {"repudiation"}],
   [kind |-> "dataflow", tag |-> "*", categories |-> {"tampering", "spoofing", "elevation_of_privilege"}]}
MCRetrieved ==
  [tampering |-> <<1, 2, 3>>, spoofing |-> <<4, 2>>,
   elevation_of_privilege |-> <<1>>, repudiation |-> <<>>, linkability |-> <<3>>]
MCMatrixOf == [t \in 1..4 |-> IF t = 4 THEN "atlas" ELSE "enterprise"]
MCCapecOf == [t \in 1..4 |-> IF t = 3 THEN {} ELSE {"capec"}]
MCScore == <<1, 2, 2, 0>>
MCPrevalence == <<1, 2, 2, 1>>
MCArticle1 == [techniques |-> {1}, products |-> {"w"}]
MCArticle2 == [techniques |-> {3, 9}, products |-> {"d"}]
MCArticleSets == {{}, {MCArticle1}, {MCArticle1, MCArticle2}}
MCEntityTokens == [e |-> {"e"}, w |-> {"w"}, d |-> {"d"}]
MCAssumptions == {[subject |-> "w", low |-> TRUE], [subject |-> "asset", low |-> TRUE], [subject |-> "f1", low |-> FALSE]}
MCPosture == [tier |-> 2, profile |-> {1, 2}, criticality |-> "high"]
MCCategoryLikelihood == [spoofing |-> 1, tampering |-> 5, elevation_of_privilege |-> 3]

MCFlowEnds == [f1 |-> <<"e", "w">>, f2 |-> <<"w", "d">>, f3 |-> <<"d", "w">>, f4 |-> <<"e", "d">>, f5 |-> <<"d", "e">>]
MCComponent(k, z, out) ==
  [kind |-> k, tags |-> IF k = "datastore" THEN {"log"} ELSE {}, zone |-> z, outOfScope |-> out]
MCModel(flowSet, authenticated, out) ==
  [components |-> [e |-> MCComponent("external_entity", "z1", FALSE),
                   w |-> MCComponent("process", "z1", FALSE),
                   d |-> MCComponent("datastore", "z2", out)],
   flows |-> [f \in flowSet |-> [source |-> MCFlowEnds[f][1], destination |-> MCFlowEnds[f][2],
                                 authenticated |-> f \in authenticated]],
   assets |-> {[owner |-> "d", class |-> "pii"]}, controls |-> [c2 |-> {"d"}],
   rating |-> [z1 |-> 1, z2 |-> 5]]
MCModels ==
  {MCModel(flowSet, authenticated, out) :
     out \in BOOLEAN, authenticated \in {{}, {"f1"}, {"f2"}, {"f4"}},
     flowSet \in {{"f1", "f2", "f3"}, {"f1", "f2", "f4"}, {"f1", "f2"}, {"f1", "f2", "f5"}, {"f2", "f4", "f5"},
                  {"f1", "f2", "f3", "f4"}, DOMAIN MCFlowEnds}}

-----------------------------------------------------------------------------
(* One document of six lists of diagrams and four extractions, or two.     *)
MCNormalize ==
  [l \in {"core", "dmz", "u", "web", "Web", "db", "user", "plc"} |-> IF l = "Web" THEN "web" ELSE l]
MCNode(i, l, s) == [id |-> i, label |-> l, shape |-> s]
MCEdge(x, y) == [source |-> x, target |-> y]
MCDiagram1 ==
  [nodes |-> <<MCNode("web", "Web", "rect"), MCNode("db", "db", "cylinder")>>,
   edges |-> <<MCEdge("web", "db")>>, subgraphs |-> <<[title |-> "dmz", nodes |-> {"web", "user"}]>>]
MCDiagram2 ==
  [nodes |-> <<MCNode("web", "plc", "rect")>>, edges |-> <<MCEdge("user", "web"), MCEdge("user", "db")>>,
   subgraphs |-> <<[title |-> "core", nodes |-> {"web", "db", "user"}]>>]
MCDiagram3 == [nodes |-> <<MCNode("u", "user", "circle")>>, edges |-> <<>>, subgraphs |-> <<>>]
MCTls == [protocol |-> "tls", authenticated |-> TRUE, encrypted |-> Unstated]
MCHttp == [protocol |-> "http", authenticated |-> Unstated, encrypted |-> TRUE]
MCProseFlow(x, y, stated) == [source |-> x, target |-> y, stated |-> stated]
MCNoProse == [components |-> <<>>, actors |-> <<>>, flows |-> <<>>, assets |-> <<>>, zones |-> <<>>, controls |-> <<>>]
MCProse1 ==
  [components |-> <<[name |-> "web", kind |-> "datastore", tags |-> {"android"}]>>, actors |-> <<"user">>,
   flows |-> <<MCProseFlow("user", "web", MCTls), MCProseFlow("Web", "db", MCHttp)>>,
   assets |-> <<[class |-> Unstated, owner |-> "db"], [class |-> "pii", owner |-> "web"]>>,
   zones |-> <<[name |-> "dmz", members |-> {"db", "web"}]>>, controls |-> <<[appliesTo |-> {"web", "plc"}]>>]
MCProse2 ==
  [MCNoProse EXCEPT !.actors = <<"web">>,
     !.flows = <<MCProseFlow("web", "db", MCTls), MCProseFlow("user", "plc", NothingStated)>>,
     !.zones = <<[name |-> "core", members |-> {"plc", "web"}]>>]
MCProse3 ==
  [MCNoProse EXCEPT !.components = <<[name |-> "user", kind |-> "other", tags |-> {}]>>,
     !.controls = <<[appliesTo |-> {"user"}]>>]
MCDocuments(n) ==
  [name : {n}, prose : {MCNoProse, MCProse1, MCProse2, MCProse3},
   diagrams : {<<>>, <<MCDiagram1>>, <<MCDiagram2>>, <<MCDiagram3>>, <<MCDiagram1, MCDiagram2>>,
               <<MCDiagram3, Unparsed, MCDiagram1>>}]
MCDocumentLists ==
  {<<x>> : x \in MCDocuments("d1")} \cup {<<x, y>> : x \in MCDocuments("d1"), y \in MCDocuments("d2")}

(* One whose prose declares a control and calls a component what its       *)
(* diagram draws as an actor.                                              *)
MCLedgerLists == {<<[name |-> "d1", prose |-> MCProse3, diagrams |-> <<MCDiagram3>>]>>}

-----------------------------------------------------------------------------
(* Two nodes, two named subgraphs and one without a name, every kind of    *)
(* statement, labels that come back and labels that do not; lines of two   *)
(* fence characters and two lengths.                                       *)
MCShaped(i, shape, label) == [id |-> i, form |-> Form(shape, label)]
MCBare(i) == [id |-> i, form |-> Default]
MCChain(both, label, list) == [kind |-> "chain", both |-> both, label |-> label, nodes |-> list]
MCFlowLines ==
  {MCChain(FALSE, NoLabel, <<MCShaped("a", "rectangle", "plain")>>),
   MCChain(FALSE, NoLabel, <<MCShaped("a", "rectangle", "slash")>>),
   MCChain(FALSE, NoLabel, <<MCShaped("b", "rectangle", "slashes")>>),
   MCChain(TRUE, "plain", <<MCBare("a"), MCBare("b")>>),
   MCChain(FALSE, "bar", <<MCBare("a"), MCBare("b")>>),
   MCChain(FALSE, NoLabel,
     <<MCShaped("b", "cylinder", "slash"), MCShaped("a", "circle", "slashes"), MCShaped("b", "rectangle", "plain")>>),
   [kind |-> "subgraph", id |-> "s"], [kind |-> "subgraph", id |-> "t"], [kind |-> "subgraph", id |-> Unnamed],
   [kind |-> "end"], [kind |-> "ignored"], [kind |-> "bad"]}
MCC4Lines ==
  {[kind |-> "element", id |-> "a"], [kind |-> "element", id |-> "b"],
   [kind |-> "boundary", id |-> "s"], [kind |-> "boundary", id |-> "t"], [kind |-> "close"], [kind |-> "bad"]} \cup
  {[kind |-> "rel", macro |-> m, source |-> "a", target |-> "b", label |-> "plain"] : m \in {"Rel", "BiRel", "Rel_Back"}} \cup
  {[kind |-> "rel", macro |-> "Rel", source |-> "a", target |-> "b", label |-> "ampersand"]}
MCAutoIds == <<"__1", "__2", "__3", "__4", "__5", "__6">>
MCTextLines ==
  {[char |-> " ", run |-> 0, rest |-> "text"]} \cup
  [char : {"tick", "tilde"}, run : {3, 4}, rest : {"blank", "mermaid", "text"}]

-----------------------------------------------------------------------------
(* Two techniques, two countermeasures and two statements, of which one is *)
(* mapped to both techniques; two components of one name, and actor 9.     *)
MCRequired == 1 :> {1, 2} @@ 2 :> {1}
MCStatements ==
  1 :> [techniques |-> {1, 2}, tiers |-> {1, 2}, function |-> "GV", documents |-> {"doc"}] @@
  2 :> [techniques |-> {1}, tiers |-> {1}, function |-> "PR", documents |-> {"doc", "withdrawn"}]
MCLexical == <<{}, {1}, {}, {}>>
MCMatched == [c1 |-> [defences |-> {2}, statements |-> {2}], c2 |-> [defences |-> {}, statements |-> {1}]]
MCStep(t, a, b) == [technique |-> t, source |-> a, target |-> b]
MCPathResults ==
  {1 :> [steps |-> {MCStep(1, 9, 1)}, likelihood |-> 3] @@
   2 :> [steps |-> {MCStep(1, 9, 1), MCStep(2, 1, 2)}, likelihood |-> 2],
   1 :> [steps |-> {MCStep(2, 9, 1)}, likelihood |-> 1] @@ 2 :> [steps |-> {MCStep(1, 9, 2)}, likelihood |-> 2]}
MCProjects ==
  {[controls |-> c, tier |-> t, profile |-> s, criticality |-> "high"] :
     c \in {{}, {"c1"}, {"c2"}}, t \in {NoTier, 1, 2}, s \in {{}, {1, 2}}}
MCEntityName == 1 :> "api" @@ 2 :> "api"

-----------------------------------------------------------------------------

(* The input of a part that is not the one under way. *)
IdleInput ==
  /\ part # "invalidation" => registry = (CHOOSE r \in Registries : TRUE) /\ changed = {}
  /\ part # "attack" => model = (CHOOSE m \in Models : TRUE) /\ atlas = FALSE /\ index = FALSE
  /\ part # "build" => documents = (CHOOSE d \in DocumentLists : TRUE)
  /\ part # "mitigation" => wanted = "plan" /\ project = (CHOOSE x \in Projects : TRUE) /\ snapshot = FALSE

AnalysisInit ==
  /\ part \in {"invalidation", "attack", "build", "blocks", "fences", "mitigation"}
  /\ IdleInput
  /\ MitigationInit /\ CritiqueInit /\ BuildInit /\ BlockInit /\ FenceInit /\ InvalidationInit

AnalysisNext ==
  \/ part = "invalidation" /\ InvalidationNext
     /\ UNCHANGED <<part, critiqueVars, buildVars, blockVars, fenceVars, mitigationVars>>
  \/ part = "attack" /\ CritiqueNext
     /\ UNCHANGED <<part, invalidation, buildVars, blockVars, fenceVars, mitigationVars>>
  \/ part = "build" /\ BuildNext
     /\ UNCHANGED <<part, invalidation, critiqueVars, blockVars, fenceVars, mitigationVars>>
  \/ part = "blocks" /\ BlockNext
     /\ UNCHANGED <<part, invalidation, critiqueVars, buildVars, fenceVars, mitigationVars>>
  \/ part = "fences" /\ FenceNext
     /\ UNCHANGED <<part, invalidation, critiqueVars, buildVars, blockVars, mitigationVars>>
  \/ part = "mitigation" /\ MitigationNext
     /\ UNCHANGED <<part, invalidation, critiqueVars, buildVars, blockVars, fenceVars>>

AnalysisSpec ==
  AnalysisInit /\ [][AnalysisNext]_<<part, invalidation, critiqueVars, buildVars, blockVars, fenceVars, mitigationVars>>
=============================================================================
