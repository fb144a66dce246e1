# Verification of the threat-modelling backend

TLA+ specifications of the backend in `src/backend/app`, the TLC runs that
check them, and proofs that TLAPS checks. The code is the reference: an action
is a stretch of a handler from one database await to the next, and
`PROJECT.json` (`map`) gives the lines each definition translates.

Contents: [the system](#the-system), [how it runs](#how-the-program-runs),
[modules](#modules), [runs](#runs), [proofs](#proofs),
[disagreements](#where-the-code-and-its-documentation-disagree),
[observations](#smaller-observations), [not modelled](#not-modelled), [plan](#plan).

## The system

A FastAPI service turns a design document into a system model, enumerates
threats against it from pinned knowledge-base and CRI snapshots, and keeps a
chain of threat-model revisions, a review queue and an audit log.

| Component | State | Operations | Hard behaviour | What makes it correct | Modules |
|---|---|---|---|---|---|
| System-model versions (`services/systemmodel/db_service.py`, `edits.py`, `api/systemmodel.py`) | `system_model_versions` rows, project row, audit rows | freeze (LLM draft), user edit, read | previous version and next number are read in separate awaits, then inserted; the audit entry is a second commit | contiguous immutable numbering, parents that exist, an edit that is exactly its parent plus the edit, no version told to two clients | `VersionChain`, `ModelVersions` |
| Runs, stages, event bus (`orchestrator/run_service.py`, `state_machine.py`, `events.py`) | `runs`, `run_stages`; one in-memory queue per subscriber | create, transition, publish, subscribe, stream | validation on a row read earlier; commit and publication apart; memory lost on restart | legal transitions, stamps that agree with the status, complete ordered streams that end | `RunMachine`, `RunService` |
| Threat-model revisions (`api/revisions.py`, `services/revision/db_service.py`) | `threat_model_revisions` | create, list, diff | about ten awaits that read model, CRI, corpus and parent; a refresh thread beside the event loop | parents resolve, pins tell what was used, one chain | `RevisionChain` |
| Review queue (`api/review.py`, `services/assurance/review_db_service.py`) | `review_items`, `review_audit_entries`, audit rows | generate, decide (which runs the revision pipeline), list | racing decisions; ids that collide; decision committed before the revision exists | one winner, one revision, trails and log that tell the truth | `ReviewQueue` |
| Orchestrator (`orchestrator/orchestrator.py`, `budget.py`, `cache.py`, `invalidation.py`) | registry, tool-call counts, output cache, dependency graph | invoke an agent, invalidate an artifact | a cached output bypasses the gate; budget boundary | no agent past its budget; everything downstream is invalidated once | `AgentInvocation`, `Invalidation` |
| LLM gateway (`services/llm`) | response cache files, usage counters | complete, repair, cache | repair loop, cache keys, redaction | bounded calls; what is returned matches the schema | `AgentInvocation` |
| Knowledge base (`services/kb`, `api/kb.py`) | snapshot directories named by their content | refresh in a thread, read latest | check-then-rename between threads, going back to older content | a readable snapshot is whole and named by its content | `KnowledgeBase` |
| CRI profiles, tiering (`services/cri`, `api/cri.py`) | snapshot directories shared by projects, `projects.cri_snapshot_hash`, `impact_tiering` row | upload, infer mappings, submit answers | files rewritten in place; an UPDATE of the changed columns only | an answered upload pins what its mappings came from; the tier follows from the answers | `ProfileStore`, `Tiering` |
| Intel ingestion (`services/intel`, `api/intel.py`) | article and extraction files, audit rows | ingest, read, relevance | two files, three commits, redirects | everyone is told the same of a text | `Articles`; relevance in `Revision` |
| Projects and documents (`services/project_service.py`, `api/projects.py`) | `projects`, `documents`, files | create, delete, upload | deletion while others work; file before row | a row has its file | `Documents`, and the deletion in `ModelVersions`, `RevisionChain` |
| Request limits (`api/rate_limit.py`, `api/body_size_limit.py`) | time stamps per client, bytes counted | admit, refuse | both ends of the window; bodies without a length | at most the limit in any window, of any body | `RateLimit`, `Documents` |
| Backup (`services/backup.py`) | an archive | take, restore | only with the server stopped | a restored row has its file | `Documents` |
| Audit log (`services/audit`) | `audit_log` | record, list | a commit of its own after the change | entries are true and not repeated | `ModelVersions`, `ReviewQueue`, `Articles` |
| Mermaid (`services/mermaid_extraction.py`, `services/mermaid`) | none | extract, strip, parse, render | fences and subgraphs that nest or stay open | the two passes agree, a rendered diagram means the same | `Diagrams` |
| Model building (`services/modelbuilding`, `systemmodel/freeze.py`, `out_of_scope.py`) | none | draft, merge, completeness, freeze | several documents, diagrams and prose about one element | what the ledger says of what prose adds and the draft does not keep, nothing dangling | `ModelBuilding` |
| Enumeration (`services/enumeration`) | none | rules, bridge, grounding, adjudication, attack graph, paths | cycles, budgets, caps | everything reachable is found, the kept paths are the likeliest | `Enumeration`, `AttackGraph`, `AttackPaths` |
| Revision content (`services/revision`) | none | snapshot under intel, diff | intel widens reach, adds candidates, lifts likelihoods | every difference has an article as its reason | `Revision` |
| Critique (`services/assurance/critique_*.py`) | none | five detectors, grounding, gate | what one detector leaves to another | no trusted boundary goes unexamined | `Critique` |
| Risk and mitigation (`services/risk`, `services/mitigation`) | none | inventory, gaps, recommendations, residual risk, register, roadmap | paths shared by techniques, phases on top of phases | no recommendation without its gap, scores that only fall, phases that add up | `Risk`, `Mitigation` |
| Reporting, retrieval, OTM and rendering, configuration, frontend | see [not modelled](#not-modelled) | | | | |

Components call each other directly inside a request. Shared state is the
database and the snapshot directories; the only callbacks are the per-subscriber
queues of the event bus. The first four components have the persistent,
concurrent state on which the rest depends: their modules interleave every
await, and compose (`ReviewQueue` runs the pipeline of `RevisionChain`). The
stores are next to them; `RevisionChain` sees of them only that a refresh or an
upload may come between two awaits. The analyses are pure; each is a module that
builds on the one whose results it takes.

## How the program runs

These facts about the code decide the grain of every module.

- Every API handler is an `async def` on one event loop. Between two awaits a
  handler runs alone; at an await any other may run. Synchronous work (LLM
  calls, `apply_edits`, `compute_snapshot`) belongs to the action of the await
  it follows.
- The one thread is the knowledge-base refresh (`api/kb.py:21`,
  `asyncio.to_thread`). It may publish between *any* two statements, so
  `RevisionChain` splits `ReadCorpus` from `PinCorpus` although there is no
  await between them.
- Every service has its own database session (`api/deps.py`), and each method
  reads the project row again.
- SQLite has a single writer. An INSERT or UPDATE with its COMMIT is atomic;
  reads are outside any transaction. Foreign keys are not enforced, so rows
  outlive a deleted project.
- A stop of the process (`Crash`, `Restart`) loses handlers and the event bus
  and keeps committed rows.
- A request is sent at most once. A client's retry is another request.

**Turns.** Several promises of the code hold only for clients that wait for
each answer. The variable `serial` (`turns` in `Tiering`), chosen in `Init` and never changed, says
which kind of behaviour this is: with `serial` a request starts only when none
is in flight. Properties of the form `serial => ...` and the refinements speak of
those behaviours; all others hold in both kinds. In `RevisionChain` the `serial`
behaviours also have no upload or refresh in the middle of a revision.

## Modules

| Module | Models | Correspondence |
|---|---|---|
| `VersionChain` | abstract: what the version store promises | a sequence to which a freeze appends a drafted model and an edit appends the last model with the edited elements re-attributed |
| `ModelVersions` | freeze, edit, project deletion, restart | `rows` is `system_model_versions`; `base`, `draft`, `number`, `touched` are the local variables of the handler; one action per await: `CheckProject`, `GetProject`, `ReadLatest`, `ReadNumber`, `Persist`, `RecordAudit` |
| `RunMachine` | abstract: `RUN_TRANSITIONS`, `STAGE_TRANSITIONS` | one legal transition at a time |
| `RunService` | create_run, transitions, event bus | `status`, `started`, `completed` are columns; `stamps` is the decision about `started_at` taken on the row read earlier; `queue` is an `asyncio.Queue`; `seen`, `since`, `published`, `committed` are history variables |
| `RevisionChain` | `create_revision_for_project` | `draft[r]` is what request `r` has read and, once `r \in made`, its row; `used` holds the CRI profile each of four reads saw; `FreezeModel`, `UploadCRI`, `PublishKB`, `DeleteProject` are the rest of the system as far as a revision reads it |
| `ReviewQueue` | generate and decide, composed with `RevisionChain` | extends it; an acceptance `d` runs request `d` of the pipeline and waits in `Resume`; `item`, `link`, `trail` are tables |
| `AgentInvocation` | `Orchestrator.invoke`, the budget, the handler loop of the critique, mitigation and reporting agents, `LLMGateway.complete_structured`, both caches, the gate | `trajectories` is the orchestrator's cache, `completions` the cache directory; `calls`, `attempts` are the counters of the code; `step` is where the one running invocation is; `paid`, `answers` are history |
| `Invalidation` | `compute_affected` | one action per round; `dirty`, `affected` are its local variables |
| `KnowledgeBase` | refresh threads | `snapshots` are the directories, `fetched` and `stamp` what a thread holds; existence check, temporary directory and rename are separate steps of a thread; `leftovers` are temporary directories that no rename took away |
| `ProfileStore` | CRI uploads on top of `KnowledgeBase` | extends it; per catalogue `mappings` and `pin` are the two files written in place, `Torn` one that a stop cut off; `answer` is what the manifest said when the upload was answered |
| `Articles` | `ingest_article`, `get_article` | `articles`, `extraction` are the two files of a text, `intelLog` the audit rows; `hops` counts redirects |
| `Documents` | the body limit, document upload, project deletion, backup | one action per chunk and per read; `files`, `rows`, `archive` are what is on disk |
| `RateLimit` | `enforce_rate_limit` | `hits` is `_hits`; `history` is everything admitted |
| `Tiering` | `compute_tier`, the store of the answers | `loaded` is the row a submission read, `UpdateRecord` writes the columns that differ from it |
| `Diagrams` | extraction and stripping of fences, the two Mermaid parsers, the flowchart renderer | one action per line; a line is what the regular expressions make of it, a label what becomes of it when it is written and read again (`Form`, `Illegible`, `Reread`, `EdgeText`). The renderer gives each subgraph its text by a recursive function over their positions, as `render_subgraph` calls itself; reading a text is the parser's function, line after line |
| `ModelBuilding` | `ModelBuilder`, `check_completeness`, `freeze_draft`, out-of-scope detection | one action per diagram and per extraction; `draft` holds the lists, the indexes and the ledger; an assumption is its kind, its subject and what its message says of it (`Assume`) |
| `Enumeration` | candidates, bridge, citation gate, `adjudicate` | operators named as the functions |
| `AttackGraph` | `build_attack_graph` | one action per (flow, candidate) of a state taken from the queue |
| `AttackPaths` | `enumerate_paths` | one action per path looked at, in the order of likelihood |
| `Revision` | `compute_snapshot`, `compute_diff` | two revisions of one model, each under any articles |
| `Critique` | the detectors, grounding and gate of the critique agent | over the results of `Revision`'s first snapshot |
| `Risk` | control inventory, gap analysis, path scores, register, CSF rollup | operators named as the functions |
| `Mitigation` | the control-gap, risk-register and mitigation-plan requests | one action per recommendation; what the LLM chooses is arbitrary |
| `...Proofs` | theorems | see below |
| `MC...` | instances for TLC | constants, and for `MCStores` and `MCAnalysis` which part a behaviour is of |

**What the data became.** A system model is a function from element ids to who
asserted them: nothing else about an element is told apart by a property. A
time stamp is the request that wrote it. The wall clock of `created_at` counts
stamps, so two stamps are never equal (the code has microseconds); a clock set
back is not modelled. A CRI profile is its hash, a corpus the number of
publications before it. The LLM, the detectors and `compute_snapshot` may
return anything the code accepts, or fail. An item id is a model value;
`Fresh` in the queue is the uniqueness of the primary key, `"foreign"` an id
another project holds, `clash` two findings of one batch with the same hash.

In `AgentInvocation` an input is a trajectory cache key: the agent, its artifacts
and pins, which fix the candidates and, for each, the redacted prompt and the
completions that would ground it. A candidate without reference data has no
prompt. A provider may answer anything that fits the schema, something that does
not, or fail; a completion that was asked for twice need not be the same. An
output is the set of surfaced candidates with their completions and the set of
rejected ones. Each request of the API builds an orchestrator of its own
(`NewOrchestrator`), so hits of the trajectory cache only come from invocations of
one orchestrator. `reports.py` gives its mitigation orchestrator no gate:
`Gated` is the set of inputs that meet one. Invocations are not
interleaved because nothing in them awaits.

In the stores, `ContentHash` is a function of what was fetched that does not
look at the D3FEND catalogue, as `compute_content_hash` does not; a file is its
content, or the value for one that was opened for writing and cut off. Sizes and
time are small integers; only their order with the limits matters.

In the analyses, scores are integers: likelihoods and citation scores of the code
are products and sums of floats that are compared with each other and with
thresholds, so a fixed unit per factor keeps every comparison. Retrieval is a
given ranking per category. Names and tags are model values; sharing a
token is a relation given by constants. A label of a diagram is one of seven
classes: none, one that comes back as it was, or one with a character that the
renderer writes without quotes and the parser takes for something else (a slash
at its beginning, slashes at both ends, a backslash before a quote, an ampersand
between words, a bar). Lists whose order no result depends on
are sets.

**Refinement.** `ModelVersions` implements `VersionChain` with the chain
`[v |-> (author, model) of row v]`: `Persist` maps to a step of the chain, all
else to stuttering. `RunService` implements `RunMachine` with its own `status`:
`Commit` is the transition. Both mappings yield the untouched initial state for
behaviours that are not `serial`, where the promise is not made; what becomes of
it there is shown by the violation runs. `ReviewQueue` implements
`RevisionChain` with the chain's own variables: an acceptance is one more way to
send a request, so all that is proved of the chain holds of the revisions that
reviews make (`QueueImplementsChain`, by proof).

**Reference definitions.** The analyses are compared with definitions that say
what they are for and not how they get there: the least closed set
(`AffectedIsLeast`), every way to attack (`GraphSound`, `PathsBest`), a flow that
would lift a verdict (`AdjudicationAccounts`), what two articles explain
(`RevisionsExplained`), a parsed rendering (`DiagramsFaithful`), what diagrams draw
and each statement of the documents (`DraftSound`), each gap and each plan from scratch (`PlanHolds`).

Definitions called `Bug...` are programming errors for a definition that
follows them. No specification uses them: each property has one that breaks it,
which shows that the property depends on the code.

## Runs

Twelve runs, each within five minutes on two workers. Modules whose parts share
no state share a run: in `stores` and `analysis` a behaviour is of one part, and
the others stay as they are.

| Run | Instance | Shows |
|---|---|---|
| `versions` | one freeze, two edits, two elements, one restart; both kinds of clients | `HistoryWellFormed` (numbers, parents, own answers), `EditExtendsParent`, `ReportsAreTrue`, `RowsImmutable`; refinement of `VersionChain`; every version is eventually audited |
| `versions_lost_parent` | two freezes, one edit | `LinearHistory` fails when requests race |
| `runs` | a run with one stage, three requests, one follower, one restart; both kinds | stamps (`StampsAgree`, `StartedOnce`), streams (`StreamsFaithful`), events (`EventsFaithful`); `RunMachine` in turns; followers are released |
| `runs_terminal` | the same without restart | `TerminalIsFinal` fails when requests race |
| `revisions` | three requests (one with intel), one profile, one model, one refresh, one restart; both kinds | parents resolve, pins are never older than what was used; in turns one chain, each revision attributable |
| `revisions_torn_corpus` | the same without restart | `CorpusAttributed` fails |
| `revisions_intel` | the same, two models | `IntelInherits` fails, also in turns |
| `review` | one finding, two decisions, another revision, two critiques, one restart | `OneRevisionPerAcceptance`, `RecordsAreTrue` (trails, log, links), `DecisionIsFinal` |
| `review_unlogged` | two decisions, one critique, no restart | `DecisionsLogged` fails |
| `stores` | two refreshes with two uploads of one catalogue; three articles, two of one text; four documents; one client of a limit of two in two seconds; two racing submissions of answers; three invocations of four inputs that share two prompts; one stop of each part | `SnapshotsWhole`, `LatestNeverGoesBack`, `UploadsAnswerTheirPin`, `ArticlesAnswersAgree`, `BodyWithinLimit`, `DocumentsBacked`, `WindowRespected`, `TierFollowsAnswers`; of the agents `Reproducible`, `AnswersAccountForAll`, `NothingPaidTwice`, and every invocation ends |
| `analysis` | every registry of three agents and three types; models with a cycle, zones, a control, an element out of scope; two revisions under any of a few articles; up to two documents of up to three Mermaid blocks and an extraction; diagrams of five lines, texts of four; plans over two techniques, countermeasures and statements | the nine properties under *Reference definitions*, `NothingUnexamined` among them |
| `draft_ledger` | one document that draws an actor, calls it a component and declares a control | `LedgerComplete` fails in both its parts |

**Bounds.** Races in this code are between what one request read and one other
wrote, so two requests produce them; the third adds what a later request finds
afterwards (a version on top of two racing ones, a third transition after a lost
update, a revision whose parent was made in a race). Two elements tell an edit
of one from the loss of the other; one stage is enough because transitions touch
one row each and stages do not interact; one follower, because subscribers do
not interact; one profile and "none" are what the four CRI reads can tell apart
for `PinsNotOlder` (the first upload), and one refresh is the torn read. One
restart can fall between any two steps. In the agents of `stores` the four inputs are one for
each way an invocation can go (two ordinary candidates, two with one id, a
budget one call short, no gate and no reference data), the third invocation
repeats an input after another has bought part of its completions, and one
repair is enough to pass the bound.

In `stores` two sources make a fetch that straddles an upstream change, and two
threads publish in either order; sizes are at and above each
limit (`MaxBody` 3, `MaxUpload` 2, chunks of 2); the clock passes three windows.
In `analysis` three agents make chains, diamonds and cycles; the budgets of nodes,
edges and paths are small enough to be hit by some model and missed by another;
the node budget of 5 admits self-loops and cycles of two states (a sixth state
would take likelihoods past TLC's integers; longer cycles are the theorem's);
`PathsPerTarget` 1 makes the cap bite with two paths; the lists of diagrams and
the extractions cover each case of the merge (alias, contradiction, flow stated
twice, zone of actors, unparsed block, a declared control, an actor called a
component, an element drawn after prose named it); nodes and edges whose label comes back, opens
a shape, makes another one, ends a label early or is refused (`backslash` is refused as
`slash` is, in any shape); five lines nest two subgraphs and close
them or not.

`MaxModel`, `MaxKB`, `MaxInvocations`, `MaxTime` and those on restarts are the only
bounds on counters; every other value is bounded by the number of
requests. `CHECK_DEADLOCK FALSE` in each: when every request was answered,
nothing remains to be done. `SYMMETRY` permutes requests that no property and
no constant distinguishes, and is used in no run with a liveness property.

**Fairness.** `FairSpec` has weak fairness on a handler's next step (the event
loop resumes a coroutine whose await has completed) and, in `RunService`, on a
stream whose queue is not empty. In `AgentInvocation` (and so in `stores`) the running
invocation has weak fairness as a whole: it is synchronous code, and the provider's
client has a timeout of 120 seconds, after which `ProviderFails`. Clients,
deletions, refreshes and restarts have none. `VersionAudited` and `FollowersReleased` both except a restart:
the code loses the handler then.

## Proofs

TLC looks at the instances above; the theorems hold for every set of requests,
elements, stages, streams, profiles, items, texts, files and sources, every model
and graph, and every bound. In the concurrent modules constants are assumed only to
be of their kinds (`Edits \subseteq Requests`, `Run \notin Stages`, `None` is no
request and no profile, bounds are naturals). The analyses assume a little more,
and each of it is what the code makes sure of:

| Assumption | What it asks | Why it holds |
|---|---|---|
| `RulesetAssumption`, `CorpusAssumption` | there are finitely many rules, they name kinds and categories, STRIDE and LINDDUN have no category in common; rankings are of techniques that have a score | `parse_ruleset` refuses anything else; the categories are two enums; retrieval ranks the corpus it scores |
| `AttackAssumption` | models are finite and `WellFormed` (no component is of the kind of flows, nor has a flow's id); the node budget and `TechniquesPerTransition` are at least 1 | ids have a prefix per kind; `node_budget` defaults to 500 and no caller gives another |
| `SearchAssumption` | likelihood factors are naturals, the uplift and `PathsPerTarget` are at least 1 | factors are positive and scaled; the uplift is 3.0 and a lookup's default 1.0, `k_per_target` defaults to 3 and no caller gives another |
| `DocumentsAssumption` (of `ModelBuilding`) | the parts of parsed documents are lists | that is what the parsers and the extraction return |
| `StatementsAssumption`, `TextAssumption` (of `Diagrams`) | the nodes of a chain are a list; a boundary and a numbered subgraph have a name; a line of a document has a length of its run | a statement line has a first node and some more; a macro without an id is refused, and a number makes a name; it is the length of a match |
| `PostureAssumption` | the tier is none or 1 to 4, the criticality one that has a weight, a profile finite | an enum, a table over it, a parsed workbook |
| `MitigationAssumption` | finitely many paths, likelihoods that are naturals; a project's criticality and tier as above, its profile finite and of known statements; phases of at least one | the search keeps `k_per_target` paths of each pair; the profile is the statements themselves; `phase_size` defaults to 1 and no caller gives another |

Type invariants are parts of the inductive invariants and not runs of their own.

- **`ModelVersionsProofs`.** Contiguous numbers alone are not inductive: the
  number was read before. `IInv` adds what a request holds in the meantime
  (`DraftsRooted`: the number is at most one past a version that exists, the base
  is below it and its model is the one the draft was made from), that the rows
  are `1..n` (`Numbered`), that authors have been sent so their body is fixed
  (`AuthorsSent`), and that a version about to be audited has no entry
  (`AuditPending`). From it: types, numbering, parents, edits, answers and audit.
  Immutability is an action property. For turns, `SerialInv` says that the
  one request in flight still holds the latest version, from which
  `HistoryIsLinear` and the refinement `SerialImplementsChain` follow.
- **`RunServiceProofs`.** `StampInv` adds what a validated request implies about
  a stage until its UPDATE (`ValidatedStamps`): asked to pause or complete, the
  stage was started; asked to run, it was or will be. `SerialFollowsMachine` is the
  refinement of `RunMachine`. `FollowersSeeEverything` goes over sequences: a
  publication appends to both sides of `StreamsComplete`, a delivery moves the
  head across. `StartIsKept` needs that in turns a request about to stamp a stage
  still finds it not started (`StampedFirst`). `EventsAreFaithful` counts: of every
  event, what was announced and what is about to be (`Pending`) is at most what was
  committed (`Announced`), over the cardinalities of occurrences in a sequence;
  and in turns the last word about an object is its status or is about to be
  followed by it (`LastWord`).
- **`RevisionChainProofs`.** `IInv` has a part for each thing a revision reads,
  from the await that reads it to the row (`RowOK`), and `HasLatest`: the CHOOSE of
  `get_latest_revision` has a witness although nothing bounds the number of
  revisions. For turns, `StillSo` says that what was read is still so, `AtTheEnd`
  that the row goes after every other, `Ordered` that each parent is the
  immediate predecessor; one chain (`LinearChain`) and `Attributable` follow.
- **`ReviewQueueProofs`.** Every step of the queue is a step of the chain or
  leaves it alone (`ChainStep`), so the chain's `IInv` comes for free and the
  refinement with it. `Own` ties a decision in flight to the item it claimed: a
  holder's item carries its verdict (`HoldersDecided`), no item has two holders
  (`OneHolder`), a pipeline runs only after a claim (`Piped`), what is logged was
  made (`LoggedAfter`), the revision a critique has read is committed
  (`ParentsMade`). At most one revision per acceptance, true records and final
  decisions follow.
- **`ProfileStoreProofs`.** `KInv`: a thread about to publish has everything and a
  time of its own (`OwnStamp`), what is published is whole under its hash
  (`Published`), times tell snapshots apart (`Distinct`) and there is a latest one
  (`HasLatest`, again without a bound). `PInv` is about the one upload that is on
  the event loop (`OneRunning`): what it picked is the latest that there was
  (`PickedLatest`), and from the first rewritten file on the pin on disk is behind
  the mappings (`OldPin`), until the manifest makes them equal (`CommittedPin`).
- **`IntakeProofs`.** `AInv` (articles): one request on the loop (`OneOnLoop`), it
  extracts only what nobody has extracted (`ExtractionOf`), what was told or logged
  is what the files still say (`ToldIsStored`, `LogIsStored`), and a torn file
  means that a request is writing it or the process was stopped (`TornByStop`).
  `BoundsInv` holds a body to one chunk over its limit; `DInv` says that whoever
  is about to insert a row has its file, and that the archive is whole. For the
  tiering answers, `ComputedTier` says what the questionnaire makes of any set of
  answers (the least index exists because the naturals are well-founded), and
  `TInv` that each column of the row is of some submission and, in turns, that
  nobody wrote between a submission's read and its write. For the rate limiter,
  `RInv`: the stamps kept for a client are the end of its history (`KeptIsTail`), what
  was forgotten is out of the window or from before a restart (`ForgottenIsGone`), two
  admissions `Limit` apart are more than a window apart (`Sparse`), and a refusal has
  `Limit` admissions next to each other in its window (`Witnessed`).
  The documents' lines (`FencesInv`): the two functions are always in the same fence,
  and each line so far is in a span or is kept. The parser of a block (`BlockSound`):
  closed subgraphs have names, their nodes are nodes of the diagram (`Good`), and as
  long as no id occurs twice a child is closed before its parent (`Tree`). So a child
  has a smaller position than its parent, which gives the renderer's recursive function a
  value at each position (`RenderedIs`). Its text is followed line by line (`Reads`):
  wherever no subgraph up to it is open, it adds just that subgraph with all that is
  inside and one id to the children of the innermost open one, and leaves what has
  been read a part of the diagram (`Part`, `Grown`, `SubgraphWrites`, by induction on
  positions). The roots are enough, since the greatest subgraph that was not
  written would be inside a greater one (`AllInRoots`); the nodes outside and the
  edges follow. `DiagramsAreFaithful` is for documents, blocks and nesting of any size,
  and for diagrams whose labels the renderer gets across (`Legible`, used where a node
  or an edge is written: `MentionRead`, `EdgesWritten`).
- **`AgentInvocationProofs`.** The output of a handler is a function of the disk:
  `Found(k, n)` and `Refused(k, n)` are what the completions say about the first
  `n` candidates. `Faithful` says that a handler at candidate `n + 1` holds just that,
  `Right` that an output is that of all candidates, `Stable` that it does not change
  when the disk gains entries. `Reproducible` follows because answers are `Right`
  at all times, not only when given. `Counted` counts tool calls as
  `prelude + 2 * (candidates asked)`; `Spent` bounds what was paid by the
  invocations made, with the invariant that a prompt which is not on disk has not
  been paid for in this invocation.
- **`AnalysisProofs`.** The chain of analyses from the dependency graph to the
  critique. What it says of data (finite sums and products, the longest prefix, a
  least index) is proved over sets, with the least element of a set of naturals in
  the place of an induction, and the existence of each recursive function as the
  union of its finite approximations.
  - *Invalidation*: dirty types are those that changed or that an affected
    agent produces, and the affected agents are in every closed set; a round in
    which nobody is added closes the set.
  - *Graph* (`GInv`): for every link a set that no link leaves holds its end and not
    its start, so it closes no cycle (`NoCycle`: acyclicity without a word about
    paths); every move from a state that is not queued was made or is left to do
    (`Accounted`); and the states are in every set that holds the starts and is closed
    under moves (`OnlyHeld`). So the graph is neither larger nor smaller than what
    an attacker can do (`GraphSound`). For `AdjudicationAccounts` candidates are
    counted by their ids.
  - *Paths* (`PInv`): of the pair in hand, whatever was kept is at least as likely as
    what is still ranked; a product of likelihoods that gets longer does not get
    larger, so no attack within the depth is likelier than a kept path (`PathsBest`).
  - *Critique* (`CritiqueInv`): the issues are those of the finished analysis and paths
    stay inside the graph. Then each flow into a more trusted zone, each undecided
    flow between zones and each control on a path with an open gap is followed to
    the detector that cites it (`NothingUnexamined`).
  - *Revisions* (`RevInv`): each revision records the search of a graph that is
    still there. Its likelihoods are stated for *any* set of articles, so those of
    two revisions can be compared edge by edge; with the ids of verdicts and
    scores as sums over finite sets, each difference has an article
    (`RevisionsExplained`).
  - *Model building* (`DraftInv`): in every draft names and elements determine each
    other, whatever a node, zone, flow, asset or control refers to is an element, a
    zoned component is a member of its zone, and each element, flow, zone and asset that
    no diagram draws is an inference in the ledger. Each of the nine kinds of items keeps all that (`DraftInv`) and
    what earlier items brought (`Keeps`): no name loses its element, no flow its
    ends or a field that was stated, no assumption is withdrawn. So a flow, a
    kind and a class that were stated stay `Heard`, in the draft or in the ledger with
    that very value, until the model is frozen, and nothing in a model dangles
    (`DraftsAreSound`). The theorem claims no more of the ledger than `LedgerTold`
    says: declared controls, and the kinds that prose gives to actors, are a finding.
  - *Mitigation* (`PlanInv`): the open countermeasures are advised, refused or to do,
    each just one (`Advice`); what is advised is in one phase or waits (`Shared`); and
    the phases so far take away the risk that their recommendations do, each path
    closed by the one phase after which it has no gap (`RoadMap`). A phase adds to a
    sum over a finite set, which does not depend on an order (`SumsFrom`), and takes
    away nothing negative, because fewer statements never make a greater density
    (`ShareIs`: integer division is monotonic) nor a greater maximum (`ScoreIsLess`).
    The rank of a recommendation is no part of it: the promises hold for any choice
    of phases (`PlansHold`).

Only model-checked:

- the liveness properties (`VersionAudited`, `FollowersReleased`,
  `InvocationEnds`): liveness under fairness and ENABLED are beyond the prover.
  Every safety property and action property that a passing run checks, and each
  refinement, is a theorem.

## Where the code and its documentation disagree

Each of these is the counterexample of a violation run; `findings` quotes the lines.

- `db_service.py` documents that version N+1 is diffed against N. Two requests
  that read the same version break it: the later one drops what the earlier
  changed (`versions_lost_parent`).
- `state_machine.py` says terminal statuses accept no further transitions. Two
  transitions validated on the same read are both written (`runs_terminal`).
- The README says a run pins the snapshot it was computed with. The snapshot is
  looked up twice (`revisions_torn_corpus`).
- The README says an intel revision inherits its parent's model and snapshots.
  It takes the latest ones (`revisions_intel`).
- The README says a decision has an entry on the general log. There is none when
  the revision fails (`review_unlogged`).
- `merge.py` says that every attribute conflict and every prose-only addition is
  recorded as an assumption. A control that prose declares is not; nor is the
  kind, when prose calls a component what is an actor already (`draft_ledger`,
  where the ledger stays empty).

Two more have no run of their own. The models have both, and `DraftSound` and
`DiagramsFaithful` leave them out:

- `merge.py:3-7` says that Mermaid structure is authoritative. An element that the
  prose of one document names and the diagram of a later one draws as something
  else keeps the kind of the prose, and no conflict is recorded, because
  `_add_mermaid_node` (`merge.py:147`) finds the name and looks no further.
- The code's plan (`IMPLEMENTATION_PLAN.md:253`) says that a rendering re-parses to the
  same topology. A label that the renderer writes without quotes
  (`renderer.py:41-59`) may not: `A["/login"]` is written `A[/login]` and
  refused, `A["/x/"]` becomes a parallelogram, a backslash before a quote
  escapes it, a bar in an edge's label ends it, and an ampersand between words
  (from a C4 relation or `#amp;`) is refused as a fan-out. `Illegible`, `Reread`
  and `EdgeText` say what becomes of each.

### Smaller observations

The models follow the code in these points too. No document promises otherwise,
or the promise is a matter of reading, so none is a finding; a maintainer may want
to know them.

- *Stores.* An UPDATE writes only the columns that changed, so tiering submissions
  that race can leave a tier next to answers it does not follow from
  (`TierFollowsAnswers` promises the tier of *some* submission then). A file cut
  off by a stop (an extraction, a CRI manifest) is not repaired: requests that need
  it fail until it is removed. A restart forgets the rate limiter's hits. A backup is
  whole only with the server stopped. A project's deletion that races an upload
  leaves a document row behind, as foreign keys are not enforced.
- *Model building.* A Mermaid node id that two blocks of one document use is one
  element, silently. After a diagram has drawn what an earlier document's prose
  named, the ledger goes on saying that the element is only in the prose. A
  conflict about a kind always says "the diagram shape implies", also when no diagram
  draws the element. A component kind that is unknown is read as process. That a
  component is put into a second zone, and the tags, the fields of a drawn flow and the
  members of a drawn zone that prose fills in, are not in the ledger: a reader may or
  may not count them as additions, and `LedgerTold` does not. Members that prose adds to a zone that
  exists, and actors inside a subgraph, end in the unclassified zone. A diagram's
  edge is appended although prose stated the same flow.
- *Mermaid.* A subgraph whose id occurs twice makes the renderer call itself
  without end; `DiagramsFaithful` leaves such a diagram's rendering out, and that of
  labels which are not `Legible`. Titles and the text of
  labels are not part of what a rendering preserves. A label with two bars may even be
  read as a chain; in the model, an edge whose label has a bar is refused. The ids of the model are
  those that the flowchart grammar reads as they are written: a quoted subgraph id
  (`subgraph "foo"`) has a title that differs from it and is rendered
  `subgraph "foo"[foo]`, which is read as an id of its own, and a C4 alias that is no
  word of the flowchart grammar (one with a blank, or an empty one in quotes) is
  rendered as it stands.
- *Attack graph, paths.* The docstring of `attack_graph.py` says that a node is
  reached again only at a strictly higher privilege; since Task 13 of the plan the
  code adds every edge that closes no cycle, and the model follows the code. Candidates for the same (state, technique) overwrite each
  other, so the likelihood of an edge depends on the order of candidates; the model
  takes every order. Two paths that differ only in positions share an id: snapshot
  and risk total count both, the diff one.
- *Revisions.* `services/revision/diff.py:3-6` speaks of symmetry under swap; reopened verdicts have
  no opposite. An intel candidate is skipped when a candidate for its entity and
  technique exists, even one that the gate rejected.
- *Critique.* Two weak-mitigation issues about the same entities have one id: the
  insert refuses the batch, and the gate does if their severities differ in
  validity. The over-trusted-boundary detector speaks of STRIDE verdicts and counts
  those of every framework. A questionable assumption about an asset is dropped as
  uncited. Flows between zones are reported as missed threats although both ends are out
  of scope.
- *Mitigation.* One statement can be listed as closed in two phases, since two
  techniques share it.

## Not modelled

- **Reporting, retrieval, OTM and rendering.** Reports format what others computed.
  Retrieval ranks text in floating point: its ranking is an input. A version is
  stored as an OTM document, written and read field by field with a place for each
  field; that the round trip is lossless holds by the shape of the two functions.
- **Texts.** Character-level parsing of Mermaid, of documents, of the CRI workbook
  and of the corpora; prompts, injection fences, redaction, evidence wording.
- **Guards at the edge.** Authentication, the address checks on outgoing fetches,
  file permissions: no state of their own.
- **Numbers.** Rounding and float error in scores; prices of completions; the means
  of the assurance rubric over a finished model.
- **Configuration, database wiring, agent registration, frontend.** Start-up and
  presentation. Reads that change nothing (lists, gets) are not actions, save
  where what they tell is the promise (`GetArticle`).
- **Clocks set back**, and time stamps that coincide: `created_at` and `fetched_at`
  grow in the models.

## Plan

Everything the plan of this project set out is in place: the concurrent core
with its refinements, the orchestrator and the gateway, the stores, the analyses,
and a proof of every safety property. What a next step would
take, most useful first:

1. The concurrent parts together: uploads, refreshes and revisions over one disk
   (`ProfileStore` under `RevisionChain`), where the four CRI reads see files that
   are being rewritten.
2. The ATLAS detector and the rubric as operators, if their rules grow.
