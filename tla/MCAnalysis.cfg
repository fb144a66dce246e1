\* The analyses: invalidation, the attack graph, its paths and revisions, model building,
\* Mermaid blocks, fenced documents, and mitigation plans.
SPECIFICATION AnalysisSpec
CONSTANTS
  a1 = a1  a2 = a2  a3 = a3  ty1 = ty1  ty2 = ty2  ty3 = ty3
  Agents <- MCAgents
  ArtifactTypes <- MCTypes
  Registries <- MCRegistries
  Rules <- MCRules
  AnyTag = "*"
  LinddunCategories = {"linkability"}
  PersonalClasses = {"pii"}
  PersonalTags = {"pii"}
  Retrieved <- MCRetrieved
  MatrixOf <- MCMatrixOf
  CapecOf <- MCCapecOf
  Score <- MCScore
  TopK = 2
  Threshold = 1
  Models <- MCModels
  NodeBudget = 5
  EdgeBudget = 12
  TechniquesPerTransition = 2
  CategoryLikelihood <- MCCategoryLikelihood
  Prevalence <- MCPrevalence
  ArticleSets <- MCArticleSets
  UpliftFactor = 3
  EntityTokens <- MCEntityTokens
  Posture <- MCPosture
  Assumptions <- MCAssumptions
  MaxDepth = 2
  PathsPerTarget = 1
  SearchBudget = 2
  DocumentLists <- MCDocumentLists
  Normalize <- MCNormalize
  Unparsed = Unparsed
  Unstated = Unstated
  OtIndicated = {"plc"}
  MobileIndicated = {"android"}
  FlowLines <- MCFlowLines
  C4Lines <- MCC4Lines
  AutoIds <- MCAutoIds
  TextLines <- MCTextLines
  MaxLines = 5
  MaxText = 4
  RequiredDefences <- MCRequired
  Statements <- MCStatements
  LexicalStatements <- MCLexical
  Matched <- MCMatched
  RegulatoryDocuments = {"doc"}
  PathResults <- MCPathResults
  Projects <- MCProjects
  DefenceCatalog = {1, 2}
  EntityName <- MCEntityName
  Efforts = {1, 3}
  PhaseSize = 1
CHECK_DEADLOCK FALSE
INVARIANTS
  AffectedIsLeast
  GraphSound
  AdjudicationAccounts
  PathsBest
  RevisionsExplained
  NothingUnexamined
  DraftSound
  DiagramsFaithful
  PlanHolds
