\* The stores, the limits, the tiering row and the agents (three invocations of
\* four inputs over two prompts, one restart), one part at a time.
SPECIFICATION StoresSpec
CONSTANTS
  r1 = r1  r2 = r2  u1 = u1  u2 = u2
  p1 = p1  p2 = p2  p3 = p3  d1 = d1  d2 = d2  d3 = d3  d4 = d4
  s1 = s1  s2 = s2  c1 = c1
  q1 = q1  q2 = q2  good = good  bad = bad  none = none
  url = url  text1 = text1  text2 = text2  fileA = fileA  fileB = fileB
  Refreshes <- MCRefreshes
  Sources <- MCSources
  Upstreams <- MCUpstreams
  ContentHash <- MCContentHash
  NoSnapshot = NoSnapshot
  Uploads <- MCUploads
  CatalogOf <- MCCatalogOf
  Torn = Torn
  Truncated = Truncated
  MaxStops = 1
  Posts <- MCPosts
  Texts = {text1, text2}
  TextOf <- MCTextOf
  UrlOf <- MCUrlOf
  NoUrl = NoUrl
  Extractions = {"one", "other"}
  MaxRedirects = 1
  MaxStarts = 2
  DocumentUploads <- MCDocumentUploads
  FileOf <- MCFileOf
  SizeOf <- MCSizeOf
  Declared = {d1}
  Unreadable = {}
  MaxBody = 3
  MaxUpload = 2
  ChunkSize = 2
  MaxServerStops = 1
  Clients = {c1}
  Limit = 2
  Window = 2
  MaxTime = 6
  MaxRestarts = 1
  Submissions <- MCSubmissions
  QuestionIds <- MCQuestionIds
  TierIfYes <- MCTierIfYes
  Yes <- MCYes
  NoQuestion = NoQuestion
  Inputs <- MCInputs
  Count <- MCCount
  Candidate <- MCCandidate
  Prelude <- MCPrelude
  CallLimit <- MCCallLimit
  Gated <- MCGated
  Prompts <- MCPrompts
  Completions <- MCCompletions
  None <- none
  MaxRepairs = 1
  MaxInvocations = 3
  MaxCrashes = 1
CHECK_DEADLOCK FALSE
INVARIANTS
  SnapshotsWhole
  UploadsAnswerTheirPin
  ArticlesAnswersAgree
  BodyWithinLimit
  DocumentsBacked
  WindowRespected
  TierFollowsAnswers
  Reproducible
  AnswersAccountForAll
PROPERTIES
  NothingPaidTwice
  InvocationEnds
  LatestNeverGoesBack
