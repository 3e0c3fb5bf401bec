SPECIFICATION EvidenceSpec
CONSTANTS
  Documents = {1, 2}
  PageCount <- ShortDocuments
  Readings <- UncertainPage
  Revisions = {r1}
  r1 = r1
  Missing = Missing
  MaxCensus = 2
  MaxAccidents = 2
  Expected = 2
  Cap = 2
  MaxOcr = 2
  Renderings <- AnyThenPinned
  p1 = p1
  p2 = p2
  Unrecorded = Unrecorded
  Connections = {c1, c2}
  c1 = c1
  c2 = c2
  Observations = {"o1", "o2", "o3", "o4"}
  GlobalRelations = {"r1"}
  Relation <- TwoOfOneRelation
  Paged = {"o1", "o2", "o4"}
  Unresolved = "unresolved"
  Organizations = {"orgA"}
  Artifacts = {"a1", "a2"}
  ArtifactScope <- PublicAndPrivate
  Norms = {n1}
  n1 = n1
  MaxDecisions = 2
  ScannedDocuments <- Scanned
  MinimumCharacters = 1
  MinimumSupport = 2
  MinimumShare <- Half
  MaxPageChars = 6
  Asks <- SomeAsks
  MaxCalls = 3
  MaxTokens = 24
  DecisionCeiling = 1
  LocatorCeiling = 1
  SynthesisCeiling = 12
  ParentLimit = 11
  DelegatedLimit = 7
  Slack = 1
  Unknown = Unknown
  MaxPosts = 2
  Claims <- SomeClaims
  Spans <- SomeSpans
  Answers <- SomeAnswers
  NoSource = NoSource
  MaxTurns = 1
  MaxToolOutput = 6
INVARIANTS
  EvidenceTypeOK
  CensusIsWhole
  OcrCoversCensus
  PromotionsAgree
  KnowledgeIsGrounded
  BudgetIsKept
  EvidenceIsSourced
PROPERTIES
  NeverPaidTwice
  CensusSucceeds
  OcrAttemptSucceeds
CHECK_DEADLOCK FALSE
