SPECIFICATION PartsSpec
CONSTANTS
  Asked = {"updates", "graphs", "cuts", "views", "chunks", "groups", "archive", "forecasts", "quality", "verdicts", "contracts", "ontology", "routes", "readiness", "transform", "inventory", "extract", "schema", "bundle", "chain", "roots", "tables", "search", "scores", "placement", "answers", "citations", "plan", "archives", "catalog", "gate", "protect", "builds", "bundles", "queries"}
  None = None
  MinChars = 2
  TargetChars = 3
  MaxChars = 4
  MaxDocumentChunks = 3
  MaxBucketDocuments = 3
  MaxCandidatePairs = 4
  LargeInput = 200
  SafetyReserve = 30
  SiloVariables = {"ARCHIVE_DIR", "ARCHIVE_SILO_NOTES_DIR"}
  Tablespaces = {"PG_TABLESPACE_FAST_DIR"}
  QualityBatch = 2
  ContractColumns <- QualityColumns
  MinDecidedPairs = 9
  P95Max = 50
  P95IncreaseMax = 5
  Runner = {r1, r2}
  Model = {m1, m2}
  MaxRequests = 2
  Generation = {g1, g2}
  Path = {f1, f2}
  MaxEdits = 2
  MaxScans = 2
  Body = {c1, c2}
  MaxItems = 3
  MaxSnapshots = 2
  BatchRows = 2
  MaxRevisions = 3
  MaxChanges = 3
  MaxSlips = 1
  Evaluation = {e1, e2}
  MaxInputEdits = 1
  MaxDeaths = 1
  Document <- CorpusDocuments
  MayRead <- CorpusTexts
  ViewsOf <- CorpusViews
  Likeness <- CorpusLikeness
  MaxWalks = 3
  MaxLosses = 1
  MaxCommands = 2
  MaxSwaps = 1
  Session = {s1, s2}
  Table = {"documents", "chunks", "facts", "embeddings"}
  MaxLoads = 3
  MaxQueryVariants = 5
  Headroom = 2
  DatabaseReserve = 16
  ArchiveMembers = 4
  MemberBytes = 2
  ExpandedBytes = 5
  ArchiveDepth = 2
  SampleLimit = 2
INVARIANTS
  PlansHold
  UpkeepHolds
  SourcesHold
  ChunksHold
  CorpusHolds
  AnswersHold
  ContractsHold
  GateHolds
  RetrievalHolds
  RuntimeHolds
  ResourcesHold
PROPERTIES
  TransformsHold
  EvidenceHolds
  TablesHold
CHECK_DEADLOCK FALSE
