SPECIFICATION ServicesSpec
CONSTANTS
  Profiles = {"p"}
  Candidates = {1, 2, 3}
  ProfileOf <- MCProfileOf
  ParentOf <- MCParentOf
  SourcesOf <- MCSourcesOf
  Sources = {"s"}
  Reports = {"r1", "r2", "r3", "r4"}
  Judges <- MCJudges
  Registrations = {"g", "g2"}
  HostOf <- MCHostOf
  RootOf = "g"
  PrepareCalls = {"a", "b", "d"}
  Config <- MCConfig
  Surfaces = {"u"}
  Predecessor <- MCPredecessor
  FeedbackKeys = {"f1"}
  ProposalKeys = {"p1"}
  FactSource <- MCFactSource
  MAX_PREPARE = 2
  MAX_RUNS = 1
  None = None
  AHosts = {"h1", "h2"}
  AComplete = {"h1"}
  AUids = {1, 2, 3, 4}
  ASet <- MCASet
  AProviders <- MCAProviders
  AMeters <- MCAMeters
  AProfiles <- MCAProfiles
  APids = {1, 2, 3}
  AVersions = {1, 2}
  ABound = 1
  DSpaces = {"n1", "n2"}
  DArtifacts = {"a1", "a2"}
  DBodies = {1, 2}
  DKeys = {"k1"}
  DArgs = {"x", "y"}
  DRunIds = {"r1", "r2"}
  DWorldIds = {"w1", "w2"}
  DNodes = {"s1", "d1", "d2", "d3"}
  DBlobs = {"b1", "b2"}
  MaxRuns = 2
  MaxTraces = 2
  MaxWorlds = 2
  MaxClosure = 2
  DAuditBound = 5
  DWork = 2
  EcoKeys = {"k1"}
  EcoSeqs = {1, 2}
  EcoCalls = {"c1"}
  AdminIds = {"a1", "a2"}
  EcoCosts = {1}
  EcoProcs = {"p1", "p2"}
  EcoMarks = 2
  CTombstone = CTombstone
  CFamilies = {"f1", "f2"}
  CBucket <- MCCBucket
  CCycles <- MCCCycles
  CReleases <- MCCReleases
  CProposals <- MCCProposals
  CKeys = {"k1"}
  CBudgets = {1, 2}
  COOLDOWN = 2
  WINDOW = 2
  MIN_CLUSTERS = 1
  MIN_UNIQUE = 2
  MAX_GAIN = 1
  CBound = 2
INVARIANTS
  HostSafe
  AuthoritySafe
  DocumentSafe
  EconomicsSafe
  CurriculumSafe
PROPERTIES
  HostStands
  StoredStands
CHECK_DEADLOCK FALSE
