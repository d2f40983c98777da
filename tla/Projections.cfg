SPECIFICATION ProjectionsSpec
CONSTANTS
  k1 = k1
  k2 = k2
  k3 = k3
  k4 = k4
  u1 = u1
  u2 = u2
  u3 = u3
  u4 = u4
  NoPrice = NoPrice
  NoValue = NoValue
  NoDemandQuery = NoDemandQuery
  NotANumber = NotANumber
  BadRank = BadRank
  NoManifest = NoManifest
  Torn = Torn
  NoFile = NoFile
  NoDatabase = NoDatabase
  NoTarget = NoTarget
  Absent = Absent
  NoAudit = NoAudit
  NoReceipt = NoReceipt
  NoRun = NoRun
  Keywords = {k1, k2, k3, k4}
  TopResults <- Tops
  Scopings <- OneScopeOrTwo
  Depth = 2
  High = 2
  Possible = 1
  Portfolio <- Candidates
  LifetimeCap = 5
  Committed = {0, 2, 6}
  RetainedLists <- OccurrenceLists
  SelectedGroups = {"g1"}
  DemandQueries = {"q"}
  Relations <- LexiconRelations
  RelationSets <- Lexicons
  GraphRequests <- Queries
  PartialLimit = 3
  NoSource = "none"
  NoGroup = "nogroup"
  Facts <- Imports
  Workbook <- Book
  AllGroups <- GroupsOfSites
  Site = "site"
  TermsOf <- HierarchyTerms
  FirstPages <- TenRanks
  ResultRows <- LaterRanks
  PageRows <- Pages
  DepthTasks = {"t1", "t2"}
  DeclaredDepth <- Depths
  RequestedTarget = 12
  RawFiles = {"a", "b", "c"}
  AuditedFiles = {"a", "b"}
  FirstOf <- FirstByName
  Contents <- RawContents
  Capabilities = {"c1", "c2", "c3"}
  Implemented = {"c1", "c2"}
  Paths = {"p1", "p2"}
  ArtifactsOf <- Artifacts
  CommandsOf <- Commands
  TargetOf <- Scripts
  Versions = {"v1", "v2"}
  Original = "v1"
  MaxEdits = 2
  EnrichmentRuns = {"run1", "run2"}
  JobCount = 2
  EstimatedMax = 3
  Ceilings = {2, 4, 9}
  JobCosts = {1, 3, 5}
  StartBalance = 8
CHECK_DEADLOCK FALSE
INVARIANTS
  ClustersAreMaximal
  PlanFitsTheBudget
  BestBandIsKept
  StrategiesDifferInOrderOnly
  NoCycleIsUnreviewed
  BreadthFirstIsComplete
  ZeroMeansNothingRetained
  InventoryLedgersAgree
  ContentCoverageAccountsForEveryRow
  CleanAuditMeansDatabaseMatchesFiles
  FreshBuildRetainsEverything
  ProvenMeansPassedOnTheseFiles
  ChargesAreKnownButForOneJob
PROPERTIES
  EvidenceOnlyStrengthens
  DepthNeverRegresses
