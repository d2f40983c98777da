SPECIFICATION Spec
CONSTANTS
  s1 = s1
  s2 = s2
  s3 = s3
  setA = setA
  None = None
  Torn = Torn
  Executors = {e1, e2}
  Collectors = {c1}
  Runs = {r1}
  Sources = {s1, s2, s3}
  CandidateSets = {setA, setB}
  Members <- OverlappingTasks
  TaskFields <- OwnFields
  PlanMax <- PlanMaximum
  ScopeSize = 2
  ApprovedCap = 2
  LifetimeCap = 6
  LegacyCommitted = 1
  Charges = {1, 2}
  Bodies = {b1, b2}
  Workers = 2
  Disturbances <- OneAtATime
CHECK_DEADLOCK FALSE
INVARIANTS
  QuietRunsKeepResults
  LedgerEntriesAreRealCharges
SYMMETRY PortfolioSymmetry
