SPECIFICATION Spec
CONSTANTS
  s1 = s1
  s2 = s2
  s3 = s3
  setA = setA
  None = None
  Torn = Torn
  Executors = {e1, e2}
  Collectors = {c1}
  Runs = {r1, r2}
  Sources = {s1}
  CandidateSets = {setA, setB}
  Members <- SameTasks
  TaskFields <- OwnFields
  PlanMax <- PlanMaximum
  ScopeSize = 1
  ApprovedCap = 2
  LifetimeCap = 6
  LegacyCommitted = 1
  Charges = {1, 3}
  Bodies = {b1}
  Workers = 2
  Disturbances <- FreshDirectories
CHECK_DEADLOCK FALSE
INVARIANTS
  LedgerEntriesNameTheirSet
PROPERTIES
  ChargesStayInLedger
SYMMETRY DirectorySymmetry
