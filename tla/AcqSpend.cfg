SPECIFICATION Spec
CONSTANTS
  s1 = s1
  s2 = s2
  s3 = s3
  setA = setA
  None = None
  Torn = Torn
  Executors = {e1, e2, e3}
  Collectors = {c1}
  Runs = {r1, r2, r3}
  Sources = {s1, s2}
  CandidateSets = {setA, setB}
  Members <- SameTasks
  TaskFields <- SameFields
  PlanMax <- PlanMaximum
  ScopeSize = 2
  ApprovedCap = 2
  LifetimeCap = 4
  LegacyCommitted = 1
  Charges = {0, 1, 2}
  Bodies = {b1}
  Workers = 2
  Disturbances = {"http", "lostReply"}
CHECK_DEADLOCK FALSE
PROPERTIES
  SpendsAsPromised
SYMMETRY SpendSymmetry
