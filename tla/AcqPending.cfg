SPECIFICATION Spec
CONSTANTS
  s1 = s1
  s2 = s2
  s3 = s3
  setA = setA
  None = None
  Torn = Torn
  Executors = {e1, e2}
  Collectors = {c1}
  Runs = {r1, r2}
  Sources = {s1, s2}
  CandidateSets = {setA}
  Members <- SameTasks
  TaskFields <- SameFields
  PlanMax <- PlanMaximum
  ScopeSize = 2
  ApprovedCap = 2
  LifetimeCap = 6
  LegacyCommitted = 1
  Charges = {1}
  Bodies = {b1}
  Workers = 2
  Disturbances = {"pending"}
CHECK_DEADLOCK FALSE
INVARIANTS
  NoDuplicatePaidExecution
