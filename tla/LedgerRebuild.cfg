SPECIFICATION Spec
CONSTANTS
  None = None
  c1 = c1
  c2 = c2
  g1 = g1
  e1 = e1
  e2 = e2
  Claims = {c1, c2}
  Groups = {g1}
  GroupOf <- OneGroup
  Evidences = {e1, e2}
  Eligible <- ByEvidence
  DraftOf <- Drafts
  Reviewers = {r1, r2}
  Files = {f1, f2}
  OtherStates = {"rejected"}
CHECK_DEADLOCK FALSE
PROPERTIES
  DecisionsSurviveRebuild
