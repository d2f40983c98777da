SPECIFICATION Spec
CONSTANTS
  None = None
  Torn = Torn
  Keywords = {k1, k2}
  Workers = 2
  Attempts = 3
  Modes = {"standard", "recover"}
  MaxStarts = 3
CHECK_DEADLOCK FALSE
INVARIANTS
  OneResultPerKeyword
