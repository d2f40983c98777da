SPECIFICATION FairSpec
CONSTANTS
  None = None
  Torn = Torn
  Keywords = {k1, k2, k3}
  Workers = 2
  Attempts = 3
  Modes <- EveryMode
  MaxStarts = 2
CHECK_DEADLOCK FALSE
INVARIANTS
  TypeOK
PROPERTIES
  ResultsAreWhole
  ResumeKeepsWhatWasBought
  ExecutionsEnd
