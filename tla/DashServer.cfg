SPECIFICATION FairSpec
CONSTANTS
  None = None
  Missing = Missing
  Malformed = Malformed
  s1 = s1
  s2 = s2
  g1 = g1
  g2 = g2
  h1 = h1
  t1 = t1
  t2 = t2
  v1 = v1
  v2 = v2
  Sites = {s1, s2}
  Groups = {g1, g2, h1}
  Tasks = {t1, t2}
  SiteOf <- MCSiteOf
  GroupOf <- MCGroupOf
  DefaultLimit = 2
  MaxLimit = 3
  MaxBuilds = 2
  MaxLives = 2
  Expiring = {1}
  Rows <- MCRows
  Content <- MCContent
  Files <- MCFiles
  Requests <- MCRequests
  Limits = {0, 2}
CHECK_DEADLOCK FALSE
INVARIANTS
  TypeOK
  OnlyTheStampWindowLocks
  ListingIsWhole
  OnlyOwnRows
  PlanIsOfOneProjection
PROPERTIES
  ReadersEnd
