CONSTANTS
  a = a
  b = b
  shared = shared
  good = good
  better = better
  bad = bad
  Releases <- TwoReleases
  Contents <- GoodAndBad
  Valid <- Loading
  First = good
  Revisions = {shared}
  RevisionOf <- SharedImage
  None = None
  MaxEdits = 2
  MaxCrashes = 1
SPECIFICATION Spec
INVARIANTS TypeOK KeptAsKeyed NoReleaseLeftBehind 
CHECK_DEADLOCK FALSE
