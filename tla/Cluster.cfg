SPECIFICATION AllSpec
CONSTANTS
  None = None
  rel = rel
  Packages = {plain, shield, broken}
  Protects = {shield, broken}
  Loads = {plain, shield}
  MaxEdits = 4
  MaxFailures = 1
  p = p
  q = q
  src = src
  copy = copy
  other = other
  old = old
  new = new
  retyped = retyped
  root = root
  mid = mid
  leaf = leaf
  app = app
  svc = svc
  Invalid = Invalid
  cnx = cnx
  ccnx = ccnx
  one = one
  two = two
  Broken = Broken
INVARIANTS DeletedKnowingly ProtectionFollows  Inherits ChecksFollow
 
CHECK_DEADLOCK FALSE
