SPECIFICATION AllSpec
CONSTANTS
  None = None
  MaxTotal = 6
  MaxLimit = 3
  Buffer = 3
  rel = rel
  p = p
  src = src
  copy = copy
  other = other
  old = old
  root = root
  mid = mid
  leaf = leaf
  app = app
  Invalid = Invalid
  ccnx = ccnx
  one = one
  two = two
  Broken = Broken
  oci = oci
  hr = hr
  r1 = r1
  r2 = r2
  m1 = m1
  k1 = k1
  k2 = k2
  g1 = g1
  db = db
  v1 = v1
  v2 = v2
  home = home
INVARIANTS CutsAtLimit NoneLeft
PROPERTIES DeletionEnds Converges
CHECK_DEADLOCK FALSE
