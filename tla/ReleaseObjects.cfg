SPECIFICATION Spec
CONSTANTS
  None = None
  rel = rel
  oci = oci
  hr = hr
  r1 = r1
  r2 = r2
  m1 = m1
  m2 = m2
  one = one
  two = two
  app = app
  svc = svc
  cnx = cnx
  ccnx = ccnx
  Broken = Broken
  k1 = k1
  k2 = k2
  g1 = g1
  db = db
  mq = mq
  x = x
  y = y
INVARIANTS  Deploys OutputsFollow 
PROPERTIES UsesPublished LeavesForeign 
CHECK_DEADLOCK FALSE
