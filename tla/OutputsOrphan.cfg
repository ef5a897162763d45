CONSTANTS
  app = app
  cnx = cnx
  ccnx = ccnx
  one = one
  two = two
  Names = {"db"}
  Namespaced = {cnx}
  ClusterWide = {ccnx}
  Values = {one, two}
  Schemas <- OneSchema
  Broken = Broken
  None = None
  Handmade = {}
  MaxEdits = 0
  Releases = {app}
  Renderings <- BothKinds
  Lagging = {ccnx}
  MaxRenders = 1
  MaxFailures = 0
SPECIFICATION OutSpec
INVARIANT NoneLeft
CHECK_DEADLOCK FALSE
