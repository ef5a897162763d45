SPECIFICATION Spec
CONSTANTS
  Releases = {r1}
  Roles <- DbRole
  Specs <- TwoSpecs
  ClusterRoles = {}
  Stages <- PolledStages
  Absent = Absent
  Bounds <- FatalBounds
INVARIANT FatalIsNotFixedByRetry
CHECK_DEADLOCK FALSE
