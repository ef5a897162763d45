SPECIFICATION Spec
CONSTANTS
  Releases = {r1, r2}
  Roles <- DbRole
  Specs <- TwoSpecs
  ClusterRoles = {}
  Stages <- HelmStages
  Absent = Absent
  Bounds <- PairBounds
INVARIANT RolesFollowStatus
INVARIANT NoLostWakeup
CHECK_DEADLOCK FALSE
