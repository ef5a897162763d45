SPECIFICATION Spec
CONSTANTS
  Releases = {r1}
  Roles <- DbRole
  Specs <- OneSpecs
  ClusterRoles = {}
  Stages <- AllStages
  Absent = Absent
  Bounds <- PipelineBounds
INVARIANT TypeOK
INVARIANT RolesFollowStatus
INVARIANT NoLostWakeup
INVARIANT NothingLeftOfTheGone
CHECK_DEADLOCK FALSE
