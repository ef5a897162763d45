SPECIFICATION FairSpec
CONSTANTS
  Releases = {r1, r2}
  Roles <- DbRole
  Specs <- TwoSpecs
  ClusterRoles = {}
  Stages <- HelmStages
  Absent = Absent
  Bounds <- LivenessBounds
PROPERTY DeployableIsReady
PROPERTY DeletedGoes
CHECK_DEADLOCK FALSE
