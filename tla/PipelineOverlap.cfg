CONSTANTS
  s1 = s1
  s2 = s2
  d1 = d1
  d2 = d2
  NoImage = NoImage
  Services = {s1}
  Deployments = {d1, d2}
  ServiceOf <- SameService
  MaxRetry = 1
  MaxDeliveries = 2
  MaxRestarts = 0
  RequestPolicy = "any"
  ApiAborts = FALSE
  DbErrors = FALSE
  EnqueueErrors = FALSE
  Timeouts = FALSE
  Crashes = FALSE
SPECIFICATION Spec
CHECK_DEADLOCK FALSE
SYMMETRY DeploymentSymmetry
INVARIANTS
  TypeOK
  BuildFailureKeepsPrevious
  RowsAgree
  KeepInv
PROPERTIES
  ImplementsLifecycle
