CONSTANTS
  s1 = s1
  s2 = s2
  d1 = d1
  d2 = d2
  NoImage = NoImage
  Services = {s1}
  Deployments = {d1}
  ServiceOf <- OneDeployment
  MaxRetry = 0
  MaxDeliveries = 2
  MaxRestarts = 1
  RequestPolicy = "any"
  ApiAborts = TRUE
  DbErrors = FALSE
  EnqueueErrors = TRUE
  Timeouts = TRUE
  Crashes = TRUE
SPECIFICATION FairSpec
CHECK_DEADLOCK FALSE
INVARIANT PushedBeforeUse
PROPERTIES
  
  ImplementsLifecycle
