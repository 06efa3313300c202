CONSTANTS
  s1 = s1
  s2 = s2
  d1 = d1
  d2 = d2
  NoImage = NoImage
  Services = {s1, s2}
  Deployments = {d1, d2}
  ServiceOf <- OwnService
  MaxRetry = 0
  MaxDeliveries = 1
  MaxRestarts = 0
  RequestPolicy = "quiet"
  ApiAborts = FALSE
  DbErrors = FALSE
  EnqueueErrors = FALSE
  Timeouts = FALSE
  Crashes = FALSE
SPECIFICATION Spec
CHECK_DEADLOCK FALSE
INVARIANT OnlyOrphanRoutesRemoved
