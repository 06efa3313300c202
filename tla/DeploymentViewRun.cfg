CONSTANTS
  d1 = d1
  d2 = d2
  Deployments = {d1, d2}
  InProject = {d1, d2}
  None = None
  Redelivery = TRUE
  Limit = 2
  Starts <- OneUnderWay
  MaxEvents = 4
  MaxFaults = 1
SPECIFICATION Spec
CHECK_DEADLOCK FALSE
INVARIANTS
  LinesBelong
  ShownInOrder
  LiveIsConnected
  
  ViewInv
PROPERTIES
  EndIsSeen
  LogCatchesUp
