CONSTANTS
  p1 = p1
  s1 = s1
  s2 = s2
  r1 = r1
  r2 = r2
  v1 = v1
  Project = p1
  Services = {s1, s2}
  Variables = {v1}
  Repos = {r1}
  NoRepo = NoRepo
  Warned = {r1}
  None = None
  MaxActs = 2
  MaxFaults = 1
SPECIFICATION Spec
CHECK_DEADLOCK FALSE
INVARIANTS
  CacheCurrent
  UntouchedFormIsCurrent
  
PROPERTIES
  
  
  BusyEnds
