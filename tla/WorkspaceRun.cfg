CONSTANTS
  u1 = u1
  u2 = u2
  o1 = o1
  o2 = o2
  Users = {u1, u2}
  Orgs = {o1, o2}
  Members <- OneMember
  Holders = {u2}
  Kept = {o2}
  None = None
  MaxActs = 2
  MaxFaults = 1
SPECIFICATION Spec
CHECK_DEADLOCK FALSE
INVARIANTS
  
  BusyHasJob
  WorkspaceInv
PROPERTIES
  BusyEnds
  SelectionHeals
