\* Three VPLS tasks, one after the other.
SPECIFICATION VplsSpec
CONSTANTS
  t1 = t1
  t2 = t2
  t3 = t3
  n1 = n1
  n2 = n2
  n3 = n3
  p1 = p1
  p2 = p2
  v1 = v1
  s1 = s1
  s2 = s2
  None = None
  Unknown = Unknown
  Id <- Ids
  Node <- Nodes
  Interface <- Interfaces
  Name <- Names
  Vlan <- Vlans
  Value <- Values
  Initial <- AtFirst
  NodeOrder <- Order
  Task <- ThreeTasks
  Threads = 1
  MaxFaults = 1
  VllInput <- NoInputs
  VplsInput <- VplsInputsInTurn
  BiInput <- NoInputs
SYMMETRY Symmetry3
INVARIANTS VplsLeavesNothing VplsFullMesh VplsReadsBack
PROPERTIES VplsChangesMembers
\* The tasks end.
CHECK_DEADLOCK FALSE
