\* A device is removed from a VPLS of two devices, one with two ends.
SPECIFICATION VplsSpec
CONSTANTS
  t1 = t1
  t2 = t2
  t3 = t3
  n1 = n1
  n2 = n2
  n3 = n3
  p1 = p1
  p2 = p2
  v1 = v1
  s1 = s1
  s2 = s2
  None = None
  Unknown = Unknown
  Id <- Ids
  Node <- Nodes
  Interface <- Interfaces
  Name <- Names
  Vlan <- Vlans
  Value <- Values
  Initial <- AtFirst
  NodeOrder <- Order
  Task <- TwoTasks
  Threads = 1
  MaxFaults = 2
  VllInput <- NoInputs
  VplsInput <- VplsInputsShrinking
  BiInput <- NoInputs
SYMMETRY Symmetry2
PROPERTIES TwoDevicesLeft
\* The tasks end.
CHECK_DEADLOCK FALSE
