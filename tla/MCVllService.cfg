\* Two VLL tasks that may meet on a node.
SPECIFICATION VllSpec
CONSTANTS
  t1 = t1
  t2 = t2
  t3 = t3
  n1 = n1
  n2 = n2
  n3 = n3
  p1 = p1
  p2 = p2
  v1 = v1
  s1 = s1
  s2 = s2
  None = None
  Unknown = Unknown
  Id <- Ids
  Node <- Nodes
  Interface <- Interfaces
  Name <- Names
  Vlan <- Vlans
  Value <- Values
  Initial <- AtFirst
  NodeOrder <- Order
  Task <- TwoTasks
  Threads = 2
  MaxFaults = 2
  VllInput <- VllInputs
  VplsInput <- NoInputs
  BiInput <- NoInputs
SYMMETRY Symmetry2
INVARIANTS TypeOK VllLeavesNothing VllDryRunStaysHome
PROPERTIES VllImplementsRegistry VllCommitInstalls VllDeleteIsComplete VllCreatedReadsBack
\* The tasks end.
CHECK_DEADLOCK FALSE
