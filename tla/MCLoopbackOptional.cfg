\* One run with the toggle on, and a device that is not mounted.
SPECIFICATION Spec
CONSTANTS
  Run = {r1}
  d1 = d1
  d2 = d2
  d3 = d3
  l1 = l1
  l2 = l2
  Device = {d1, d2, d3}
  Loopback = {l1, l2}
  Address = {a1, a2, a3}
  None = None
  Bare = Bare
  Mounted = {d1, d2}
  Input <- Inputs
  ClaimRetries = 1
  MaxFaults = 0
PROPERTY OptionalGoesOn
\* The runs end.
CHECK_DEADLOCK FALSE
