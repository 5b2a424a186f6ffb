\* Two runs of any of the workflows, three addresses, two calls that fail.
SPECIFICATION FairSpec
CONSTANTS
  Run = {r1, r2}
  d1 = d1
  d2 = d2
  d3 = d3
  l1 = l1
  l2 = l2
  Device = {d1, d2, d3}
  Loopback = {l1, l2}
  Address = {a1, a2, a3}
  None = None
  Bare = Bare
  Mounted = {d1, d2}
  Input <- Inputs
  ClaimRetries = 1
  MaxFaults = 2
INVARIANTS TypeOK AddressesAccounted
PROPERTIES CompletedIsOnNetwork CommitsNothingStale ForkCompletes
\* The runs end.
CHECK_DEADLOCK FALSE
