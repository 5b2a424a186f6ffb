\* The runs of the end-to-end test that adds a netconf device, nothing failing.
SPECIFICATION Spec
CONSTANTS
  t1 = t1
  t2 = t2
  n1 = n1
  n2 = n2
  l1 = l1
  l2 = l2
  Csv = Csv
  Task <- Tasks
  Name <- Names
  Label <- Labels
  Input <- TestInputs
  CsvLabels <- NoImport
  MaxRetries = 1
  MaxFaults = 0
INVARIANTS FailsOnlyForCause
\* The runs end.
CHECK_DEADLOCK FALSE
