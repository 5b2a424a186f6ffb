\* Two runs of Add_device beside an import; one crash, timeout or failed call.
SPECIFICATION FairSpec
CONSTANTS
  t1 = t1
  t2 = t2
  n1 = n1
  n2 = n2
  l1 = l1
  l2 = l2
  Csv = Csv
  Task <- Tasks
  Name <- Names
  Label <- Labels
  Input <- AddDeviceInputs
  CsvLabels <- OneImport
  MaxRetries = 1
  MaxFaults = 1
PROPERTIES EveryRunEnds
\* The runs end.
CHECK_DEADLOCK FALSE
