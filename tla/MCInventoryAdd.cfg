\* Two runs of any workflow beside an import, one fault.
SPECIFICATION Spec
CONSTANTS
  t1 = t1
  t2 = t2
  n1 = n1
  n2 = n2
  l1 = l1
  l2 = l2
  Csv = Csv
  Task <- Tasks
  Name <- Names
  Label <- Labels
  Input <- AllInputs
  CsvLabels <- OneImport
  MaxRetries = 1
  MaxFaults = 1
SYMMETRY TaskSymmetry
INVARIANTS TypeOK ImportedFirst AddedAsAsked CompletedIsInstalled RetriesSuffice
\* The runs end.
CHECK_DEADLOCK FALSE
