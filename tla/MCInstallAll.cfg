\* Install_all: a cursor at every device, pages of two, two batches at a time, two faults.
SPECIFICATION FairSpec
CONSTANTS
  DeviceStep = 1
  PageSize = 2
  CursorCount = 2
  Operation = "install"
  ForkOptional = TRUE
  MaxRetries = 1
  MaxDevices = 3
  MaxFaults = 2
INVARIANTS TypeOK Coverage NoFalseSuccess OverlapBound ChangeShownOnce
PROPERTIES ReportsFinal ImplementsBulk Termination
\* The workflow ends and its threads go idle.
CHECK_DEADLOCK FALSE
