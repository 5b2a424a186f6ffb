\* Uninstall_all: pages of three every two devices, a failed batch fails the workflow.
SPECIFICATION Spec
CONSTANTS
  DeviceStep = 2
  PageSize = 3
  CursorCount = 1
  Operation = "uninstall"
  ForkOptional = FALSE
  MaxRetries = 1
  MaxDevices = 5
  MaxFaults = 1
INVARIANTS Coverage ChangeShownOnce
\* The workflow ends and its threads go idle.
CHECK_DEADLOCK FALSE
