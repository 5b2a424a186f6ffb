\* A device that may refuse a read or an unmount, attempts that are given up.
SPECIFICATION FairSpec
CONSTANTS
  None = None
  TypeOrder <- Types
  Fields <- Uris
  Rounds = 2
  MaxRetries = 2
  Port <- Ports
  MaxRefused = 2
  MaxDeaths = 1
INVARIANTS TypeOK CompletedLeavesNothing MissingForCause
PROPERTIES FoundIsUnmounted
\* The run ends.
CHECK_DEADLOCK FALSE
