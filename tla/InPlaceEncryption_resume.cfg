\* One power failure and nothing else that fails.
SPECIFICATION Spec
CONSTANTS
  Size = 7
  Offset = 1
  ChunkSize = 2
  Interval = 4
  Portion = 1
  MaxPowerFailures = 1
  MaxFailures = 0
INVARIANT SafelyResumed
CHECK_DEADLOCK FALSE
