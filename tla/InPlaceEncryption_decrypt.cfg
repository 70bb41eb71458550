\* Nothing fails; the masked portion is longer than what is left of an encryption.
SPECIFICATION Spec
CONSTANTS
  Size = 9
  Offset = 3
  ChunkSize = 4
  Interval = 8
  Portion = 2
  MaxPowerFailures = 0
  MaxFailures = 0
INVARIANT DecryptionReveals
CHECK_DEADLOCK FALSE
