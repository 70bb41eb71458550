\* Holders encrypt and decrypt the device between the reads and writes of two IRPs.
SPECIFICATION Spec
CONSTANTS
  i1 = i1
  i2 = i2
  v1 = v1
  v2 = v2
  A = A
  B = B
  Irps <- TwoIrps
  Values <- TwoValues
  NoValue = NoValue
  NoIrp = NoIrp
  Buffers <- TwoBuffers
  NoBuffer = NoBuffer
  Sectors <- TwoSectors
  Ops <- ReadsAndWrite
  ItemCount = 1
  RequestCount = 1
  WorkItems = {k1}
  Stored <- TwoStored
  Areas = {0}
  Directions = {"encrypt", "decrypt"}
  MayHold = TRUE
  MayStop = FALSE
  MayFail = FALSE
  MayResend = FALSE
SYMMETRY Symmetry
INVARIANTS
  HeldQueueIsQuiet
  DiskMatchesArea
CHECK_DEADLOCK FALSE
