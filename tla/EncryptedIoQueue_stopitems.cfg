\* EncryptedIoQueueStop frees what a completion routine still uses.
SPECIFICATION Spec
CONSTANTS
  i1 = i1
  i2 = i2
  v1 = v1
  v2 = v2
  A = A
  B = B
  Irps <- OneIrp
  Values <- TwoValues
  NoValue = NoValue
  NoIrp = NoIrp
  Buffers <- TwoBuffers
  NoBuffer = NoBuffer
  Sectors <- TwoSectors
  Ops <- FlushOnly
  ItemCount = 1
  RequestCount = 1
  WorkItems = {k1}
  Stored <- TwoStored
  Areas = {0}
  Directions = {}
  MayHold = FALSE
  MayStop = TRUE
  MayFail = FALSE
  MayResend = TRUE
SYMMETRY Symmetry
INVARIANT
  StopWaitsForWorkItems
