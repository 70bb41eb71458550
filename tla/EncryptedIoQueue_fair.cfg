\* A sender, repeated holds and a stop, under fair scheduling.
SPECIFICATION FairSpec
CONSTANTS
  i1 = i1
  i2 = i2
  v1 = v1
  v2 = v2
  A = A
  B = B
  Irps <- OneIrp
  Values <- TwoValues
  NoValue = NoValue
  NoIrp = NoIrp
  Buffers <- TwoBuffers
  NoBuffer = NoBuffer
  Sectors <- TwoSectors
  Ops <- Controls
  ItemCount = 1
  RequestCount = 1
  WorkItems = {k1}
  Stored <- TwoStored
  Areas = {0}
  Directions = {}
  MayHold = TRUE
  MayStop = TRUE
  MayFail = FALSE
  MayResend = TRUE
INVARIANT
  StopCompletesIrps
PROPERTIES
  StopReturns
  IrpsComplete
