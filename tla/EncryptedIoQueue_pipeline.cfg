\* Requests of up to three fragments, with failures; three requests for two buffers.
SPECIFICATION Spec
CONSTANTS
  i1 = i1
  i2 = i2
  v1 = v1
  v2 = v2
  A = A
  B = B
  Irps <- OneIrp
  Values <- TwoValues
  NoValue = NoValue
  NoIrp = NoIrp
  Buffers <- TwoBuffers
  NoBuffer = NoBuffer
  Sectors <- ThreeSectors
  Ops <- Transfers
  ItemCount = 1
  RequestCount = 3
  WorkItems = {k1}
  Stored <- ThreeStored
  Areas = {0}
  Directions = {}
  MayHold = FALSE
  MayStop = FALSE
  MayFail = TRUE
  MayResend = TRUE
SYMMETRY Symmetry
INVARIANTS
  TypeOK
  NoUseAfterCompletion
PROPERTY
  ImplementsPlainDisk
