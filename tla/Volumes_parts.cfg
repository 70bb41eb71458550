\* Access, mounts, the expander and in-place encryption, with power failures, errors and aborts.
SPECIFICATION PartsSpec
CONSTANTS
  w1 = w1
  w2 = w2
  zeros = zeros
  text = text
  c1 = c1
  c2 = c2
  m1 = m1
  alice = alice
  bob = bob
  HostSize = 12
  SectorSize = 2
  OuterOffset = 2
  OuterSize = 8
  HiddenOffset = 4
  HiddenSize = 4
  PartitionStart = 3
  EncryptedSizes = {0, 6, 12}
  Lengths = {0, 1, 2, 4}
  Writers <- TwoWriters
  Initial = zeros
  Values = {text}
  Garbage = Garbage
  Clients = {c1, c2}
  Aborters = {m1}
  System = System
  Nobody = Nobody
  Admin = Admin
  UserOf <- Users
  Drives <- TwoDrives
  Requests = {1}
  Attempts = 2
  MaxMounts = 2
  Passes = 3
  ExpanderFailures = 2
  Size = 11
  Offset = 2
  ChunkSize = 3
  Interval = 6
  Portion = 2
  InPlaceFailures = 1
INVARIANTS
  TypesOK
  HiddenVolumeIntact
  ReadsReturnData
  RightPasswordIsNotWrong
  RequestsMeetAnOpenVolume
  VolumeStaysMountable
  DeviceMatchesHeader
  FinishedIsComplete
PROPERTIES
  AbortHitsItsMount
  PowerFailureCostsLittle
CHECK_DEADLOCK FALSE
