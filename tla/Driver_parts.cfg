\* Boot encryption setup, with power failures, device failures, hibernation and shutdown, and
\* header keys with failures and aborts.
SPECIFICATION PartsSpec
CONSTANTS
  a1 = a1
  a2 = a2
  w1 = w1
  w2 = w2
  Apps <- TwoApps
  LastPrf = 4
  Skipped = {4}
  Workers <- TwoWorkers
  MayAbort = TRUE
  System = System
  Setup = Setup
  Nobody = Nobody
  Length = 5
  BlockSize = 2
  Threshold = 3
  Lengths = {0, 5}
  MayWipe = TRUE
  MaxChanges = 1
  MaxFailures = 1
INVARIANTS
  TypesOK
  DiskMatchesArea
  DiskMatchesHeader
  PowerFailureCostsLittle
  HibernationImageReadable
  NoPrfMissed
PROPERTIES
  AbortReturns
  ReaderReturns
CHECK_DEADLOCK FALSE
