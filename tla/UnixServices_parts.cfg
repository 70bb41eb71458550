\* Header keys, mounting with failing commands, and services that die.
SPECIFICATION PartsSpec
CONSTANTS
  w1 = w1
  w2 = w2
  t1 = t1
  t2 = t2
  MaxCiphers = 3
  MaxFaults = 2
  Threads <- TwoThreads
  MaxRequests = 3
  MaxPasswords = 2
  MaxDeaths = 1
  App = App
  Service = Service
  Elevated = Elevated
  Nobody = Nobody
  KdfCount = 3
  Workers <- TwoWorkers
  MayThrow = TRUE
INVARIANTS
  TypesOK
  LocalsOutliveWorkers
  NoKdfMissed
  FailedMountUndone
  OwnAnswer
  ExecutedOnce
PROPERTIES
  DecryptReturns
  EmergencyUnmountEnds
  ServicesEnd
CHECK_DEADLOCK FALSE
