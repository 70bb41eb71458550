\* The reader frees memory that a worker still uses.
SPECIFICATION Spec
CONSTANTS
  w1 = w1
  w2 = w2
  w3 = w3
  LastPrf = 3
  Skipped = {}
  Workers <- TwoWorkers
  MayAbort = TRUE
CHECK_DEADLOCK FALSE
INVARIANT
  MemoryOutlivesWorkers
