\* Two concurrent requests, Start and Stop, in a ring of three items, under fair scheduling:
\* requests of two fragments begin at every item, wrap around inside, and wait for an item.
SPECIFICATION MCSpec
CONSTANTS
  c1 = c1
  c2 = c2
  w1 = w1
  w2 = w2
  Callers <- TwoCallers
  Workers <- TwoWorkers
  QueueSize = 3
  MaxUnits = 3
  NoThread = NoThread
INVARIANTS
  TypeOK
  FirstFragmentStable
PROPERTIES
  ImplementsService
  RequestsComplete
  StopCompletes
VIEW
  WithoutLeftovers
