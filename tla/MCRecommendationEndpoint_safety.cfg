CONSTANTS
  r1 = r1
  r2 = r2
  r3 = r3
  r4 = r4
  p1 = p1
  Requests <- FourRequests
  Probes = {}
  MaxConcurrency = 2
  Threads = 3
SPECIFICATION EndingSpec
INVARIANTS
  TypeOK
  PermitsConserved
  BoundedWork
  NoLostWakeup
PROPERTIES
  QueuedIsServed
