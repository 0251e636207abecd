CONSTANTS
  r1 = r1
  r2 = r2
  r3 = r3
  r4 = r4
  p1 = p1
  Requests <- ThreeRequests
  Probes <- OneProbe
  MaxConcurrency = 1
  Threads = 2
SPECIFICATION DeadlineSpec
PROPERTIES
  EveryRequestAnswered
  EveryProbeAnswered
