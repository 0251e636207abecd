CONSTANTS
  acme = acme
  globex = globex
  usd = usd
  eur = eur
  Predictors <- SmallPredictors
  Payloads <- SmallPayloads
  Occupancies = {0, 45, 90}
  NoModel = NoModel
  Tenants = {acme, globex}
  NoTenant = NoTenant
  BadIdentity = BadIdentity
  Scenarios <- SmallScenarios
  NoMinimum = NoMinimum
  MaximumCandidates = 4
  Requests <- SmallRequests
  MaximumComparables = 8
  AsOf = 200
  DayTicks = 2
  Offset = 1
  Unit = 1000000
SPECIFICATION Spec
CHECK_DEADLOCK FALSE
INVARIANTS
  TypeOK
  SoundEvidence
  ExclusionsExplained
  BandBetweenQuantiles
  GatesDecide
  BestPermittedPrice
  RefusedForCause
  PublishedIsWhole
  AnsweredForTheirTenant
  ReadyMeansInScope
