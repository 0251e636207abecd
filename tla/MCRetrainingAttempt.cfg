CONSTANTS
  Rows <- SeventeenRows
  Frames <- MCFrames
  TrainPercent = 50
  CalibrationPercent = 30
  Embargo = 1
  MinRows <- Minimums
  MinStays <- Minimums
  Predicted <- MCPredicted
  Full = 20
  IntervalCoverage = 50
  RequiredSlices <- SevenSlices
  Regressors <- MCRegressors
  Champions <- MCChampions
  FeatureContract = "f2"
  PipelineCriteria <- LaxCriteria
  RegistryCriteria <- DefaultCriteria
  StoredRuns <- MCStoredRuns
  Recent <- MCRecent
  Bins = 4
  MinimumSamples = 8
  Threshold = 200
SPECIFICATION AttemptSpec
INVARIANTS
  TypeOK
  NoFutureLabel
  AssertionsNeverFire
  WindowsShareOutRows
  CalibrationPromiseKept
  EvidenceCountsOnce
  NoSliceUnjudged
  VerdictSurvivesStorage
  DriftIsSeen
CHECK_DEADLOCK FALSE
