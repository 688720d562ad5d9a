SPECIFICATION Spec
CONSTANTS
  i1 = i1
  i2 = i2
  Images = {i1, i2}
  Jobs <- MCJobs
  Width = 2
  Cap = 1
  Scenario <- MCScenario
INVARIANTS FailuresReported ManifestWhole RoundTrip
PROPERTY ConversionEnds
CHECK_DEADLOCK FALSE
