SPECIFICATION Spec
CONSTANTS
  Source = {1, 2}
  NoDomain = NoDomain
  MaxVersion = 2
  MaxRuns = 2
  MaxFaults = 1
  MaxCrashes = 1
INVARIANTS TypeOK RecordedIsIngested DoneMeansComplete DomainSurvives
CHECK_DEADLOCK FALSE
