SPECIFICATION FairSpec
CONSTANTS
  Objects <- MCObjects
  Shows <- MCShows
  Rank <- MCRank
  Categories = {"crash"}
  MaxProblems = 3
  IncludeHealthy = TRUE
  MaxDeep = 3
  MaxConcurrent = 2
  MaxFailures = 1
  None = None
INVARIANTS
  ClusterTypeOK
  HealthyOnlyIfRead
  NothingUnlisted
  WorstFirst
  EnrichedAsDiagnosed
PROPERTIES
  ReportEnds
CHECK_DEADLOCK FALSE
