SPECIFICATION Spec
CONSTANTS
  Objects <- MCObjects
  Shows <- MCShows
  Rank <- MCRank
  Categories = {"crash"}
  MaxProblems = 3
  IncludeHealthy = TRUE
  MaxDeep = 3
  MaxConcurrent = 2
  MaxFailures = 1
  None = None
INVARIANT
  UnknownHidesNothing
CHECK_DEADLOCK FALSE
