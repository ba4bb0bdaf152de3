CONSTANTS
  MaxRanks = 2
  MaxRows = 1
  MaxRuns = 2
  MaxJobs = 2
  Scripts <- HandOnly
SPECIFICATION Spec
INVARIANTS RowsOfOwnRun
CHECK_DEADLOCK FALSE
