CONSTANTS
  MaxRanks = 2
  MaxRows = 1
  MaxRuns = 1
  MaxJobs = 2
  Scripts <- HandOnly
SPECIFICATION Spec
INVARIANTS ReportIsSound
CHECK_DEADLOCK FALSE
