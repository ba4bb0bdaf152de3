CONSTANTS
  MaxRanks = 2
  MaxRows = 1
  MaxRuns = 2
  MaxJobs = 2
  Scripts <- AllScripts
SPECIFICATION Spec
INVARIANTS TypeOK ReportOfOneFault
PROPERTIES CommitsTheFiles LosesOnlyUnmerged
CHECK_DEADLOCK FALSE
