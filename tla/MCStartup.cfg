CONSTANTS
  Procs <- Processes
  N = 3
  NoPath <- AbsentPath
  RankNames <- TwoRanks
  NprocNames <- TwoNprocs
  Environments <- Jobs
SPECIFICATION FairSpec
INVARIANTS TypeOK OwnFile AgreeOnJob RunsInstallation
PROPERTIES StartsOrRefuses
CHECK_DEADLOCK FALSE
