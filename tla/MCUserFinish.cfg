CONSTANTS
  Functions <- UserFunctions
  NoFunction = NoFunction
  MaxCommands = 40
  MaxEvents = 4
  Proc <- UserProc
  Setup <- UserSetup
  HasArguments = FALSE
  UsingMpi = TRUE
  Entry <- UserEntry
  Unknown = {}
SPECIFICATION OpdFairSpec
INVARIANTS AbortsOnCrash
CHECK_DEADLOCK FALSE
