CONSTANTS
  Functions <- DeadlockFunctions
  NoFunction = NoFunction
  MaxCommands = 60
  MaxEvents = 3
  Proc <- DeadlockProc
  Setup <- DeadlockSetup
  HasArguments = FALSE
  UsingMpi = TRUE
  Entry <- DeadlockEntry
  Unknown = {}
SPECIFICATION OpdFairSpec
PROPERTIES FaultIsReported
CHECK_DEADLOCK FALSE
