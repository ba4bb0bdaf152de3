CONSTANTS
  Functions <- StepFunctions
  NoFunction = NoFunction
  MaxCommands = 40
  MaxEvents = 4
  Proc <- StepProc
  Setup <- StepSetup
  HasArguments = FALSE
  UsingMpi = TRUE
  Entry <- StepEntry
  Unknown = {}
SPECIFICATION OpdFairSpec
INVARIANTS RowsAreAnswers NeverCrashes
PROPERTIES FaultIsReported
CHECK_DEADLOCK FALSE
