CONSTANTS
  Functions <- TwoFunctions
  NoFunction = NoFunction
  MaxCommands = 40
  MaxEvents = 3
  Proc <- TwoProc
  Setup <- opd_processscript
  HasArguments = FALSE
  UsingMpi = TRUE
  Entry <- TwoEntry
  Unknown <- FirstUnknown
  Parts <- SpecParts
  Begins <- SpecBegins
SPECIFICATION OpdFairSpec
INVARIANTS CalledAsBound
CHECK_DEADLOCK FALSE
