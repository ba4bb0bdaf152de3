CONSTANTS
  Functions <- UsageFunctions
  NoFunction = NoFunction
  MaxCommands = 40
  MaxEvents = 3
  Proc <- UsageProc
  Setup <- opd_processscript
  HasArguments = FALSE
  UsingMpi = TRUE
  Entry <- UsageEntry
  Unknown = {}
  Parts <- SpecParts
  Begins <- SpecBegins
SPECIFICATION OpdFairSpec
PROPERTIES SessionEnds
CHECK_DEADLOCK FALSE
