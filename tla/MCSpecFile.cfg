CONSTANTS
  Functions <- FileFunctions
  NoFunction = NoFunction
  MaxCommands = 40
  MaxEvents = 4
  Proc <- FileProc
  Setup <- opd_processscript
  HasArguments = TRUE
  UsingMpi = TRUE
  Entry <- FileEntry
  Unknown = {}
  Parts <- SpecParts
  Begins <- SpecBegins
SPECIFICATION OpdFairSpec
INVARIANTS OpdTypeOK CalledAsBound RowsAreAnswers AbortsOnCrash BreakpointsAreRead WatchpointsAreRead
PROPERTIES RowsOfFault FaultIsReported SessionEnds KeepsPromise
CHECK_DEADLOCK FALSE
