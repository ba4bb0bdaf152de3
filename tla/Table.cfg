CONSTANTS
  Functions = {f, g}
  NoFunction = NoFunction
  NULL = NULL
  Garbage = Garbage
  MaxCommands = 3
  MaxEvents = 2
SPECIFICATION TableFairSpec
INVARIANTS TypeOK DispatchSound NoStaleAnswer LookupIsSound
PROPERTIES OwnAnswer ResponseArrives
CHECK_DEADLOCK FALSE
