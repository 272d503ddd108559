SPECIFICATION FairSpec
CONSTANTS
  MaxJobs = 8
  Reserve = 6
  StepReserve = 4
  Paths <- AllPaths
  MaxNew = 3
  MaxReplay = 3
  MaxLoads = 2
  MaxRequests = 2
  MaxSubmits = 40
INVARIANTS OwnJobRuns NativeNeverRefused CapacityReserved LoopHasSession
           ReplayComplete ReasonTruthful
PROPERTIES ImplementsCompletion CallReturns
CHECK_DEADLOCK FALSE
