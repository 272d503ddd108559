SPECIFICATION FairSpec
CONSTANTS
  MaxJobs = 3
  MaxDepth = 2
  MaxSubmits = 4
INVARIANTS
  AtMostOnce
  RunningIffActive
  IInv
PROPERTIES
  JobsMoveForward
  ImplementsJobQueue
  EveryJobFinishes
