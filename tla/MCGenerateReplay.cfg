SPECIFICATION Spec
CONSTANTS
  MaxJobs = 12
  Reserve = 8
  StepReserve = 4
  Paths <- LlamaOnly
  MaxNew = 1
  MaxReplay = 6
  MaxLoads = 1
  MaxRequests = 1
  MaxSubmits = 20
INVARIANTS TerminalJobsMakeRoom
CHECK_DEADLOCK FALSE
