SPECIFICATION Spec
CONSTANTS
  Context = 4
  DefaultWindow = 2
  IntMax = 5
  Paths <- AllPaths
  MaxNew = 2
  MaxLoads = 2
  MaxRequests = 4
INVARIANTS TokensFromOwnPrompt AttentionOwnSlots AdmittedRunsToEnd ScoresFit IInv
PROPERTIES ImplementsDecodeSession
CHECK_DEADLOCK FALSE
