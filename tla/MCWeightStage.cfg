SPECIFICATION Spec
CONSTANTS
  NLayers = 3
  Gated <- Hybrid
  Weights <- Tensors3
  Floats <- Norms3
  Align = 4
  MinStage = 2
  Window = 3
  MaxLoads = 2
  MaxRequests = 3
INVARIANTS OwnWeights RecurrentInStep StageSuffices
CHECK_DEADLOCK FALSE
