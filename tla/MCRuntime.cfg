SPECIFICATION Spec
CONSTANTS
  r1 = r1
  r2 = r2
  Runtimes = {r1, r2}
  Packs <- AllPacks
  MaxCalls = 4
SYMMETRY Swap
INVARIANTS
  RunsAcceptedModel
  TraceNamesExecutor
CHECK_DEADLOCK FALSE
