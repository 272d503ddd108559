SPECIFICATION Spec
CONSTANTS
  Context = 4
  DefaultWindow = 2
  IntMax = 20
  Paths <- NativeOnly
  MaxNew = 3
  MaxLoads = 1
  MaxRequests = 2
INVARIANTS WindowGrows
CHECK_DEADLOCK FALSE
