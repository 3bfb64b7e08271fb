SPECIFICATION Spec
CONSTANTS
  Order = 4
  Keys <- Seventeen
  Touched <- Seventeen
  Lists <- UpToSeventeen
  Calls = 3
  DeepErase = TRUE
CHECK_DEADLOCK FALSE
INVARIANTS InOrder
