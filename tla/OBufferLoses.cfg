SPECIFICATION Spec
CONSTANTS
  BufSize = 3
  ShortGather = TRUE
  MaxReq = 4
  MaxChars = 6
  MaxErrs = 1
  MaxOpens = 0
INVARIANTS NoLoss
CHECK_DEADLOCK FALSE
