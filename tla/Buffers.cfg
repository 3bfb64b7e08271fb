SPECIFICATION AllSpec
CONSTANTS
  BufSize = 3
  ShortGather = FALSE
  MaxReq = 4
  MaxChars = 6
  MaxErrs = 2
  MaxOpens = 1
  InBytes = 2
  Widths = {1, 2}
  MaxToken = 3
  MaxBytes = 8
  MaxFails = 1
  MaxRebinds = 1
INVARIANTS AreasHold NoLoss SealedNoLoss InOrder ResendInOrder NoStray InputInOrder
PROPERTIES SinkSpec RewindWithinToken CallsReturn
CHECK_DEADLOCK FALSE
