SPECIFICATION InSpec
CONSTANTS
  InBytes = 4
  Widths = {2}
  MaxToken = 3
  MaxBytes = 5
  MaxFails = 1
  MaxRebinds = 1
INVARIANTS NeverSplit
CHECK_DEADLOCK FALSE
