SPECIFICATION InSpec
CONSTANTS
  Bindings = {FALSE}
  Unit = 2
  Public = 2
  Transform = 3
  Source = 2
  Hold = 1
  Fails = FALSE
  Bytes = 5
INVARIANT FinishedIsDrained
CHECK_DEADLOCK FALSE
