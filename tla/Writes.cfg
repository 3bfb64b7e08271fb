SPECIFICATION AllSpec
CONSTANTS
  Thread = {t1, t2}
  Nobody = Nobody
  Locked = TRUE
  Fails = TRUE
  Offsets = {0, 5}
  Lengths = {1, 2}
  Bound = 4
  w1 = w1
  w2 = w2
  Callers = {w1, w2}
  NoCaller = NoCaller
  Lists <- Edges
  Origin <- Regions
  Ways <- Manners
  MaxCount = 2
  MaxErrs = 1
  FileSize = 6
  Sizes <- FileSizes
  Arguments <- Printable
  Lines = {TRUE, FALSE}
  Media <- Streams
  Window = 2
  Hint = 3
  Least = 2
INVARIANTS StreamKept Placed ScattersInOrder ReadsInOrder PrintsInOrder
PROPERTY CallsReturn
CHECK_DEADLOCK FALSE
