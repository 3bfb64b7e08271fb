SPECIFICATION AllSpec
CONSTANTS
  Client = Client
  Server = Server
  OutSize = 4
  InSize = 2
  Tie = TRUE
  Capacity = 3
  AskSize = 2
  TellSize = 3
  Window = 2
  Rounds = 4
  m1 = m1
  m2 = m2
  m3 = m3
  n1 = n1
  n2 = n2
  n3 = n3
  a = a
  b = b
  c = c
  d = d
  e = e
  Movers = {m1, m2, m3, n1, n2, n3}
  NoMover = NoMover
  Streams = {a, b, c, d, e}
  Lockable = {a, b, d, e}
  Job <- Copies
  Data <- Elements
  Block = 2
  MaxPos = 2
  MaxErrs = 1
INVARIANTS Conserved NobodyHoldsBack CopiesDeliver StuckOnlyInCircle
PROPERTY AllGetOn
CHECK_DEADLOCK FALSE
