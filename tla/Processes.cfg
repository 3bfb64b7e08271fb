SPECIFICATION AllSpec
CONSTANTS
  p = p
  q = q
  Procs = {p, q}
  PerProc = 2
  MaxCalls = 4
  MaxErrs = 2
  MaxCrashes = 2
  t1 = t1
  t2 = t2
  Threads = {t1, t2}
  Starters = {t1, t2}
  Jobs <- Everything
  Table <- Descriptors
  Top = 10
  MaxSpawns = 2
  Pids = {p1, p2}
  NoPid = NoPid
  MaxFails = 1
  MaxDeaths = 1
  WaitsOnEmpty = FALSE
INVARIANTS NamesAreKept ChildrenAreKnown DescriptorsAreKept
PROPERTY ConstructorEnds
CHECK_DEADLOCK FALSE
