SPECIFICATION Spec
CONSTANTS
  Types <- AllTypes
  Parts = {"deque", "tree", "deep"}
INVARIANTS DequeHolds DequeIsSound SetHolds SetIsSound
PROPERTY DequeKeepsPromise
CHECK_DEADLOCK FALSE
