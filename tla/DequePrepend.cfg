SPECIFICATION Spec
CONSTANTS
  Types <- Prepending
  Parts = {"deque"}
INVARIANTS StaysInside
