SPECIFICATION AllSpec
CONSTANTS
  MaxPos = 7
  UMaxPos = 15
  Lengths = {0, 1, 3, 8, 17}
  Units = {1, 2, 4}
  Bound = 20
  BlockSize = 4
  CountSize = 2
  CountMod = 64
  MaxPiece = 9
  MaxBytes = 14
INVARIANTS PositionsAreTrue Tracks DigestOfMessage
PROPERTY NeverBack
CHECK_DEADLOCK FALSE
