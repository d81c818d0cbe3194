\* A long position of one and sells of one.
SPECIFICATION Spec
CONSTANTS
  k1 = k1
  k2 = k2
  NoRead = NoRead
  Calls = {k1, k2}
  Requests <- Sells
  MaxOrderValue = 1
  Cooldown = 2
  Positions <- Long
  ReadsFail = FALSE
  MinPosition <- LeastPosition
  MaxPosition = 2
  MaxMoves = 1
INVARIANTS
  NoNakedShort
