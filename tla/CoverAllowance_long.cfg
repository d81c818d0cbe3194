\* A short of two and covers of two, each above the cap of one.
SPECIFICATION Spec
CONSTANTS
  k1 = k1
  k2 = k2
  NoRead = NoRead
  Calls = {k1, k2}
  Requests <- LargeBuys
  MaxOrderValue = 1
  Cooldown = 2
  Positions <- Short
  ReadsFail = FALSE
  MinPosition <- LeastPosition
  MaxPosition = 2
  MaxMoves = 1
INVARIANTS
  NoLongPastCap
