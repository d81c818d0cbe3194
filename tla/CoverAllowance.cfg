\* The cooldown in units of half of it; orders and portfolio take any time.
SPECIFICATION Spec
CONSTANTS
  k1 = k1
  k2 = k2
  NoRead = NoRead
  Calls = {k1, k2}
  Requests <- MixedRequests
  MaxOrderValue = 2
  Cooldown = 2
  Positions <- ShortOrLong
  ReadsFail = TRUE
  MinPosition <- LeastPosition
  MaxPosition = 1
  MaxMoves = 1
INVARIANTS
  TypeOK
  OneCoverPerWindow
  CoversOnlyCover
  SellsAreBacked
PROPERTIES
  AllowanceReturns
