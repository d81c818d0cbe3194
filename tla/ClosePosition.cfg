\* IBKR's cooldown of 45 s in units of 15 s; fills within one unit, and the
\* portfolio within another.
SPECIFICATION Spec
CONSTANTS
  k1 = k1
  k2 = k2
  k3 = k3
  Calls = {k1, k2, k3}
  Cooldown = 3
  ReleaseStatuses = {"rejected", "inactive", "cancelled"}
  FillBound = 1
  Lag = 1
  Positions <- LongOrShort
  LooseAcks = {}
INVARIANTS
  TypeOK
  SentinelIsHeld
  NeverSoldTwice
PROPERTIES
  Reopens
