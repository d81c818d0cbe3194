\* As ClosePosition.cfg, but a parked order is answered with inactive.
SPECIFICATION Spec
CONSTANTS
  k1 = k1
  k2 = k2
  Calls = {k1, k2}
  Cooldown = 3
  ReleaseStatuses = {"rejected", "inactive", "cancelled"}
  FillBound = 1
  Lag = 1
  Positions <- LongOrShort
  LooseAcks = {"parked"}
INVARIANTS
  NeverSoldTwice
