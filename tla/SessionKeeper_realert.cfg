\* The default of realert_every, and no request that fails.
SPECIFICATION Spec
CONSTANTS
  Keeper = Keeper
  t1 = t1
  Tools = {t1}
  Interval = 4
  RequestBound = 1
  IdleTimeout = 24
  RealertEvery = 5
  MaxFaults = 0
INVARIANTS
  RealertsOnTime
