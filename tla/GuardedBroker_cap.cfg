\* Two buys of two intents against a cap that only the smaller fits twice,
\* over a midnight; no duplicate window.
SPECIFICATION Spec
CONSTANTS
  c1 = c1
  c2 = c2
  Coids = {c1, c2}
  NoCoid = NoCoid
  NoCall = NoCall
  NoRequest = NoRequest
  Requests <- CapBuys
  DuplicateWindow = 0
  ReadLimit = 200
  DayLength = 1
  MaxDailyValue = 2
  MaxTime = 1
  FaultKinds = {"crash", "tear", "cancel", "lost_write"}
  MaxFaults = 1
  LooseAcks = {}
  ResolveMissing <- MayForce
  DryRunModes <- LiveOnly
SYMMETRY Symmetry
INVARIANTS
  ExposureWithinDailyCap
  NoHiddenOrderAtRest
CHECK_DEADLOCK FALSE
