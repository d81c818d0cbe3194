\* A buy that is partly filled before it is cancelled; no faults.
SPECIFICATION Spec
CONSTANTS
  c1 = c1
  c2 = c2
  Coids = {c1, c2}
  NoCoid = NoCoid
  NoCall = NoCall
  NoRequest = NoRequest
  Requests <- Buys
  DuplicateWindow = 1
  ReadLimit = 200
  DayLength = 3
  MaxDailyValue = 10
  MaxTime = 2
  FaultKinds = {}
  MaxFaults = 0
  LooseAcks = {"partial_cancel"}
  ResolveMissing <- NeverForce
  DryRunModes <- LiveOnly
SYMMETRY Symmetry
INVARIANTS
  FreedMeansNoMoney
CHECK_DEADLOCK FALSE
