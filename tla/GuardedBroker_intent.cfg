\* Two calls of one intent; the process may crash and tasks may be cancelled.
SPECIFICATION Spec
CONSTANTS
  c1 = c1
  c2 = c2
  Coids = {c1, c2}
  NoCoid = NoCoid
  NoCall = NoCall
  NoRequest = NoRequest
  Requests <- Buys
  DuplicateWindow = 1
  ReadLimit = 200
  DayLength = 3
  MaxDailyValue = 10
  MaxTime = 2
  FaultKinds = {"crash", "cancel"}
  MaxFaults = 1
  LooseAcks = {}
  ResolveMissing <- NeverForce
  DryRunModes <- LiveOnly
SYMMETRY Symmetry
INVARIANTS
  TypeOK
  NoHiddenOrder
  FreedMeansNoMoney
  NoDoubleOrderInWindow
PROPERTIES
  NoBlindResend
  Idempotent
CHECK_DEADLOCK FALSE
