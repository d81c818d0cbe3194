\* Two appends go wrong: a line is torn by a crash, the next is joined to it.
SPECIFICATION Spec
CONSTANTS
  c1 = c1
  c2 = c2
  Coids = {c1, c2}
  NoCoid = NoCoid
  NoCall = NoCall
  NoRequest = NoRequest
  Requests <- CapBuys
  DuplicateWindow = 0
  ReadLimit = 200
  DayLength = 1
  MaxDailyValue = 2
  MaxTime = 1
  FaultKinds = {"crash", "tear"}
  MaxFaults = 2
  LooseAcks = {}
  ResolveMissing <- NeverForce
  DryRunModes <- LiveOnly
SYMMETRY Symmetry
INVARIANTS
  NoHiddenOrderAtRest
CHECK_DEADLOCK FALSE
