\* Buys the venue never answers beside sells, with every kind of fault.
SPECIFICATION SellsFairSpec
CONSTANTS
  c1 = c1
  c2 = c2
  Coids = {c1, c2}
  NoCoid = NoCoid
  NoCall = NoCall
  NoRequest = NoRequest
  Requests <- BuySell
  DuplicateWindow = 1
  ReadLimit = 200
  DayLength = 1
  MaxDailyValue = 2
  MaxTime = 0
  FaultKinds = {"crash", "tear", "cancel", "lost_write", "short_write"}
  MaxFaults = 1
  LooseAcks = {}
  ResolveMissing <- NeverReconcile
  DryRunModes <- DryOrLive
PROPERTY
  SellsEnd
CHECK_DEADLOCK FALSE
