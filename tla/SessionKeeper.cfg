\* The defaults of config.py and the gateway's six minutes, in units of 15 s.
SPECIFICATION Spec
CONSTANTS
  Keeper = Keeper
  t1 = t1
  Tools = {t1}
  Interval = 4
  RequestBound = 1
  IdleTimeout = 24
  RealertEvery = 5
  MaxFaults = 2
INVARIANTS
  TypeOK
  KeptWarm
  AliveWasAuthenticated
PROPERTIES
  AlertedWhileDown
  Recovers
