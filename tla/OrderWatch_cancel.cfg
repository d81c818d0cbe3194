\* IBKR may answer a cancellation with "PendingCancel": one call.
SPECIFICATION Spec
CONSTANTS
  c1 = c1
  o1 = o1
  Silent = Silent
  Calls = {c1}
  Orders = {o1}
  Venues = {"IBKR", "ccxt"}
  CancelWords <- AnyAnswers
  Timeouts <- ThreeTimeouts
  MaxTimeout = 4
  Poll = 2
INVARIANTS
  VerdictsHold
