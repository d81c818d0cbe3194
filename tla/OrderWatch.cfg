\* Two calls about an order; a poll every two units, and waits of none, three
\* and, capped, four.
SPECIFICATION Spec
CONSTANTS
  c1 = c1
  c2 = c2
  o1 = o1
  Silent = Silent
  Calls = {c1, c2}
  Orders = {o1}
  Venues = {"IBKR", "ccxt"}
  CancelWords <- PlainAnswers
  Timeouts <- ThreeTimeouts
  MaxTimeout = 4
  Poll = 2
INVARIANTS
  TypeOK
  VerdictsHold
  OpenIsKnown
  SeenInTime
PROPERTIES
  CallsEnd
