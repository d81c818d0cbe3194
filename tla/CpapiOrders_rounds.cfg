\* The constants of CpapiOrders.cfg.
SPECIFICATION Spec
CONSTANTS
  Legs = {entry, exit}
  Retries = 2
  MaxReplyRounds = 2
  MessageIds = {known, unknown}
  Accepted = {known}
  Gateways <- SafeGateways
INVARIANT AbortedIsAborted
