\* The code's two retries; two rounds of questions stand for its twelve.
SPECIFICATION Spec
CONSTANTS
  Legs = {entry, exit}
  Retries = 2
  MaxReplyRounds = 2
  MessageIds = {known, unknown}
  Accepted = {known}
  Gateways <- SafeGateways
INVARIANTS
  TypeOK
  LandsOnce
  NothingLandsUnapproved
  NoQuestionLeftOpen
  BlockedIsBlocked
PROPERTIES
  SubmitsOnce
  CallEnds
