\* A paper account known by its prefix, a paper account that is not, and one
\* with real money.
SPECIFICATION Spec
CONSTANTS
  k1 = k1
  k2 = k2
  du = du
  df = df
  real = real
  None = None
  Raised = Raised
  Calls = {k1, k2}
  Requests <- AllRequests
  Prices <- FivePrices
  Accounts = {du, df, real}
  PaperAccounts = {du, df}
  DuAccounts = {du}
  Venues = {"IBKR", "crypto"}
INVARIANTS
  TypeOK
  MoneyLock
  FallbackPasses
  NoInstantExit
