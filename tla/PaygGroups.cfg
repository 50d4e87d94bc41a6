SPECIFICATION MCSpec
CONSTANTS
  c1 = c1
  c2 = c2
  p1 = p1
  p2 = p2
  Account = {c1, c2}
  Agent = {agent}
  AgentOf <- MCAgentOf
  Exempt = {}
  Payment = {p1, p2}
  Unhashed = {p2}
  Address = {a1}
  Tx = {t1, t2}
  Amount = {1, 2}
  RATE_LIMIT_DEFAULT = 2
  MONTHLY_LIMIT_FREE = 1
  MaxRotations = 1
  MaxIntents = 2
  MaxTrails = 3
  MaxUnhashed = 2
  MaxRestarts = 1
  None = None
INVARIANTS
  PaygInv
  CreditsCoverTrails
  FreeTierBound
  DuplicateNeedsRestart
  UsdcCreditedOnce
  BooksBalance
PROPERTIES
  ImplementsPrepaid
  PaidIsCredited
CHECK_DEADLOCK FALSE
