SPECIFICATION Spec
CONSTANTS
  Account = {c1}
  Agent = {agent}
  AgentOf <- MCAgentOf
  Exempt = {}
  Payment = {p1}
  Unhashed = {}
  Address = {a1}
  Tx = {t1}
  Amount = {1}
  RATE_LIMIT_DEFAULT = 2
  MONTHLY_LIMIT_FREE = 1
  MaxRotations = 0
  MaxIntents = 0
  MaxTrails = 1
  MaxUnhashed = 1
  MaxRestarts = 0
  None = None
INVARIANT AckedIsCredited
CHECK_DEADLOCK FALSE
