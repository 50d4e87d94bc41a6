SPECIFICATION Spec
CONSTANTS
  Account = {c1}
  Agent = {agent}
  AgentOf <- MCAgentOf
  Exempt = {}
  Payment = {}
  Unhashed = {}
  Address = {a1}
  Tx = {t1}
  Amount = {1}
  RATE_LIMIT_DEFAULT = 2
  MONTHLY_LIMIT_FREE = 1
  MaxRotations = 1
  MaxIntents = 1
  MaxTrails = 0
  MaxUnhashed = 1
  MaxRestarts = 1
  None = None
INVARIANT FulfilledIsCredited
CHECK_DEADLOCK FALSE
