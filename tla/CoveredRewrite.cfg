SPECIFICATION Spec
CONSTANTS
  ActionRef = {"x", "y"}
  MaxEntries = 3
  MaxPeriods = 2
  MaxAge = 0
  MaxTrails = 3
  MaxEdits = 1
  MAX_ROUNDS = 5
  MAX_ATTEMPTS = 3
  MaxProposals = 3
  MaxRestarts = 1
  MaxStored = 2
  MaxChecks = 2
INVARIANT CoveredRewriteConforms
CHECK_DEADLOCK FALSE
