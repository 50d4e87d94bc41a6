SPECIFICATION Spec
CONSTANTS
  Sig = {s1, s2}
  SIGNATURE_TTL_SECONDS = 1
  NONCE_CACHE_MAX = 1
  MaxClock = 3
  Rater = {r1, r2}
  MaxExecutions = 2
  Ref = {f1}
  Cert = {c1}
  MaxRotations = 1
  MaxNexus = 2
  Delivery = {d1, d2}
SYMMETRY Symmetric
INVARIANTS
  ReplayNeedsSkew
  ReputationMatchesRows
  ExternalRefOnce
  BillsMatchTrails
  DocuSealTrails
CHECK_DEADLOCK FALSE
