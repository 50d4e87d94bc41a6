SPECIFICATION MCSpec
CONSTANTS
  poster = poster
  alice = alice
  bob = bob
  giskard = giskard
  lightning = lightning
  None = None
  ActionId = {a1}
  Entity = {poster, alice, bob}
  Poster = {poster}
  Genesis = {giskard, lightning}
  Lightning = lightning
  Slot = {s1, s2}
  Ops = {"attest", "mcp_attest", "webhook", "report", "slash", "dispute", "ruling", "trail"}
  KarmaValue = {20}
  TrailAward = {7}
  InitKarma <- MCInitKarma
  MaxPerDay = 1
  MaxDay = 1
  MaxDisputes = 2
  MaxReal = 14
SYMMETRY MCSlotSymmetry
INVARIANTS
  KarmaInv
  KarmaLedger
  PaidOnlyWithSupport
  KarmaColumns
  OnePendingDispute
  DisputedHasDispute
  VerifiedHasReason
PROPERTIES
  PendingNeverSlashed
CHECK_DEADLOCK FALSE
