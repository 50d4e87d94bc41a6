SPECIFICATION Spec
CONSTANTS
  poster = poster
  alice = alice
  bob = bob
  giskard = giskard
  lightning = lightning
  None = None
  ActionId = {a1}
  Entity = {poster, alice}
  Poster = {poster}
  Genesis = {lightning}
  Lightning = lightning
  Slot = {s1}
  Ops = {"attest", "report", "slash", "trail"}
  KarmaValue = {20}
  TrailAward = {7}
  InitKarma <- MCInitKarma
  MaxPerDay = 1
  MaxDay = 0
  MaxDisputes = 1
  MaxReal = 14
SYMMETRY MCSlotSymmetry
PROPERTY SlashedKarmaStaysLost
CHECK_DEADLOCK FALSE
