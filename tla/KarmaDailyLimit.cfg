SPECIFICATION Spec
CONSTANTS
  poster = poster
  alice = alice
  bob = bob
  giskard = giskard
  lightning = lightning
  None = None
  ActionId = {a1, a2}
  Entity = {poster, alice}
  Poster = {poster}
  Genesis = {lightning}
  Lightning = lightning
  Slot = {s1, s2}
  Ops = {"attest"}
  KarmaValue = {20}
  TrailAward = {7}
  InitKarma <- MCInitKarma
  MaxPerDay = 1
  MaxDay = 0
  MaxDisputes = 1
  MaxReal = 14
SYMMETRY MCSlotSymmetry
INVARIANT DailyLimit
CHECK_DEADLOCK FALSE
