SPECIFICATION Spec
CONSTANTS
  Ref = {r1, r2}
  Proc = {p1, p2, p3}
  MaxEffects = 3
  None = None
SYMMETRY MCSymmetry
INVARIANTS
  IInv
  AtMostOneEffect
  AnswersAgree
  ReservationAlwaysRecorded
PROPERTIES
  CommittedIsFinal
  ImplementsAtMostOnce
CHECK_DEADLOCK FALSE
