------------------------- MODULE MCIdempotencyGuard -------------------------
(* TLC instance of IdempotencyGuard. *)
EXTENDS IdempotencyGuard, TLC

\* Workers and refs are interchangeable: no property names one of them.
MCSymmetry == Permutations(Proc) \cup Permutations(Ref)

=============================================================================
