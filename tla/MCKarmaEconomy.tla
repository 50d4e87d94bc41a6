-------------------------- MODULE MCKarmaEconomy --------------------------
(* TLC instances of KarmaEconomy. *)
EXTENDS KarmaEconomy, TLC

CONSTANTS poster, alice, bob, giskard, lightning

\* alice verifies alone with a signature; bob counts for the floor weight.
MCInitKarma == [e \in Entity |-> CASE e = alice -> 100 [] e = bob -> 12 [] OTHER -> 0]

\* Two handlers of the same kind are interchangeable.
MCSlotSymmetry == Permutations(Slot)

=============================================================================
