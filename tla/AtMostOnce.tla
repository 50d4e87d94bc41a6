----------------------------- MODULE AtMostOnce -----------------------------
(***************************************************************************)
(* What idempotency-ref promises for each logical action, with no processes, *)
(* reads or restarts in sight: an action is claimed once, its effect happens *)
(* at most once and only after the claim, and the outcome that becomes       *)
(* durable is that effect's, published once and never revised.               *)
(***************************************************************************)
EXTENDS Naturals

CONSTANTS Ref, None

VARIABLES claimed,  \* refs that some attempt has reserved
          effects,  \* Ref -> ids of the effects that happened
          outcome,  \* Ref -> the durable effect_id, or None
          counter   \* effects so far, over all refs

absVars == <<claimed, effects, outcome, counter>>

AbsInit ==
  /\ claimed = {}
  /\ effects = [r \in Ref |-> {}]
  /\ outcome = [r \in Ref |-> None]
  /\ counter = 0

Claim(r) ==
  /\ r \notin claimed
  /\ claimed' = claimed \cup {r}
  /\ UNCHANGED <<effects, outcome, counter>>

Happen(r) ==
  /\ r \in claimed
  /\ effects[r] = {}
  /\ counter' = counter + 1
  /\ effects' = [effects EXCEPT ![r] = {counter'}]
  /\ UNCHANGED <<claimed, outcome>>

Publish(r) ==
  /\ outcome[r] = None
  /\ \E id \in effects[r] : outcome' = [outcome EXCEPT ![r] = id]
  /\ UNCHANGED <<claimed, effects, counter>>

AbsNext == \E r \in Ref : Claim(r) \/ Happen(r) \/ Publish(r)

AbsSpec == AbsInit /\ [][AbsNext]_absVars

=============================================================================
