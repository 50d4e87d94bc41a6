----------------------------- MODULE RetrySafety -----------------------------
(***************************************************************************)
(* settlement-retry-safety: execute_payment and its PendingSettlementStore  *)
(* driven in a retry loop against a facilitator that fails in one of seven  *)
(* ways, over the x402 and the generic backend, and the control client that *)
(* signs a new authorization every round. A step is one call to the backend *)
(* or to the store.                                                         *)
(***************************************************************************)
EXTENDS Naturals, Sequences

CONSTANT MAX_ROUNDS

\* The code's is 5; a client needs two rounds to settle and the control three to
\* be charged twice.
ASSUME RetrySafetyAssumption == MAX_ROUNDS \in Nat /\ MAX_ROUNDS >= 3

VARIABLES
  backend,  \* kind, mode, ledger, settle_calls, reconcile_calls
  client,   \* "execute_payment" or "control"
  pending,  \* PendingSettlementStore's record of the key
  at_call,  \* where the round is: idle, reconcile, settle, represent, done
  rounds

retryVars == <<backend, client, pending, at_call, rounds>>

NoRef == "none"
NoPending == [verdict |-> "absent"]

\* The answer is lost after the write; with its reference, or without.
LostWithRef == {"accept_then_timeout", "reconcile_unavailable"}
Lost == LostWithRef \cup {"5xx_after_settle", "slow_answer"}
MODES == Lost \cup {"clean", "declared_safe", "double_402"}

\* generic_backend's table of its own modes.
GenericMode ==
  [clean |-> "clean", declared_idempotent |-> "declared_safe",
   write_then_timeout |-> "accept_then_timeout", error_after_write |-> "5xx_after_settle",
   client_timeout |-> "slow_answer", reconcile_unavailable |-> "reconcile_unavailable",
   reissue_instead_of_resume |-> "double_402"]

Fault == IF backend.kind = "generic" THEN GenericMode[backend.mode] ELSE backend.mode

RetryInit ==
  /\ \E kind \in {"x402", "generic"} :
       \E mode \in IF kind = "x402" THEN MODES ELSE DOMAIN GenericMode :
         backend = [kind |-> kind, mode |-> mode, ledger |-> <<>>, settle_calls |-> 0, reconcile_calls |-> 0]
  /\ client \in {"execute_payment", "control"}
  /\ pending = NoPending
  /\ at_call = "idle"
  /\ rounds = 0

-----------------------------------------------------------------------------
(* The backend                                                              *)

Entries(sig) == {i \in DOMAIN backend.ledger : backend.ledger[i].sig = sig}

\* settle: what it answers on its n-th call, and whether it writes first.
Answer(sig) ==
  LET n == backend.settle_calls + 1
      tx == IF Fault \in Lost /\ n > 1 THEN "dup" ELSE "tx"
      ok == [kind |-> "settled", ref |-> tx, writes |-> TRUE]
  IN IF Entries(sig) # {}
     THEN [kind |-> "settled", ref |-> backend.ledger[CHOOSE i \in Entries(sig) : TRUE].tx, writes |-> FALSE]
     ELSE IF Fault \in Lost /\ n = 1
     THEN [kind |-> "lost", ref |-> IF Fault \in LostWithRef THEN tx ELSE NoRef, writes |-> TRUE]
     ELSE IF Fault = "double_402" /\ n = 1 THEN [kind |-> "lost", ref |-> NoRef, writes |-> FALSE]
     ELSE IF Fault = "double_402" /\ n = 2 THEN [kind |-> "challenge", ref |-> NoRef, writes |-> FALSE]
     ELSE ok

Settle(sig) ==
  LET tx == IF Fault \in Lost /\ backend.settle_calls > 0 THEN "dup" ELSE "tx"
  IN backend' = [backend EXCEPT !.settle_calls = @ + 1,
                                !.ledger = IF Answer(sig).writes THEN Append(@, [sig |-> sig, tx |-> tx]) ELSE @]

\* reconcile: its first call may find the store of records unreachable.
Reconciled(ref) ==
  /\ ~(Fault = "reconcile_unavailable" /\ backend.reconcile_calls = 0)
  /\ \E i \in DOMAIN backend.ledger : backend.ledger[i].tx = ref

-----------------------------------------------------------------------------
(* The store                                                                *)

Start(sig) == [verdict |-> "indeterminate", authorization |-> sig, broadcast_ref |-> NoRef, transaction_ref |-> NoRef]
MarkIndeterminate(rec, ref) == [rec EXCEPT !.verdict = "indeterminate", !.broadcast_ref = ref]
MarkSettled(rec, tx) == [rec EXCEPT !.verdict = "settled", !.transaction_ref = tx]

-----------------------------------------------------------------------------
(* execute_payment, one round                                               *)

\* Mutant of Authorization: signed anew every round.
AuthorizationFresh(rec) == rounds

\* The authorization on file, or the first one.
Authorization(rec) == IF rec = NoPending THEN "sig" ELSE rec.authorization

RoundStart ==
  /\ client = "execute_payment"
  /\ at_call = "idle" /\ rounds < MAX_ROUNDS
  /\ rounds' = rounds + 1
  /\ pending' = IF pending = NoPending THEN Start(Authorization(pending))
                ELSE [pending EXCEPT !.authorization = Authorization(pending)]
  /\ at_call' = IF pending'.broadcast_ref # NoRef THEN "reconcile" ELSE "settle"
  /\ UNCHANGED <<backend, client>>

ReconcileFirst ==
  /\ at_call = "reconcile"
  /\ backend' = [backend EXCEPT !.reconcile_calls = @ + 1]
  /\ IF Reconciled(pending.broadcast_ref)
     THEN pending' = MarkSettled(pending, pending.broadcast_ref) /\ at_call' = "returned"
     ELSE at_call' = "settle" /\ UNCHANGED pending
  /\ UNCHANGED <<client, rounds>>

\* settle, and once more with the same authorization when re-challenged.
Present ==
  /\ client = "execute_payment"
  /\ at_call \in {"settle", "represent"}
  /\ Settle(pending.authorization)
  /\ LET answer == Answer(pending.authorization) IN
     CASE answer.kind = "settled" -> pending' = MarkSettled(pending, answer.ref) /\ at_call' = "returned"
       [] answer.kind = "lost" -> pending' = MarkIndeterminate(pending, answer.ref) /\ at_call' = "returned"
       [] answer.kind = "challenge" /\ at_call = "settle" -> at_call' = "represent" /\ UNCHANGED pending
  /\ UNCHANGED <<client, rounds>>

\* The caller's loop: another round until it is settled. A settled key is
\* submitted once more in the declared_safe mode and answered from the store.
RoundEnd ==
  /\ at_call = "returned"
  /\ at_call' = IF pending.verdict # "settled" /\ rounds < MAX_ROUNDS THEN "idle"
                ELSE IF Fault = "declared_safe" THEN "again" ELSE "done"
  /\ UNCHANGED <<backend, client, pending, rounds>>

Duplicate ==
  /\ at_call = "again"
  /\ pending.verdict = "settled"
  /\ at_call' = "done"
  /\ UNCHANGED <<backend, client, pending, rounds>>

-----------------------------------------------------------------------------

\* run_mutation_control: one round of the client that signs anew.
ControlRound ==
  /\ client = "control"
  /\ at_call \in {"idle", "represent"}
  /\ LET n == IF at_call = "idle" THEN rounds + 1 ELSE rounds
         answer == Answer(n)
     IN /\ Settle(n)
        /\ rounds' = n
        /\ at_call' = IF at_call = "idle" /\ answer.kind = "challenge" THEN "represent"
                      ELSE IF (at_call = "idle" /\ answer.kind = "settled") \/ n = MAX_ROUNDS THEN "done"
                      ELSE "idle"
  /\ UNCHANGED <<client, pending>>

RetryNext == RoundStart \/ ReconcileFirst \/ Present \/ RoundEnd \/ Duplicate \/ ControlRound

-----------------------------------------------------------------------------
(* The vectors                                                              *)

\* settle_calls and reconcile_calls that the vectors declare of each fault.
ExpectedCalls ==
  [fault \in MODES |->
     CASE fault \in {"clean", "declared_safe"} -> <<1, 0>>
       [] fault = "accept_then_timeout" -> <<1, 1>>
       [] fault = "reconcile_unavailable" -> <<2, 1>>
       [] fault \in {"5xx_after_settle", "slow_answer"} -> <<2, 0>>
       [] fault = "double_402" -> <<3, 0>>]

\* What run_battery asks of a mode.
SettledOnce == pending.verdict = "settled" /\ Len(backend.ledger) = 1

CallsAsDeclared == <<backend.settle_calls, backend.reconcile_calls>> = ExpectedCalls[Fault]

\* verify_vector of the x402 and of the generic vectors; the control vector of
\* each expects its client to be charged twice.
VerifyVector ==
  backend.kind = "x402" =>
    IF client = "execute_payment" THEN SettledOnce /\ CallsAsDeclared
    ELSE Fault = "double_402" => Len(backend.ledger) > 1

VerifyGenericVector ==
  backend.kind = "generic" =>
    IF client = "execute_payment" THEN SettledOnce /\ CallsAsDeclared
    ELSE backend.mode = "reissue_instead_of_resume" => Len(backend.ledger) > 1

(***************************************************************************)
(* However the backend fails, and whichever backend it is, execute_payment  *)
(* never has it write twice for one key, a reference it holds is one the    *)
(* ledger has, and the loop ends settled on the ledger's one entry, after   *)
(* as many calls as the vectors declare. The control client is charged      *)
(* twice exactly where a first answer is lost after the write or its        *)
(* challenge answered anew, so the modes tell the two clients apart.        *)
(***************************************************************************)
SettledExactlyOnce ==
  /\ client = "execute_payment" =>
       /\ Len(backend.ledger) <= 1
       /\ pending # NoPending =>
            \A ref \in {pending.broadcast_ref, pending.transaction_ref} \ {NoRef} :
              \E i \in DOMAIN backend.ledger : backend.ledger[i].tx = ref
  /\ at_call = "done" => VerifyVector /\ VerifyGenericVector
  /\ client = "control" /\ at_call = "done" =>
       (Len(backend.ledger) > 1 <=> Fault \in Lost \cup {"double_402"})
-----------------------------------------------------------------------------
(* The inductive invariant behind SettledExactlyOnce: what the fault, the     *)
(* round and the two counters of calls say of the ledger and of the store.    *)

Progress(at, round, settles, reconciles) ==
  /\ at_call = at /\ rounds = round
  /\ backend.settle_calls = settles /\ backend.reconcile_calls = reconciles

WrittenFor(sig) == backend.ledger = <<[sig |-> sig, tx |-> "tx"]>>
Written == WrittenFor("sig")
Unwritten == backend.ledger = <<>>

\* What the store and the ledger hold after a first answer that was lost.
AfterLoss ==
  \/ Fault \in LostWithRef /\ Written /\ pending = MarkIndeterminate(Start("sig"), "tx")
  \/ Fault \in Lost \ LostWithRef /\ Written /\ pending = Start("sig")
  \/ Fault = "double_402" /\ Unwritten /\ pending = Start("sig")

Paying ==
  \/ Progress("idle", 0, 0, 0) /\ Unwritten /\ pending = NoPending
  \/ Progress("settle", 1, 0, 0) /\ Unwritten /\ pending = Start("sig")
  \/ at_call \in {"returned", "idle"} /\ Progress(at_call, 1, 1, 0) /\ AfterLoss
  \/ Progress("reconcile", 2, 1, 0) /\ AfterLoss /\ Fault \in LostWithRef
  \/ Progress("settle", 2, 1, 1) /\ AfterLoss /\ Fault = "reconcile_unavailable"
  \/ Progress("settle", 2, 1, 0) /\ AfterLoss /\ Fault \notin LostWithRef
  \/ Progress("represent", 2, 2, 0) /\ AfterLoss /\ Fault = "double_402"
  \/ /\ at_call \in {"returned", "again", "done"} /\ Written /\ CallsAsDeclared
     /\ pending \in {MarkSettled(rec, "tx") : rec \in {Start("sig"), MarkIndeterminate(Start("sig"), "tx")}}

\* The control client is answered by the same backend; it keeps no store.
Controlled ==
  /\ pending = NoPending
  /\ \/ Progress("idle", 0, 0, 0) /\ Unwritten
     \/ Progress("idle", 1, 1, 0) /\ WrittenFor(1) /\ Fault \in Lost
     \/ Progress("idle", 1, 1, 0) /\ Unwritten /\ Fault = "double_402"
     \/ Progress("represent", 2, 2, 0) /\ Unwritten /\ Fault = "double_402"
     \/ Progress("idle", 2, 3, 0) /\ WrittenFor(2) /\ Fault = "double_402"
     \/ at_call = "done" /\ Len(backend.ledger) = IF Fault \in {"clean", "declared_safe"} THEN 1 ELSE 2

RetryInv ==
  /\ backend = [kind |-> backend.kind, mode |-> backend.mode, ledger |-> backend.ledger,
                settle_calls |-> backend.settle_calls, reconcile_calls |-> backend.reconcile_calls]
  /\ backend.kind \in {"x402", "generic"}
  /\ backend.mode \in IF backend.kind = "x402" THEN MODES ELSE DOMAIN GenericMode
  /\ client \in {"execute_payment", "control"}
  /\ client = "execute_payment" => Paying
  /\ client = "control" => Controlled
=============================================================================
