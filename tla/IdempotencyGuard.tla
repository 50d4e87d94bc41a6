-------------------------- MODULE IdempotencyGuard --------------------------
(***************************************************************************)
(* DurableIdempotencyGuard: several worker processes run guard() and        *)
(* reconcile() for the same idempotency_ref against one SQLite file.  Each  *)
(* SQL statement is one atomic step; between two of them another process    *)
(* may run, the guarded call may raise, and the process may die.  The       *)
(* guard_records table survives, process memory does not.                   *)
(*                                                                          *)
(* The guarded effect is external.  From the guard's point of view a call   *)
(* that raised (or whose process died) may never happen or may still land   *)
(* later; only EffectStore's effects table tells.                           *)
(***************************************************************************)
EXTENDS Naturals, FiniteSets

CONSTANTS Ref,        \* idempotency_ref values; one logical action each
          Proc,       \* worker processes, each with its own connection
          MaxEffects  \* bound on effects ever applied (TLC only; Nat in proofs)

CONSTANT None         \* SQL NULL / Python None

ASSUME MaxEffectsAssumption == MaxEffects \in Nat
ASSUME NoneAssumption == None \notin Nat

VARIABLES
  records,   \* guard_records: Ref -> [trail_status, effect_id]
  effects,   \* EffectStore.effects: Ref -> set of effect ids committed for it
  counter,   \* EffectStore.counter; also the source of fresh effect ids
  late,      \* Ref -> number of abandoned calls that may still land
  pc,        \* Proc -> where its current call stands
  ref,       \* Proc -> idempotency_ref of its current call
  got,       \* Proc -> effect id held in a local variable
  events     \* every (ref, guard_outcome, effect_id) any process recorded

vars == <<records, effects, counter, late, pc, ref, got, events>>

Absent == [trail_status |-> "ABSENT", effect_id |-> None]
Pending == [trail_status |-> "PENDING", effect_id |-> None]
Committed(id) == [trail_status |-> "COMMITTED", effect_id |-> id]

PCs == {"idle", "reserve", "reread", "run", "write", "observe", "rwrite", "error"}
Outcomes == {"COMMITTED", "RECONCILED_GUARD", "PENDING_GUARD"}

TypeOK ==
  /\ records \in [Ref -> [trail_status : {"ABSENT", "PENDING", "COMMITTED"},
                          effect_id : Nat \cup {None}]]
  /\ effects \in [Ref -> SUBSET Nat]
  /\ counter \in Nat
  /\ late \in [Ref -> Nat]
  /\ pc \in [Proc -> PCs]
  /\ ref \in [Proc -> Ref]
  /\ got \in [Proc -> Nat \cup {None}]
  /\ events \subseteq [ref : Ref, guard_outcome : Outcomes, effect_id : Nat \cup {None}]

Init ==
  /\ records = [r \in Ref |-> Absent]
  /\ effects = [r \in Ref |-> {}]
  /\ counter = 0
  /\ late = [r \in Ref |-> 0]
  /\ pc = [p \in Proc |-> "idle"]
  /\ ref \in [Proc -> Ref]
  /\ got = [p \in Proc |-> None]
  /\ events = {}

Record(r, outcome, id) ==
  events' = events \cup {[ref |-> r, guard_outcome |-> outcome, effect_id |-> id]}

-----------------------------------------------------------------------------
(* guard().  _read and the return that follows it touch no shared state in  *)
(* between, so the read and the decision taken on it are one step.          *)

\* The two returns on an existing record: replay COMMITTED, refuse PENDING.
ReturnExisting(p, r) ==
  /\ pc' = [pc EXCEPT ![p] = "idle"]
  /\ \/ /\ records[r].trail_status = "COMMITTED"
        /\ Record(r, "RECONCILED_GUARD", records[r].effect_id)
     \/ /\ records[r].trail_status = "PENDING"
        /\ Record(r, "PENDING_GUARD", None)

\* guard(), up to the decision taken on its first read.
GuardRead(p, r) ==
  /\ pc[p] = "idle"
  /\ ref' = [ref EXCEPT ![p] = r]
  /\ got' = [got EXCEPT ![p] = None]
  /\ \/ /\ records[r] = Absent
        /\ pc' = [pc EXCEPT ![p] = "reserve"]
        /\ UNCHANGED events
     \/ ReturnExisting(p, r)
  /\ UNCHANGED <<records, effects, counter, late>>

\* Mutant of Reserve: INSERT OR REPLACE, so every caller wins the reservation.
ReserveAlwaysWins(p) ==
  /\ pc[p] = "reserve"
  /\ records' = [records EXCEPT ![ref[p]] = Pending]
  /\ pc' = [pc EXCEPT ![p] = "run"]
  /\ UNCHANGED <<effects, counter, late, ref, got, events>>

\* _reserve: INSERT ... ON CONFLICT DO NOTHING, committed before dispatch.
Reserve(p) ==
  /\ pc[p] = "reserve"
  /\ \/ /\ records[ref[p]] = Absent
        /\ records' = [records EXCEPT ![ref[p]] = Pending]
        /\ pc' = [pc EXCEPT ![p] = "run"]
     \/ /\ records[ref[p]] # Absent
        /\ pc' = [pc EXCEPT ![p] = "reread"]
        /\ UNCHANGED records
  /\ UNCHANGED <<effects, counter, late, ref, got, events>>

\* Second _read, after losing the reservation; no record is the RuntimeError.
Reread(p) ==
  /\ pc[p] = "reread"
  /\ \/ ReturnExisting(p, ref[p])
     \/ /\ records[ref[p]] = Absent
        /\ pc' = [pc EXCEPT ![p] = "error"]
        /\ UNCHANGED events
  /\ UNCHANGED <<records, effects, counter, late, ref, got>>

\* EffectStore.apply_effect: one transaction, a fresh effect id.
ApplyEffect(r) ==
  /\ counter < MaxEffects
  /\ counter' = counter + 1
  /\ effects' = [effects EXCEPT ![r] = @ \cup {counter + 1}]

\* real_effect_fn commits and returns its id.
EffectReturns(p) ==
  /\ pc[p] = "run"
  /\ ApplyEffect(ref[p])
  /\ got' = [got EXCEPT ![p] = counter + 1]
  /\ pc' = [pc EXCEPT ![p] = "write"]
  /\ UNCHANGED <<records, late, ref, events>>

\* Mutant of EffectRaises: the reservation is deleted so that a retry may run.
EffectRaisesReleases(p) ==
  /\ pc[p] = "run"
  /\ late' \in {late, [late EXCEPT ![ref[p]] = @ + 1]}
  /\ records' = [records EXCEPT ![ref[p]] = Absent]
  /\ pc' = [pc EXCEPT ![p] = "idle"]
  /\ UNCHANGED <<effects, counter, ref, got, events>>

\* real_effect_fn raises: the record stays PENDING, and whether the effect
\* happened, or still will, is unknown to the guard.
EffectRaises(p) ==
  /\ pc[p] = "run"
  /\ late' \in {late, [late EXCEPT ![ref[p]] = @ + 1]}
  /\ pc' = [pc EXCEPT ![p] = "idle"]
  /\ UNCHANGED <<records, effects, counter, ref, got, events>>

\* A call whose caller stopped waiting commits after all.
LateEffect(r) ==
  /\ late[r] > 0
  /\ ApplyEffect(r)
  /\ late' = [late EXCEPT ![r] = @ - 1]
  /\ UNCHANGED <<records, pc, ref, got, events>>

\* _write: INSERT ... ON CONFLICT DO UPDATE.
Write(r, id) == records' = [records EXCEPT ![r] = Committed(id)]

WriteCommitted(p) ==
  /\ pc[p] = "write"
  /\ Write(ref[p], got[p])
  /\ Record(ref[p], "COMMITTED", got[p])
  /\ pc' = [pc EXCEPT ![p] = "idle"]
  /\ UNCHANGED <<effects, counter, late, ref, got>>

-----------------------------------------------------------------------------
(* reconcile(): read the record, read the effect store, write.              *)

ReconcileRead(p, r) ==
  /\ pc[p] = "idle"
  /\ records[r].trail_status = "PENDING"
  /\ ref' = [ref EXCEPT ![p] = r]
  /\ got' = [got EXCEPT ![p] = None]
  /\ pc' = [pc EXCEPT ![p] = "observe"]
  /\ UNCHANGED <<records, effects, counter, late, events>>

\* Mutant of ReconcileObserve: no visible effect is taken for "never happened".
ReconcileObserveForgets(p) ==
  /\ pc[p] = "observe"
  /\ \/ /\ \E id \in effects[ref[p]] : got' = [got EXCEPT ![p] = id]
        /\ pc' = [pc EXCEPT ![p] = "rwrite"]
        /\ UNCHANGED records
     \/ /\ effects[ref[p]] = {}
        /\ records' = [records EXCEPT ![ref[p]] = Absent]
        /\ pc' = [pc EXCEPT ![p] = "idle"]
        /\ UNCHANGED got
  /\ UNCHANGED <<effects, counter, late, ref, events>>

\* read_independent: unreadable or no effect leaves the record alone;
\* otherwise the id of one committed effect is taken as the outcome.
ReconcileObserve(p) ==
  /\ pc[p] = "observe"
  /\ \/ /\ \E id \in effects[ref[p]] : got' = [got EXCEPT ![p] = id]
        /\ pc' = [pc EXCEPT ![p] = "rwrite"]
     \/ /\ pc' = [pc EXCEPT ![p] = "idle"]
        /\ UNCHANGED got
  /\ UNCHANGED <<records, effects, counter, late, ref, events>>

ReconcileWrite(p) ==
  /\ pc[p] = "rwrite"
  /\ Write(ref[p], got[p])
  /\ Record(ref[p], "RECONCILED_GUARD", got[p])
  /\ pc' = [pc EXCEPT ![p] = "idle"]
  /\ UNCHANGED <<effects, counter, late, ref, got>>

-----------------------------------------------------------------------------
\* The process dies and a fresh instance opens the same file.  A call it had
\* dispatched may still land.
Restart(p) ==
  /\ pc[p] # "idle"
  /\ pc' = [pc EXCEPT ![p] = "idle"]
  /\ got' = [got EXCEPT ![p] = None]
  /\ \/ UNCHANGED late
     \/ /\ pc[p] = "run"
        /\ late' = [late EXCEPT ![ref[p]] = @ + 1]
  /\ UNCHANGED <<records, effects, counter, ref, events>>

Next ==
  \/ \E p \in Proc :
       \/ \E r \in Ref : GuardRead(p, r) \/ ReconcileRead(p, r)
       \/ Reserve(p) \/ Reread(p)
       \/ EffectReturns(p) \/ EffectRaises(p) \/ WriteCommitted(p)
       \/ ReconcileObserve(p) \/ ReconcileWrite(p)
       \/ Restart(p)
  \/ \E r \in Ref : LateEffect(r)

Spec == Init /\ [][Next]_vars

-----------------------------------------------------------------------------
(* Properties.                                                              *)

\* However many workers attempt, retry, die and reconcile, the effect of one
\* idempotency_ref is committed at most once (the point of guard()).
AtMostOneEffect == \A r \in Ref : \A a, b \in effects[r] : a = b

\* Every answer that carries an id (COMMITTED or RECONCILED_GUARD), given by
\* any process at any time, names the one effect that really happened.
AnswersAgree ==
  \A e \in events : e.guard_outcome # "PENDING_GUARD" => effects[e.ref] = {e.effect_id}

\* guard()'s "reservation has no valid PENDING or COMMITTED record" is
\* unreachable: a lost reservation always leaves a record to read.
ReservationAlwaysRecorded == \A p \in Proc : pc[p] # "error"

\* reconcile() racing guard()'s own _write never changes an outcome already
\* on disk, and nothing turns a record back into an absent one.
CommittedIsFinal ==
  [][\A r \in Ref :
       /\ records[r].trail_status = "COMMITTED" => records'[r] = records[r]
       /\ records[r].trail_status # "ABSENT" => records'[r].trail_status # "ABSENT"]_vars

\* Refinement: the guarded retries, crashes and reconciliations together are an
\* AtMostOnce system, whose claims are the rows of guard_records and whose
\* published outcomes are their effect_id column.
Abs == INSTANCE AtMostOnce WITH
         claimed <- {r \in Ref : records[r].trail_status # "ABSENT"},
         outcome <- [r \in Ref |-> records[r].effect_id]

ImplementsAtMostOnce == Abs!AbsSpec

-----------------------------------------------------------------------------
(* The inductive invariant behind these properties.  A worker past its       *)
(* reservation (pc "run" or "write") is the only one that ever got there for *)
(* its ref, and the id in any local variable is that of the one effect.      *)

\* No row: nobody has dispatched anything for r.
AbsentMeansUntouched ==
  \A r \in Ref : records[r].trail_status = "ABSENT" =>
    /\ records[r] = Absent
    /\ effects[r] = {}
    /\ late[r] = 0
    /\ \A p \in Proc : ref[p] = r => pc[p] \in {"idle", "reserve"}

PendingHasNoId ==
  \A r \in Ref : records[r].trail_status = "PENDING" => records[r].effect_id = None

CommittedNamesEffect ==
  \A r \in Ref : records[r].trail_status = "COMMITTED" =>
    /\ records[r].effect_id \in Nat
    /\ effects[r] = {records[r].effect_id}

OneDispatcher ==
  \A p, q \in Proc :
    /\ pc[p] \in {"run", "write"} /\ pc[q] \in {"run", "write"}
    /\ ref[p] = ref[q]
    => p = q

RunningHasNotHappened ==
  \A p \in Proc : pc[p] = "run" => effects[ref[p]] = {} /\ late[ref[p]] = 0

HeldIdIsTheEffect ==
  \A p \in Proc : pc[p] \in {"write", "rwrite"} =>
    got[p] \in Nat /\ effects[ref[p]] = {got[p]}

AtMostOneLate ==
  \A r \in Ref : late[r] = 0 \/ (late[r] = 1 /\ effects[r] = {})

IInv ==
  /\ TypeOK
  /\ AbsentMeansUntouched
  /\ PendingHasNoId
  /\ CommittedNamesEffect
  /\ OneDispatcher
  /\ RunningHasNotHappened
  /\ HeldIdIsTheEffect
  /\ AtMostOneLate
  /\ AtMostOneEffect
  /\ AnswersAgree
  /\ ReservationAlwaysRecorded

=============================================================================
