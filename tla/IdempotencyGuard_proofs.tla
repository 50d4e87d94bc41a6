----------------------- MODULE IdempotencyGuard_proofs -----------------------
(* Machine-checked proofs about IdempotencyGuard, for every set of refs and  *)
(* of worker processes.                                                      *)
EXTENDS IdempotencyGuard, TLAPS

\* The initial state, an empty guard_records table, satisfies the invariant.
LEMMA InitIInv == Init => IInv
BY NoneAssumption DEF Init, IInv, TypeOK, PCs, Absent, AbsentMeansUntouched, PendingHasNoId,
   CommittedNamesEffect, OneDispatcher, RunningHasNotHappened, HeldIdIsTheEffect,
   AtMostOneLate, AtMostOneEffect, AnswersAgree, ReservationAlwaysRecorded

\* GuardRead preserves the invariant.
LEMMA GuardReadIInv ==
  ASSUME IInv, NEW p \in Proc, NEW r \in Ref, GuardRead(p, r)
  PROVE  IInv'
<1> USE MaxEffectsAssumption, NoneAssumption DEF IInv, GuardRead, ReturnExisting, Record, Absent, PCs
<1>1. TypeOK'
  BY DEF TypeOK, Outcomes
<1>2. AbsentMeansUntouched'
  BY DEF TypeOK, AbsentMeansUntouched
<1>3. PendingHasNoId'
  BY DEF TypeOK, PendingHasNoId
<1>4. CommittedNamesEffect'
  BY DEF TypeOK, CommittedNamesEffect, AbsentMeansUntouched, AtMostOneLate, HeldIdIsTheEffect, RunningHasNotHappened
<1>5. OneDispatcher'
  BY DEF TypeOK, OneDispatcher, AbsentMeansUntouched
<1>6. RunningHasNotHappened'
  BY DEF TypeOK, RunningHasNotHappened, AbsentMeansUntouched, OneDispatcher, AtMostOneLate
<1>7. HeldIdIsTheEffect'
  BY DEF TypeOK, HeldIdIsTheEffect, AbsentMeansUntouched, OneDispatcher, RunningHasNotHappened, AtMostOneLate, AtMostOneEffect
<1>8. AtMostOneLate'
  BY DEF TypeOK, AtMostOneLate, AbsentMeansUntouched, RunningHasNotHappened
<1>9. AtMostOneEffect'
  BY DEF TypeOK, AtMostOneEffect, RunningHasNotHappened, AtMostOneLate
<1>10. AnswersAgree'
  BY DEF TypeOK, AnswersAgree, CommittedNamesEffect, HeldIdIsTheEffect, RunningHasNotHappened, AtMostOneLate
<1>11. ReservationAlwaysRecorded'
  BY DEF TypeOK, ReservationAlwaysRecorded, AbsentMeansUntouched
<1> QED BY <1>1, <1>2, <1>3, <1>4, <1>5, <1>6, <1>7, <1>8, <1>9, <1>10, <1>11

\* ReconcileRead preserves the invariant.
LEMMA ReconcileReadIInv ==
  ASSUME IInv, NEW p \in Proc, NEW r \in Ref, ReconcileRead(p, r)
  PROVE  IInv'
<1> USE MaxEffectsAssumption, NoneAssumption DEF IInv, ReconcileRead, Absent, PCs
<1>1. TypeOK'
  BY DEF TypeOK, Outcomes
<1>2. AbsentMeansUntouched'
  BY DEF TypeOK, AbsentMeansUntouched
<1>3. PendingHasNoId'
  BY DEF TypeOK, PendingHasNoId
<1>4. CommittedNamesEffect'
  BY DEF TypeOK, CommittedNamesEffect, AbsentMeansUntouched, AtMostOneLate, HeldIdIsTheEffect, RunningHasNotHappened
<1>5. OneDispatcher'
  BY DEF TypeOK, OneDispatcher, AbsentMeansUntouched
<1>6. RunningHasNotHappened'
  BY DEF TypeOK, RunningHasNotHappened, AbsentMeansUntouched, OneDispatcher, AtMostOneLate
<1>7. HeldIdIsTheEffect'
  BY DEF TypeOK, HeldIdIsTheEffect, AbsentMeansUntouched, OneDispatcher, RunningHasNotHappened, AtMostOneLate, AtMostOneEffect
<1>8. AtMostOneLate'
  BY DEF TypeOK, AtMostOneLate, AbsentMeansUntouched, RunningHasNotHappened
<1>9. AtMostOneEffect'
  BY DEF TypeOK, AtMostOneEffect, RunningHasNotHappened, AtMostOneLate
<1>10. AnswersAgree'
  BY DEF TypeOK, AnswersAgree, CommittedNamesEffect, HeldIdIsTheEffect, RunningHasNotHappened, AtMostOneLate
<1>11. ReservationAlwaysRecorded'
  BY DEF TypeOK, ReservationAlwaysRecorded, AbsentMeansUntouched
<1> QED BY <1>1, <1>2, <1>3, <1>4, <1>5, <1>6, <1>7, <1>8, <1>9, <1>10, <1>11

\* Reserve preserves the invariant.
LEMMA ReserveIInv ==
  ASSUME IInv, NEW p \in Proc, Reserve(p)
  PROVE  IInv'
<1> USE MaxEffectsAssumption, NoneAssumption DEF IInv, Reserve, Pending, Absent, PCs
<1>1. TypeOK'
  <2>1. records' \in {records, [records EXCEPT ![ref[p]] = Pending]}
    BY DEF TypeOK
  <2>2. pc' \in {[pc EXCEPT ![p] = "run"], [pc EXCEPT ![p] = "reread"]}
    BY DEF TypeOK
  <2>3. Pending \in [trail_status : {"ABSENT", "PENDING", "COMMITTED"},
                     effect_id : Nat \cup {None}]
    OBVIOUS
  <2>4. records' \in [Ref -> [trail_status : {"ABSENT", "PENDING", "COMMITTED"},
                              effect_id : Nat \cup {None}]]
    BY <2>1, <2>3 DEF TypeOK
  <2>5. pc' \in [Proc -> PCs]
    BY <2>2 DEF TypeOK
  <2> QED BY <2>4, <2>5 DEF TypeOK
<1>2. AbsentMeansUntouched'
  <2>1. CASE records[ref[p]] = Absent
    <3>1. /\ records' = [records EXCEPT ![ref[p]] = Pending]
          /\ pc' = [pc EXCEPT ![p] = "run"]
          /\ UNCHANGED <<effects, late, ref>>
      BY <2>1
    <3>2. records'[ref[p]].trail_status # "ABSENT"
      BY <3>1 DEF TypeOK
    <3>3. \A r \in Ref : r # ref[p] => records'[r] = records[r]
      BY <3>1 DEF TypeOK
    <3> QED BY <3>1, <3>2, <3>3 DEF TypeOK, AbsentMeansUntouched
  <2>2. CASE records[ref[p]] # Absent
    <3>1. records[ref[p]].trail_status # "ABSENT"
      BY <2>2 DEF TypeOK, AbsentMeansUntouched
    <3> QED BY <2>2, <3>1 DEF TypeOK, AbsentMeansUntouched
  <2> QED BY <2>1, <2>2
<1>3. PendingHasNoId'
  BY DEF TypeOK, PendingHasNoId
<1>4. CommittedNamesEffect'
  <2>1. \A r \in Ref : records'[r] = records[r] \/ records'[r] = Pending
    BY DEF TypeOK
  <2> QED BY <2>1 DEF CommittedNamesEffect
<1>5. OneDispatcher'
  BY DEF TypeOK, OneDispatcher, AbsentMeansUntouched
<1>6. RunningHasNotHappened'
  BY DEF TypeOK, RunningHasNotHappened, AbsentMeansUntouched, OneDispatcher, AtMostOneLate
<1>7. HeldIdIsTheEffect'
  BY DEF TypeOK, HeldIdIsTheEffect, AbsentMeansUntouched, OneDispatcher, RunningHasNotHappened, AtMostOneLate, AtMostOneEffect
<1>8. AtMostOneLate'
  BY DEF TypeOK, AtMostOneLate, AbsentMeansUntouched, RunningHasNotHappened
<1>9. AtMostOneEffect'
  BY DEF TypeOK, AtMostOneEffect, RunningHasNotHappened, AtMostOneLate
<1>10. AnswersAgree'
  BY DEF TypeOK, AnswersAgree, CommittedNamesEffect, HeldIdIsTheEffect, RunningHasNotHappened, AtMostOneLate
<1>11. ReservationAlwaysRecorded'
  BY DEF TypeOK, ReservationAlwaysRecorded, AbsentMeansUntouched
<1> QED BY <1>1, <1>2, <1>3, <1>4, <1>5, <1>6, <1>7, <1>8, <1>9, <1>10, <1>11

\* Reread preserves the invariant.
LEMMA RereadIInv ==
  ASSUME IInv, NEW p \in Proc, Reread(p)
  PROVE  IInv'
<1> USE MaxEffectsAssumption, NoneAssumption DEF IInv, Reread, ReturnExisting, Record, Absent, PCs
<1>1. TypeOK'
  <2>1. CASE ReturnExisting(p, ref[p])
    <3>1. records[ref[p]].effect_id \in Nat \cup {None}
      BY DEF TypeOK
    <3> QED BY <2>1, <3>1 DEF TypeOK, Outcomes
  <2>2. CASE records[ref[p]] = Absent /\ pc' = [pc EXCEPT ![p] = "error"] /\ UNCHANGED events
    BY <2>2 DEF TypeOK, Outcomes
  <2> QED BY <2>1, <2>2
<1>2. AbsentMeansUntouched'
  BY DEF TypeOK, AbsentMeansUntouched
<1>3. PendingHasNoId'
  BY DEF TypeOK, PendingHasNoId
<1>4. CommittedNamesEffect'
  BY DEF TypeOK, CommittedNamesEffect, AbsentMeansUntouched, AtMostOneLate, HeldIdIsTheEffect, RunningHasNotHappened
<1>5. OneDispatcher'
  BY DEF TypeOK, OneDispatcher, AbsentMeansUntouched
<1>6. RunningHasNotHappened'
  BY DEF TypeOK, RunningHasNotHappened, AbsentMeansUntouched, OneDispatcher, AtMostOneLate
<1>7. HeldIdIsTheEffect'
  BY DEF TypeOK, HeldIdIsTheEffect, AbsentMeansUntouched, OneDispatcher, RunningHasNotHappened, AtMostOneLate, AtMostOneEffect
<1>8. AtMostOneLate'
  BY DEF TypeOK, AtMostOneLate, AbsentMeansUntouched, RunningHasNotHappened
<1>9. AtMostOneEffect'
  BY DEF TypeOK, AtMostOneEffect, RunningHasNotHappened, AtMostOneLate
<1>10. AnswersAgree'
  BY DEF TypeOK, AnswersAgree, CommittedNamesEffect, HeldIdIsTheEffect, RunningHasNotHappened, AtMostOneLate
<1>11. ReservationAlwaysRecorded'
  BY DEF TypeOK, ReservationAlwaysRecorded, AbsentMeansUntouched
<1> QED BY <1>1, <1>2, <1>3, <1>4, <1>5, <1>6, <1>7, <1>8, <1>9, <1>10, <1>11

\* EffectReturns preserves the invariant.
LEMMA EffectReturnsIInv ==
  ASSUME IInv, NEW p \in Proc, EffectReturns(p)
  PROVE  IInv'
<1> USE MaxEffectsAssumption, NoneAssumption DEF IInv, EffectReturns, ApplyEffect, Absent, PCs
<1>1. TypeOK'
  BY DEF TypeOK, Outcomes
<1>2. AbsentMeansUntouched'
  BY DEF TypeOK, AbsentMeansUntouched
<1>3. PendingHasNoId'
  BY DEF TypeOK, PendingHasNoId
<1>4. CommittedNamesEffect'
  <2>1. records[ref[p]].trail_status # "COMMITTED"
    BY DEF TypeOK, CommittedNamesEffect, RunningHasNotHappened
  <2> QED BY <2>1 DEF TypeOK, CommittedNamesEffect
<1>5. OneDispatcher'
  BY DEF TypeOK, OneDispatcher, AbsentMeansUntouched
<1>6. RunningHasNotHappened'
  BY DEF TypeOK, RunningHasNotHappened, AbsentMeansUntouched, OneDispatcher, AtMostOneLate
<1>7. HeldIdIsTheEffect'
  BY DEF TypeOK, HeldIdIsTheEffect, AbsentMeansUntouched, OneDispatcher, RunningHasNotHappened, AtMostOneLate, AtMostOneEffect
<1>8. AtMostOneLate'
  BY DEF TypeOK, AtMostOneLate, AbsentMeansUntouched, RunningHasNotHappened
<1>9. AtMostOneEffect'
  BY DEF TypeOK, AtMostOneEffect, RunningHasNotHappened, AtMostOneLate
<1>10. AnswersAgree'
  BY DEF TypeOK, AnswersAgree, CommittedNamesEffect, HeldIdIsTheEffect, RunningHasNotHappened, AtMostOneLate
<1>11. ReservationAlwaysRecorded'
  BY DEF TypeOK, ReservationAlwaysRecorded, AbsentMeansUntouched
<1> QED BY <1>1, <1>2, <1>3, <1>4, <1>5, <1>6, <1>7, <1>8, <1>9, <1>10, <1>11

\* EffectRaises preserves the invariant.
LEMMA EffectRaisesIInv ==
  ASSUME IInv, NEW p \in Proc, EffectRaises(p)
  PROVE  IInv'
<1> USE MaxEffectsAssumption, NoneAssumption DEF IInv, EffectRaises, Absent, PCs
<1>1. TypeOK'
  BY DEF TypeOK, Outcomes
<1>2. AbsentMeansUntouched'
  BY DEF TypeOK, AbsentMeansUntouched
<1>3. PendingHasNoId'
  BY DEF TypeOK, PendingHasNoId
<1>4. CommittedNamesEffect'
  BY DEF TypeOK, CommittedNamesEffect, AbsentMeansUntouched, AtMostOneLate, HeldIdIsTheEffect, RunningHasNotHappened
<1>5. OneDispatcher'
  BY DEF TypeOK, OneDispatcher, AbsentMeansUntouched
<1>6. RunningHasNotHappened'
  BY DEF TypeOK, RunningHasNotHappened, AbsentMeansUntouched, OneDispatcher, AtMostOneLate
<1>7. HeldIdIsTheEffect'
  BY DEF TypeOK, HeldIdIsTheEffect, AbsentMeansUntouched, OneDispatcher, RunningHasNotHappened, AtMostOneLate, AtMostOneEffect
<1>8. AtMostOneLate'
  BY DEF TypeOK, AtMostOneLate, AbsentMeansUntouched, RunningHasNotHappened
<1>9. AtMostOneEffect'
  BY DEF TypeOK, AtMostOneEffect, RunningHasNotHappened, AtMostOneLate
<1>10. AnswersAgree'
  BY DEF TypeOK, AnswersAgree, CommittedNamesEffect, HeldIdIsTheEffect, RunningHasNotHappened, AtMostOneLate
<1>11. ReservationAlwaysRecorded'
  BY DEF TypeOK, ReservationAlwaysRecorded, AbsentMeansUntouched
<1> QED BY <1>1, <1>2, <1>3, <1>4, <1>5, <1>6, <1>7, <1>8, <1>9, <1>10, <1>11

\* WriteCommitted preserves the invariant.
LEMMA WriteCommittedIInv ==
  ASSUME IInv, NEW p \in Proc, WriteCommitted(p)
  PROVE  IInv'
<1> USE MaxEffectsAssumption, NoneAssumption DEF IInv, WriteCommitted, Write, Record, Committed, Absent, PCs
<1>1. TypeOK'
  BY DEF TypeOK, Outcomes
<1>2. AbsentMeansUntouched'
  BY DEF TypeOK, AbsentMeansUntouched
<1>3. PendingHasNoId'
  BY DEF TypeOK, PendingHasNoId
<1>4. CommittedNamesEffect'
  BY DEF TypeOK, CommittedNamesEffect, AbsentMeansUntouched, AtMostOneLate, HeldIdIsTheEffect, RunningHasNotHappened
<1>5. OneDispatcher'
  BY DEF TypeOK, OneDispatcher, AbsentMeansUntouched
<1>6. RunningHasNotHappened'
  BY DEF TypeOK, RunningHasNotHappened, AbsentMeansUntouched, OneDispatcher, AtMostOneLate
<1>7. HeldIdIsTheEffect'
  BY DEF TypeOK, HeldIdIsTheEffect, AbsentMeansUntouched, OneDispatcher, RunningHasNotHappened, AtMostOneLate, AtMostOneEffect
<1>8. AtMostOneLate'
  BY DEF TypeOK, AtMostOneLate, AbsentMeansUntouched, RunningHasNotHappened
<1>9. AtMostOneEffect'
  BY DEF TypeOK, AtMostOneEffect, RunningHasNotHappened, AtMostOneLate
<1>10. AnswersAgree'
  BY DEF TypeOK, AnswersAgree, CommittedNamesEffect, HeldIdIsTheEffect, RunningHasNotHappened, AtMostOneLate
<1>11. ReservationAlwaysRecorded'
  BY DEF TypeOK, ReservationAlwaysRecorded, AbsentMeansUntouched
<1> QED BY <1>1, <1>2, <1>3, <1>4, <1>5, <1>6, <1>7, <1>8, <1>9, <1>10, <1>11

\* ReconcileObserve preserves the invariant.
LEMMA ReconcileObserveIInv ==
  ASSUME IInv, NEW p \in Proc, ReconcileObserve(p)
  PROVE  IInv'
<1> USE MaxEffectsAssumption, NoneAssumption DEF IInv, ReconcileObserve, Absent, PCs
<1>1. TypeOK'
  <2>1. effects[ref[p]] \subseteq Nat
    BY DEF TypeOK
  <2> QED BY <2>1 DEF TypeOK, Outcomes
<1>2. AbsentMeansUntouched'
  BY DEF TypeOK, AbsentMeansUntouched
<1>3. PendingHasNoId'
  BY DEF TypeOK, PendingHasNoId
<1>4. CommittedNamesEffect'
  BY DEF TypeOK, CommittedNamesEffect, AbsentMeansUntouched, AtMostOneLate, HeldIdIsTheEffect, RunningHasNotHappened
<1>5. OneDispatcher'
  BY DEF TypeOK, OneDispatcher, AbsentMeansUntouched
<1>6. RunningHasNotHappened'
  BY DEF TypeOK, RunningHasNotHappened, AbsentMeansUntouched, OneDispatcher, AtMostOneLate
<1>7. HeldIdIsTheEffect'
  BY DEF TypeOK, HeldIdIsTheEffect, AbsentMeansUntouched, OneDispatcher, RunningHasNotHappened, AtMostOneLate, AtMostOneEffect
<1>8. AtMostOneLate'
  BY DEF TypeOK, AtMostOneLate, AbsentMeansUntouched, RunningHasNotHappened
<1>9. AtMostOneEffect'
  BY DEF TypeOK, AtMostOneEffect, RunningHasNotHappened, AtMostOneLate
<1>10. AnswersAgree'
  BY DEF TypeOK, AnswersAgree, CommittedNamesEffect, HeldIdIsTheEffect, RunningHasNotHappened, AtMostOneLate
<1>11. ReservationAlwaysRecorded'
  BY DEF TypeOK, ReservationAlwaysRecorded, AbsentMeansUntouched
<1> QED BY <1>1, <1>2, <1>3, <1>4, <1>5, <1>6, <1>7, <1>8, <1>9, <1>10, <1>11

\* ReconcileWrite preserves the invariant.
LEMMA ReconcileWriteIInv ==
  ASSUME IInv, NEW p \in Proc, ReconcileWrite(p)
  PROVE  IInv'
<1> USE MaxEffectsAssumption, NoneAssumption DEF IInv, ReconcileWrite, Write, Record, Committed, Absent, PCs
<1>1. TypeOK'
  BY DEF TypeOK, Outcomes
<1>2. AbsentMeansUntouched'
  BY DEF TypeOK, AbsentMeansUntouched
<1>3. PendingHasNoId'
  BY DEF TypeOK, PendingHasNoId
<1>4. CommittedNamesEffect'
  BY DEF TypeOK, CommittedNamesEffect, AbsentMeansUntouched, AtMostOneLate, HeldIdIsTheEffect, RunningHasNotHappened
<1>5. OneDispatcher'
  BY DEF TypeOK, OneDispatcher, AbsentMeansUntouched
<1>6. RunningHasNotHappened'
  BY DEF TypeOK, RunningHasNotHappened, AbsentMeansUntouched, OneDispatcher, AtMostOneLate
<1>7. HeldIdIsTheEffect'
  BY DEF TypeOK, HeldIdIsTheEffect, AbsentMeansUntouched, OneDispatcher, RunningHasNotHappened, AtMostOneLate, AtMostOneEffect
<1>8. AtMostOneLate'
  BY DEF TypeOK, AtMostOneLate, AbsentMeansUntouched, RunningHasNotHappened
<1>9. AtMostOneEffect'
  BY DEF TypeOK, AtMostOneEffect, RunningHasNotHappened, AtMostOneLate
<1>10. AnswersAgree'
  BY DEF TypeOK, AnswersAgree, CommittedNamesEffect, HeldIdIsTheEffect, RunningHasNotHappened, AtMostOneLate
<1>11. ReservationAlwaysRecorded'
  BY DEF TypeOK, ReservationAlwaysRecorded, AbsentMeansUntouched
<1> QED BY <1>1, <1>2, <1>3, <1>4, <1>5, <1>6, <1>7, <1>8, <1>9, <1>10, <1>11

\* Restart preserves the invariant.
LEMMA RestartIInv ==
  ASSUME IInv, NEW p \in Proc, Restart(p)
  PROVE  IInv'
<1> USE MaxEffectsAssumption, NoneAssumption DEF IInv, Restart, Absent, PCs
<1>1. TypeOK'
  BY DEF TypeOK, Outcomes
<1>2. AbsentMeansUntouched'
  BY DEF TypeOK, AbsentMeansUntouched
<1>3. PendingHasNoId'
  BY DEF TypeOK, PendingHasNoId
<1>4. CommittedNamesEffect'
  BY DEF TypeOK, CommittedNamesEffect, AbsentMeansUntouched, AtMostOneLate, HeldIdIsTheEffect, RunningHasNotHappened
<1>5. OneDispatcher'
  BY DEF TypeOK, OneDispatcher, AbsentMeansUntouched
<1>6. RunningHasNotHappened'
  BY DEF TypeOK, RunningHasNotHappened, AbsentMeansUntouched, OneDispatcher, AtMostOneLate
<1>7. HeldIdIsTheEffect'
  BY DEF TypeOK, HeldIdIsTheEffect, AbsentMeansUntouched, OneDispatcher, RunningHasNotHappened, AtMostOneLate, AtMostOneEffect
<1>8. AtMostOneLate'
  BY DEF TypeOK, AtMostOneLate, AbsentMeansUntouched, RunningHasNotHappened
<1>9. AtMostOneEffect'
  BY DEF TypeOK, AtMostOneEffect, RunningHasNotHappened, AtMostOneLate
<1>10. AnswersAgree'
  BY DEF TypeOK, AnswersAgree, CommittedNamesEffect, HeldIdIsTheEffect, RunningHasNotHappened, AtMostOneLate
<1>11. ReservationAlwaysRecorded'
  BY DEF TypeOK, ReservationAlwaysRecorded, AbsentMeansUntouched
<1> QED BY <1>1, <1>2, <1>3, <1>4, <1>5, <1>6, <1>7, <1>8, <1>9, <1>10, <1>11

\* LateEffect preserves the invariant.
LEMMA LateEffectIInv ==
  ASSUME IInv, NEW r \in Ref, LateEffect(r)
  PROVE  IInv'
<1> USE MaxEffectsAssumption, NoneAssumption DEF IInv, LateEffect, ApplyEffect, Absent, PCs
<1>1. TypeOK'
  BY DEF TypeOK, Outcomes
<1>2. AbsentMeansUntouched'
  BY DEF TypeOK, AbsentMeansUntouched
<1>3. PendingHasNoId'
  BY DEF TypeOK, PendingHasNoId
<1>4. CommittedNamesEffect'
  <2>1. effects[r] = {}
    BY DEF TypeOK, AtMostOneLate
  <2>2. records[r].trail_status # "COMMITTED"
    BY <2>1 DEF CommittedNamesEffect
  <2> QED BY <2>2 DEF TypeOK, CommittedNamesEffect
<1>5. OneDispatcher'
  BY DEF TypeOK, OneDispatcher, AbsentMeansUntouched
<1>6. RunningHasNotHappened'
  BY DEF TypeOK, RunningHasNotHappened, AbsentMeansUntouched, OneDispatcher, AtMostOneLate
<1>7. HeldIdIsTheEffect'
  <2>1. effects[r] = {}
    BY DEF TypeOK, AtMostOneLate
  <2>2. \A p \in Proc : ref[p] = r => pc[p] \notin {"write", "rwrite"}
    BY <2>1 DEF HeldIdIsTheEffect
  <2> QED BY <2>2 DEF TypeOK, HeldIdIsTheEffect
<1>8. AtMostOneLate'
  BY DEF TypeOK, AtMostOneLate, AbsentMeansUntouched, RunningHasNotHappened
<1>9. AtMostOneEffect'
  BY DEF TypeOK, AtMostOneEffect, RunningHasNotHappened, AtMostOneLate
<1>10. AnswersAgree'
  <2>1. effects[r] = {}
    BY DEF TypeOK, AtMostOneLate
  <2>2. \A e \in events : e.guard_outcome # "PENDING_GUARD" => e.ref # r
    BY <2>1 DEF AnswersAgree
  <2> QED BY <2>2 DEF TypeOK, AnswersAgree
<1>11. ReservationAlwaysRecorded'
  BY DEF TypeOK, ReservationAlwaysRecorded, AbsentMeansUntouched
<1> QED BY <1>1, <1>2, <1>3, <1>4, <1>5, <1>6, <1>7, <1>8, <1>9, <1>10, <1>11

\* Every step of the system, stuttering included, preserves the invariant.
LEMMA NextIInv == IInv /\ [Next]_vars => IInv'
<1> SUFFICES ASSUME IInv, [Next]_vars PROVE IInv'
  OBVIOUS
<1>1. CASE \E p \in Proc, r \in Ref : GuardRead(p, r) \/ ReconcileRead(p, r)
  BY <1>1, GuardReadIInv, ReconcileReadIInv
<1>2. CASE \E p \in Proc : Reserve(p) \/ Reread(p)
  BY <1>2, ReserveIInv, RereadIInv
<1>3. CASE \E p \in Proc : EffectReturns(p) \/ EffectRaises(p) \/ WriteCommitted(p)
  BY <1>3, EffectReturnsIInv, EffectRaisesIInv, WriteCommittedIInv
<1>4. CASE \E p \in Proc : ReconcileObserve(p) \/ ReconcileWrite(p) \/ Restart(p)
  BY <1>4, ReconcileObserveIInv, ReconcileWriteIInv, RestartIInv
<1>5. CASE \E r \in Ref : LateEffect(r)
  BY <1>5, LateEffectIInv
<1>6. CASE UNCHANGED vars
  BY <1>6 DEF vars, IInv, TypeOK, AbsentMeansUntouched, PendingHasNoId,
     CommittedNamesEffect, OneDispatcher, RunningHasNotHappened, HeldIdIsTheEffect,
     AtMostOneLate, AtMostOneEffect, AnswersAgree, ReservationAlwaysRecorded
<1> QED BY <1>1, <1>2, <1>3, <1>4, <1>5, <1>6 DEF Next

\* IInv is an invariant of the guard, whatever the refs, workers and crashes.
THEOREM Invariance == Spec => []IInv
BY InitIInv, NextIInv, PTL DEF Spec

\* At most one effect per idempotency_ref.
THEOREM AtMostOneEffectHolds == Spec => []AtMostOneEffect
<1>1. IInv => AtMostOneEffect
  BY DEF IInv
<1> QED BY <1>1, Invariance, PTL

\* All answers carrying an id agree with the effect store.
THEOREM AnswersAgreeHolds == Spec => []AnswersAgree
<1>1. IInv => AnswersAgree
  BY DEF IInv
<1> QED BY <1>1, Invariance, PTL

\* The RuntimeError of guard() is unreachable.
THEOREM ReservationAlwaysRecordedHolds == Spec => []ReservationAlwaysRecorded
<1>1. IInv => ReservationAlwaysRecorded
  BY DEF IInv
<1> QED BY <1>1, Invariance, PTL

\* A COMMITTED row is never changed, by guard() or by a racing reconcile().
THEOREM CommittedIsFinalHolds == Spec => CommittedIsFinal
<1> DEFINE Keep == \A r \in Ref :
       /\ records[r].trail_status = "COMMITTED" => records'[r] = records[r]
       /\ records[r].trail_status # "ABSENT" => records'[r].trail_status # "ABSENT"
<1>1. IInv /\ [Next]_vars => [Keep]_vars
  <2> SUFFICES ASSUME IInv, Next PROVE Keep
    OBVIOUS
  <2>1. CASE UNCHANGED records
    BY <2>1
  <2>2. ASSUME NEW p \in Proc, pc[p] \in {"write", "rwrite"}, Write(ref[p], got[p])
        PROVE  Keep
    <3>1. records[ref[p]].trail_status = "COMMITTED" => records[ref[p]] = Committed(got[p])
      BY <2>2 DEF IInv, TypeOK, CommittedNamesEffect, HeldIdIsTheEffect, Committed
    <3> QED BY <2>2, <3>1 DEF IInv, TypeOK, Write, Committed
  <2>3. ASSUME NEW p \in Proc, Reserve(p)
        PROVE  Keep
    BY <2>3 DEF IInv, TypeOK, Reserve, Absent, Pending
  <2> QED BY <2>1, <2>2, <2>3 DEF Next, GuardRead, ReconcileRead, Reread, EffectReturns,
        EffectRaises, WriteCommitted, ReconcileObserve, ReconcileWrite, Restart, LateEffect
<1> QED BY <1>1, Invariance, PTL DEF Spec, CommittedIsFinal

\* Refinement: under the mapping of records to claims and outcomes, every step of
\* the guard is a step of AtMostOnce or leaves its variables unchanged.
THEOREM Refinement == Spec => ImplementsAtMostOnce
<1> DEFINE mclaimed == {r \in Ref : records[r].trail_status # "ABSENT"}
           moutcome == [r \in Ref |-> records[r].effect_id]
<1>1. Init => Abs!AbsInit
  BY DEF Init, Abs!AbsInit, Absent
<1>2. IInv /\ [Next]_vars => [Abs!AbsNext]_(Abs!absVars)
  <2> SUFFICES ASSUME IInv, [Next]_vars
               PROVE  Abs!AbsNext \/ UNCHANGED <<mclaimed, effects, moutcome, counter>>
    BY DEF Abs!absVars
  <2>1. CASE UNCHANGED <<records, effects, counter>>
    BY <2>1
  <2>2. ASSUME NEW p \in Proc, Reserve(p), records[ref[p]] = Absent
        PROVE  Abs!AbsNext
    <3>1. ref[p] \in Ref /\ ref[p] \notin mclaimed
      BY <2>2 DEF IInv, TypeOK, Absent
    <3>2. records' = [records EXCEPT ![ref[p]] = Pending] /\ UNCHANGED <<effects, counter>>
      BY <2>2 DEF Reserve
    <3>3. mclaimed' = mclaimed \cup {ref[p]}
      BY <3>1, <3>2 DEF IInv, TypeOK, Pending
    <3>4. moutcome' = moutcome
      BY <2>2, <3>1, <3>2 DEF IInv, TypeOK, Pending, Absent
    <3>5. PICK r \in Ref : r = ref[p]
      BY <3>1
    <3>6. Abs!Claim(r)
      BY <3>1, <3>2, <3>3, <3>4, <3>5 DEF Abs!Claim
    <3> QED BY <3>6 DEF Abs!AbsNext
  <2>3. ASSUME NEW r \in Ref, effects[r] = {}, records[r].trail_status # "ABSENT",
               ApplyEffect(r), UNCHANGED records
        PROVE  Abs!AbsNext
    <3>1. Abs!Happen(r)
      BY <2>3 DEF IInv, TypeOK, ApplyEffect, Abs!Happen
    <3> QED BY <3>1 DEF Abs!AbsNext
  <2>4. ASSUME NEW p \in Proc, pc[p] \in {"write", "rwrite"}, Write(ref[p], got[p]),
               UNCHANGED <<effects, counter>>
        PROVE  Abs!AbsNext \/ UNCHANGED <<mclaimed, effects, moutcome, counter>>
    <3>1. /\ ref[p] \in Ref
          /\ got[p] \in effects[ref[p]]
          /\ effects[ref[p]] = {got[p]}
          /\ records[ref[p]].trail_status # "ABSENT"
      BY <2>4 DEF IInv, TypeOK, HeldIdIsTheEffect, AbsentMeansUntouched
    <3>2. records' = [records EXCEPT ![ref[p]] = Committed(got[p])]
      BY <2>4 DEF Write
    <3>3. mclaimed' = mclaimed
      BY <3>1, <3>2 DEF IInv, TypeOK, Committed
    <3>4. moutcome' = [moutcome EXCEPT ![ref[p]] = got[p]]
      BY <3>1, <3>2 DEF IInv, TypeOK, Committed
    <3>5. CASE records[ref[p]].trail_status = "PENDING"
      <4>1. moutcome[ref[p]] = None
        BY <3>1, <3>5 DEF IInv, PendingHasNoId
      <4>2. PICK r \in Ref : r = ref[p]
        BY <3>1
      <4>3. Abs!Publish(r)
        BY <2>4, <3>1, <3>3, <3>4, <4>1, <4>2 DEF Abs!Publish
      <4> QED BY <4>3 DEF Abs!AbsNext
    <3>6. CASE records[ref[p]].trail_status = "COMMITTED"
      <4>1. moutcome[ref[p]] = got[p]
        BY <3>1, <3>6 DEF IInv, CommittedNamesEffect
      <4> QED BY <2>4, <3>1, <3>3, <3>4, <4>1
    <3> QED BY <3>1, <3>5, <3>6 DEF IInv, TypeOK
  <2>5. ASSUME NEW p \in Proc, EffectReturns(p)
        PROVE  Abs!AbsNext
    <3>1. /\ ref[p] \in Ref
          /\ effects[ref[p]] = {}
          /\ records[ref[p]].trail_status # "ABSENT"
      BY <2>5 DEF IInv, TypeOK, EffectReturns, RunningHasNotHappened, AbsentMeansUntouched
    <3> QED BY <2>3, <2>5, <3>1 DEF EffectReturns
  <2>6. ASSUME NEW r \in Ref, LateEffect(r)
        PROVE  Abs!AbsNext
    <3>1. effects[r] = {}
      BY <2>6 DEF IInv, TypeOK, LateEffect, AtMostOneLate
    <3>2. records[r].trail_status # "ABSENT"
      BY <2>6 DEF IInv, TypeOK, LateEffect, AbsentMeansUntouched
    <3> QED BY <2>3, <2>6, <3>1, <3>2 DEF LateEffect
  <2> QED BY <2>1, <2>2, <2>4, <2>5, <2>6 DEF Next, vars, Reserve, GuardRead, ReconcileRead,
        Reread, EffectRaises, WriteCommitted, ReconcileObserve, ReconcileWrite, Restart
<1> QED BY <1>1, <1>2, Invariance, PTL DEF Spec, ImplementsAtMostOnce, Abs!AbsSpec

=============================================================================
