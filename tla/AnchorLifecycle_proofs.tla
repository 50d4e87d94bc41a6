----------------------- MODULE AnchorLifecycle_proofs -----------------------
(* Machine-checked proofs about AnchorLifecycle, for any number of trails,   *)
(* any LIMIT of the poller and any freshness window.                         *)
EXTENDS AnchorLifecycle, FiniteSetTheorems, TLAPS

-----------------------------------------------------------------------------
(* Lemmas about the poller's round.                                         *)

\* get_submitted_trails returns a list: the newest submitted rows are finitely many.
LEMMA NewestCount == Cardinality(Newest) \in Nat /\ Newest \subseteq Submitted
<1>1. IsFiniteSet(Trail)
  BY SizeAssumption, FS_Interval DEF Trail
<1>2. Newest \subseteq Submitted /\ Submitted \subseteq Trail
  BY DEF Newest, Submitted
<1>3. IsFiniteSet(Newest)
  BY <1>1, <1>2, FS_Subset
<1> QED BY <1>2, <1>3, FS_CardinalityType

\* One row of the round is dropped when its answer was applied or its request
\* failed: the rows left are those after the first.
LEMMA TailRows ==
  ASSUME NEW S, NEW s \in Seq(S), s # <<>>
  PROVE  /\ Tail(s) \in Seq(S)
         /\ s[1] \in S
         /\ 1 \in DOMAIN s
         /\ \A i \in DOMAIN Tail(s) :
              i + 1 \in DOMAIN s /\ Tail(s)[i] = s[i + 1] /\ i \in Nat /\ i >= 1 /\ Tail(s)[i] \in S
OBVIOUS

\* The rows of a round are trails with an age, and the first of them is its head.
LEMMA BatchRows ==
  ASSUME TypeOK
  PROVE  /\ \A i \in DOMAIN batch : batch[i].trail \in Trail /\ batch[i].age \in Nat
         /\ batch # <<>> => 1 \in DOMAIN batch /\ Head(batch) = batch[1]
<1> DEFINE Row == [trail : Trail, age : 0..(TTL + 1)]
<1>1. batch \in Seq(Row)
  BY DEF TypeOK
<1>2. \A r \in Row : r.trail \in Trail /\ r.age \in Nat
  BY SizeAssumption
<1> HIDE DEF Row
<1>3. /\ \A i \in DOMAIN batch : batch[i] \in Row
      /\ batch # <<>> => 1 \in DOMAIN batch /\ Head(batch) = batch[1]
  BY <1>1
<1> QED BY <1>2, <1>3

\* A batch that lost its first row is still one of submitted rows, each once, and
\* none of them is the row that was dropped.
LEMMA TailIsSubmitted ==
  ASSUME TypeOK, BatchIsSubmitted, batch # <<>>, batch' = Tail(batch)
  PROVE  /\ batch' \in Seq([trail : Trail, age : 0..(TTL + 1)])
         /\ \A i \in DOMAIN batch' :
              /\ batch'[i].trail \in Trail
              /\ status[batch'[i].trail] = "submitted"
              /\ batch'[i].age <= age[batch'[i].trail]
              /\ batch'[i].trail # batch[1].trail
              /\ \A j \in DOMAIN batch' : batch'[i].trail = batch'[j].trail => i = j
<1> DEFINE Row == [trail : Trail, age : 0..(TTL + 1)]
<1>1. batch \in Seq(Row)
  BY DEF TypeOK
<1> HIDE DEF Row
<1>2. /\ batch' \in Seq(Row)
      /\ 1 \in DOMAIN batch
      /\ \A i \in DOMAIN batch' :
           i + 1 \in DOMAIN batch /\ batch'[i] = batch[i + 1] /\ i \in Nat /\ i >= 1 /\ batch'[i] \in Row
  BY <1>1, TailRows
<1>3. ASSUME NEW i \in DOMAIN batch'
      PROVE  /\ status[batch'[i].trail] = "submitted"
             /\ batch'[i].age <= age[batch'[i].trail]
             /\ batch'[i].trail # batch[1].trail
             /\ \A j \in DOMAIN batch' : batch'[i].trail = batch'[j].trail => i = j
  BY <1>2, <1>3 DEF BatchIsSubmitted
<1> QED BY <1>2, <1>3 DEF Row

-----------------------------------------------------------------------------
(* The invariant: initially, and across each step.                          *)

\* With an empty trails table and an idle poller the invariant holds.
LEMMA InitInv == Init => AnchorInv
BY SizeAssumption DEF Init, AnchorInv, TypeOK, BatchIsSubmitted, ReceiptIsChains, ThreadOwnsRow,
   RowWasSent, ReceiptBacksStatus, TimeoutNeverEarly, KarmaHasTx

\* A new row is in no batch and has no transaction.
LEMMA RecordTrailInv ==
  ASSUME AnchorInv, NEW t \in Trail, RecordTrail(t)
  PROVE  AnchorInv'
<1> USE SizeAssumption DEF AnchorInv, RecordTrail, rows, poller
<1>1. TypeOK'
  BY DEF TypeOK
<1>2. BatchIsSubmitted'
  BY DEF TypeOK, BatchIsSubmitted
<1>3. ReceiptIsChains'
  BY DEF TypeOK, ReceiptIsChains
<1>4. ThreadOwnsRow'
  BY DEF TypeOK, ThreadOwnsRow
<1>5. RowWasSent'
  BY DEF TypeOK, RowWasSent
<1>6. ReceiptBacksStatus'
  BY DEF TypeOK, ReceiptBacksStatus
<1>7. TimeoutNeverEarly'
  BY DEF TypeOK, TimeoutNeverEarly
<1>8. KarmaHasTx'
  BY DEF TypeOK, KarmaHasTx
<1> QED BY <1>1, <1>2, <1>3, <1>4, <1>5, <1>6, <1>7, <1>8

\* While its thread broadcasts, the row is NULL: it is in no batch, whatever the chain
\* comes to say of the transaction.
LEMMA BroadcastInv ==
  ASSUME AnchorInv, NEW t \in Trail, Broadcast(t)
  PROVE  AnchorInv'
<1> USE SizeAssumption DEF AnchorInv, Broadcast, rows, poller
<1>1. TypeOK'
  BY DEF TypeOK
<1>2. BatchIsSubmitted'
  BY DEF TypeOK, BatchIsSubmitted
<1>3. ReceiptIsChains'
  <2>1. \A u \in Trail : u # t => chain'[u] = chain[u]
    BY DEF TypeOK
  <2>2. batch # <<>> => batch[1].trail \in Trail /\ batch[1].trail # t
    BY BatchRows DEF BatchIsSubmitted, ThreadOwnsRow
  <2> QED BY <2>1, <2>2 DEF ReceiptIsChains
<1>4. ThreadOwnsRow'
  BY DEF TypeOK, ThreadOwnsRow
<1>5. RowWasSent'
  BY DEF TypeOK, RowWasSent
<1>6. ReceiptBacksStatus'
  <2>1. \A u \in Trail : u # t => chain'[u] = chain[u]
    BY DEF TypeOK
  <2>2. status[t] = "null" /\ reason[t] = "null"
    BY DEF ThreadOwnsRow, RowWasSent
  <2> QED BY <2>1, <2>2 DEF ReceiptBacksStatus
<1>7. TimeoutNeverEarly'
  BY DEF TypeOK, TimeoutNeverEarly
<1>8. KarmaHasTx'
  BY DEF TypeOK, KarmaHasTx
<1> QED BY <1>1, <1>2, <1>3, <1>4, <1>5, <1>6, <1>7, <1>8

\* set_trail_tx_hash finds a NULL row: neither in a batch nor terminal.
LEMMA StoreTxHashInv ==
  ASSUME AnchorInv, NEW t \in Trail, StoreTxHash(t)
  PROVE  AnchorInv'
<1> USE SizeAssumption DEF AnchorInv, StoreTxHash, rows, poller
<1>1. TypeOK'
  BY DEF TypeOK
<1>2. BatchIsSubmitted'
  BY DEF TypeOK, BatchIsSubmitted, ThreadOwnsRow
<1>3. ReceiptIsChains'
  BY DEF TypeOK, ReceiptIsChains
<1>4. ThreadOwnsRow'
  BY DEF TypeOK, ThreadOwnsRow
<1>5. RowWasSent'
  BY DEF TypeOK, RowWasSent, ThreadOwnsRow
<1>6. ReceiptBacksStatus'
  BY DEF TypeOK, ReceiptBacksStatus
<1>7. TimeoutNeverEarly'
  BY DEF TypeOK, TimeoutNeverEarly, ThreadOwnsRow, RowWasSent
<1>8. KarmaHasTx'
  BY DEF TypeOK, KarmaHasTx
<1> QED BY <1>1, <1>2, <1>3, <1>4, <1>5, <1>6, <1>7, <1>8

\* Karma is awarded after the hash was stored.
LEMMA AwardKarmaInv ==
  ASSUME AnchorInv, NEW t \in Trail, AwardKarma(t)
  PROVE  AnchorInv'
<1> USE SizeAssumption DEF AnchorInv, AwardKarma, rows, poller
<1>1. TypeOK'
  BY DEF TypeOK
<1>2. BatchIsSubmitted'
  BY DEF TypeOK, BatchIsSubmitted
<1>3. ReceiptIsChains'
  BY DEF TypeOK, ReceiptIsChains
<1>4. ThreadOwnsRow'
  BY DEF TypeOK, ThreadOwnsRow
<1>5. RowWasSent'
  BY DEF TypeOK, RowWasSent
<1>6. ReceiptBacksStatus'
  BY DEF TypeOK, ReceiptBacksStatus
<1>7. TimeoutNeverEarly'
  BY DEF TypeOK, TimeoutNeverEarly
<1>8. KarmaHasTx'
  BY DEF TypeOK, KarmaHasTx, ThreadOwnsRow, RowWasSent
<1> QED BY <1>1, <1>2, <1>3, <1>4, <1>5, <1>6, <1>7, <1>8

\* The webhook call changes no row.
LEMMA NotifySubmittedInv ==
  ASSUME AnchorInv, NEW t \in Trail, NotifySubmitted(t)
  PROVE  AnchorInv'
<1> USE SizeAssumption DEF AnchorInv, NotifySubmitted, rows, poller
<1>1. TypeOK'
  BY DEF TypeOK
<1>2. BatchIsSubmitted'
  BY DEF TypeOK, BatchIsSubmitted
<1>3. ReceiptIsChains'
  BY DEF TypeOK, ReceiptIsChains
<1>4. ThreadOwnsRow'
  BY DEF TypeOK, ThreadOwnsRow
<1>5. RowWasSent'
  BY DEF TypeOK, RowWasSent
<1>6. ReceiptBacksStatus'
  BY DEF TypeOK, ReceiptBacksStatus
<1>7. TimeoutNeverEarly'
  BY DEF TypeOK, TimeoutNeverEarly
<1>8. KarmaHasTx'
  BY DEF TypeOK, KarmaHasTx
<1> QED BY <1>1, <1>2, <1>3, <1>4, <1>5, <1>6, <1>7, <1>8

\* A thread that dies leaves its row as it is.
LEMMA ThreadRaisesInv ==
  ASSUME AnchorInv, NEW t \in Trail, ThreadRaises(t)
  PROVE  AnchorInv'
<1> USE SizeAssumption DEF AnchorInv, ThreadRaises, rows, poller
<1>1. TypeOK'
  BY DEF TypeOK
<1>2. BatchIsSubmitted'
  BY DEF TypeOK, BatchIsSubmitted
<1>3. ReceiptIsChains'
  BY DEF TypeOK, ReceiptIsChains
<1>4. ThreadOwnsRow'
  BY DEF TypeOK, ThreadOwnsRow
<1>5. RowWasSent'
  BY DEF TypeOK, RowWasSent
<1>6. ReceiptBacksStatus'
  BY DEF TypeOK, ReceiptBacksStatus
<1>7. TimeoutNeverEarly'
  BY DEF TypeOK, TimeoutNeverEarly
<1>8. KarmaHasTx'
  BY DEF TypeOK, KarmaHasTx
<1> QED BY <1>1, <1>2, <1>3, <1>4, <1>5, <1>6, <1>7, <1>8

\* A transaction is included once: no receipt exists before.
LEMMA IncludeInv ==
  ASSUME AnchorInv, NEW t \in Trail, NEW result \in {"0x1", "0x0"}, Include(t, result)
  PROVE  AnchorInv'
<1> USE SizeAssumption DEF AnchorInv, Include, rows, poller
<1>1. TypeOK'
  BY DEF TypeOK
<1>2. BatchIsSubmitted'
  BY DEF TypeOK, BatchIsSubmitted
<1>3. ReceiptIsChains'
  BY DEF TypeOK, ReceiptIsChains
<1>4. ThreadOwnsRow'
  BY DEF TypeOK, ThreadOwnsRow
<1>5. RowWasSent'
  BY DEF TypeOK, RowWasSent
<1>6. ReceiptBacksStatus'
  BY DEF TypeOK, ReceiptBacksStatus
<1>7. TimeoutNeverEarly'
  BY DEF TypeOK, TimeoutNeverEarly
<1>8. KarmaHasTx'
  BY DEF TypeOK, KarmaHasTx
<1> QED BY <1>1, <1>2, <1>3, <1>4, <1>5, <1>6, <1>7, <1>8

\* A round takes rows that are submitted now, each once, with their age now.
LEMMA PollStartInv ==
  ASSUME AnchorInv, PollStart
  PROVE  AnchorInv'
<1> USE SizeAssumption DEF AnchorInv, PollStart, rows, poller
<1>1. PICK q \in NewestFirst : batch' = [i \in DOMAIN q |-> [trail |-> q[i], age |-> age[q[i]]]]
  OBVIOUS
<1> DEFINE n == Cardinality(Newest)
<1>a. /\ n \in Nat
      /\ DOMAIN q = 1..n
      /\ \A i \in 1..n : q[i] \in Trail /\ status[q[i]] = "submitted"
      /\ \A i, j \in 1..n : i < j => q[i] > q[j]
  BY <1>1, NewestCount DEF NewestFirst, Submitted
<1> HIDE DEF n
<1>b. batch' \in Seq([trail : Trail, age : 0..(TTL + 1)])
  <2>1. \A i \in 1..n : [trail |-> q[i], age |-> age[q[i]]] \in [trail : Trail, age : 0..(TTL + 1)]
    BY <1>a DEF TypeOK
  <2>2. batch' = [i \in 1..n |-> [trail |-> q[i], age |-> age[q[i]]]]
    BY <1>1, <1>a
  <2> QED BY <2>1, <2>2, <1>a
<1>c. TypeOK'
  BY <1>b DEF TypeOK
<1>2. BatchIsSubmitted'
  <2>1. \A i, j \in 1..n : q[i] = q[j] => i = j
    BY <1>a DEF Trail
  <2>2. DOMAIN batch' = 1..n /\ \A i \in 1..n : batch'[i].trail = q[i] /\ batch'[i].age = age[q[i]]
    BY <1>1, <1>a
  <2> QED BY <2>1, <2>2, <1>a DEF TypeOK, BatchIsSubmitted
<1>3. ReceiptIsChains'
  BY DEF TypeOK, ReceiptIsChains
<1>4. ThreadOwnsRow'
  BY DEF TypeOK, ThreadOwnsRow
<1>5. RowWasSent'
  BY DEF TypeOK, RowWasSent
<1>6. ReceiptBacksStatus'
  BY DEF TypeOK, ReceiptBacksStatus
<1>7. TimeoutNeverEarly'
  BY DEF TypeOK, TimeoutNeverEarly
<1>8. KarmaHasTx'
  BY DEF TypeOK, KarmaHasTx
<1> QED BY <1>c, <1>2, <1>3, <1>4, <1>5, <1>6, <1>7, <1>8

\* The node answers null, or with the receipt of the row asked about.
LEMMA PollAskInv ==
  ASSUME AnchorInv, PollAsk
  PROVE  AnchorInv'
<1> USE SizeAssumption DEF AnchorInv, PollAsk, rows, poller
<1>1. TypeOK'
  BY DEF TypeOK
<1>2. BatchIsSubmitted'
  BY DEF TypeOK, BatchIsSubmitted
<1>3. ReceiptIsChains'
  BY DEF TypeOK, ReceiptIsChains
<1>4. ThreadOwnsRow'
  BY DEF TypeOK, ThreadOwnsRow
<1>5. RowWasSent'
  BY DEF TypeOK, RowWasSent
<1>6. ReceiptBacksStatus'
  BY DEF TypeOK, ReceiptBacksStatus
<1>7. TimeoutNeverEarly'
  BY DEF TypeOK, TimeoutNeverEarly
<1>8. KarmaHasTx'
  BY DEF TypeOK, KarmaHasTx
<1> QED BY <1>1, <1>2, <1>3, <1>4, <1>5, <1>6, <1>7, <1>8

\* A failed request only drops its row from the round.
LEMMA PollErrorInv ==
  ASSUME AnchorInv, PollError
  PROVE  AnchorInv'
<1> USE SizeAssumption DEF AnchorInv, PollError, rows, poller
<1>1. TypeOK'
  BY TailIsSubmitted DEF TypeOK
<1>2. BatchIsSubmitted'
  BY TailIsSubmitted DEF TypeOK, BatchIsSubmitted
<1>3. ReceiptIsChains'
  BY DEF TypeOK, ReceiptIsChains
<1>4. ThreadOwnsRow'
  BY DEF TypeOK, ThreadOwnsRow
<1>5. RowWasSent'
  BY DEF TypeOK, RowWasSent
<1>6. ReceiptBacksStatus'
  BY DEF TypeOK, ReceiptBacksStatus
<1>7. TimeoutNeverEarly'
  BY DEF TypeOK, TimeoutNeverEarly
<1>8. KarmaHasTx'
  BY DEF TypeOK, KarmaHasTx
<1> QED BY <1>1, <1>2, <1>3, <1>4, <1>5, <1>6, <1>7, <1>8

\* The answer is applied to the row it is about: still submitted, and at least as old
\* as the round took it to be.
LEMMA PollApplyInv ==
  ASSUME AnchorInv, NEW t \in Trail, PollApply(t)
  PROVE  AnchorInv'
<1> USE SizeAssumption DEF AnchorInv, PollApply, rows, poller
<1>a. /\ status[t] = "submitted"
      /\ reason[t] = "null"
      /\ Head(batch).age <= age[t]
      /\ Head(batch).age \in Nat /\ age[t] \in Nat
      /\ receipt \in {"null", "0x1", "0x0"}
      /\ receipt # "null" => chain[t] = receipt
  BY BatchRows DEF TypeOK, BatchIsSubmitted, ReceiptIsChains, RowWasSent
<1>b. \/ /\ receipt = "0x1"
         /\ status' = [status EXCEPT ![t] = "anchored"]
         /\ reason' = reason
         /\ notified' = notified \cup {t}
      \/ /\ receipt = "0x0"
         /\ status' = [status EXCEPT ![t] = "failed"]
         /\ reason' = [reason EXCEPT ![t] = "reverted"]
         /\ notified' = notified
      \/ /\ receipt = "null" /\ age[t] > TTL
         /\ status' = [status EXCEPT ![t] = "failed"]
         /\ reason' = [reason EXCEPT ![t] = "non_arrival_timeout"]
         /\ notified' = notified
      \/ /\ receipt = "null"
         /\ status' = status
         /\ reason' = reason
         /\ notified' = notified
  <2> DEFINE action == Classify(receipt, Head(batch).age)
  <2>1. \/ receipt = "0x1" /\ action = "confirm" /\ FailReason(action) = "null"
        \/ receipt = "0x0" /\ action = "fail_revert" /\ FailReason(action) = "reverted"
        \/ receipt = "null" /\ age[t] > TTL /\ action = "fail_timeout"
             /\ FailReason(action) = "non_arrival_timeout"
        \/ receipt = "null" /\ action = "wait" /\ FailReason(action) = "null"
    BY <1>a DEF Classify, FailReason
  <2>2. /\ status' = [status EXCEPT ![t] =
              IF action = "confirm" THEN "anchored" ELSE IF FailReason(action) # "null" THEN "failed" ELSE @]
        /\ reason' = [reason EXCEPT ![t] =
              IF FailReason(action) # "null" THEN FailReason(action) ELSE @]
        /\ notified' = IF action = "confirm" THEN notified \cup {t} ELSE notified
    OBVIOUS
  <2>3. [status EXCEPT ![t] = status[t]] = status /\ [reason EXCEPT ![t] = reason[t]] = reason
    BY DEF TypeOK
  <2> HIDE DEF action
  <2> QED BY <2>1, <2>2, <2>3
<1>1. TypeOK'
  BY <1>b, TailIsSubmitted DEF TypeOK
<1>2. BatchIsSubmitted'
  <2>1. \A u \in Trail : u # t => status'[u] = status[u]
    BY <1>b DEF TypeOK
  <2>2. batch[1].trail = t
    BY BatchRows
  <2> QED BY <2>1, <2>2, TailIsSubmitted DEF BatchIsSubmitted
<1>3. ReceiptIsChains'
  BY DEF TypeOK, ReceiptIsChains
<1>4. ThreadOwnsRow'
  BY <1>a, <1>b DEF TypeOK, ThreadOwnsRow
<1>5. RowWasSent'
  BY <1>a, <1>b DEF TypeOK, RowWasSent
<1>6. ReceiptBacksStatus'
  BY <1>a, <1>b DEF TypeOK, ReceiptBacksStatus
<1>7. TimeoutNeverEarly'
  BY <1>a, <1>b DEF TypeOK, TimeoutNeverEarly
<1>8. KarmaHasTx'
  BY <1>a, <1>b DEF TypeOK, KarmaHasTx
<1> QED BY <1>1, <1>2, <1>3, <1>4, <1>5, <1>6, <1>7, <1>8

\* Ages only grow.
LEMMA TickInv ==
  ASSUME AnchorInv, Tick
  PROVE  AnchorInv'
<1> USE SizeAssumption DEF AnchorInv, Tick, rows, poller
<1>1. TypeOK'
  BY DEF TypeOK
<1>2. BatchIsSubmitted'
  <2>1. \A t \in Trail : age'[t] >= age[t] /\ age[t] \in Nat /\ age'[t] \in Nat
    BY DEF TypeOK
  <2> QED BY <2>1, BatchRows DEF BatchIsSubmitted
<1>3. ReceiptIsChains'
  BY DEF TypeOK, ReceiptIsChains
<1>4. ThreadOwnsRow'
  BY DEF TypeOK, ThreadOwnsRow
<1>5. RowWasSent'
  BY DEF TypeOK, RowWasSent
<1>6. ReceiptBacksStatus'
  BY DEF TypeOK, ReceiptBacksStatus
<1>7. TimeoutNeverEarly'
  BY DEF TypeOK, TimeoutNeverEarly
<1>8. KarmaHasTx'
  BY DEF TypeOK, KarmaHasTx
<1> QED BY <1>1, <1>2, <1>3, <1>4, <1>5, <1>6, <1>7, <1>8

\* A restart forgets threads and the round, and no row.
LEMMA RestartInv ==
  ASSUME AnchorInv, Restart
  PROVE  AnchorInv'
<1> USE SizeAssumption DEF AnchorInv, Restart, rows, poller
<1>1. TypeOK'
  BY DEF TypeOK
<1>2. BatchIsSubmitted'
  BY DEF TypeOK, BatchIsSubmitted
<1>3. ReceiptIsChains'
  BY DEF TypeOK, ReceiptIsChains
<1>4. ThreadOwnsRow'
  BY DEF TypeOK, ThreadOwnsRow
<1>5. RowWasSent'
  BY DEF TypeOK, RowWasSent
<1>6. ReceiptBacksStatus'
  BY DEF TypeOK, ReceiptBacksStatus
<1>7. TimeoutNeverEarly'
  BY DEF TypeOK, TimeoutNeverEarly
<1>8. KarmaHasTx'
  BY DEF TypeOK, KarmaHasTx
<1> QED BY <1>1, <1>2, <1>3, <1>4, <1>5, <1>6, <1>7, <1>8

\* Every step of the specification preserves the invariant.
LEMMA NextInv == AnchorInv /\ [Next]_vars => AnchorInv'
<1> SUFFICES ASSUME AnchorInv, [Next]_vars
             PROVE  AnchorInv'
  OBVIOUS
<1>1. ASSUME NEW t \in Trail,
             \/ RecordTrail(t) \/ Broadcast(t) \/ StoreTxHash(t)
             \/ AwardKarma(t) \/ NotifySubmitted(t) \/ ThreadRaises(t)
      PROVE  AnchorInv'
  BY <1>1, RecordTrailInv, BroadcastInv, StoreTxHashInv, AwardKarmaInv, NotifySubmittedInv,
     ThreadRaisesInv
<1>2. ASSUME NEW t \in Trail, Include(t, "0x1") \/ Include(t, "0x0")
      PROVE  AnchorInv'
  BY <1>2, IncludeInv
<1>3. ASSUME NEW t \in Trail, PollApply(t)
      PROVE  AnchorInv'
  BY <1>3, PollApplyInv
<1>4. CASE PollStart \/ PollAsk \/ PollError
  BY <1>4, PollStartInv, PollAskInv, PollErrorInv
<1>5. CASE Tick \/ Restart
  BY <1>5, TickInv, RestartInv
<1>6. CASE UNCHANGED vars
  BY <1>6 DEF vars, AnchorInv, TypeOK, BatchIsSubmitted, ReceiptIsChains, ThreadOwnsRow,
     RowWasSent, ReceiptBacksStatus, TimeoutNeverEarly, KarmaHasTx
<1> QED BY <1>1, <1>2, <1>3, <1>4, <1>5, <1>6 DEF Next

-----------------------------------------------------------------------------
(* The theorems.                                                            *)

\* The inductive invariant of threads, chain and poller holds in every state.
THEOREM Invariance == Spec => []AnchorInv
BY InitInv, NextInv, PTL DEF Spec

\* What _anchor_confirmation_poller wrote on a row is what the chain says of its
\* transaction, however late the answer was applied.
THEOREM ReceiptBacksStatusHolds == Spec => []ReceiptBacksStatus
<1>1. AnchorInv => ReceiptBacksStatus
  BY DEF AnchorInv
<1> QED BY <1>1, Invariance, PTL

\* _classify_anchor_receipt never times a row out inside its freshness window,
\* although the round's now is read before the answers arrive.
THEOREM TimeoutNeverEarlyHolds == Spec => []TimeoutNeverEarly
<1>1. AnchorInv => TimeoutNeverEarly
  BY DEF AnchorInv
<1> QED BY <1>1, Invariance, PTL

\* _do_anchor awards TRAIL_KARMA_DELTA only for a transaction that was sent and
\* whose hash is on the row.
THEOREM KarmaHasTxHolds == Spec => []KarmaHasTx
<1>1. AnchorInv => KarmaHasTx
  BY DEF AnchorInv
<1> QED BY <1>1, Invariance, PTL

\* confirm_trail_anchor and fail_trail_anchor update the row whatever it says, and
\* set_trail_tx_hash sets it back to submitted: none of them ever meets a row
\* that is anchored or failed.
LEMMA TerminalStep ==
  ASSUME AnchorInv, [Next]_vars, NEW u \in Trail, status[u] \in {"anchored", "failed"}
  PROVE  status'[u] = status[u] /\ reason'[u] = reason[u]
<1> USE DEF AnchorInv, TypeOK, rows
<1>1. ASSUME NEW t \in Trail, RecordTrail(t)
      PROVE  status'[u] = status[u] /\ reason'[u] = reason[u]
  BY <1>1 DEF RecordTrail
<1>2. ASSUME NEW t \in Trail, StoreTxHash(t)
      PROVE  status'[u] = status[u] /\ reason'[u] = reason[u]
  BY <1>2 DEF StoreTxHash, ThreadOwnsRow
<1>3. ASSUME NEW t \in Trail, PollApply(t)
      PROVE  status'[u] = status[u] /\ reason'[u] = reason[u]
  <2>1. status[t] = "submitted"
    BY <1>3, BatchRows DEF PollApply, BatchIsSubmitted
  <2> QED BY <1>3, <2>1 DEF PollApply
<1>4. ASSUME NEW t \in Trail,
             \/ Broadcast(t) \/ AwardKarma(t) \/ NotifySubmitted(t) \/ ThreadRaises(t)
             \/ Include(t, "0x1") \/ Include(t, "0x0")
      PROVE  status'[u] = status[u] /\ reason'[u] = reason[u]
  BY <1>4 DEF Broadcast, AwardKarma, NotifySubmitted, ThreadRaises, Include
<1>5. CASE PollStart \/ PollAsk \/ PollError \/ Tick \/ Restart \/ UNCHANGED vars
  BY <1>5 DEF PollStart, PollAsk, PollError, Tick, Restart, vars
<1> QED BY <1>1, <1>2, <1>3, <1>4, <1>5 DEF Next

\* An anchored or failed row keeps its status and its reason.
THEOREM TerminalIsFinalHolds == Spec => TerminalIsFinal
<1>1. AnchorInv /\ [Next]_vars =>
        [\A t \in Trail : status[t] \in {"anchored", "failed"} =>
           status'[t] = status[t] /\ reason'[t] = reason[t]]_vars
  BY TerminalStep
<1> QED BY <1>1, Invariance, PTL DEF Spec, TerminalIsFinal

=============================================================================
