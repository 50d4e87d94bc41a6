--------------------------- MODULE AnchorLifecycle ---------------------------
(***************************************************************************)
(* On-chain anchoring of trails: the daemon thread /nexus/trail starts for  *)
(* each trail (_do_anchor), the chain, and _anchor_confirmation_poller.      *)
(*                                                                          *)
(* Time is the age of each transaction since anchor_submitted_at, in units   *)
(* that make ANCHOR_FRESHNESS_TTL_SECONDS equal TTL; ages stop counting just *)
(* past it, where nothing can tell them apart.                               *)
(***************************************************************************)
EXTENDS Naturals, Sequences, FiniteSets

CONSTANTS
  N,      \* trails recorded through /nexus/trail, numbered by timestamp
  LIMIT,  \* trails per round of the poller
  TTL     \* freshness window

ASSUME SizeAssumption == N \in Nat /\ LIMIT \in Nat \ {0} /\ TTL \in Nat

Trail == 1..N

VARIABLES
  status,    \* Trail -> anchor_status ("none": no row yet, "null": SQL NULL)
  reason,    \* Trail -> anchor_fail_reason
  age,       \* Trail -> time since anchor_submitted_at
  thread,    \* Trail -> where its _do_anchor thread stands
  chain,     \* Trail -> what became of its markUsed transaction
  batch,     \* rows the poller has still to ask about, with their age at its now
  receipt,   \* the node's answer for the head of batch, "none" before it is asked
  karma,     \* trails whose agent was given TRAIL_KARMA_DELTA
  notified   \* trails whose notify_webhook has been called

vars == <<status, reason, age, thread, chain, batch, receipt, karma, notified>>
rows == <<status, reason, age>>
poller == <<batch, receipt>>

Init ==
  /\ status = [t \in Trail |-> "none"]
  /\ reason = [t \in Trail |-> "null"]
  /\ age = [t \in Trail |-> 0]
  /\ thread = [t \in Trail |-> "off"]
  /\ chain = [t \in Trail |-> "unsent"]
  /\ batch = <<>>
  /\ receipt = "none"
  /\ karma = {}
  /\ notified = {}

-----------------------------------------------------------------------------
(* /nexus/trail and its thread.                                             *)

RecordTrail(t) ==
  /\ status[t] = "none"
  /\ \A u \in Trail : u < t => status[u] # "none"
  /\ status' = [status EXCEPT ![t] = "null"]
  /\ thread' = [thread EXCEPT ![t] = "broadcast"]
  /\ UNCHANGED <<reason, age, chain, poller, karma, notified>>

\* Mutant of Broadcast: the thread goes on without "if tx".
BroadcastUnchecked(t) ==
  /\ thread[t] = "broadcast"
  /\ chain' \in {chain, [chain EXCEPT ![t] = "mempool"]}
  /\ thread' = [thread EXCEPT ![t] = "store"]
  /\ UNCHANGED <<rows, poller, karma, notified>>

\* anchor_action_ref: a hash, or None when building, signing or sending raised;
\* a send that raised may still have reached the mempool.
Broadcast(t) ==
  /\ thread[t] = "broadcast"
  /\ \/ /\ chain' = [chain EXCEPT ![t] = "mempool"]
        /\ thread' = [thread EXCEPT ![t] = "store"]
     \/ /\ chain' \in {chain, [chain EXCEPT ![t] = "mempool"]}
        /\ thread' = [thread EXCEPT ![t] = "off"]
  /\ UNCHANGED <<rows, poller, karma, notified>>

\* set_trail_tx_hash.
StoreTxHash(t) ==
  /\ thread[t] = "store"
  /\ status' = [status EXCEPT ![t] = "submitted"]
  /\ age' = [age EXCEPT ![t] = 0]
  /\ thread' = [thread EXCEPT ![t] = "karma"]
  /\ UNCHANGED <<reason, chain, poller, karma, notified>>

\* upsert_wisdom with TRAIL_KARMA_DELTA.
AwardKarma(t) ==
  /\ thread[t] = "karma"
  /\ karma' = karma \cup {t}
  /\ thread' = [thread EXCEPT ![t] = "notify"]
  /\ UNCHANGED <<rows, chain, poller, notified>>

NotifySubmitted(t) ==
  /\ thread[t] = "notify"
  /\ notified' = notified \cup {t}
  /\ thread' = [thread EXCEPT ![t] = "off"]
  /\ UNCHANGED <<rows, chain, poller, karma>>

\* Nothing in _do_anchor catches: a "database is locked" ends the thread there.
ThreadRaises(t) ==
  /\ thread[t] \in {"store", "karma", "notify"}
  /\ thread' = [thread EXCEPT ![t] = "off"]
  /\ UNCHANGED <<rows, chain, poller, karma, notified>>

\* A block includes the transaction; nothing forces one to.
Include(t, result) ==
  /\ chain[t] = "mempool"
  /\ chain' = [chain EXCEPT ![t] = result]
  /\ UNCHANGED <<rows, thread, poller, karma, notified>>

-----------------------------------------------------------------------------
(* The poller.                                                              *)

\* Mutants of Classify: any receipt confirms; >= for >; no timeout.
ClassifyAnyReceipt(answer, old) ==
  CASE answer \in {"0x1", "0x0"} -> "confirm"
    [] answer = "null" /\ old > TTL -> "fail_timeout"
    [] OTHER -> "wait"
ClassifyEarly(answer, old) ==
  CASE answer = "0x1" -> "confirm"
    [] answer = "0x0" -> "fail_revert"
    [] answer = "null" /\ old >= TTL -> "fail_timeout"
    [] OTHER -> "wait"
ClassifyPatient(answer, old) ==
  CASE answer = "0x1" -> "confirm"
    [] answer = "0x0" -> "fail_revert"
    [] OTHER -> "wait"

\* _classify_anchor_receipt, on the receipt's status and the row's age.
Classify(answer, old) ==
  CASE answer = "0x1" -> "confirm"
    [] answer = "0x0" -> "fail_revert"
    [] answer = "null" /\ old > TTL -> "fail_timeout"
    [] OTHER -> "wait"

\* Mutant of Submitted: every row with a tx_hash is asked about again.
EverSubmitted == {t \in Trail : status[t] \notin {"none", "null"}}

\* get_submitted_trails: the LIMIT newest rows that wait for a receipt, newest first.
Submitted == {t \in Trail : status[t] = "submitted"}
Newest == {t \in Submitted : Cardinality({u \in Submitted : u > t}) < LIMIT}
NewestFirst ==
  {q \in [1..Cardinality(Newest) -> Newest] : \A i, j \in DOMAIN q : i < j => q[i] > q[j]}

PollStart ==
  /\ batch = <<>>
  /\ Submitted # {}
  /\ \E q \in NewestFirst :
       batch' = [i \in DOMAIN q |-> [trail |-> q[i], age |-> age[q[i]]]]
  /\ UNCHANGED <<rows, thread, chain, receipt, karma, notified>>

\* eth_getTransactionReceipt: the receipt, or null from a node that lags.
PollAsk ==
  /\ batch # <<>> /\ receipt = "none"
  /\ receipt' \in {"null"} \cup ({chain[Head(batch).trail]} \cap {"0x1", "0x0"})
  /\ UNCHANGED <<rows, thread, chain, batch, karma, notified>>

\* The request or its answer raised: this row waits for the next round.
PollError ==
  /\ batch # <<>> /\ receipt = "none"
  /\ batch' = Tail(batch)
  /\ UNCHANGED <<rows, thread, chain, receipt, karma, notified>>

\* fail_trail_anchor's reason; "null" where it is not called.
FailReason(action) ==
  CASE action = "fail_revert" -> "reverted"
    [] action = "fail_timeout" -> "non_arrival_timeout"
    [] OTHER -> "null"

\* The answer arrives and the row is updated, whatever it says by now.
PollApply(t) ==
  /\ batch # <<>> /\ receipt # "none"
  /\ Head(batch).trail = t
  /\ LET action == Classify(receipt, Head(batch).age)
     IN  /\ status' = [status EXCEPT ![t] =
              IF action = "confirm" THEN "anchored" ELSE IF FailReason(action) # "null" THEN "failed" ELSE @]
         /\ reason' = [reason EXCEPT ![t] =
              IF FailReason(action) # "null" THEN FailReason(action) ELSE @]
         /\ notified' = IF action = "confirm" THEN notified \cup {t} ELSE notified
  /\ batch' = Tail(batch)
  /\ receipt' = "none"
  /\ UNCHANGED <<age, thread, chain, karma>>

-----------------------------------------------------------------------------
Tick ==
  /\ \E t \in Trail : age[t] <= TTL
  /\ age' = [t \in Trail |-> IF age[t] <= TTL THEN age[t] + 1 ELSE age[t]]
  /\ UNCHANGED <<status, reason, thread, chain, poller, karma, notified>>

\* The process stops: daemon threads and the poller's round are gone.
Restart ==
  /\ thread' = [t \in Trail |-> "off"]
  /\ batch' = <<>>
  /\ receipt' = "none"
  /\ UNCHANGED <<rows, chain, karma, notified>>

Next ==
  \/ \E t \in Trail :
       \/ RecordTrail(t) \/ Broadcast(t) \/ StoreTxHash(t)
       \/ AwardKarma(t) \/ NotifySubmitted(t) \/ ThreadRaises(t)
       \/ Include(t, "0x1") \/ Include(t, "0x0")
       \/ PollApply(t)
  \/ PollStart \/ PollAsk \/ PollError
  \/ Tick
  \/ Restart

Spec == Init /\ [][Next]_vars

\* Time passes, the poller's loop runs for ever (asyncio.sleep, and every
\* exception is caught), and the RPC node answers about each trail again and
\* again although any single request may fail or be cut off by a restart.
FairSpec ==
  /\ Spec
  /\ WF_vars(Tick)
  /\ SF_vars(PollStart)
  /\ SF_vars(PollAsk)
  /\ \A t \in Trail : SF_vars(PollApply(t))
  /\ WF_vars(PollError)

-----------------------------------------------------------------------------
(* Properties.                                                              *)

\* guarantee-model.md, "A COMMITTED record without a corresponding
\* post-execution receipt cannot exist", and its twin for reverted: what the
\* poller wrote is what the chain says, however late the answer was applied.
ReceiptBacksStatus ==
  \A t \in Trail :
    /\ status[t] = "anchored" => chain[t] = "0x1"
    /\ reason[t] = "reverted" => chain[t] = "0x0"

\* anchored and failed are terminal although confirm_trail_anchor and
\* fail_trail_anchor update the row without looking at its status.
TerminalIsFinal ==
  [][\A t \in Trail : status[t] \in {"anchored", "failed"} =>
       status'[t] = status[t] /\ reason'[t] = reason[t]]_vars

\* A timeout is never early: the whole freshness window has passed for the row,
\* although now is read once per round and the answers come later.
TimeoutNeverEarly == \A t \in Trail : reason[t] = "non_arrival_timeout" => age[t] > TTL

\* No karma without a transaction that left for the chain and whose hash is on
\* the row ("tx_hash != null"), whichever step the thread died at.
KarmaHasTx == \A t \in karma : chain[t] # "unsent" /\ status[t] \notin {"none", "null"}

\* No trail stays PENDING for ever: each submitted one is anchored or failed
\* even if its transaction is never mined and rounds are cut off.
SubmittedResolves ==
  \A t \in Trail : (status[t] = "submitted") ~> (status[t] \in {"anchored", "failed"})

-----------------------------------------------------------------------------
(* The inductive invariant.                                                 *)

TypeOK ==
  /\ status \in [Trail -> {"none", "null", "submitted", "anchored", "failed"}]
  /\ reason \in [Trail -> {"null", "reverted", "non_arrival_timeout"}]
  /\ age \in [Trail -> 0..(TTL + 1)]
  /\ thread \in [Trail -> {"off", "broadcast", "store", "karma", "notify"}]
  /\ chain \in [Trail -> {"unsent", "mempool", "0x1", "0x0"}]
  /\ batch \in Seq([trail : Trail, age : 0..(TTL + 1)])
  /\ receipt \in {"none", "null", "0x1", "0x0"}
  /\ karma \subseteq Trail
  /\ notified \subseteq Trail

\* Every row of a round is still submitted when its answer arrives, is asked
\* about once, and is at least as old as the round believes.
BatchIsSubmitted ==
  \A i \in DOMAIN batch :
    /\ status[batch[i].trail] = "submitted"
    /\ batch[i].age <= age[batch[i].trail]
    /\ \A j \in DOMAIN batch : batch[i].trail = batch[j].trail => i = j

\* A receipt in the poller's hands is the chain's word on the row it asked about.
ReceiptIsChains ==
  receipt # "none" =>
    /\ batch # <<>>
    /\ receipt # "null" => chain[batch[1].trail] = receipt

\* A thread that has yet to store its hash works on a row no poller has seen.
ThreadOwnsRow ==
  \A t \in Trail :
    /\ thread[t] \in {"broadcast", "store"} => status[t] = "null"
    /\ thread[t] = "store" => chain[t] # "unsent"
    /\ thread[t] \in {"karma", "notify"} => status[t] \notin {"none", "null"}

\* A hash is on the row only of a transaction that was sent; only failed rows have a reason.
RowWasSent ==
  \A t \in Trail :
    /\ status[t] \notin {"none", "null"} => chain[t] # "unsent"
    /\ reason[t] # "null" <=> status[t] = "failed"

AnchorInv ==
  /\ TypeOK
  /\ BatchIsSubmitted
  /\ ReceiptIsChains
  /\ ThreadOwnsRow
  /\ RowWasSent
  /\ ReceiptBacksStatus
  /\ TimeoutNeverEarly
  /\ KarmaHasTx

=============================================================================
