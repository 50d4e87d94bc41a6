# Verification of argentum-core

TLA+ models of the parts of argentum-core in which several requests, threads,
processes or payments meet over the same rows, the TLC runs that check them on
small instances, and TLAPS proofs of the central results for every instance.

## 1. The system

argentum-core is one Python service (`argentum.py`, FastAPI and FastMCP) over two
SQLite databases, `argentum.db` and `trails.db` (`mycelium_trails.py`).

| Component | State | Operations | Talks to |
|---|---|---|---|
| Karma economy | `actions`, `attestations`, `wisdom`, `reports` | `submit_action`, `attest_action` (REST and MCP), `payment_webhook`, `report_action`, `confirm_slash`, trail awards | marks service (awaited), phoenixd |
| Disputes | `disputes`, `actions.status` | `open_dispute`, `kleros_ruling` | Kleros relayer |
| Idempotency guard | `guard_records` on disk, local variables | `guard`, `reconcile` | the guarded call, `EffectStore` |
| PAYG credits | `payg_accounts`, `payg_usdc_intents`, `external_trail_nonces` (shared with the providers), `seen_tx` in memory | account creation, rotation, Lightning and USDC top-ups, webhook, `_usdc_poller` | phoenixd, Arbitrum node |
| Trail quota | `trails` (counted), `credit_trails` | `/nexus/trail`: look up, consume, record, refund | PAYG credits, anchoring |
| Anchoring | `trails.anchor_status`, `tx_hash`, `anchor_submitted_at` | `_do_anchor` thread, `_anchor_confirmation_poller` | Arbitrum node, karma economy, webhooks |
| Agent signatures | `NonceCache` in memory | `verify_request` | marks service |
| Trail marketplace | `trails`, `trail_executions`, the author's `wisdom` | register, execute, rate (REST and MCP) | agent signatures |
| Providers | `payg_accounts.conformance_source`, `external_trail_nonces` (shared with the Lightning webhook), `trails`, `billing_events` | `/external/trail`, billing in `/nexus/trail`, self-certification, the admin's switch, rotation | GitHub |
| Negotiation references | `trails.negotiation_ref` and its status | `/webhook/docuseal`, `/nexus/trail` | DocuSeal, Pioneer |
| Trail graph | `trails.parent_trail_id`, `delegation_ref` | `record_trail`, `verify_chain`, `get_trail_graph` | - |
| Trail heads, Merkle trees | one hash chain per agent, a root per period | `append_entry`, `seal_period`, `verify_trail` | a consumer with a checkpoint |
| action_ref, anchor plugins | a receipt; the rows of the service | `verify`, `anchor`, the derivations of `action_ref` | `/trails/verify`, `/trails/{id}` |
| Delegation-chain verifiers | `SeenRegistry` | `evaluate_vector` and its copies | - |
| Execution-join verifier | none | `verify_vector`, the reason of a FAIL vector | - |
| Settlement retry safety | `PendingSettlementStore`, the backend's ledger | `execute_payment` in a retry loop | a facilitator that fails |
| Unguarded retry, idempotency-ref | `EffectStore`, the records or admissions of a guard | a tool call under re-dispatch | crewAI, the model |
| Pages, badges, notifications, bridge | none | read-only queries, SMTP, POST | - |

### What is concurrent

`argentum.py` runs three kinds of threads in one process. The async REST handlers
and both pollers share one event loop and lose it only at an `await`. The MCP
tools run in the main thread. Plain `def` REST handlers run in the server's
threadpool. `argentum.db` connections open a transaction at the first write and
commit at the end, so a handler is "reads in autocommit, then one transaction".
`trails.db` connections are in autocommit (`isolation_level=None`), so *every
statement* is its own transaction and the process may stop between any two. The
idempotency guard is used by several processes over one file.

### What is hard, and the property that makes each part correct

* Karma: checks made before an `await` or in another thread are stale at the
  write. No award lost or invented; nobody paid without support; the two karma
  columns stay ordered; a dispute is always there for its ruling.
* Guard: a crash or a time-out anywhere. The effect happens at most once and all
  answers agree on it.
* Credits: redelivery, restart and key rotation between two statements, and one table of
  nonces written by two endpoints. A credit pays for one trail; an acknowledged payment is
  on disk, unless its hash was spent at `/external/trail`; an intent is credited once.
* Anchors: receipts, time-outs and crashes race. What a row says is what the chain
  says, and it stays.
* Signatures: freshness is tested before the key lookup, single use after it, on two
  readings of the clock. A signature serves once, but for the cases named.
* Marketplace: raters in threads. Counters, averages and karma agree with the rows.
* Providers: a request of several autocommit statements, an account that changes
  under it. One record, one payment, one bill.
* DocuSeal: redelivery, and a service that worked but did not answer. Each promised
  trail exists, once if it can be known.
* Verifiers: whatever they are shown, and in whatever order, a positive verdict means
  what its name says, and a negative one is not given to honest evidence.
* Retry examples: an answer lost after the effect, a retry with other arguments, a
  restart. One effect per key, and an answer that is about the call.

`PROJECT.json` lists each hazard at its line with the properties that cover it.

## 2. Modules

| Module | Models | Actions |
|---|---|---|
| `AtMostOnce` | what the guard promises, abstractly | Claim, Happen, Publish |
| `PrepaidCredits` | what prepaid trails promise, abstractly | PayInvoice, PayDeposit, CreditInvoice, CreditDeposit, TakeName, Acknowledge, Take, Keep, GiveBack, Free, Renew, Crash |
| `IdempotencyGuard` | `durable_idempotency_guard.py`, `effect_store.py` | one per SQL statement or external call of `guard` and `reconcile`, LateEffect, Restart |
| `KarmaEconomy` | `argentum.py`: actions, attestations, slashing, disputes | `XCheck` (reads and refusals) and `XCommit` (the transaction) per handler |
| `PaygCredits` | accounts, top-ups and the quota in `argentum.py`, `mycelium_trails.py` | one per autocommit statement of a handler |
| `AnchorLifecycle` | `_do_anchor`, `arb_pay.py`, the confirmation poller | one per step of the thread and of the poller |
| `AgentSigning` | `agent_signing.py` | the check before the key lookup, the check after it, clock, restart |
| `Marketplace` | the `/trails` handlers and MCP tools; extends `AgentSigning` | one per async handler, RateCheck and RateCommit |
| `ProviderTrails` | `/external/trail`, billing, self-certification | one per autocommit statement or await |
| `NegotiationRefs` | the DocuSeal webhook, the pair in `/nexus/trail` | one per await of a delivery |
| `ServiceHandlers` | the three above side by side | - |
| `Merkle` | `merkle.py` | operators |
| `TrailHead` | `trail_head.py`, `trail-head-window-ref`; extends `Merkle` | AppendEntry, OmitEntry, SealPeriod |
| `TrailGraph` | `verify_chain`, `get_trail_graph` | one per query of a reader, one per row recorded or edited |
| `DelegationChain` | `delegation-chain-ref` and its sub-examples | one per submission or case |
| `ExecutionJoin` | `execution-join-ref` | Author, EditVector, MapDispatch, CaseEVector |
| `RetrySafety` | `settlement-retry-safety` | one per call to the backend or the store |
| `ToolRetry` | `crewai-unguarded-retry`, `idempotency-ref-v1.1` | Propose, ToolUse, ReconcileRecord, NewProcess |
| `EvidenceAnchor` | `anchor.py`, `action_ref.py`, `mycelium_evidence_anchor.py` | one per row written, Verify |
| `EvidenceVerifiers` | the eight above side by side | - |
| `*_proofs` | the TLAPS proofs of the module named; `ServiceHandlers_proofs` and `EvidenceVerifiers_proofs` those of all modules the two compose, except that `LogsAndRetries_proofs` holds those about `Merkle`, `TrailHead` and `ToolRetry` | - |
| `SumLemmas` | sums over finite sets, for the proofs | - |
| `MC*` | instances for TLC | - |

**IdempotencyGuard.** `records` is the `guard_records` table, `effects` the effect
store, `pc`/`ref`/`got` a worker's position and local variables. `_read` and the
return taken on it are one step because nothing shared is touched between them;
`_reserve`, the guarded call, `_write` and the two reads of `reconcile` are steps
of their own. A call that raised, or whose process died, increments `late` or
not: the guard cannot know whether it will land. `events` collects every answer
ever given, so that agreement is about answers and not about the table only.

**KarmaEconomy.** A request sits in a slot of `req` between its Check and its
Commit. `ThreadFree` says when another handler may run in between: on the loop and
on the MCP thread only if no other handler of that thread is past its checks
(`attest_action` gives the loop up in phase "marks"), in the pool always. Weights
are in hundredths and `total_karma_real` in tenths, so that the code's arithmetic
is exact. `awards` and `trailKarma` are history variables. Whether a signature
verified, whether the marks service found a mark and what a ruling says are free
choices. `Abandon` is every way a handler ends before its transaction.

**PaygCredits.** An api_key is an account and a generation, so a rotated key is a
key no row has. `loop` is the one handler on the event loop, with its local
variables; creation, rotation and USDC intents run in the pool at any moment.
`Restart` clears `loop` and `seen`. The amounts of a transfer match an intent when
they buy the same number of trails (the tolerance is far below the price of one).
`external_trail_nonces` is two sets: `nonces`, the payment hashes the webhook recorded, and
`claimed`, those that came to `/external/trail` as an `action_ref`, which may be any 64 hex
digits (`ExternalTrail`). `HasExternalNonce` reads both, as the webhook does. A payment in
`Unhashed` is one whose notification has no `paymentHash`: it is neither looked up nor
recorded (`AlreadyProcessed`, `RecordNonce`), and every delivery credits it.
`PrepaidCredits` is the same service with no statements in it: an invoice or a deposit is
paid, credited and acknowledged in one step each, and one credit at a time is held by a
trail. An invoice has a name, which someone may use for something else (`TakeName`); then
it may be acknowledged and never credited. One without a name is credited at every report.
`Prepaid` maps the rows to it: a paid invoice and a fulfilled intent are orders, and
the credit held is the api_key in the hands of the handler between `consume_payg_credit`
and the end of `record_trail` or of the refund.

**AnchorLifecycle.** Trails are numbered by timestamp. `age` counts from
`anchor_submitted_at` in units that make the freshness window `TTL`. `batch` is
what the poller read at the start of its round together with its `now`; the answer
of the node (`receipt`) and the row update are separate steps because the request
is awaited. A transaction may be mined, revert, or never be mined.

**AgentSigning, Marketplace.** A signed payload is one element of `Sig`; `stamp` is what
its client wrote, ahead of the service's clock or behind it. `VerifyRequest` is the
freshness test, `CheckAndStore` runs after the key lookup and reads the clock again, as
`NonceCache` does. `Overflows` is the clearing of a full cache. The rating handlers are
plain functions: `RateCheck` sees `rating IS NULL`, `RateCommit` is the transaction.

**ProviderTrails.** One account; its api_key is a number that a rotation increases. `loop`
is the one handler on the event loop and its position between two statements; `stops`
says that the process died there. `usedRefs` is `external_trail_nonces`, of which `hashes`
were recorded by the Lightning webhook (`LightningNonce`): such an `action_ref` is refused
though it has no trail here. `blank` is a request whose service or operation is empty once
stripped: `record_trail` refuses it to anyone, and the karma is paid all the same. `granted`,
`blanks`, `excused` and `extPaid` are history, to say what a weight or a bill was due to.

**NegotiationRefs.** Deliveries of one submission, each at its own `await`. Pioneer may
serve a request and not answer; `silentPioneer` remembers it.

**TrailHead, Merkle.** A digest is its preimage, so equal digests are equal preimages; a
node is the *set* of its children, because `merkle.py` sorts them. `Presented` is what a
consumer may be shown: cut, thinned, reordered and edited copies of the log, logs chained
afresh, other agents' logs and mixtures; `Lowered` a checkpoint edited down to an earlier
entry. The vectors of `trail-head-window-ref` are built from every log reached.

**TrailGraph.** A row is its parent, what its `delegation_ref` says of the parent, and
whether it has a signature. The walker reads one row per step. The service only adds
rows; `Edit` is a change of the database from outside, without which `verify_chain` could
never meet a cycle.

**DelegationChain.** A chain artifact is a record of hops; a signature is what was signed
under which key; editing one without its signature is how the vectors are made. `registry`
is kept across submissions, `NewFile` starts a new one. The copies (frozen, leaf-screen,
7.5 layer, mid-hop, recovery) are evaluated on the same vectors.

**ExecutionJoin.** A record keeps, of envelope and preimages, what the invariants tell
apart; a vector is authored with the checks computed then, and may be edited afterwards.
`eff` says whether the call was rewritten and `dec` which reference the decision names, so
that a rewritten call with a decision of its own is a record like any other.

**RetrySafety, ToolRetry.** The backend fails in one of seven ways, with its own ledger; the
tool runs behind one of the guards of the example. `Attempt` is one dispatch, which may
return, raise before its effect or raise after it. The ledger of `idempotency-ref-v1.1` is a
fold over the calls proposed. Here one agent calls; concurrent workers on the durable
guard are `IdempotencyGuard`.

**EvidenceAnchor.** A row is an agent, an `action_ref`, a stored hash and whether it has a
transaction; `Verify` is one call of either plugin, `kept` the receipt it was given. That
`anchor()` never yields a receipt and that the derivations agree are facts about operators,
conjuncts of the property and not actions.

**ServiceHandlers, EvidenceVerifiers.** `focus` picks one component for the whole behaviour,
which gives the state space the sum of theirs and not the product; within a focus every
interleaving is explored. The components share no table, except that the marketplace has
two focuses: its handlers with signatures and a clock, and its handlers with raters and
unsigned requests (a rating's signature is checked and stored but decides nothing).

## 3. Runs

| Run | Asks | Instance |
|---|---|---|
| `idempotency_guard` | at most one effect, answers agree, refinement of `AtMostOnce` | 3 workers, 2 refs, 3 effects |
| `karma_requests` | karma ledger, support for every award; disputes, rulings and slashes, `KarmaInv` | 2 handlers in flight, 1 action, 2 genesis attestors; group *awards*: 3 entities, 2 days; group *disputes*: 2 entities, 2 disputes, 1 day |
| `payg_credits` | credits, free tier, intents and transfers, refinement of `PrepaidCredits`, `PaygInv`; a paid invoice is credited in the end | 2 accounts of one agent, 2 payments (1 without `paymentHash`), 2 intents, 2 transfers, 2 amounts, 1 rotation, 1 restart, in four groups |
| `anchor_lifecycle` | status against chain; every submitted trail resolves | 2 trails, rounds of 1 row, TTL 1 |
| `service_handlers` | replay, reputation, one payment and one bill, trails of a signed document | 2 signatures, cache of 1, clock to 3, TTL 1; 2 raters, 2 executions; 1 action_ref, blank or not, or a payment hash, 1 self-certification, 1 rotation, 2 nexus trails; 2 deliveries |
| `evidence_verifiers` | what a positive verdict means; one effect under retry | 3 entries, 2 periods, 2 action_refs; 3 trails, 1 edit; 5 rounds, 7 faults, 2 backends; 3 attempts, 3 proposals, 1 restart; 2 rows, 2 checks |

The other runs expect a violation and are described in section 6.

*Groups.* `MCKarmaRequests` and `MCPaygGroups` run a component for several groups of its
endpoints: `focus` picks one for the whole behaviour, which gives the state space the sum of
the groups. The groups of `karma_requests` are *awards* (attestations by REST, MCP and
webhook, trail karma) and *disputes* (attestations, reports, slashes, disputes, rulings).
Those of `payg_credits` are *trails* (one invoice for each account, credits consumed, kept
and refunded), *payments* (all invoices, deliveries and spent hashes, no trails), *deposits*
(two intents and two transfers) and *topups* (an invoice and a deposit of one account).
Rotation and the restart are in all of them. The proofs do not know of groups.

*Why the bounds are enough.* Every race in these parts is between two requests (or
a request and a restart), so two handlers in flight meet each of them; a third
worker is added to the guard because a reconciler can race a loser of the
reservation. Weights are chosen so that one signed attestor verifies alone, two
weak ones do not, and the webhook can tip the count. `MaxReal` lets trail karma
cross a multiple of ten, where the integer column is truncated. One day and two
limits smaller than the number of trails make both quotas bind. `LIMIT` 1 with two
trails makes the poller choose. Symmetry is used on workers, refs, handler slots,
signatures and raters only, which no property names. A cache of one with two signatures
overflows, and three ticks with TTL 1 let one signature be too old and another early.
Three entries give a window with an entry before it and one inside, an odd Merkle level
(three agents) and a tail past a checkpoint; three trails give a chain with a middle, and
one edit closes it into a cycle. Five rounds are `MAX_ROUNDS` of the harness and three
attempts crewAI's own limit. Two rows are a pair with one `action_ref`, and two checks
two verdicts that could contradict each other.

*Deadlock* is not checked: every instance is bounded and really stops (all actions
submitted, all payments made).

*Fairness.* `payg_credits`: a started handler runs on (weak fairness of `LoopStep`);
the event loop serves its queue in order and phoenixd redelivers until it is
answered, so a delivery is not passed over for ever by other handlers that take the
loop (strong fairness of `Deliver` while the payment is unacknowledged; same for
the poller). Nothing makes a payer pay, a key be rotated or the process restart.
`anchor_lifecycle`: time passes, the poller's `while True` catches every exception, and
the node answers about each trail again and again although single requests fail
(strong fairness of `PollAsk` and `PollApply`). No fairness on mining or on the
anchoring threads. The number of trails is finite: with an endless stream of newer
submissions the newest-first `LIMIT` could starve an old row, which is outside this
instance.

## 4. Proofs

All proofs are checked by tlapm for arbitrary constants that satisfy the named
assumptions of the modules.

**IdempotencyGuard_proofs.** `AtMostOneEffect` is not inductive: a worker about to
run the effect must know that nobody ran it. `IInv` adds that an absent record
means an untouched ref (`AbsentMeansUntouched`), that at most one worker per ref is
past its reservation (`OneDispatcher`), that while it runs nothing has happened and
nothing is late (`RunningHasNotHappened`, `AtMostOneLate`), and that an id in a local
variable or a committed record is that of the one effect (`HeldIdIsTheEffect`,
`CommittedNamesEffect`). One lemma per action shows that it is preserved. From it
follow `Invariance`, `AtMostOneEffectHolds`, `AnswersAgreeHolds`,
`ReservationAlwaysRecordedHolds`, the action property `CommittedIsFinalHolds`, and
`Refinement`: each step is a Claim, a Happen, a Publish or a stutter of
`AtMostOnce`. `MaxEffects` is only a natural number; no proof depends on its value.

**KarmaEconomy_proofs.** What a handler checked must still hold when it commits. For
disputes and rulings it does, because both live on the event loop: `LoopExclusive`
(one handler between its reads and its transaction), `DisputeInFlight` and
`RulingInFlight` (what they read is not stale), `ReportedNotPending` (reports and
slashes in flight are about actions that left pending) and the well-formedness of
requests make `KarmaInv` inductive. Proved: `Invariance`, `KarmaColumnsHolds`,
`OnePendingDisputeHolds`, `DisputedHasDisputeHolds`, `PendingNeverSlashedHolds`, and
`VerifiedHasReasonHolds`: an action is verified because its poster was paid or because of a
ruling, which pays nobody and leaves its verdict in the dispute row. The
proofs depend on the handlers being async functions without an `await` between
check and write; the mutant `AlwaysFree` shows that they fail otherwise.

**KarmaEconomy_proofs, the ledger.** `KarmaLedger` equates an entity's karma with a sum over actions,
attestations and trails. Together with `KarmaInv` and `PaidOnceSubmitted` (an action id
that was never submitted has no award) it is inductive; the work is to show that a commit
changes exactly one summand, or none. Proved: `KarmaLedger`, `PaidOnlyWithSupport`.
`ActionId` is finite.

**SumLemmas.** The books add up over accounts, payments, attestations and trails. The
induction theorems of the library take a predicate as a parameter, which the provers
cannot instantiate, so each induction is written as its own minimal counterexample: the
least natural number (`LeastNatural`) or the smallest subset of a finite set
(`MinimalSubset`) for which the claim fails. From these come the value of a sum when a
summand changes, when an element is added and when nothing changes. The proofs on
Merkle trees, ancestors and checkpoints treat recursive functions in the same way.

**AnchorLifecycle_proofs.** The poller acts on what it read at the start of its round.
`AnchorInv` says that this is still so: every row of a batch is still submitted, is asked
about once and has not become younger (`BatchIsSubmitted`), an answer received is the
chain's (`ReceiptIsChains`), and a thread that has not stored its hash works on a row no
poller has seen (`ThreadOwnsRow`, `RowWasSent`). `ReceiptBacksStatus`,
`TimeoutNeverEarly` and `KarmaHasTx` follow, and the action property `TerminalIsFinal`.
They hold for any number of trails, any `LIMIT` and any window.

**PaygCredits_proofs.** What was bought equals what is left and what was used only
between two statements, so `PaygInv` counts what the handler on the loop holds: the trail
it has taken a credit for, the payment it has credited and not recorded
(`NoncesFollowCredits`; a hash that `/external/trail` spent is no such nonce), the intent it has taken out of pending and not credited
(`RoundIsSound`), and the sum of all of it (`BooksInFlight`); `KeysIssued` says that no
key is from the future, so that a rotation in between is seen. Proved: `CreditsCoverTrails`,
`FreeTierBound`, `AckedUnlessClaimed`, `DuplicateNeedsRestart`, `UsdcCreditedOnce`,
`BooksBalance`. `Account` is finite; all other constants are as the module assumes.
`PrepaidRefinement` shows, from `PaygInv`, that the accounts, the webhook, the poller and
the trails implement `PrepaidCredits`: one lemma per action gives the abstract step it is, or
that it is a stutter (a look-up, a nonce, an open invoice, a poll that finds nothing). It
says more than the invariants one by one: a credit is taken only where there is one, is kept
by exactly one trail or given back to the key it came from, and is lost only to a restart or
a rotation; an invoice reported with its hash is credited at most once more than the process
restarted, and never after it was acknowledged or its hash was spent. What the abstract
service cannot promise is that an acknowledged invoice is credited: that holds only where
nobody took its name, and `payg_acked` shows the other case.

**ServiceHandlers_proofs.** `HandlersInv` is the conjunction of one invariant per
component. *Signatures*: a verified key is in the cache until it expires, unless the
cache overflowed or the service restarted (`CacheRemembers`), whence `ReplayNeedsSkew`.
*Marketplace*: a rater past its check holds an execution that exists (`RatersHold`), and the
counters of a trail equal the rows of its executions (`CountersMatchRows`, a sum), whence
`ReputationMatchesRows`. *Providers*: `RefStage` and `BillStage` say, for each position of
the handler between two statements, which rows it has already written, and that a payment hash and a
blank request have none, whence `ExternalRefOnce` and `BillsMatchTrails`. *DocuSeal*: `DeliveryStage` likewise, whence
`DocuSealTrails`. `Sig` is finite.

**EvidenceVerifiers_proofs.** Here the invariants are small and the operators are large: a
verdict is a fold over a list, and the theorem says what it means.

* `VerifiedIsRecordedHolds`: for any number of rows and checks, the current plugin's
  `VERIFIED` names a row that stored the receipt's hash or none, its `HASH_MISMATCH` one
  that stored another, and neither is followed by `NOT_FOUND`. Of the older plugin's
  `VERIFIED` it says only that a row is there. Rows are added between checks and not edited.
* `ChainVerdictHolds`: the walker of `verify_chain` gives the nearest fault above its
  start, or `valid` where there is none. The invariant `GraphInv` says that every row
  passed so far was faultless and is an ancestor of the start.
* `EveryLeafProven`, `NoOtherLeafProven`: for a list of leaves of any length, the proof
  `merkle.py` gives for a leaf verifies that leaf and no other digest.
* `CompleteHolds`, `NoForgedLogComplete`: a window that `verify_trail` calls complete is
  the log's own, up to a sealed checkpoint; the second theorem does not restrict what is
  presented to the forgeries that TLC enumerates, but takes any list of entries. `HeadInv`
  says that a log is chained and that a sealed checkpoint is an entry of its agent's log.
* `HonestLogHolds`: and an honest log is called so. `HonestInv` adds to `HeadInv` that the
  entries carry real references (`Junk` is none), all numbered or all not, that an agent
  sealed in a period is sealed in every later one, and that each seal names its period. A window of the log is
  *straight*: each test of `verify_trail` passes at each entry (`LogStraight`,
  `HonestVerdict`), unless the agent's own numbering has a gap (`Gap`), and then that is
  what is answered. The checkpoint has its Merkle proof by `EveryLeafProven`. The vectors
  of `trail-head-window-ref` come out as declared because each edit breaks the chain at a
  known place (`FakeDiffers`: another preimage is another head).
* `SettledExactlyOnceHolds`: `RetryInv` gives, for each failure mode and each call made
  so far, the ledger of the backend. `MAX_ROUNDS` is any number from 3 on (the harness
  has 5): with fewer the recovery is not reached.
* `RejectedForItsReasonHolds`: a vector keeps the checks of the record it was authored
  with, and those are the ones the verifier recomputes.
* `RecordsAccepted`: for *any* submission, keys and registry, `evaluate_vector` records
  it if and only if it is whole, resolvable, not widening where that is tested, and
  overlaps nothing recorded. `FailedAttemptsHolds` applies it to the vectors of the
  examples, which are written out hop by hop: whole are those that were delegated so and
  those whose edit no signature covers.
* `OneEffectHolds`: the guards differ, but an attempt behind any of them is either answered
  from the records or leaves a record and runs the effect at most once (`AttemptIs`).
  `ToolInv` counts with it: the effects of a key never exceed the processes that forgot it,
  plus one if its record exists (`OncePerKey`; a durable guard forgets nothing); a record
  and an answer name an effect of their own key, and of their own arguments where the guard
  binds them (`RecordsFit`, `AnswersFit`); what a guard holds an action to is what came
  first (`FirstHeld`); and the records of a v1.1 guard are the ledger that `replay` of
  `idempotency-ref-v1.1` computes from the calls (`InLedger`). `MAX_ATTEMPTS` is any number
  from 2 on (crewAI has 3): with one attempt the unguarded tool is never re-dispatched.

`LogsAndRetries_proofs` holds the part of this that is about trail heads, Merkle trees and
the retry guards, without the other components. Merkle levels and proofs, `Rechained`, `Use`
and `Replay` are recursive functions: that the function exists and is unique is shown by
least counterexample, and then it is unfolded step by step.

A digest is the term it was computed from, so all of these assume that SHA-256 has no
collision, and that a signature is by the key it names.

Each inductive invariant was a `pass` of TLC before it was proved, on the constants of a
run: `PaygInv` and `KarmaInv` are properties of `payg_credits` (182,736 distinct states) and
`karma_requests` (227,552); `LedgerInv` was added to `KarmaRequests.cfg`, `HandlersInv` to
`ServiceHandlers.cfg` (1,094,402), and `AnchorInv`, `GraphInv`, `HeadInv`, `HonestInv`,
`RetryInv`, `JoinInv`, `ChainInv` and `ToolInv` of the verifiers to `EvidenceVerifiers.cfg`
(404,941).

**Only model-checked.** Of the properties the passing runs check, `PaidIsCredited` and
`SubmittedResolves`: they are liveness under fairness, which is outside the prover. All
others are theorems. `AckedUnlessClaimed` is a theorem and a conjunct of `PaygInv`, and has no
place of its own in a run.

## 5. Not modelled

The bytes of canonical JSON and of SHA-256 (a digest is its preimage), pages and badges
(read-only), notifications (best effort, nothing reads their outcome), the Kleros bridge
(forwards requests), the Kleros contracts, phoenixd, Pioneer and GitHub beyond what the
code uses of them. Of the conformance examples: those that recompute one hash over fixed
vectors or compare schemas (`audit-record-contract-compat`,
`composed-decision-chain-recompute` and their like); they keep no state and take no
decision a model would not repeat word for word. Within modelled parts: the roll-over of
day and month in `PaygCredits`, providers in its quota, the nonces of the anchoring
wallet, rate limits of the HTTP layer, the migration steps of `init_db`, and the formats
of timestamps and identifiers where only acceptance matters.

## 6. Where the code and its words differ

Each of these in the table is a run that expects TLC to find the counterexample.

| Run | What the documents say | What happens |
|---|---|---|
| `karma_daily_limit` | at most 5 attestations a day per entity | `attest_action` counts, awaits the marks service, then inserts: overlapping requests pass the limit together |
| `karma_frozen` | karma is frozen while a dispute is open | a disputed action can still be attested, verified and paid; its dispute then stays pending |
| `karma_slash_kept` | a confirmed report costs poster and attestors karma | the slash lowers `total_karma` only, and the next award recomputes it from `total_karma_real` |
| `payg_acked` | credits are added on payment confirmation | webhook and `/external/trail` share one table of nonces: a payment hash posted there first makes the webhook answer `already_processed`, and the paid invoice is never credited |
| `payg_fulfilled` | a fulfilled intent is credited, rotation loses no credits | a stop between the two UPDATEs, or a rotation before them, leaves the intent fulfilled and uncredited |
| `execution_join_rewrite` | a rewritten call with a decision covering it conforms | `chain_integrity` asks that decision for the original `action_ref`, so no rewritten record conforms |

Other behaviours the models show, for which no separate run is kept: two
`confirm_slash` requests in the threadpool can both take the karma; the payment
webhook verifies on the number of attestations, not their weight
(`PaidOnlyWithSupport` states the rule the code follows); a restart between a
Lightning credit and its nonce credits the payment once more
(`DuplicateNeedsRestart`); a newer pending intent of an address hides an older one
from the poller; karma and the first notification of a trail precede its receipt; a
transaction mined after the freshness window stays failed.

Smaller differences met while translating, which the models follow as the code has them:

* The MCP tool `rate_trail` says an agent cannot rate its own trail; only an execution
  whose executor is the author is refused (`MayRate`).
* `enforce_7_5` says a revoked hop invalidates the leaf action; a revoked *last* hop gives
  no failure (`EnforcementCase`).
* `/external/trail` strips a blank service or operation to nothing and pays the weight of the
  account's tier, though `record_trail` refuses it a trail (`blanks`).
* An `action_ref` that is a payment hash the webhook recorded is refused as processed, though
  nothing was recorded or paid for it (`hashes`).
* A `payment_received` without `paymentHash` is credited at every delivery (`Unhashed`).
* `MyceliumAnchor.anchor` posts a body that `POST /trails` refuses with 422, so it always
  raises (`AnchorAnswer`).
* The older plugin's `HASH_MISMATCH` cannot be reached, and a missing row is
  `BACKEND_UNAVAILABLE` to it unless the receipt names a marketplace trail only.
* The current plugin answers `VERIFIED` also for a row that stored no hash.
* An action recorded under epoch milliseconds at `/nexus/trail` has a reference that
  `compute_action_ref` never derives.
* Two raters of one execution are both counted (`overlapped`); a DocuSeal delivery that
  Pioneer served late has two trails (`silentPioneer`); a stop between the nonce and the
  trail of `/external/trail` uses the `action_ref` up (`stops`).

## 7. Plan

Done: the guard and the prepaid credits with their refinements; the karma economy and the
anchors; signatures, marketplace, providers and negotiation references; the trail graph,
trail heads and the verifiers and retry examples under `examples/conformance`; proofs of
every property of the passing runs but the two liveness ones. Left, in this order:

1. A composition of `/nexus/trail`, credits, anchoring and billing: a consumed credit ends
   in an anchored or failed trail, and karma and bills match.
2. The roll-over of day and month, and providers, in the quota of `PaygCredits`.
3. The nonces of the anchoring wallet: which of two transactions with one nonce is mined.
