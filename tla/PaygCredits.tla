----------------------------- MODULE PaygCredits -----------------------------
(***************************************************************************)
(* Prepaid trail credits: Lightning invoices, USDC deposit intents, the     *)
(* credits /nexus/trail consumes, and api_key rotation.                     *)
(*                                                                          *)
(* mycelium_trails opens its connections in autocommit, so every SQL         *)
(* statement is a transaction of its own and the process may stop between    *)
(* any two.  The webhook, the USDC poller and /nexus/trail run on the event  *)
(* loop and do not await between their first read and their last write: the  *)
(* variable loop holds the one that is under way.  Account creation, USDC    *)
(* intents and rotation are plain def handlers and run in between.  The      *)
(* webhook looks a payment up in the table where /external/trail records its *)
(* action_refs: a hash that has been spent there counts as processed.        *)
(***************************************************************************)
EXTENDS Integers, Sequences, FiniteSets, FiniteSetsExt

CONSTANTS
  Account,      \* rows of payg_accounts
  Agent,        \* agent_id values
  AgentOf,      \* Account -> its agent_id
  Exempt,       \* genesis and enterprise agents: no trail limits
  Payment,      \* Lightning payments, named by their hash
  Unhashed,     \* those whose notification carries no paymentHash
  Address,      \* EVM addresses deposits come from
  Tx,           \* on-chain USDC transfers
  Amount,       \* numbers of trails that get bought
  RATE_LIMIT_DEFAULT, MONTHLY_LIMIT_FREE,
  MaxRotations, \* bound: rotations of one api_key
  MaxIntents,   \* bound: USDC intents ever registered
  MaxTrails,    \* bound: trails ever recorded for one agent
  MaxUnhashed,  \* bound: credits of one payment without paymentHash
  MaxRestarts,  \* bound: process restarts
  None

ASSUME AgentAssumption == AgentOf \in [Account -> Agent] /\ Exempt \subseteq Agent
ASSUME AccountAssumption == IsFiniteSet(Account)
ASSUME PaymentAssumption == Unhashed \subseteq Payment
ASSUME AmountAssumption == Amount \subseteq Nat \ {0}
ASSUME LimitAssumption ==
  /\ RATE_LIMIT_DEFAULT \in Nat \ {0} /\ MONTHLY_LIMIT_FREE \in Nat
  /\ MaxRotations \in Nat /\ MaxIntents \in Nat /\ MaxTrails \in Nat /\ MaxRestarts \in Nat
  /\ MaxUnhashed \in Nat

VARIABLES
  gen,       \* Account -> generation of its api_key; 0 before it is created
  tier,      \* Account -> "free" or "payg"
  credit,    \* Account -> credit_trails
  invoices,  \* Payment -> Lightning invoice, with the api_key of its externalId
  nonces,    \* external_trail_nonces: payment hashes the webhook has recorded
  claimed,   \* and those /external/trail has, where they came as an action_ref
  intents,   \* payg_usdc_intents, in rowid order
  chain,     \* Tx -> the transfer it made to PAYG_WALLET, or None
  seen,      \* the poller's seen_tx, lost at a restart
  today,     \* Agent -> trails recorded today
  month,     \* Agent -> trails recorded this month, pioneer ones excepted
  loop,      \* the handler on the event loop
  restarts,  \* process restarts so far
  acked,     \* payments whose webhook was answered with success
  paymentCredits, intentCredits, txCredits,  \* history: times each one was credited
  bought,    \* history: Account -> trails credited by payments
  served     \* history: Account -> trails recorded on one of its credits

accountVars == <<gen, tier, credit>>
topupVars == <<invoices, nonces, claimed, intents, chain, seen>>
trailVars == <<today, month>>
history == <<acked, paymentCredits, intentCredits, txCredits, bought, served>>
vars == <<accountVars, topupVars, trailVars, loop, restarts, history>>

\* An api_key is an account and a generation; rotation makes old ones dangle.
Key == [account : Account, gen : Nat \ {0}]
KeyOf(c) == [account |-> c, gen |-> gen[c]]
Valid(k) == gen[k.account] = k.gen

\* A key, or an order made with one, is not the absence of it.
ASSUME NoneAssumption == None \notin Key /\ None \notin [key : Key, trails : Amount]

Idle == [op |-> "idle"]
Handlers ==
  [op : {"idle"}]
  \cup [op : {"topup", "nonce"}, payment : Payment]
  \cup [op : {"consume", "refund"}, agent : Agent, key : Key]
  \cup [op : {"record"}, agent : Agent, key : Key \cup {None}]
  \cup [op : {"poll"}, logs : SUBSET Tx, by_addr : [Address -> Nat]]
  \cup [op : {"fulfil"}, logs : SUBSET Tx, by_addr : [Address -> Nat], tx : Tx]

NoInvoice == [status |-> "none"]
Invoice == [status : {"open", "paid"}, key : Key, trails : Amount]
Transfer == [from : Address, trails : Amount]
IntentRow == [status : {"pending", "fulfilled"}, key : Key, from : Address,
              trails : Amount, expired : BOOLEAN]

TypeOK ==
  /\ gen \in [Account -> Nat]
  /\ tier \in [Account -> {"free", "payg"}]
  /\ credit \in [Account -> Nat]
  /\ invoices \in [Payment -> Invoice \cup {NoInvoice}]
  /\ nonces \subseteq Payment
  /\ claimed \subseteq Payment
  /\ intents \in Seq(IntentRow)
  /\ chain \in [Tx -> Transfer \cup {None}]
  /\ seen \subseteq Tx
  /\ today \in [Agent -> Nat]
  /\ month \in [Agent -> Nat]
  /\ loop \in Handlers
  /\ restarts \in Nat
  /\ acked \subseteq Payment
  /\ paymentCredits \in [Payment -> Nat]
  /\ intentCredits \in [1..MaxIntents -> Nat]
  /\ txCredits \in [Tx -> Nat]
  /\ bought \in [Account -> Nat]
  /\ served \in [Account -> Nat]

Init ==
  /\ gen = [c \in Account |-> 0]
  /\ tier = [c \in Account |-> "free"]
  /\ credit = [c \in Account |-> 0]
  /\ invoices = [p \in Payment |-> NoInvoice]
  /\ nonces = {}
  /\ claimed = {}
  /\ intents = <<>>
  /\ chain = [t \in Tx |-> None]
  /\ seen = {}
  /\ today = [a \in Agent |-> 0]
  /\ month = [a \in Agent |-> 0]
  /\ loop = Idle
  /\ restarts = 0
  /\ acked = {}
  /\ paymentCredits = [p \in Payment |-> 0]
  /\ intentCredits = [i \in 1..MaxIntents |-> 0]
  /\ txCredits = [t \in Tx |-> 0]
  /\ bought = [c \in Account |-> 0]
  /\ served = [c \in Account |-> 0]

-----------------------------------------------------------------------------
(* Accounts.                                                                *)

\* create_payg_account.
CreateAccount(c) ==
  /\ gen[c] = 0
  /\ gen' = [gen EXCEPT ![c] = 1]
  /\ UNCHANGED <<tier, credit, topupVars, trailVars, loop, restarts, history>>

\* rotate_payg_account: the row keeps everything but its api_key.
Rotate(c) ==
  /\ gen[c] \in 1..MaxRotations
  /\ gen' = [gen EXCEPT ![c] = @ + 1]
  /\ UNCHANGED <<tier, credit, topupVars, trailVars, loop, restarts, history>>

\* UPDATE payg_accounts ... WHERE api_key = k; no row matches a rotated key.
Topup(k, n) ==
  \/ /\ Valid(k)
     /\ credit' = [credit EXCEPT ![k.account] = @ + n]
     /\ tier' = [tier EXCEPT ![k.account] = "payg"]
     /\ UNCHANGED gen
  \/ /\ ~Valid(k)
     /\ UNCHANGED accountVars

-----------------------------------------------------------------------------
(* Lightning: invoice, payment, webhook.                                    *)

\* payg_topup_lightning; the api_key travels in the invoice's externalId.
TopupLightning(p, c, n) ==
  /\ invoices[p] = NoInvoice
  /\ gen[c] > 0
  /\ invoices' = [invoices EXCEPT ![p] = [status |-> "open", key |-> KeyOf(c), trails |-> n]]
  /\ UNCHANGED <<accountVars, nonces, claimed, intents, chain, seen, trailVars, loop, restarts, history>>

Pay(p) ==
  /\ invoices[p].status = "open"
  /\ invoices' = [invoices EXCEPT ![p].status = "paid"]
  /\ UNCHANGED <<accountVars, nonces, claimed, intents, chain, seen, trailVars, loop, restarts, history>>

\* has_external_nonce, one table for the webhook and /external/trail.
HasExternalNonce(p) == p \in nonces \cup claimed

\* A notification without paymentHash is never looked up.
AlreadyProcessed(p) == p \notin Unhashed /\ HasExternalNonce(p)

\* Mutant of Deliver: no has_external_nonce.
DeliverAgain(p) ==
  /\ loop = Idle
  /\ invoices[p].status = "paid"
  /\ loop' = [op |-> "topup", payment |-> p]
  /\ UNCHANGED <<accountVars, topupVars, trailVars, restarts, history>>

\* Mutant of Deliver: the nonce is recorded before the credit.
DeliverNonceFirst(p) ==
  /\ loop = Idle
  /\ invoices[p].status = "paid"
  /\ \/ /\ AlreadyProcessed(p)
        /\ acked' = acked \cup {p}
        /\ UNCHANGED <<loop, nonces>>
     \/ /\ ~AlreadyProcessed(p)
        /\ loop' = [op |-> "topup", payment |-> p]
        /\ nonces' = nonces \cup {p}
        /\ UNCHANGED acked
  /\ UNCHANGED <<accountVars, invoices, claimed, intents, chain, seen, trailVars, restarts,
                 paymentCredits, intentCredits, txCredits, bought, served>>

\* phoenixd delivers, or redelivers, payment_received; has_external_nonce.
Deliver(p) ==
  /\ loop = Idle
  /\ invoices[p].status = "paid"
  /\ \/ /\ AlreadyProcessed(p)
        /\ acked' = acked \cup {p}
        /\ UNCHANGED loop
     \/ /\ ~AlreadyProcessed(p)
        /\ p \in Unhashed => paymentCredits[p] < MaxUnhashed
        /\ loop' = [op |-> "topup", payment |-> p]
        /\ UNCHANGED acked
  /\ UNCHANGED <<accountVars, topupVars, trailVars, restarts,
                 paymentCredits, intentCredits, txCredits, bought, served>>

\* record_external_nonce: INSERT OR IGNORE, if there is a hash to record.
RecordNonce(p) == nonces' = IF p \in Unhashed THEN nonces ELSE nonces \cup {p}

\* topup_payg's UPDATE.
WebhookTopup ==
  /\ loop.op = "topup"
  /\ LET p == loop.payment
         k == invoices[p].key
     IN  /\ Topup(k, invoices[p].trails)
         /\ paymentCredits' = [paymentCredits EXCEPT ![p] = IF Valid(k) THEN @ + 1 ELSE @]
         /\ bought' = [bought EXCEPT
              ![k.account] = IF Valid(k) THEN @ + invoices[p].trails ELSE @]
         /\ loop' = [op |-> "nonce", payment |-> p]
  /\ UNCHANGED <<topupVars, trailVars, restarts, acked, intentCredits, txCredits, served>>

\* topup_payg's SELECT: 404 if the api_key is gone, else record_external_nonce.
WebhookNonce ==
  /\ loop.op = "nonce"
  /\ \/ /\ Valid(invoices[loop.payment].key)
        /\ RecordNonce(loop.payment)
        /\ acked' = acked \cup {loop.payment}
     \/ /\ ~Valid(invoices[loop.payment].key)
        /\ UNCHANGED <<nonces, acked>>
  /\ loop' = Idle
  /\ UNCHANGED <<accountVars, invoices, claimed, intents, chain, seen, trailVars, restarts,
                 paymentCredits, intentCredits, txCredits, bought, served>>

\* /external/trail with the payment hash of an invoice as its action_ref, under
\* the api_key of c: the same look-up, the same INSERT, and then the agent's
\* trail, which record_trail refuses at once if service or operation is blank.
ExternalTrail(p, c) ==
  /\ loop = Idle
  /\ gen[c] > 0 /\ invoices[p] # NoInvoice
  /\ ~HasExternalNonce(p)
  /\ claimed' = claimed \cup {p}
  /\ \/ /\ today[AgentOf[c]] < MaxTrails
        /\ loop' = [op |-> "record", agent |-> AgentOf[c], key |-> None]
     \/ UNCHANGED loop
  /\ UNCHANGED <<accountVars, invoices, nonces, intents, chain, seen, trailVars, restarts, history>>

-----------------------------------------------------------------------------
(* USDC: intents, transfers and the poller.                                 *)

\* The row create_usdc_intent inserts.
NewIntent(c, addr, n) ==
  [status |-> "pending", key |-> KeyOf(c), from |-> addr, trails |-> n, expired |-> FALSE]

\* payg_topup_usdc.
TopupUsdc(c, addr, n) ==
  /\ Len(intents) < MaxIntents
  /\ gen[c] > 0
  /\ intents' = Append(intents, NewIntent(c, addr, n))
  /\ UNCHANGED <<accountVars, invoices, nonces, claimed, chain, seen, trailVars, loop, restarts, history>>

\* expires_at passes.
Expire(i) ==
  /\ i \in DOMAIN intents
  /\ intents[i].status = "pending" /\ ~intents[i].expired
  /\ intents' = [intents EXCEPT ![i].expired = TRUE]
  /\ UNCHANGED <<accountVars, invoices, nonces, claimed, chain, seen, trailVars, loop, restarts, history>>

TransferUsdc(t, addr, n) ==
  /\ chain[t] = None
  /\ chain' = [chain EXCEPT ![t] = [from |-> addr, trails |-> n]]
  /\ UNCHANGED <<accountVars, invoices, nonces, claimed, intents, seen, trailVars, loop, restarts, history>>

\* intents_by_addr: of several pending intents of one address the last row wins.
ByAddr(addr) ==
  Max({0} \cup {i \in DOMAIN intents :
                  intents[i].status = "pending" /\ ~intents[i].expired /\ intents[i].from = addr})

\* One round of _usdc_poller: the node returns the logs it has.
PollStart ==
  /\ loop = Idle
  /\ \E logs \in SUBSET {t \in Tx : chain[t] # None} :
       /\ logs # {} /\ \E addr \in Address : ByAddr(addr) # 0
       /\ loop' = [op |-> "poll", logs |-> logs, by_addr |-> [addr \in Address |-> ByAddr(addr)]]
  /\ UNCHANGED <<accountVars, topupVars, trailVars, restarts, history>>

\* Mutant of Matching: fulfill_usdc_intent without AND status='pending'.
MatchingAnyStatus ==
  {t \in loop.logs \ seen :
     LET i == loop.by_addr[chain[t].from]
     IN  i # 0 /\ intents[i].trails = chain[t].trails}

\* The logs that reach fulfill_usdc_intent and find the intent still pending.
Matching ==
  {t \in loop.logs \ seen :
     LET i == loop.by_addr[chain[t].from]
     IN  i # 0 /\ intents[i].trails = chain[t].trails /\ intents[i].status = "pending"}

\* fulfill_usdc_intent: SELECT and the first UPDATE.
PollFulfil ==
  /\ loop.op = "poll"
  /\ \E t \in Matching :
       LET i == loop.by_addr[chain[t].from]
       IN  /\ intents' = [intents EXCEPT ![i].status = "fulfilled"]
           /\ loop' = [op |-> "fulfil", logs |-> loop.logs, by_addr |-> loop.by_addr, tx |-> t]
  /\ UNCHANGED <<accountVars, invoices, nonces, claimed, chain, seen, trailVars, restarts, history>>

\* Mutant of PollCredit: the transfer is not remembered in seen_tx.
PollCreditUnseen ==
  /\ loop.op = "fulfil"
  /\ LET t == loop.tx
         i == loop.by_addr[chain[t].from]
         k == intents[i].key
     IN  /\ Topup(k, intents[i].trails)
         /\ intentCredits' = [intentCredits EXCEPT ![i] = IF Valid(k) THEN @ + 1 ELSE @]
         /\ txCredits' = [txCredits EXCEPT ![t] = IF Valid(k) THEN @ + 1 ELSE @]
         /\ bought' = [bought EXCEPT
              ![k.account] = IF Valid(k) THEN @ + intents[i].trails ELSE @]
         /\ loop' = [op |-> "poll", logs |-> loop.logs, by_addr |-> loop.by_addr]
  /\ UNCHANGED <<topupVars, trailVars, restarts, acked, paymentCredits, served>>

\* Its second UPDATE, and seen_tx.add.
PollCredit ==
  /\ loop.op = "fulfil"
  /\ LET t == loop.tx
         i == loop.by_addr[chain[t].from]
         k == intents[i].key
     IN  /\ Topup(k, intents[i].trails)
         /\ intentCredits' = [intentCredits EXCEPT ![i] = IF Valid(k) THEN @ + 1 ELSE @]
         /\ txCredits' = [txCredits EXCEPT ![t] = IF Valid(k) THEN @ + 1 ELSE @]
         /\ bought' = [bought EXCEPT
              ![k.account] = IF Valid(k) THEN @ + intents[i].trails ELSE @]
         /\ seen' = seen \cup {t}
         /\ loop' = [op |-> "poll", logs |-> loop.logs, by_addr |-> loop.by_addr]
  /\ UNCHANGED <<invoices, nonces, claimed, intents, chain, trailVars, restarts, acked,
                 paymentCredits, served>>

PollEnd ==
  /\ loop.op = "poll"
  /\ Matching = {}
  /\ loop' = Idle
  /\ UNCHANGED <<accountVars, topupVars, trailVars, restarts, history>>

-----------------------------------------------------------------------------
(* /nexus/trail: look an account up, consume, record, refund.               *)

Funded(a) == {c \in Account : AgentOf[c] = a /\ gen[c] > 0 /\ tier[c] = "payg" /\ credit[c] > 0}

\* get_payg_account_by_agent.
NexusTrail(a) ==
  /\ loop = Idle
  /\ today[a] < MaxTrails
  /\ \/ \E c \in Funded(a) :
          /\ \A d \in Funded(a) : credit[d] <= credit[c]
          /\ loop' = [op |-> "consume", agent |-> a, key |-> KeyOf(c)]
     \/ /\ Funded(a) = {}
        /\ loop' = [op |-> "record", agent |-> a, key |-> None]
  /\ UNCHANGED <<accountVars, topupVars, trailVars, restarts, history>>

\* submit_action, attest_action and /external/trail record a trail of the agent
\* too, against the same limits, and never look for a credit.
ServiceTrail(a) ==
  /\ loop = Idle
  /\ today[a] < MaxTrails
  /\ loop' = [op |-> "record", agent |-> a, key |-> None]
  /\ UNCHANGED <<accountVars, topupVars, trailVars, restarts, history>>

\* Mutant of Consume: the credit is taken twice.
ConsumeTwice ==
  /\ loop.op = "consume"
  /\ credit' = [credit EXCEPT ![loop.key.account] = @ - 2]
  /\ loop' = [op |-> "record", agent |-> loop.agent, key |-> loop.key]
  /\ UNCHANGED <<gen, tier, topupVars, trailVars, restarts, history>>

\* consume_payg_credit: check and decrement in one UPDATE.
Consume ==
  /\ loop.op = "consume"
  /\ LET c == loop.key.account
     IN  \/ /\ Valid(loop.key) /\ tier[c] = "payg" /\ credit[c] > 0
            /\ credit' = [credit EXCEPT ![c] = @ - 1]
            /\ loop' = [op |-> "record", agent |-> loop.agent, key |-> loop.key]
         \/ /\ ~(Valid(loop.key) /\ tier[c] = "payg" /\ credit[c] > 0)
            /\ loop' = [op |-> "record", agent |-> loop.agent, key |-> None]
            /\ UNCHANGED credit
  /\ UNCHANGED <<gen, tier, topupVars, trailVars, restarts, history>>

\* Mutant of MayRecord: > instead of >= in the monthly limit.
MayRecordOneMore(a, consumed) ==
  a \in Exempt \/ (today[a] < RATE_LIMIT_DEFAULT /\ (consumed \/ month[a] <= MONTHLY_LIMIT_FREE))

\* record_trail's limits; a consumed credit lifts only the monthly one.
MayRecord(a, consumed) ==
  a \in Exempt \/ (today[a] < RATE_LIMIT_DEFAULT /\ (consumed \/ month[a] < MONTHLY_LIMIT_FREE))

\* Mutant of RecordTrail: the credit is refunded although the trail was recorded.
RecordTrailRefunds(pioneer) ==
  /\ loop.op = "record"
  /\ LET a == loop.agent
         consumed == loop.key # None
     IN  /\ MayRecord(a, consumed)
         /\ today' = [today EXCEPT ![a] = @ + 1]
         /\ month' = [month EXCEPT ![a] = IF pioneer THEN @ ELSE @ + 1]
         /\ served' = IF consumed THEN [served EXCEPT ![loop.key.account] = @ + 1] ELSE served
         /\ loop' = IF consumed THEN [op |-> "refund", agent |-> a, key |-> loop.key] ELSE Idle
  /\ UNCHANGED <<accountVars, topupVars, restarts, acked,
                 paymentCredits, intentCredits, txCredits, bought>>

RecordTrail(pioneer) ==
  /\ loop.op = "record"
  /\ LET a == loop.agent
         consumed == loop.key # None
     IN  \/ /\ MayRecord(a, consumed)
            /\ today' = [today EXCEPT ![a] = @ + 1]
            /\ month' = [month EXCEPT ![a] = IF pioneer THEN @ ELSE @ + 1]
            /\ served' = IF consumed THEN [served EXCEPT ![loop.key.account] = @ + 1] ELSE served
            /\ loop' = Idle
         \/ /\ ~MayRecord(a, consumed)
            /\ loop' = IF consumed THEN [op |-> "refund", agent |-> a, key |-> loop.key] ELSE Idle
            /\ UNCHANGED <<today, month, served>>
  /\ UNCHANGED <<accountVars, topupVars, restarts, acked,
                 paymentCredits, intentCredits, txCredits, bought>>

\* topup_payg(api_key, 1) when the trail was refused after all.
Refund ==
  /\ loop.op = "refund"
  /\ Topup(loop.key, 1)
  /\ loop' = Idle
  /\ UNCHANGED <<topupVars, trailVars, restarts, history>>

-----------------------------------------------------------------------------
\* The process stops between two statements; only the database survives.
Restart ==
  /\ restarts < MaxRestarts
  /\ restarts' = restarts + 1
  /\ loop' = Idle
  /\ seen' = {}
  /\ UNCHANGED <<accountVars, invoices, nonces, claimed, intents, chain, trailVars, history>>

LoopStep ==
  \/ WebhookTopup \/ WebhookNonce
  \/ PollFulfil \/ PollCredit \/ PollEnd
  \/ Consume \/ (\E pioneer \in BOOLEAN : RecordTrail(pioneer)) \/ Refund

Next ==
  \/ \E c \in Account : CreateAccount(c) \/ Rotate(c)
  \/ \E p \in Payment :
       \/ Pay(p) \/ Deliver(p)
       \/ \E c \in Account : ExternalTrail(p, c) \/ \E n \in Amount : TopupLightning(p, c, n)
  \/ \E c \in Account, addr \in Address, n \in Amount : TopupUsdc(c, addr, n)
  \/ \E i \in 1..MaxIntents : Expire(i)
  \/ \E t \in Tx, addr \in Address, n \in Amount : TransferUsdc(t, addr, n)
  \/ PollStart
  \/ \E a \in Agent : NexusTrail(a) \/ ServiceTrail(a)
  \/ LoopStep
  \/ Restart

Spec == Init /\ [][Next]_vars

\* phoenixd redelivers until it is answered and the event loop serves its
\* queue in order, so neither a delivery nor the poller is passed over forever;
\* a handler that has started runs on.
Fairness ==
  /\ WF_vars(LoopStep)
  /\ SF_vars(PollStart)
  /\ \A p \in Payment : SF_vars(Deliver(p) /\ p \notin acked)

FairSpec == Spec /\ Fairness

-----------------------------------------------------------------------------
(* Properties.                                                              *)

\* A credit taken from c that has not become a trail or been given back.
Held(c) ==
  IF loop.op \in {"record", "refund"} /\ loop.key # None /\ loop.key.account = c THEN 1 ELSE 0

\* One credit never pays for two trails: what is left of an account, what it
\* was served and what a trail in flight holds never exceed what was bought,
\* across refunds, rotations and restarts (consume_payg_credit, /nexus/trail).
CreditsCoverTrails == \A c \in Account : credit[c] + served[c] + Held(c) <= bought[c]

\* An agent goes beyond the free tier only on credits of its own accounts.
FreeTierBound ==
  \A a \in Agent \ Exempt :
    month[a] <= MONTHLY_LIMIT_FREE
                + MapThenSumSet(LAMBDA c : served[c], {c \in Account : AgentOf[c] = a})

\* A payment phoenixd will not redeliver has been credited, unless its hash was
\* spent at /external/trail: the webhook answers "ok" only after the credit is on
\* disk, and "already_processed" for any hash in external_trail_nonces.
AckedUnlessClaimed == \A p \in acked : paymentCredits[p] > 0 \/ p \in claimed \ Unhashed

\* Redelivery alone never credits a payment twice, if its notification carries
\* the hash; it takes a restart between the credit and its nonce, and each
\* restart buys one duplicate at most.
DuplicateNeedsRestart ==
  \A p \in Payment \ Unhashed : paymentCredits[p] <= 1 + restarts

\* fulfill_usdc_intent, "Idempotente por intent_id": one credit per intent even
\* when a round sees two transfers that fit it, or restarts halfway; and one
\* transfer credits one intent per life of the process (seen_tx).
UsdcCreditedOnce ==
  /\ \A i \in 1..MaxIntents : intentCredits[i] <= 1
  /\ \A t \in Tx : txCredits[t] <= 1 + restarts

\* What the invoices paid and the intents of some rows bought for account c.
LightningTrails(paid, c) ==
  LET trails == [p \in Payment |-> invoices[p].trails]
  IN  MapThenSumSet(LAMBDA p : trails[p], {p \in paid : invoices[p].key.account = c})
UsdcTrails(done, c) ==
  LET trails == [i \in DOMAIN intents |-> intents[i].trails]
  IN  MapThenSumSet(LAMBDA i : trails[i], {i \in done : intents[i].key.account = c})
Fulfilled == {i \in DOMAIN intents : intents[i].status = "fulfilled"}

\* Every invoice of c is one the webhook can tell from another.
AllHashed(c) == \A p \in Unhashed : invoices[p] # NoInvoice => invoices[p].key.account # c

\* While the process stays up and no key is rotated, the tables agree whenever
\* the loop is idle: the balance is what the payments the webhook recorded and the
\* fulfilled intents bought, less the trails recorded on credit. A hash recorded
\* at /external/trail buys nothing.
BooksBalance ==
  (restarts = 0 /\ loop = Idle) =>
    \A c \in Account : gen[c] <= 1 /\ AllHashed(c) =>
      credit[c] + served[c] = LightningTrails(nonces, c) + UsdcTrails(Fulfilled, c)

\* The order an invoice or an intent carries, and the credit a trail has taken.
OrderOf(row) == [key |-> row.key, trails |-> row.trails]
PaidInvoices == [p \in Payment |-> IF invoices[p].status = "paid" THEN OrderOf(invoices[p]) ELSE None]
FulfilledIntents == [i \in 1..MaxIntents |-> IF i \in Fulfilled THEN OrderOf(intents[i]) ELSE None]
HeldKey == IF loop.op \in {"record", "refund"} THEN loop.key ELSE None

Prepaid == INSTANCE PrepaidCredits WITH
  Unnamed <- Unhashed, Intent <- 1..MaxIntents, FreeTrails <- MONTHLY_LIMIT_FREE, left <- credit, held <- HeldKey,
  invoice <- PaidInvoices, deposit <- FulfilledIntents, credited <- paymentCredits,
  deposited <- intentCredits, crashes <- restarts

\* Statement by statement, with deliveries, rounds, refunds, rotations and
\* restarts in between, the tables hold what PrepaidCredits promises.
ImplementsPrepaid == Prepaid!AbsSpec

\* A paid invoice is credited in the end unless its api_key is rotated away or
\* its hash is spent at /external/trail.
PaidIsCredited ==
  \A p \in Payment :
    (invoices[p].status = "paid") ~>
      \/ paymentCredits[p] > 0
      \/ invoices[p].status = "paid" /\ ~Valid(invoices[p].key)
      \/ p \in claimed \ Unhashed

-----------------------------------------------------------------------------
(* The inductive invariant.                                                 *)

\* No key is from the future: once rotated away, it stays invalid.
Issued(k) == k.gen <= gen[k.account]
KeysIssued ==
  /\ \A p \in Payment : invoices[p] # NoInvoice => Issued(invoices[p].key)
  /\ \A i \in DOMAIN intents : Issued(intents[i].key)
  /\ loop.op \in {"consume", "record", "refund"} /\ loop.key # None =>
       Issued(loop.key) /\ AgentOf[loop.key.account] = loop.agent

\* The payment the webhook has credited but not yet recorded.
Unrecorded == IF loop.op = "nonce" THEN {loop.payment} \ Unhashed ELSE {}

\* The webhook records a nonce after its credit, never one that is spent already,
\* and a second credit takes a restart or finds the api_key gone.
NoncesFollowCredits ==
  /\ acked \subseteq nonces \cup claimed \cup Unhashed
  /\ loop.op \in {"topup", "nonce"} =>
       ~AlreadyProcessed(loop.payment) /\ invoices[loop.payment].status = "paid"
  /\ \A p \in nonces : paymentCredits[p] > 0 /\ invoices[p].status = "paid"
  /\ loop.op = "nonce" =>
       (Valid(invoices[loop.payment].key) => paymentCredits[loop.payment] > 0)
  /\ \A p \in Payment \ Unhashed :
       IF p \in nonces \cup Unrecorded \/ (invoices[p] # NoInvoice /\ ~Valid(invoices[p].key))
       THEN paymentCredits[p] <= 1 + restarts
       ELSE paymentCredits[p] <= restarts

\* The intent fulfilled and not yet credited.
Crediting == IF loop.op = "fulfil" THEN {loop.by_addr[chain[loop.tx].from]} ELSE {}

\* A round looks at transfers that happened and intents that exist, and credits an
\* intent it has just taken out of pending with a transfer it has not seen.
RoundIsSound ==
  /\ Len(intents) <= MaxIntents
  /\ loop.op \in {"poll", "fulfil"} =>
       /\ \A t \in loop.logs : chain[t] # None
       /\ \A addr \in Address : loop.by_addr[addr] \in {0} \cup DOMAIN intents
  /\ loop.op = "fulfil" => loop.tx \in loop.logs \ seen
  /\ Crediting \subseteq Fulfilled
  /\ \A i \in 1..MaxIntents :
       intentCredits[i] <= IF i \in Fulfilled \ Crediting THEN 1 ELSE 0
  /\ \A t \in Tx : txCredits[t] <= IF t \in seen THEN 1 + restarts ELSE restarts

\* The books, counting what the handler on the loop has done so far.
BooksInFlight ==
  /\ IsFiniteSet(nonces)
  /\ restarts = 0 =>
       \A c \in Account : gen[c] <= 1 /\ AllHashed(c) =>
         credit[c] + served[c] + Held(c) =
           LightningTrails(nonces \cup Unrecorded, c) + UsdcTrails(Fulfilled \ Crediting, c)

PaygInv ==
  /\ TypeOK
  /\ KeysIssued
  /\ NoncesFollowCredits
  /\ AckedUnlessClaimed
  /\ RoundIsSound
  /\ BooksInFlight
  /\ CreditsCoverTrails
  /\ FreeTierBound

-----------------------------------------------------------------------------
(* What the code says of itself and does not keep.                          *)

\* payg_topup_lightning, "Credits added on payment confirmation": a payment whose
\* notification was answered with success, and will not be repeated, is credited.
AckedIsCredited == \A p \in acked : paymentCredits[p] > 0

\* fulfill_usdc_intent: "Marca el intent como fulfilled y acredita los trails".
FulfilledIsCredited ==
  \A i \in DOMAIN intents :
    (intents[i].status = "fulfilled" /\ loop.op # "fulfil") => intentCredits[i] = 1

=============================================================================
