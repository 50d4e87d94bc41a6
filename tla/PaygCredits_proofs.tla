------------------------ MODULE PaygCredits_proofs ------------------------
(* Machine-checked proofs about PaygCredits, for any accounts, agents,       *)
(* payments, transfers, limits and bounds.                                   *)
EXTENDS PaygCredits, SumLemmas, TLAPS

-----------------------------------------------------------------------------
(* What the type invariant says of keys, rows and the handler on the loop.   *)

\* An api_key is of an account and of a generation.
LEMMA KeyFields == \A k \in Key : k.account \in Account /\ k.gen \in Nat /\ k.gen > 0
BY DEF Key

\* Every handler carries the local variables of its code.
LEMMA LoopFields ==
  ASSUME TypeOK
  PROVE  /\ loop.op \in {"idle", "topup", "nonce", "consume", "refund", "record", "poll", "fulfil"}
         /\ loop.op = "idle" => loop = Idle
         /\ loop.op \in {"topup", "nonce"} => loop.payment \in Payment
         /\ loop.op \in {"consume", "refund"} => loop.agent \in Agent /\ loop.key \in Key
         /\ loop.op = "record" => loop.agent \in Agent /\ loop.key \in Key \cup {None}
         /\ loop.op \in {"poll", "fulfil"} => loop.logs \subseteq Tx /\ loop.by_addr \in [Address -> Nat]
         /\ loop.op = "fulfil" => loop.tx \in Tx
BY DEF TypeOK, Handlers, Idle

\* The invoices that exist have a key and an amount.
LEMMA InvoiceFields ==
  ASSUME TypeOK, NEW p \in Payment
  PROVE  /\ invoices[p] \in Invoice \cup {NoInvoice}
         /\ invoices[p].status \in {"none", "open", "paid"}
         /\ invoices[p] = NoInvoice <=> invoices[p].status = "none"
         /\ invoices[p] # NoInvoice => invoices[p].key \in Key /\ invoices[p].trails \in Amount
BY DEF TypeOK, Invoice, NoInvoice

\* The rows of payg_usdc_intents.
LEMMA IntentFields ==
  ASSUME TypeOK
  PROVE  /\ DOMAIN intents = 1..Len(intents) /\ Len(intents) \in Nat
         /\ \A i \in DOMAIN intents :
              /\ intents[i] \in IntentRow
              /\ intents[i].status \in {"pending", "fulfilled"}
              /\ intents[i].key \in Key /\ intents[i].from \in Address
              /\ intents[i].trails \in Amount /\ intents[i].expired \in BOOLEAN
<1>1. intents \in Seq(IntentRow)
  BY DEF TypeOK
<1>2. DOMAIN intents = 1..Len(intents) /\ Len(intents) \in Nat /\ \A i \in DOMAIN intents : intents[i] \in IntentRow
  BY <1>1
<1>3. \A r \in IntentRow : r.status \in {"pending", "fulfilled"} /\ r.key \in Key /\ r.from \in Address
                           /\ r.trails \in Amount /\ r.expired \in BOOLEAN
  BY DEF IntentRow
<1> QED BY <1>2, <1>3

\* An UPDATE ... SET credit_trails = credit_trails + n touches the one account whose
\* api_key still is k.
LEMMA TopupDoes ==
  ASSUME TypeOK, NEW k \in Key, NEW n \in Nat, Topup(k, n)
  PROVE  /\ gen' = gen
         /\ tier' \in [Account -> {"free", "payg"}]
         /\ credit' \in [Account -> Nat]
         /\ \A c \in Account :
              credit'[c] = IF Valid(k) /\ c = k.account THEN credit[c] + n ELSE credit[c]
<1>1. k.account \in Account
  BY KeyFields
<1>2. tier \in [Account -> {"free", "payg"}] /\ credit \in [Account -> Nat]
  BY DEF TypeOK
<1>3. CASE Valid(k)
  BY <1>1, <1>2, <1>3 DEF Topup
<1>4. CASE ~Valid(k)
  BY <1>2, <1>4 DEF Topup, accountVars
<1> QED BY <1>3, <1>4

\* The largest of some numbers up to n.
LEMMA MaxIs ==
  ASSUME NEW n \in Nat, NEW S, S \subseteq 0..n, S # {}
  PROVE  Max(S) \in S /\ \A y \in S : y <= Max(S)
<1> DEFINE Gaps == {n - x : x \in S}
<1>1. PICK g \in Gaps : \A m \in Gaps : g <= m
  <2>1. \A x \in S : n - x \in Nat
    OBVIOUS
  <2>2. Gaps \subseteq Nat /\ Gaps # {}
    BY <2>1
  <2> HIDE DEF Gaps
  <2> QED BY <2>2, LeastNatural
<1>2. PICK x \in S : g = n - x
  OBVIOUS
<1>3. ASSUME NEW y \in S
      PROVE  x >= y
  <2>1. n - y \in Gaps
    OBVIOUS
  <2>2. g <= n - y
    BY <1>1, <2>1
  <2> HIDE DEF Gaps
  <2>3. n \in Nat /\ x \in 0..n /\ y \in 0..n
    OBVIOUS
  <2> QED BY <1>2, <2>2, <2>3
<1>4. \E z \in S : \A y \in S : z >= y
  BY <1>3
<1>5. Max(S) \in S /\ \A y \in S : Max(S) >= y
  BY <1>4 DEF Max
<1> QED BY <1>5

\* intents_by_addr names a row that waits for a deposit of that address, or none.
LEMMA ByAddrIs ==
  ASSUME TypeOK, NEW addr \in Address
  PROVE  ByAddr(addr) \in {0} \cup DOMAIN intents /\ ByAddr(addr) \in Nat
<1> DEFINE S == {0} \cup {i \in DOMAIN intents :
                  intents[i].status = "pending" /\ ~intents[i].expired /\ intents[i].from = addr}
<1>1. DOMAIN intents = 1..Len(intents) /\ Len(intents) \in Nat
  BY IntentFields
<1>2. S \subseteq 0..Len(intents) /\ S # {} /\ S \subseteq {0} \cup DOMAIN intents
  BY <1>1
<1>3. ByAddr(addr) = Max(S)
  BY DEF ByAddr
<1> HIDE DEF S
<1>4. Max(S) \in S
  BY <1>1, <1>2, MaxIs
<1>5. ByAddr(addr) \in {0} \cup DOMAIN intents
  BY <1>2, <1>3, <1>4
<1>6. \A x \in 0..Len(intents) : x \in Nat
  OBVIOUS
<1> QED BY <1>2, <1>3, <1>4, <1>5, <1>6

-----------------------------------------------------------------------------
(* What each step of a handler does, on the facts its local variables carry. *)

\* The UPDATE of the webhook's topup_payg.
LEMMA WebhookTopupDoes ==
  ASSUME PaygInv, WebhookTopup
  PROVE  \E p \in Payment, k \in Key, n \in Nat :
           /\ loop.op = "topup" /\ loop.payment = p /\ ~AlreadyProcessed(p)
           /\ invoices[p] # NoInvoice /\ k = invoices[p].key /\ n = invoices[p].trails
           /\ Topup(k, n)
           /\ paymentCredits' \in [Payment -> Nat]
           /\ \A q \in Payment : paymentCredits'[q] =
                IF Valid(k) /\ q = p THEN paymentCredits[q] + 1 ELSE paymentCredits[q]
           /\ bought' \in [Account -> Nat]
           /\ \A c \in Account : bought'[c] =
                IF Valid(k) /\ c = k.account THEN bought[c] + n ELSE bought[c]
           /\ loop' = [op |-> "nonce", payment |-> p]
           /\ UNCHANGED <<topupVars, trailVars, restarts, acked, intentCredits, txCredits, served>>
<1> DEFINE p == loop.payment
           k == invoices[p].key
           n == invoices[p].trails
<1>1. TypeOK /\ loop.op = "topup" /\ p \in Payment
  BY LoopFields DEF PaygInv, WebhookTopup
<1>2. invoices[p].status = "paid" /\ ~AlreadyProcessed(p)
  BY <1>1 DEF PaygInv, NoncesFollowCredits
<1>3. /\ Topup(k, n)
      /\ paymentCredits' = [paymentCredits EXCEPT ![p] = IF Valid(k) THEN @ + 1 ELSE @]
      /\ bought' = [bought EXCEPT ![k.account] = IF Valid(k) THEN @ + n ELSE @]
      /\ loop' = [op |-> "nonce", payment |-> p]
      /\ UNCHANGED <<topupVars, trailVars, restarts, acked, intentCredits, txCredits, served>>
  BY DEF WebhookTopup
<1>4. loop.payment = p /\ k = invoices[p].key /\ n = invoices[p].trails
  OBVIOUS
<1> HIDE DEF p
<1>5. k \in Key /\ n \in Amount /\ invoices[p] # NoInvoice
  BY <1>1, <1>2, InvoiceFields
<1> HIDE DEF k, n
<1>6. n \in Nat /\ k.account \in Account
  BY <1>5, KeyFields, AmountAssumption
<1>7. paymentCredits \in [Payment -> Nat] /\ bought \in [Account -> Nat]
  BY <1>1 DEF TypeOK
<1>8. /\ paymentCredits' \in [Payment -> Nat]
      /\ \A q \in Payment : paymentCredits'[q] =
           IF Valid(k) /\ q = p THEN paymentCredits[q] + 1 ELSE paymentCredits[q]
  BY <1>1, <1>3, <1>7
<1>9. /\ bought' \in [Account -> Nat]
      /\ \A c \in Account : bought'[c] =
           IF Valid(k) /\ c = k.account THEN bought[c] + n ELSE bought[c]
  BY <1>3, <1>6, <1>7
<1> QED BY <1>1, <1>2, <1>3, <1>4, <1>5, <1>6, <1>8, <1>9

\* The SELECT of the webhook's topup_payg and record_external_nonce.
LEMMA WebhookNonceDoes ==
  ASSUME PaygInv, WebhookNonce
  PROVE  \E p \in Payment, k \in Key :
           /\ loop.op = "nonce" /\ loop.payment = p /\ k = invoices[p].key
           /\ invoices[p] # NoInvoice /\ invoices[p].status = "paid"
           /\ \/ Valid(k) /\ RecordNonce(p) /\ acked' = acked \cup {p}
              \/ ~Valid(k) /\ nonces' = nonces /\ acked' = acked
           /\ nonces' = nonces \/ (p \notin Unhashed /\ nonces' = nonces \cup {p})
           /\ loop' = Idle
           /\ UNCHANGED <<accountVars, invoices, claimed, intents, chain, seen, trailVars, restarts,
                          paymentCredits, intentCredits, txCredits, bought, served>>
<1>1. TypeOK /\ loop.op = "nonce" /\ loop.payment \in Payment
  BY LoopFields DEF PaygInv, WebhookNonce
<1>2. invoices[loop.payment].status = "paid"
  BY <1>1 DEF PaygInv, NoncesFollowCredits
<1>3. invoices[loop.payment].key \in Key /\ invoices[loop.payment] # NoInvoice
  BY <1>1, <1>2, InvoiceFields
<1>4. RecordNonce(loop.payment) =>
        nonces' = nonces \/ (loop.payment \notin Unhashed /\ nonces' = nonces \cup {loop.payment})
  BY DEF RecordNonce
<1> QED BY <1>1, <1>2, <1>3, <1>4 DEF WebhookNonce

\* An action_ref that is the hash of an invoice, and the trail it starts.
Claim == \E p \in Payment, c \in Account : ExternalTrail(p, c)

\* /external/trail records the hash and holds no credit.
LEMMA ClaimDoes ==
  ASSUME Claim
  PROVE  \E p \in Payment, c \in Account :
           /\ loop = Idle
           /\ claimed' = claimed \cup {p}
           /\ loop' = Idle \/ loop' = [op |-> "record", agent |-> AgentOf[c], key |-> None]
           /\ UNCHANGED <<accountVars, invoices, nonces, intents, chain, seen, trailVars, restarts, history>>
BY DEF Claim, ExternalTrail

\* A round of the poller: the transfers it found and the intents by address.
LEMMA PollStartDoes ==
  ASSUME TypeOK, PollStart
  PROVE  \E logs \in SUBSET Tx, by_addr \in [Address -> Nat] :
           /\ loop = Idle
           /\ \A t \in logs : chain[t] # None
           /\ \A addr \in Address : by_addr[addr] \in {0} \cup DOMAIN intents
           /\ loop' = [op |-> "poll", logs |-> logs, by_addr |-> by_addr]
           /\ UNCHANGED <<accountVars, topupVars, trailVars, restarts, history>>
<1> DEFINE f == [addr \in Address |-> ByAddr(addr)]
<1>1. PICK logs \in SUBSET {t \in Tx : chain[t] # None} :
        loop' = [op |-> "poll", logs |-> logs, by_addr |-> f]
  BY DEF PollStart
<1>2. f \in [Address -> Nat] /\ \A addr \in Address : f[addr] \in {0} \cup DOMAIN intents
  BY ByAddrIs
<1>3. loop = Idle /\ UNCHANGED <<accountVars, topupVars, trailVars, restarts, history>>
  BY DEF PollStart
<1> HIDE DEF f
<1> QED BY <1>1, <1>2, <1>3

\* The SELECT of fulfill_usdc_intent and its first UPDATE, for one transfer.
LEMMA PollFulfilDoes ==
  ASSUME PaygInv, PollFulfil
  PROVE  \E t \in Tx : \E i \in DOMAIN intents :
           /\ loop.op = "poll" /\ t \in loop.logs \ seen /\ chain[t].from \in Address
           /\ i = loop.by_addr[chain[t].from]
           /\ intents[i].status = "pending"
           /\ intents' = [intents EXCEPT ![i].status = "fulfilled"]
           /\ loop' = [op |-> "fulfil", logs |-> loop.logs, by_addr |-> loop.by_addr, tx |-> t]
           /\ UNCHANGED <<accountVars, invoices, nonces, claimed, chain, seen, trailVars, restarts, history>>
<1>1. TypeOK /\ loop.op = "poll" /\ loop.logs \subseteq Tx
  BY LoopFields DEF PaygInv, PollFulfil
<1>2. PICK t \in Matching :
        /\ intents' = [intents EXCEPT ![loop.by_addr[chain[t].from]].status = "fulfilled"]
        /\ loop' = [op |-> "fulfil", logs |-> loop.logs, by_addr |-> loop.by_addr, tx |-> t]
  BY DEF PollFulfil
<1>3. /\ t \in Tx /\ t \in loop.logs \ seen
      /\ loop.by_addr[chain[t].from] # 0
      /\ intents[loop.by_addr[chain[t].from]].status = "pending"
  BY <1>1, <1>2 DEF Matching
<1>4. chain[t].from \in Address
  BY <1>1, <1>3 DEF PaygInv, RoundIsSound, TypeOK, Transfer
<1>5. loop.by_addr[chain[t].from] \in DOMAIN intents
  BY <1>1, <1>3, <1>4 DEF PaygInv, RoundIsSound
<1> QED BY <1>1, <1>2, <1>3, <1>4, <1>5 DEF PollFulfil

\* The second UPDATE of fulfill_usdc_intent, and seen_tx.add.
LEMMA PollCreditDoes ==
  ASSUME PaygInv, PollCredit
  PROVE  \E t \in Tx, i \in 1..MaxIntents, k \in Key, n \in Nat :
           /\ loop.op = "fulfil" /\ t \notin seen /\ i \in Fulfilled /\ Crediting = {i}
           /\ k = intents[i].key /\ n = intents[i].trails
           /\ Topup(k, n)
           /\ intentCredits' \in [1..MaxIntents -> Nat]
           /\ \A j \in 1..MaxIntents : intentCredits'[j] =
                IF Valid(k) /\ j = i THEN intentCredits[j] + 1 ELSE intentCredits[j]
           /\ txCredits' \in [Tx -> Nat]
           /\ \A u \in Tx : txCredits'[u] =
                IF Valid(k) /\ u = t THEN txCredits[u] + 1 ELSE txCredits[u]
           /\ bought' \in [Account -> Nat]
           /\ \A c \in Account : bought'[c] =
                IF Valid(k) /\ c = k.account THEN bought[c] + n ELSE bought[c]
           /\ seen' = seen \cup {t}
           /\ loop' = [op |-> "poll", logs |-> loop.logs, by_addr |-> loop.by_addr]
           /\ UNCHANGED <<invoices, nonces, claimed, intents, chain, trailVars, restarts, acked,
                          paymentCredits, served>>
<1> DEFINE t == loop.tx
           i == loop.by_addr[chain[t].from]
           k == intents[i].key
           n == intents[i].trails
<1>1. TypeOK /\ loop.op = "fulfil" /\ t \in Tx
  BY LoopFields DEF PaygInv, PollCredit
<1>2. Crediting = {i} /\ i \in Fulfilled /\ t \notin seen /\ Len(intents) <= MaxIntents
  BY <1>1 DEF PaygInv, RoundIsSound, Crediting
<1>3. /\ Topup(k, n)
      /\ intentCredits' = [intentCredits EXCEPT ![i] = IF Valid(k) THEN @ + 1 ELSE @]
      /\ txCredits' = [txCredits EXCEPT ![t] = IF Valid(k) THEN @ + 1 ELSE @]
      /\ bought' = [bought EXCEPT ![k.account] = IF Valid(k) THEN @ + n ELSE @]
      /\ seen' = seen \cup {t}
      /\ loop' = [op |-> "poll", logs |-> loop.logs, by_addr |-> loop.by_addr]
      /\ UNCHANGED <<invoices, nonces, claimed, intents, chain, trailVars, restarts, acked,
                     paymentCredits, served>>
  BY DEF PollCredit
<1>4. k = intents[i].key /\ n = intents[i].trails
  OBVIOUS
<1> HIDE DEF t, i
<1>5. i \in DOMAIN intents
  BY <1>2 DEF Fulfilled
<1>6. k \in Key /\ n \in Amount /\ i \in 1..Len(intents) /\ Len(intents) \in Nat
  BY <1>1, <1>5, IntentFields
<1> HIDE DEF k, n
<1>7. i \in 1..MaxIntents /\ n \in Nat /\ k.account \in Account
  BY <1>2, <1>6, AmountAssumption, LimitAssumption, KeyFields
<1>8. intentCredits \in [1..MaxIntents -> Nat] /\ txCredits \in [Tx -> Nat] /\ bought \in [Account -> Nat]
  BY <1>1 DEF TypeOK
<1>9. /\ intentCredits' \in [1..MaxIntents -> Nat]
      /\ \A j \in 1..MaxIntents : intentCredits'[j] =
           IF Valid(k) /\ j = i THEN intentCredits[j] + 1 ELSE intentCredits[j]
  BY <1>3, <1>7, <1>8
<1>10. /\ txCredits' \in [Tx -> Nat]
       /\ \A u \in Tx : txCredits'[u] =
            IF Valid(k) /\ u = t THEN txCredits[u] + 1 ELSE txCredits[u]
  BY <1>1, <1>3, <1>8
<1>11. /\ bought' \in [Account -> Nat]
       /\ \A c \in Account : bought'[c] =
            IF Valid(k) /\ c = k.account THEN bought[c] + n ELSE bought[c]
  BY <1>3, <1>7, <1>8
<1> QED BY <1>1, <1>2, <1>3, <1>4, <1>6, <1>7, <1>9, <1>10, <1>11

\* consume_payg_credit: a credit is taken and held, or the trail goes on without one.
LEMMA ConsumeDoes ==
  ASSUME PaygInv, Consume
  PROVE  \E a \in Agent, k \in Key :
           /\ loop.op = "consume" /\ loop.agent = a /\ loop.key = k
           /\ credit' \in [Account -> Nat]
           /\ \/ /\ Valid(k) /\ credit[k.account] > 0
                 /\ \A c \in Account : credit'[c] = IF c = k.account THEN credit[c] - 1 ELSE credit[c]
                 /\ loop' = [op |-> "record", agent |-> a, key |-> k]
              \/ /\ credit' = credit
                 /\ loop' = [op |-> "record", agent |-> a, key |-> None]
           /\ UNCHANGED <<gen, tier, topupVars, trailVars, restarts, history>>
<1>1. TypeOK /\ loop.op = "consume" /\ loop.agent \in Agent /\ loop.key \in Key
  BY LoopFields DEF PaygInv, Consume
<1>2. loop.key.account \in Account /\ credit \in [Account -> Nat]
  BY <1>1, KeyFields DEF TypeOK
<1> QED BY <1>1, <1>2 DEF Consume

\* record_trail: within the limits a trail is recorded, else a held credit goes back.
LEMMA RecordTrailDoes ==
  ASSUME PaygInv, NEW pioneer \in BOOLEAN, RecordTrail(pioneer)
  PROVE  \E a \in Agent, k \in Key \cup {None} :
           /\ loop.op = "record" /\ loop.agent = a /\ loop.key = k
           /\ today' \in [Agent -> Nat] /\ month' \in [Agent -> Nat] /\ served' \in [Account -> Nat]
           /\ \/ /\ a \in Exempt \/ k # None \/ month[a] < MONTHLY_LIMIT_FREE
                 /\ \A b \in Agent : month'[b] \in {month[b], IF b = a THEN month[b] + 1 ELSE month[b]}
                 /\ \A c \in Account : served'[c] =
                      IF k # None /\ c = k.account THEN served[c] + 1 ELSE served[c]
                 /\ loop' = Idle
              \/ /\ k # None
                 /\ loop' = [op |-> "refund", agent |-> a, key |-> k]
                 /\ month' = month /\ served' = served
              \/ /\ k = None
                 /\ loop' = Idle
                 /\ month' = month /\ served' = served
           /\ UNCHANGED <<accountVars, topupVars, restarts, acked,
                          paymentCredits, intentCredits, txCredits, bought>>
<1>1. TypeOK /\ loop.op = "record" /\ loop.agent \in Agent /\ loop.key \in Key \cup {None}
  BY LoopFields DEF PaygInv, RecordTrail
<1>2. loop.key # None => loop.key.account \in Account
  BY <1>1, KeyFields
<1>3. today \in [Agent -> Nat] /\ month \in [Agent -> Nat] /\ served \in [Account -> Nat]
  BY <1>1 DEF TypeOK
<1> QED BY <1>1, <1>2, <1>3 DEF RecordTrail, MayRecord

\* topup_payg(api_key, 1) after a refusal.
LEMMA RefundDoes ==
  ASSUME PaygInv, Refund
  PROVE  \E k \in Key :
           /\ loop.op = "refund" /\ loop.key = k /\ Topup(k, 1)
           /\ loop' = Idle
           /\ UNCHANGED <<topupVars, trailVars, restarts, history>>
BY LoopFields DEF PaygInv, Refund

-----------------------------------------------------------------------------
(* Types.                                                                   *)

\* No step leaves the types of the tables and of the handler.
LEMMA TypeStep == ASSUME PaygInv, Next PROVE TypeOK'
<1> USE DEF accountVars, topupVars, trailVars, history
<1>a. TypeOK
  BY DEF PaygInv
<1>1. ASSUME NEW c \in Account, CreateAccount(c) \/ Rotate(c)
      PROVE  TypeOK'
  <2>1. gen \in [Account -> Nat] /\ gen[c] + 1 \in Nat
    BY <1>a DEF TypeOK
  <2>2. gen' \in {[gen EXCEPT ![c] = 1], [gen EXCEPT ![c] = gen[c] + 1]}
    BY <1>1 DEF CreateAccount, Rotate
  <2>3. gen' \in [Account -> Nat]
    BY <2>1, <2>2
  <2> QED BY <1>a, <1>1, <2>3 DEF TypeOK, CreateAccount, Rotate
<1>2. ASSUME NEW p \in Payment, NEW c \in Account, NEW n \in Amount, TopupLightning(p, c, n)
      PROVE  TypeOK'
  <2>1. KeyOf(c) \in Key
    BY <1>a, <1>2 DEF TypeOK, TopupLightning, KeyOf, Key
  <2>2. invoices' \in [Payment -> Invoice \cup {NoInvoice}]
    BY <1>a, <1>2, <2>1 DEF TypeOK, TopupLightning, Invoice
  <2> QED BY <1>a, <1>2, <2>2 DEF TypeOK, TopupLightning
<1>3. ASSUME NEW p \in Payment, Pay(p)
      PROVE  TypeOK'
  <2>1. [invoices[p] EXCEPT !.status = "paid"] \in Invoice
    <3>1. invoices[p] \in Invoice
      BY <1>a, <1>3, InvoiceFields DEF Pay, NoInvoice
    <3> QED BY <3>1 DEF Invoice
  <2>2. invoices' \in [Payment -> Invoice \cup {NoInvoice}]
    BY <1>a, <1>3, <2>1 DEF TypeOK, Pay
  <2> QED BY <1>a, <1>3, <2>2 DEF TypeOK, Pay
<1>4. ASSUME NEW p \in Payment, Deliver(p)
      PROVE  TypeOK'
  <2>1. loop' \in Handlers
    BY <1>a, <1>4 DEF TypeOK, Deliver, Handlers
  <2> QED BY <1>a, <1>4, <2>1 DEF TypeOK, Deliver
<1>5. CASE WebhookTopup
  <2>1. PICK p \in Payment, k \in Key, n \in Nat :
          /\ Topup(k, n)
          /\ paymentCredits' \in [Payment -> Nat] /\ bought' \in [Account -> Nat]
          /\ loop' = [op |-> "nonce", payment |-> p]
          /\ UNCHANGED <<topupVars, trailVars, restarts, acked, intentCredits, txCredits, served>>
    BY <1>5, WebhookTopupDoes
  <2>2. loop' \in Handlers
    BY <2>1 DEF Handlers
  <2> QED BY <1>a, <2>1, <2>2, TopupDoes DEF TypeOK
<1>6. CASE WebhookNonce
  <2>1. Idle \in Handlers
    BY DEF Idle, Handlers
  <2> QED BY <1>a, <1>6, <2>1, WebhookNonceDoes DEF TypeOK
<1>7. ASSUME NEW c \in Account, NEW addr \in Address, NEW n \in Amount, TopupUsdc(c, addr, n)
      PROVE  TypeOK'
  <2>1. KeyOf(c) \in Key
    BY <1>a, <1>7 DEF TypeOK, TopupUsdc, KeyOf, Key
  <2>2. NewIntent(c, addr, n) \in IntentRow
    BY <2>1 DEF NewIntent, IntentRow
  <2>3. intents' \in Seq(IntentRow)
    BY <1>a, <1>7, <2>2 DEF TypeOK, TopupUsdc
  <2> QED BY <1>a, <1>7, <2>3 DEF TypeOK, TopupUsdc
<1>8. ASSUME NEW i \in DOMAIN intents, NEW r \in IntentRow
      PROVE  [intents EXCEPT ![i] = r] \in Seq(IntentRow)
  BY <1>a DEF TypeOK
<1>9. ASSUME NEW i \in 1..MaxIntents, Expire(i)
      PROVE  TypeOK'
  <2>1. [intents[i] EXCEPT !.expired = TRUE] \in IntentRow
    BY <1>a, <1>9, IntentFields DEF Expire, IntentRow
  <2>2. intents' \in Seq(IntentRow)
    BY <1>8, <1>9, <2>1 DEF Expire
  <2> QED BY <1>a, <1>9, <2>2 DEF TypeOK, Expire
<1>10. ASSUME NEW t \in Tx, NEW addr \in Address, NEW n \in Amount, TransferUsdc(t, addr, n)
       PROVE  TypeOK'
  <2>1. chain' \in [Tx -> Transfer \cup {None}]
    BY <1>a, <1>10 DEF TypeOK, TransferUsdc, Transfer
  <2> QED BY <1>a, <1>10, <2>1 DEF TypeOK, TransferUsdc
<1>11. CASE PollFulfil
  <2>1. PICK t \in Tx, i \in DOMAIN intents :
          /\ loop.op = "poll"
          /\ intents' = [intents EXCEPT ![i].status = "fulfilled"]
          /\ loop' = [op |-> "fulfil", logs |-> loop.logs, by_addr |-> loop.by_addr, tx |-> t]
          /\ UNCHANGED <<accountVars, invoices, nonces, claimed, chain, seen, trailVars, restarts, history>>
    BY <1>11, PollFulfilDoes
  <2>2. [intents[i] EXCEPT !.status = "fulfilled"] \in IntentRow
    BY <1>a, IntentFields DEF IntentRow
  <2>3. intents' \in Seq(IntentRow)
    BY <1>8, <2>1, <2>2
  <2>4. loop' \in Handlers
    BY <1>a, <2>1, LoopFields DEF Handlers
  <2> QED BY <1>a, <2>1, <2>3, <2>4 DEF TypeOK
<1>12. CASE PollCredit
  <2>1. PICK t \in Tx, k \in Key, n \in Nat :
          /\ Topup(k, n) /\ loop.op = "fulfil"
          /\ intentCredits' \in [1..MaxIntents -> Nat] /\ txCredits' \in [Tx -> Nat]
          /\ bought' \in [Account -> Nat]
          /\ seen' = seen \cup {t}
          /\ loop' = [op |-> "poll", logs |-> loop.logs, by_addr |-> loop.by_addr]
          /\ UNCHANGED <<invoices, nonces, claimed, intents, chain, trailVars, restarts, acked,
                         paymentCredits, served>>
    BY <1>12, PollCreditDoes
  <2>2. loop' \in Handlers
    BY <1>a, <2>1, LoopFields DEF Handlers
  <2> QED BY <1>a, <2>1, <2>2, TopupDoes DEF TypeOK
<1>13. ASSUME NEW a \in Agent, NexusTrail(a) \/ ServiceTrail(a)
       PROVE  TypeOK'
  <2>1. \A c \in Account : gen[c] > 0 => KeyOf(c) \in Key
    BY <1>a DEF TypeOK, KeyOf, Key
  <2>2. loop' \in Handlers
    BY <1>13, <2>1 DEF Handlers, NexusTrail, ServiceTrail, Funded
  <2> QED BY <1>a, <1>13, <2>2 DEF TypeOK, NexusTrail, ServiceTrail
<1>14. CASE Consume
  <2>1. PICK a \in Agent, k \in Key :
          /\ credit' \in [Account -> Nat]
          /\ loop' \in {[op |-> "record", agent |-> a, key |-> k], [op |-> "record", agent |-> a, key |-> None]}
          /\ UNCHANGED <<gen, tier, topupVars, trailVars, restarts, history>>
    BY <1>14, ConsumeDoes
  <2>2. loop' \in Handlers
    BY <2>1 DEF Handlers
  <2> QED BY <1>a, <2>1, <2>2 DEF TypeOK
<1>15. ASSUME NEW pioneer \in BOOLEAN, RecordTrail(pioneer)
       PROVE  TypeOK'
  <2>1. PICK a \in Agent, k \in Key \cup {None} :
          /\ today' \in [Agent -> Nat] /\ month' \in [Agent -> Nat] /\ served' \in [Account -> Nat]
          /\ \/ loop' = Idle
             \/ k # None /\ loop' = [op |-> "refund", agent |-> a, key |-> k]
          /\ UNCHANGED <<accountVars, topupVars, restarts, acked,
                         paymentCredits, intentCredits, txCredits, bought>>
    BY <1>15, RecordTrailDoes
  <2>2. loop' \in Handlers
    BY <2>1 DEF Handlers, Idle
  <2> QED BY <1>a, <2>1, <2>2 DEF TypeOK
<1>16. CASE Refund
  <2>1. PICK k \in Key :
          /\ Topup(k, 1) /\ loop' = Idle
          /\ UNCHANGED <<topupVars, trailVars, restarts, history>>
    BY <1>16, RefundDoes
  <2>2. Idle \in Handlers
    BY DEF Idle, Handlers
  <2> QED BY <1>a, <2>1, <2>2, TopupDoes DEF TypeOK
<1>17. CASE PollStart
  <2>1. \A addr \in Address : ByAddr(addr) \in Nat
    BY <1>a, ByAddrIs
  <2>2. loop' \in Handlers
    BY <1>17, <2>1 DEF PollStart, Handlers
  <2> QED BY <1>a, <1>17, <2>2 DEF TypeOK, PollStart
<1>18. CASE PollEnd \/ Restart
  <2>1. Idle \in Handlers
    BY DEF Idle, Handlers
  <2> QED BY <1>a, <1>18, <2>1 DEF TypeOK, PollEnd, Restart
<1>19. CASE Claim
  <2>1. PICK p \in Payment, c \in Account :
          /\ claimed' = claimed \cup {p}
          /\ loop' = Idle \/ loop' = [op |-> "record", agent |-> AgentOf[c], key |-> None]
          /\ UNCHANGED <<accountVars, invoices, nonces, intents, chain, seen, trailVars, restarts, history>>
    BY <1>19, ClaimDoes
  <2>2. loop' \in Handlers
    BY <2>1, AgentAssumption DEF Handlers, Idle
  <2> QED BY <1>a, <2>1, <2>2 DEF TypeOK
<1> QED BY <1>1, <1>2, <1>3, <1>4, <1>5, <1>6, <1>7, <1>9, <1>10, <1>11, <1>12, <1>13, <1>14,
           <1>15, <1>16, <1>17, <1>18, <1>19 DEF Next, LoopStep, Claim

-----------------------------------------------------------------------------
(* Keys, invoices and intents from one state to the next.                    *)

\* Only account creation and rotation change an api_key.
LEMMA GenStep ==
  ASSUME Next
  PROVE  gen' = gen \/ \E c \in Account : CreateAccount(c) \/ Rotate(c)
<1>1. ASSUME NEW p \in Payment, Pay(p) \/ Deliver(p) \/ \E c \in Account, n \in Amount : TopupLightning(p, c, n)
      PROVE  gen' = gen
  BY <1>1 DEF Pay, Deliver, TopupLightning, accountVars
<1>8. CASE Claim
  BY <1>8, ClaimDoes DEF accountVars
<1>2. ASSUME NEW c \in Account, NEW addr \in Address, NEW n \in Amount, TopupUsdc(c, addr, n)
      PROVE  gen' = gen
  BY <1>2 DEF TopupUsdc, accountVars
<1>3. ASSUME NEW i \in 1..MaxIntents, Expire(i)
      PROVE  gen' = gen
  BY <1>3 DEF Expire, accountVars
<1>4. ASSUME NEW t \in Tx, NEW addr \in Address, NEW n \in Amount, TransferUsdc(t, addr, n)
      PROVE  gen' = gen
  BY <1>4 DEF TransferUsdc, accountVars
<1>5. ASSUME NEW a \in Agent, NexusTrail(a) \/ ServiceTrail(a)
      PROVE  gen' = gen
  BY <1>5 DEF NexusTrail, ServiceTrail, accountVars
<1>6. CASE PollStart \/ Restart \/ WebhookNonce \/ PollFulfil \/ PollEnd \/ Consume
           \/ \E pioneer \in BOOLEAN : RecordTrail(pioneer)
  BY <1>6 DEF PollStart, Restart, WebhookNonce, PollFulfil, PollEnd, Consume, RecordTrail, accountVars
<1>7. CASE WebhookTopup \/ PollCredit \/ Refund
  BY <1>7 DEF WebhookTopup, PollCredit, Refund, Topup, accountVars
<1> QED BY <1>1, <1>2, <1>3, <1>4, <1>5, <1>6, <1>7, <1>8 DEF Next, LoopStep, Claim

\* Generations only grow, so a key that was issued stays so and an invalid one, too.
LEMMA KeysStay ==
  ASSUME PaygInv, Next, NEW k \in Key, Issued(k)
  PROVE  Issued(k)' /\ (~Valid(k) => ~Valid(k)')
<1>1. gen \in [Account -> Nat] /\ k.account \in Account /\ k.gen \in Nat /\ k.gen > 0
  BY KeyFields DEF PaygInv, TypeOK
<1>2. CASE gen' = gen
  BY <1>2 DEF Issued, Valid
<1>3. ASSUME NEW c \in Account, CreateAccount(c) \/ Rotate(c)
      PROVE  Issued(k)' /\ (~Valid(k) => ~Valid(k)')
  <2>1. gen' = [gen EXCEPT ![c] = gen[c] + 1]
    BY <1>1, <1>3 DEF CreateAccount, Rotate
  <2> QED BY <1>1, <2>1 DEF Issued, Valid
<1> QED BY <1>2, <1>3, GenStep

\* An invoice is created open, may be paid, and keeps its key and amount.
LEMMA InvoiceStep ==
  ASSUME PaygInv, Next, NEW p \in Payment
  PROVE  \/ invoices'[p] = invoices[p]
         \/ /\ invoices[p] = NoInvoice
            /\ \E c \in Account : gen[c] > 0 /\ invoices'[p].key = KeyOf(c)
            /\ invoices'[p].status = "open"
            /\ UNCHANGED <<gen, nonces, loop, restarts, history>>
         \/ /\ invoices[p] # NoInvoice
            /\ invoices'[p].key = invoices[p].key /\ invoices'[p].trails = invoices[p].trails
            /\ invoices'[p].status = "paid"
            /\ UNCHANGED <<gen, nonces, loop, restarts, history>>
<1> DEFINE Goal == \/ invoices'[p] = invoices[p]
                   \/ /\ invoices[p] = NoInvoice
                      /\ \E c \in Account : gen[c] > 0 /\ invoices'[p].key = KeyOf(c)
                      /\ invoices'[p].status = "open"
                      /\ UNCHANGED <<gen, nonces, loop, restarts, history>>
                   \/ /\ invoices[p] # NoInvoice
                      /\ invoices'[p].key = invoices[p].key /\ invoices'[p].trails = invoices[p].trails
                      /\ invoices'[p].status = "paid"
                      /\ UNCHANGED <<gen, nonces, loop, restarts, history>>
<1>0. invoices \in [Payment -> Invoice \cup {NoInvoice}]
  BY DEF PaygInv, TypeOK
<1>1. ASSUME NEW q \in Payment, NEW c \in Account, NEW n \in Amount, TopupLightning(q, c, n)
      PROVE  Goal
  BY <1>0, <1>1 DEF TopupLightning, accountVars
<1>2. ASSUME NEW q \in Payment, Pay(q)
      PROVE  Goal
  <2>1. invoices[q] \in Invoice
    BY <1>0, <1>2, InvoiceFields DEF Pay, NoInvoice, PaygInv
  <2> QED BY <1>0, <1>2, <2>1 DEF Pay, accountVars, Invoice, NoInvoice
<1>3. ASSUME NEW q \in Payment, Deliver(q)
      PROVE  Goal
  BY <1>3 DEF Deliver, topupVars
<1>4. ASSUME NEW c \in Account, CreateAccount(c) \/ Rotate(c)
      PROVE  Goal
  BY <1>4 DEF CreateAccount, Rotate, topupVars
<1>5. ASSUME NEW c \in Account, NEW addr \in Address, NEW n \in Amount, TopupUsdc(c, addr, n)
      PROVE  Goal
  BY <1>5 DEF TopupUsdc
<1>6. ASSUME NEW i \in 1..MaxIntents, Expire(i)
      PROVE  Goal
  BY <1>6 DEF Expire
<1>7. ASSUME NEW t \in Tx, NEW addr \in Address, NEW n \in Amount, TransferUsdc(t, addr, n)
      PROVE  Goal
  BY <1>7 DEF TransferUsdc
<1>8. ASSUME NEW a \in Agent, NexusTrail(a) \/ ServiceTrail(a)
      PROVE  Goal
  BY <1>8 DEF NexusTrail, ServiceTrail, topupVars
<1>9. CASE PollStart \/ Restart \/ LoopStep
  BY <1>9 DEF PollStart, Restart, LoopStep, WebhookTopup, WebhookNonce, PollFulfil, PollCredit, PollEnd,
     Consume, RecordTrail, Refund, topupVars
<1>10. CASE Claim
  BY <1>10, ClaimDoes
<1> QED BY <1>1, <1>2, <1>3, <1>4, <1>5, <1>6, <1>7, <1>8, <1>9, <1>10 DEF Next, Claim

\* The rows that exist keep their key and amount, and their status but for
\* fulfill_usdc_intent.
IntentsKept ==
  /\ DOMAIN intents' = DOMAIN intents
  /\ \A i \in DOMAIN intents :
       intents'[i].key = intents[i].key /\ intents'[i].trails = intents[i].trails
  /\ \/ PollFulfil
     \/ \A i \in DOMAIN intents : intents'[i].status = intents[i].status

\* create_usdc_intent adds a row and changes nothing else.
IntentAdded ==
  \E c \in Account :
    /\ Len(intents) < MaxIntents
    /\ DOMAIN intents' = 1..(Len(intents) + 1)
    /\ \A i \in DOMAIN intents : intents'[i] = intents[i]
    /\ gen[c] > 0 /\ intents'[Len(intents) + 1].key = KeyOf(c)
    /\ intents'[Len(intents) + 1].status = "pending"
    /\ UNCHANGED <<gen, credit, nonces, invoices, chain, seen, loop, restarts, history>>

\* What a step may do to payg_usdc_intents.
LEMMA IntentStep ==
  ASSUME PaygInv, Next
  PROVE  IntentsKept \/ IntentAdded
<1>0. TypeOK /\ intents \in Seq(IntentRow)
  BY DEF PaygInv, TypeOK
<1>1. ASSUME NEW c \in Account, NEW addr \in Address, NEW n \in Amount, TopupUsdc(c, addr, n)
      PROVE  IntentAdded
  <2> DEFINE r == NewIntent(c, addr, n)
  <2>1. r.key = KeyOf(c) /\ r.status = "pending"
    BY DEF NewIntent
  <2>2. intents' = Append(intents, r)
    BY <1>1 DEF TopupUsdc
  <2> HIDE DEF r
  <2>3. /\ DOMAIN intents' = 1..(Len(intents) + 1)
        /\ \A i \in DOMAIN intents : intents'[i] = intents[i]
        /\ intents'[Len(intents) + 1] = r
    BY <1>0, <2>2
  <2> QED BY <1>1, <2>1, <2>3 DEF TopupUsdc, accountVars, IntentAdded
<1>2. ASSUME NEW i \in 1..MaxIntents, Expire(i)
      PROVE  IntentsKept
  <2>1. i \in DOMAIN intents /\ intents' = [intents EXCEPT ![i] = [intents[i] EXCEPT !.expired = TRUE]]
    BY <1>2 DEF Expire
  <2>2. intents[i] \in IntentRow
    BY <1>0, <2>1, IntentFields
  <2>3. LET r == [intents[i] EXCEPT !.expired = TRUE]
        IN  r.key = intents[i].key /\ r.trails = intents[i].trails /\ r.status = intents[i].status
    BY <2>2 DEF IntentRow
  <2>4. DOMAIN intents' = DOMAIN intents /\ \A j \in DOMAIN intents : j # i => intents'[j] = intents[j]
    BY <1>0, <2>1
  <2>5. intents'[i] = [intents[i] EXCEPT !.expired = TRUE]
    BY <1>0, <2>1
  <2> QED BY <2>3, <2>4, <2>5 DEF IntentsKept
<1>3. ASSUME PollFulfil
      PROVE  IntentsKept
  <2>1. PICK i \in DOMAIN intents : intents' = [intents EXCEPT ![i] = [intents[i] EXCEPT !.status = "fulfilled"]]
    BY <1>3, PollFulfilDoes
  <2>2. intents[i] \in IntentRow
    BY <1>0, IntentFields
  <2>3. LET r == [intents[i] EXCEPT !.status = "fulfilled"]
        IN  r.key = intents[i].key /\ r.trails = intents[i].trails
    BY <2>2 DEF IntentRow
  <2>4. DOMAIN intents' = DOMAIN intents /\ \A j \in DOMAIN intents : j # i => intents'[j] = intents[j]
    BY <1>0, <2>1
  <2>5. intents'[i] = [intents[i] EXCEPT !.status = "fulfilled"]
    BY <1>0, <2>1
  <2> QED BY <1>3, <2>3, <2>4, <2>5 DEF IntentsKept
<1>4. ASSUME intents' = intents
      PROVE  IntentsKept
  BY <1>4 DEF IntentsKept
<1>5. ASSUME NEW p \in Payment, Pay(p) \/ Deliver(p)
      PROVE  IntentsKept
  <2>1. intents' = intents
    BY <1>5 DEF Pay, Deliver, topupVars
  <2> QED BY <1>4, <2>1
<1>12. ASSUME NEW p \in Payment, NEW c \in Account, NEW n \in Amount, TopupLightning(p, c, n)
      PROVE  IntentsKept
  <2>1. intents' = intents
    BY <1>12 DEF TopupLightning
  <2> QED BY <1>4, <2>1
<1>6. ASSUME NEW c \in Account, CreateAccount(c) \/ Rotate(c)
      PROVE  IntentsKept
  <2>1. intents' = intents
    BY <1>6 DEF CreateAccount, Rotate, topupVars
  <2> QED BY <1>4, <2>1
<1>7. ASSUME NEW t \in Tx, NEW addr \in Address, NEW n \in Amount, TransferUsdc(t, addr, n)
      PROVE  IntentsKept
  <2>1. intents' = intents
    BY <1>7 DEF TransferUsdc
  <2> QED BY <1>4, <2>1
<1>8. ASSUME NEW a \in Agent, NexusTrail(a) \/ ServiceTrail(a)
      PROVE  IntentsKept
  <2>1. intents' = intents
    BY <1>8 DEF NexusTrail, ServiceTrail, topupVars
  <2> QED BY <1>4, <2>1
<1>9. ASSUME PollStart \/ Restart \/ WebhookTopup \/ WebhookNonce \/ PollCredit \/ PollEnd \/ Consume
             \/ Refund \/ \E pioneer \in BOOLEAN : RecordTrail(pioneer)
      PROVE  IntentsKept
  <2>1. intents' = intents
    BY <1>9 DEF PollStart, Restart, WebhookTopup, WebhookNonce, PollCredit, PollEnd, Consume,
       RecordTrail, Refund, topupVars
  <2> QED BY <1>4, <2>1
<1>13. ASSUME Claim
      PROVE  IntentsKept
  <2>1. intents' = intents
    BY <1>13, ClaimDoes
  <2> QED BY <1>4, <2>1
<1> QED BY <1>1, <1>2, <1>3, <1>5, <1>6, <1>7, <1>8, <1>9, <1>12, <1>13 DEF Next, LoopStep, Claim

-----------------------------------------------------------------------------
(* The plain def handlers run between any two statements of the event loop.  *)

\* Account creation, rotation, intents, invoices and transfers touch neither a
\* balance nor what the handler on the loop relies on.
Outside == UNCHANGED <<credit, tier, nonces, claimed, seen, trailVars, loop, restarts, history>>

\* The steps of the event loop, and the restart.
OnLoop ==
  \/ \E p \in Payment : Deliver(p)
  \/ PollStart \/ PollEnd \/ Restart
  \/ \E a \in Agent : NexusTrail(a) \/ ServiceTrail(a)
  \/ Claim
  \/ WebhookTopup \/ WebhookNonce \/ PollFulfil \/ PollCredit
  \/ Consume \/ (\E pioneer \in BOOLEAN : RecordTrail(pioneer)) \/ Refund

\* A step is outside the event loop, or on it and then no key, invoice or transfer
\* changes.
LEMMA Steps ==
  ASSUME Next
  PROVE  Outside \/ (OnLoop /\ UNCHANGED <<gen, invoices, chain>>)
<1> USE DEF accountVars, topupVars
<1>1. ASSUME NEW c \in Account, CreateAccount(c) \/ Rotate(c)
      PROVE  Outside
  BY <1>1 DEF CreateAccount, Rotate, Outside
<1>2. ASSUME NEW p \in Payment, NEW c \in Account, NEW n \in Amount, TopupLightning(p, c, n)
      PROVE  Outside
  BY <1>2 DEF TopupLightning, Outside
<1>3. ASSUME NEW p \in Payment, Pay(p)
      PROVE  Outside
  BY <1>3 DEF Pay, Outside
<1>4. ASSUME NEW c \in Account, NEW addr \in Address, NEW n \in Amount, TopupUsdc(c, addr, n)
      PROVE  Outside
  BY <1>4 DEF TopupUsdc, Outside
<1>5. ASSUME NEW i \in 1..MaxIntents, Expire(i)
      PROVE  Outside
  BY <1>5 DEF Expire, Outside
<1>6. ASSUME NEW t \in Tx, NEW addr \in Address, NEW n \in Amount, TransferUsdc(t, addr, n)
      PROVE  Outside
  BY <1>6 DEF TransferUsdc, Outside
<1>7. ASSUME NEW p \in Payment, Deliver(p)
      PROVE  OnLoop /\ UNCHANGED <<gen, invoices, chain>>
  BY <1>7 DEF OnLoop, Deliver
<1>8. ASSUME NEW a \in Agent, NexusTrail(a) \/ ServiceTrail(a)
      PROVE  OnLoop /\ UNCHANGED <<gen, invoices, chain>>
  BY <1>8 DEF OnLoop, NexusTrail, ServiceTrail
<1>9. ASSUME PollStart \/ Restart \/ LoopStep
      PROVE  OnLoop /\ UNCHANGED <<gen, invoices, chain>>
  <2>1. OnLoop
    BY <1>9 DEF OnLoop, LoopStep
  <2>2. CASE PollStart \/ Restart \/ PollEnd \/ WebhookNonce \/ PollFulfil \/ Consume
             \/ \E pioneer \in BOOLEAN : RecordTrail(pioneer)
    BY <2>1, <2>2 DEF PollStart, Restart, PollEnd, WebhookNonce, PollFulfil, Consume, RecordTrail
  <2>3. CASE WebhookTopup \/ PollCredit \/ Refund
    BY <2>1, <2>3 DEF WebhookTopup, PollCredit, Refund, Topup
  <2> QED BY <1>9, <2>2, <2>3 DEF LoopStep
<1>10. CASE Claim
  BY <1>10, ClaimDoes DEF OnLoop
<1> QED BY <1>1, <1>2, <1>3, <1>4, <1>5, <1>6, <1>7, <1>8, <1>9, <1>10 DEF Next, Claim

-----------------------------------------------------------------------------
(* Keys.                                                                    *)

\* Invoices, intents and the handler on the loop hold keys that were issued, and a
\* trail is billed to an account of its own agent (get_payg_account_by_agent).
LEMMA KeysStep == ASSUME PaygInv, Next PROVE KeysIssued'
<1>1. TypeOK /\ TypeOK' /\ gen \in [Account -> Nat]
  BY TypeStep DEF PaygInv, TypeOK
<1>2. ASSUME NEW c \in Account, gen[c] > 0
      PROVE  KeyOf(c) \in Key /\ Issued(KeyOf(c))
  BY <1>1, <1>2 DEF KeyOf, Key, Issued
<1>3. ASSUME NEW p \in Payment, invoices'[p] # NoInvoice
      PROVE  Issued(invoices[p].key)'
  <2>1. PICK k \in Key : k = invoices'[p].key /\ Issued(k)
    <3>1. CASE invoices[p] # NoInvoice
      <4>1. invoices'[p].key = invoices[p].key
        BY <3>1, InvoiceStep
      <4>2. invoices[p].key \in Key
        BY <1>1, <3>1, InvoiceFields
      <4> QED BY <3>1, <4>1, <4>2 DEF PaygInv, KeysIssued
    <3>2. CASE invoices[p] = NoInvoice
      <4>1. PICK c \in Account : gen[c] > 0 /\ invoices'[p].key = KeyOf(c)
        BY <1>3, <3>2, InvoiceStep
      <4> QED BY <1>2, <4>1
    <3> QED BY <3>1, <3>2
  <2>2. Issued(k)'
    BY <2>1, KeysStay
  <2> QED BY <2>1, <2>2 DEF Issued
<1>4. ASSUME NEW i \in DOMAIN intents'
      PROVE  Issued(intents[i].key)'
  <2>1. PICK k \in Key : k = intents'[i].key /\ Issued(k)
    <3>1. ASSUME i \in DOMAIN intents, intents'[i].key = intents[i].key
          PROVE  \E k \in Key : k = intents'[i].key /\ Issued(k)
      BY <1>1, <3>1, IntentFields DEF PaygInv, KeysIssued
    <3>2. CASE IntentsKept
      BY <3>1, <3>2 DEF IntentsKept
    <3>3. CASE IntentAdded
      <4>1. PICK c \in Account :
              /\ DOMAIN intents' = 1..(Len(intents) + 1)
              /\ \A j \in DOMAIN intents : intents'[j] = intents[j]
              /\ gen[c] > 0 /\ intents'[Len(intents) + 1].key = KeyOf(c)
        BY <3>3 DEF IntentAdded
      <4>2. i \in DOMAIN intents \/ i = Len(intents) + 1
        BY <1>1, <4>1, IntentFields
      <4> QED BY <1>2, <3>1, <4>1, <4>2
    <3> QED BY <3>2, <3>3, IntentStep
  <2>2. Issued(k)'
    BY <2>1, KeysStay
  <2> QED BY <2>1, <2>2 DEF Issued
<1>5. ASSUME loop'.op \in {"consume", "record", "refund"}, loop'.key # None
      PROVE  Issued(loop.key)' /\ AgentOf[loop'.key.account] = loop'.agent
  <2>1. ASSUME NEW k \in Key, k = loop'.key, Issued(k), AgentOf[k.account] = loop'.agent
        PROVE  Issued(loop.key)' /\ AgentOf[loop'.key.account] = loop'.agent
    <3>1. Issued(k)'
      BY <2>1, KeysStay
    <3> QED BY <2>1, <3>1 DEF Issued
  <2>2. ASSUME loop.op \in {"consume", "record", "refund"}, loop.key # None,
               loop'.key = loop.key, loop'.agent = loop.agent
        PROVE  Issued(loop.key)' /\ AgentOf[loop'.key.account] = loop'.agent
    <3>1. loop.key \in Key
      BY <1>1, <2>2, LoopFields
    <3>2. Issued(loop.key) /\ AgentOf[loop.key.account] = loop.agent
      BY <2>2 DEF PaygInv, KeysIssued
    <3> QED BY <2>1, <2>2, <3>1, <3>2
  <2>3. CASE Outside
    BY <1>5, <2>2, <2>3 DEF Outside
  <2>4. ASSUME NEW a \in Agent, NexusTrail(a)
        PROVE  Issued(loop.key)' /\ AgentOf[loop'.key.account] = loop'.agent
    <3>1. PICK c \in Account : /\ AgentOf[c] = a /\ gen[c] > 0
                               /\ loop' = [op |-> "consume", agent |-> a, key |-> KeyOf(c)]
      BY <1>5, <2>4 DEF NexusTrail, Funded
    <3>2. KeyOf(c).account = c
      BY DEF KeyOf
    <3> QED BY <1>2, <2>1, <3>1, <3>2
  <2>5. ASSUME NEW a \in Agent, ServiceTrail(a)
        PROVE  FALSE
    BY <1>5, <2>5 DEF ServiceTrail
  <2>9. ASSUME Claim
        PROVE  FALSE
    BY <1>5, <2>9, ClaimDoes DEF Idle
  <2>6. CASE Consume
    <3>1. PICK a \in Agent, k \in Key :
            /\ loop.op = "consume" /\ loop.agent = a /\ loop.key = k
            /\ loop' \in {[op |-> "record", agent |-> a, key |-> k], [op |-> "record", agent |-> a, key |-> None]}
      BY <2>6, ConsumeDoes
    <3> QED BY <1>5, <2>2, <3>1, NoneAssumption
  <2>7. ASSUME NEW pioneer \in BOOLEAN, RecordTrail(pioneer)
        PROVE  Issued(loop.key)' /\ AgentOf[loop'.key.account] = loop'.agent
    <3>1. PICK a \in Agent, k \in Key \cup {None} :
            /\ loop.op = "record" /\ loop.agent = a /\ loop.key = k
            /\ loop' = Idle \/ (k # None /\ loop' = [op |-> "refund", agent |-> a, key |-> k])
      BY <2>7, RecordTrailDoes
    <3> QED BY <1>5, <2>2, <3>1 DEF Idle
  <2>8. ASSUME \/ \E p \in Payment : Deliver(p)
               \/ PollStart \/ PollEnd \/ Restart \/ WebhookTopup \/ WebhookNonce
               \/ PollFulfil \/ PollCredit \/ Refund
        PROVE  loop' = loop \/ loop'.op \notin {"consume", "record", "refund"}
    <3>1. CASE \E p \in Payment : Deliver(p)
      BY <3>1 DEF Deliver
    <3>2. CASE PollStart
      BY <1>1, <3>2, PollStartDoes
    <3>4. CASE PollFulfil
      BY <3>4 DEF PollFulfil
    <3>5. CASE PollCredit
      BY <3>5 DEF PollCredit
    <3>3. CASE WebhookTopup \/ WebhookNonce \/ PollEnd \/ Restart \/ Refund
      BY <3>3 DEF WebhookTopup, WebhookNonce, PollEnd, Restart, Refund, Idle
    <3> QED BY <2>8, <3>1, <3>2, <3>3, <3>4, <3>5
  <2> QED BY <1>5, <2>2, <2>3, <2>4, <2>5, <2>6, <2>7, <2>8, <2>9, Steps DEF OnLoop
<1> QED BY <1>3, <1>4, <1>5 DEF KeysIssued

-----------------------------------------------------------------------------
(* Lightning: credits and nonces.                                            *)

\* Once the api_key of an invoice is gone, it is gone for good; a new invoice is
\* not credited.
LEMMA InvoiceKey ==
  ASSUME PaygInv, Next, NEW p \in Payment
  PROVE  /\ invoices[p].status = "paid" => invoices'[p].status = "paid"
         /\ (invoices[p] # NoInvoice /\ ~Valid(invoices[p].key))
              => (invoices'[p] # NoInvoice /\ ~Valid(invoices[p].key)')
         /\ Valid(invoices[p].key)' /\ invoices[p] # NoInvoice => Valid(invoices[p].key)
<1>1. TypeOK
  BY DEF PaygInv
<1>2. CASE invoices[p] = NoInvoice
  BY <1>2 DEF NoInvoice
<1>3. CASE invoices[p] # NoInvoice
  <2>1. invoices[p].key \in Key /\ Issued(invoices[p].key)
    BY <1>1, <1>3, InvoiceFields DEF PaygInv, KeysIssued
  <2>2. PICK k \in Key : k = invoices[p].key
    BY <2>1
  <2>3. ~Valid(k) => ~Valid(k)'
    BY <2>1, <2>2, KeysStay
  <2>4. /\ invoices'[p].key = k /\ invoices'[p] # NoInvoice
        /\ invoices[p].status = "paid" => invoices'[p].status = "paid"
    BY <1>3, <2>2, InvoiceStep DEF NoInvoice
  <2>5. Valid(invoices[p].key) <=> Valid(k)
    BY <2>2
  <2>6. Valid(invoices[p].key)' <=> Valid(k)'
    BY <2>4 DEF Valid
  <2> QED BY <1>3, <2>3, <2>4, <2>5, <2>6
<1> QED BY <1>2, <1>3

\* A payment recorded was credited before, and only a restart between the two
\* statements, or a lost api_key, lets a redelivery credit it again.
LEMMA NoncesStep == ASSUME PaygInv, Next PROVE NoncesFollowCredits'
<1>1. TypeOK /\ NoncesFollowCredits /\ restarts \in Nat /\ paymentCredits \in [Payment -> Nat]
      /\ acked \subseteq Payment /\ nonces \subseteq Payment
  BY DEF PaygInv, TypeOK
<1> DEFINE Settled(p) == p \in nonces \cup Unrecorded \/ (invoices[p] # NoInvoice /\ ~Valid(invoices[p].key))
\* Nothing is credited, recorded or answered.
<1>2. ASSUME UNCHANGED <<nonces, acked, paymentCredits>>, restarts' \in {restarts, restarts + 1},
             Unrecorded' = Unrecorded \/ (restarts' = restarts + 1 /\ Unrecorded' = {}),
             claimed \subseteq claimed',
             loop'.op \in {"topup", "nonce"} => loop' = loop /\ claimed' = claimed
      PROVE  NoncesFollowCredits'
  <2>1. acked' \subseteq nonces' \cup claimed' \cup Unhashed
    BY <1>1, <1>2 DEF NoncesFollowCredits
  <2>2. loop'.op \in {"topup", "nonce"} =>
          /\ loop'.payment = loop.payment /\ loop.payment \in Payment /\ loop.op = loop'.op
          /\ ~AlreadyProcessed(loop.payment) /\ invoices[loop.payment].status = "paid"
    BY <1>1, <1>2, LoopFields DEF NoncesFollowCredits
  <2>3. loop'.op \in {"topup", "nonce"} =>
          ~AlreadyProcessed(loop.payment)' /\ invoices'[loop'.payment].status = "paid"
    BY <1>2, <2>2, InvoiceKey DEF AlreadyProcessed, HasExternalNonce
  <2>4. \A p \in nonces' : paymentCredits'[p] > 0 /\ invoices'[p].status = "paid"
    BY <1>1, <1>2, InvoiceKey DEF NoncesFollowCredits
  <2>5. loop'.op = "nonce" =>
          (Valid(invoices[loop.payment].key)' => paymentCredits'[loop'.payment] > 0)
    <3> SUFFICES ASSUME loop'.op = "nonce", Valid(invoices[loop.payment].key)'
                 PROVE  paymentCredits'[loop'.payment] > 0
      OBVIOUS
    <3>1. loop' = loop /\ loop.payment \in Payment /\ invoices[loop.payment] # NoInvoice
      BY <1>2, <2>2 DEF NoInvoice
    <3>2. PICK p \in Payment : p = loop.payment
      BY <3>1
    <3>3. Valid(invoices[p].key)'
      BY <3>1, <3>2
    <3>4. Valid(invoices[p].key)
      BY <3>1, <3>2, <3>3, InvoiceKey
    <3> QED BY <1>1, <1>2, <3>1, <3>2, <3>4 DEF NoncesFollowCredits
  <2>6. ASSUME NEW p \in Payment \ Unhashed
        PROVE  IF Settled(p)' THEN paymentCredits'[p] <= 1 + restarts' ELSE paymentCredits'[p] <= restarts'
    <3>1. IF Settled(p) THEN paymentCredits[p] <= 1 + restarts ELSE paymentCredits[p] <= restarts
      BY <1>1 DEF NoncesFollowCredits
    <3>2. paymentCredits[p] \in Nat
      BY <1>1
    <3>3. CASE restarts' = restarts + 1
      BY <1>1, <1>2, <3>1, <3>2, <3>3
    <3>4. CASE restarts' = restarts /\ Unrecorded' = Unrecorded
      <4>1. Settled(p) => Settled(p)'
        BY <1>2, <3>4, InvoiceKey
      <4> QED BY <1>1, <1>2, <3>1, <3>2, <3>4, <4>1
    <3> QED BY <1>1, <1>2, <3>3, <3>4
  <2> QED BY <2>1, <2>3, <2>4, <2>5, <2>6 DEF NoncesFollowCredits
<1>3. CASE Outside
  BY <1>2, <1>3 DEF Outside, history, Unrecorded
<1>4. CASE Restart
  <2>1. UNCHANGED <<nonces, claimed, acked, paymentCredits>> /\ restarts' = restarts + 1 /\ loop' = Idle
    BY <1>4 DEF Restart, history
  <2> QED BY <1>2, <2>1 DEF Unrecorded, Idle
<1>5. ASSUME UNCHANGED <<nonces, acked, paymentCredits, restarts>>, claimed \subseteq claimed',
             loop.op \notin {"topup", "nonce"}, loop'.op \notin {"topup", "nonce"}
      PROVE  NoncesFollowCredits'
  BY <1>2, <1>5 DEF Unrecorded
<1>6. CASE PollStart
  BY <1>1, <1>5, <1>6, PollStartDoes DEF Idle, topupVars, history
<1>7. CASE PollEnd \/ Refund \/ \E a \in Agent : NexusTrail(a) \/ ServiceTrail(a)
  BY <1>5, <1>7 DEF PollEnd, Refund, NexusTrail, ServiceTrail, Idle, topupVars, history
<1>8. CASE PollFulfil
  BY <1>5, <1>8 DEF PollFulfil, history
<1>9. CASE PollCredit
  BY <1>5, <1>9 DEF PollCredit
<1>10. CASE Consume \/ \E pioneer \in BOOLEAN : RecordTrail(pioneer)
  BY <1>5, <1>10, ConsumeDoes, RecordTrailDoes DEF Idle, topupVars, history
<1>14. CASE Claim
  BY <1>5, <1>14, ClaimDoes DEF Idle, history
<1>11. ASSUME NEW p \in Payment, Deliver(p), UNCHANGED <<gen, invoices>>
       PROVE  NoncesFollowCredits'
  <2>1. /\ loop = Idle /\ invoices[p].status = "paid"
        /\ UNCHANGED <<nonces, claimed, restarts, paymentCredits>>
        /\ \/ AlreadyProcessed(p) /\ acked' = acked \cup {p} /\ loop' = loop
           \/ ~AlreadyProcessed(p) /\ loop' = [op |-> "topup", payment |-> p] /\ acked' = acked
    BY <1>11 DEF Deliver, topupVars
  <2>2. Unrecorded = {} /\ Unrecorded' = {} /\ loop'.op # "nonce"
    BY <2>1 DEF Unrecorded, Idle
  <2>3. \A q \in Payment : Settled(q)' <=> Settled(q)
    BY <1>11, <2>1, <2>2 DEF Valid
  <2>4. \A q \in Payment \ Unhashed :
          IF Settled(q)' THEN paymentCredits'[q] <= 1 + restarts' ELSE paymentCredits'[q] <= restarts'
    BY <1>1, <2>1, <2>3 DEF NoncesFollowCredits
  <2>5. acked' \subseteq nonces' \cup claimed' \cup Unhashed
    BY <1>1, <2>1 DEF NoncesFollowCredits, AlreadyProcessed, HasExternalNonce
  <2>6. loop'.op \in {"topup", "nonce"} =>
          ~AlreadyProcessed(loop.payment)' /\ invoices'[loop'.payment].status = "paid"
    BY <1>11, <2>1 DEF Idle, AlreadyProcessed, HasExternalNonce
  <2>7. \A q \in nonces' : paymentCredits'[q] > 0 /\ invoices'[q].status = "paid"
    BY <1>1, <1>11, <2>1 DEF NoncesFollowCredits
  <2> QED BY <2>2, <2>4, <2>5, <2>6, <2>7 DEF NoncesFollowCredits
<1>12. ASSUME WebhookTopup, UNCHANGED <<gen, invoices>>
       PROVE  NoncesFollowCredits'
  <2>1. PICK p \in Payment, k \in Key :
          /\ loop.op = "topup" /\ loop.payment = p /\ ~AlreadyProcessed(p)
          /\ invoices[p] # NoInvoice /\ k = invoices[p].key
          /\ paymentCredits' \in [Payment -> Nat]
          /\ \A q \in Payment : paymentCredits'[q] =
               IF Valid(k) /\ q = p THEN paymentCredits[q] + 1 ELSE paymentCredits[q]
          /\ loop' = [op |-> "nonce", payment |-> p]
          /\ UNCHANGED <<nonces, claimed, restarts, acked>>
    BY <1>12, WebhookTopupDoes DEF topupVars
  <2>2. Unrecorded = {} /\ Unrecorded' = {p} \ Unhashed
    BY <2>1 DEF Unrecorded
  <2>3. invoices[p].status = "paid"
    BY <1>1, <2>1 DEF NoncesFollowCredits
  <2>4. ASSUME NEW q \in Payment \ Unhashed
        PROVE  IF Settled(q)' THEN paymentCredits'[q] <= 1 + restarts' ELSE paymentCredits'[q] <= restarts'
    <3>1. IF Settled(q) THEN paymentCredits[q] <= 1 + restarts ELSE paymentCredits[q] <= restarts
      BY <1>1 DEF NoncesFollowCredits
    <3>2. CASE q # p
      <4>1. Settled(q)' <=> Settled(q)
        BY <1>12, <2>1, <2>2, <3>2 DEF Valid
      <4> QED BY <2>1, <3>1, <3>2, <4>1
    <3>3. CASE q = p
      <4>1. Settled(p)'
        BY <2>2, <3>3
      <4>2. Settled(p) <=> ~Valid(k)
        BY <2>1, <2>2, <3>3 DEF AlreadyProcessed, HasExternalNonce
      <4>3. paymentCredits[p] \in Nat
        BY <1>1
      <4> QED BY <1>1, <2>1, <3>1, <3>3, <4>1, <4>2, <4>3
    <3> QED BY <3>2, <3>3
  <2>5. Valid(invoices[p].key)' => paymentCredits'[p] > 0
    <3>1. Valid(invoices[p].key)' <=> Valid(k)
      BY <1>12, <2>1 DEF Valid
    <3>2. paymentCredits[p] \in Nat
      BY <1>1
    <3> QED BY <2>1, <3>1, <3>2
  <2>6. \A q \in nonces' : paymentCredits'[q] > 0 /\ invoices'[q].status = "paid"
    BY <1>1, <1>12, <2>1 DEF NoncesFollowCredits
  <2>7. ~AlreadyProcessed(loop.payment)' /\ invoices'[loop'.payment].status = "paid"
    BY <1>12, <2>1, <2>3 DEF AlreadyProcessed, HasExternalNonce
  <2>8. acked' \subseteq nonces' \cup claimed' \cup Unhashed
    BY <1>1, <2>1 DEF NoncesFollowCredits
  <2>9. loop'.payment = p
    BY <2>1
  <2>10. Valid(invoices[loop.payment].key)' => paymentCredits'[loop'.payment] > 0
    BY <2>5, <2>9
  <2> QED BY <2>4, <2>6, <2>7, <2>8, <2>10 DEF NoncesFollowCredits
<1>13. ASSUME WebhookNonce, UNCHANGED <<gen, invoices>>
       PROVE  NoncesFollowCredits'
  <2>1. PICK p \in Payment, k \in Key :
          /\ loop.op = "nonce" /\ loop.payment = p /\ k = invoices[p].key
          /\ invoices[p] # NoInvoice /\ invoices[p].status = "paid"
          /\ \/ Valid(k) /\ RecordNonce(p) /\ acked' = acked \cup {p}
             \/ ~Valid(k) /\ nonces' = nonces /\ acked' = acked
          /\ loop' = Idle
          /\ UNCHANGED <<claimed, restarts, paymentCredits>>
    BY <1>13, WebhookNonceDoes
  <2>2. Unrecorded = {p} \ Unhashed /\ Unrecorded' = {}
    BY <2>1 DEF Unrecorded, Idle
  <2>3. Valid(k) => paymentCredits[p] > 0
    BY <1>1, <2>1 DEF NoncesFollowCredits
  <2>4. \A q \in Payment : Settled(q)' <=> Settled(q)
    BY <1>13, <2>1, <2>2 DEF Valid, RecordNonce
  <2>5. \A q \in Payment \ Unhashed :
          IF Settled(q)' THEN paymentCredits'[q] <= 1 + restarts' ELSE paymentCredits'[q] <= restarts'
    BY <1>1, <2>1, <2>4 DEF NoncesFollowCredits
  <2>6. \A q \in nonces' : paymentCredits'[q] > 0 /\ invoices'[q].status = "paid"
    BY <1>1, <1>13, <2>1, <2>3 DEF NoncesFollowCredits, RecordNonce
  <2>7. acked' \subseteq nonces' \cup claimed' \cup Unhashed
    BY <1>1, <2>1 DEF NoncesFollowCredits, RecordNonce
  <2>8. loop'.op \notin {"topup", "nonce"}
    BY <2>1 DEF Idle
  <2> QED BY <2>5, <2>6, <2>7, <2>8 DEF NoncesFollowCredits
<1> QED BY <1>3, <1>4, <1>6, <1>7, <1>8, <1>9, <1>10, <1>11, <1>12, <1>13, <1>14, Steps DEF OnLoop

\* Credits and hashes recorded at /external/trail only grow.
LEMMA CreditsGrow ==
  ASSUME PaygInv, Next, NEW p \in Payment
  PROVE  (paymentCredits[p] > 0 => paymentCredits'[p] > 0) /\ claimed \subseteq claimed'
<1>1. paymentCredits[p] \in Nat
  BY DEF PaygInv, TypeOK
<1>2. CASE Outside
  BY <1>2 DEF Outside, history
<1>3. CASE PollStart \/ PollEnd \/ Restart \/ (\E q \in Payment : Deliver(q))
           \/ \E a \in Agent : NexusTrail(a) \/ ServiceTrail(a)
  BY <1>3 DEF PollStart, PollEnd, Restart, Deliver, NexusTrail, ServiceTrail, topupVars, history
<1>4. CASE PollFulfil \/ PollCredit \/ Consume \/ Refund
  BY <1>4 DEF PollFulfil, PollCredit, Consume, Refund, topupVars, history
<1>5. CASE \E pioneer \in BOOLEAN : RecordTrail(pioneer)
  BY <1>5 DEF RecordTrail, topupVars
<1>6. CASE WebhookTopup
  <2>1. PICK q \in Payment, k \in Key :
          /\ paymentCredits'[p] = IF Valid(k) /\ p = q THEN paymentCredits[p] + 1 ELSE paymentCredits[p]
          /\ UNCHANGED <<topupVars>>
    BY <1>6, WebhookTopupDoes
  <2> QED BY <1>1, <2>1 DEF topupVars
<1>7. CASE WebhookNonce
  BY <1>7 DEF WebhookNonce
<1>8. CASE Claim
  BY <1>8, ClaimDoes DEF history
<1> QED BY <1>2, <1>3, <1>4, <1>5, <1>6, <1>7, <1>8, Steps DEF OnLoop

\* phoenixd is answered for what was credited, or for a hash that was spent.
LEMMA AckedStep == ASSUME PaygInv, Next PROVE AckedUnlessClaimed'
<1>1. /\ TypeOK /\ NoncesFollowCredits /\ acked \subseteq Payment
      /\ \A p \in acked : paymentCredits[p] > 0 \/ p \in claimed \ Unhashed
  BY DEF PaygInv, TypeOK, AckedUnlessClaimed
<1>2. ASSUME NEW q \in Payment, acked' \subseteq acked \cup {q},
             q \in acked' => paymentCredits[q] > 0 \/ q \in claimed \ Unhashed
      PROVE  AckedUnlessClaimed'
  BY <1>1, <1>2, CreditsGrow DEF AckedUnlessClaimed
<1>3. ASSUME acked' = acked
      PROVE  AckedUnlessClaimed'
  BY <1>1, <1>3, CreditsGrow DEF AckedUnlessClaimed
<1>4. ASSUME NEW q \in Payment, Deliver(q)
      PROVE  AckedUnlessClaimed'
  <2>1. CASE AlreadyProcessed(q)
    <3>1. acked' = acked \cup {q}
      BY <1>4, <2>1 DEF Deliver
    <3>2. q \in nonces \/ q \in claimed \ Unhashed
      BY <2>1 DEF AlreadyProcessed, HasExternalNonce
    <3>3. q \in nonces => paymentCredits[q] > 0
      BY <1>1 DEF NoncesFollowCredits
    <3> QED BY <1>2, <3>1, <3>2, <3>3
  <2>2. CASE ~AlreadyProcessed(q)
    <3>1. acked' = acked
      BY <1>4, <2>2 DEF Deliver
    <3> QED BY <1>3, <3>1
  <2> QED BY <2>1, <2>2
<1>5. CASE WebhookNonce
  <2>1. PICK q \in Payment, k \in Key :
          /\ loop.op = "nonce" /\ loop.payment = q /\ k = invoices[q].key
          /\ (Valid(k) /\ acked' = acked \cup {q}) \/ acked' = acked
    BY <1>5, WebhookNonceDoes
  <2>2. Valid(k) => paymentCredits[q] > 0
    BY <1>1, <2>1 DEF NoncesFollowCredits
  <2> QED BY <1>2, <1>3, <2>1, <2>2
<1>6. CASE Outside
  BY <1>3, <1>6 DEF Outside, history
<1>7. CASE PollStart \/ PollEnd \/ Restart \/ WebhookTopup \/ PollFulfil \/ PollCredit \/ Consume \/ Refund
           \/ (\E pioneer \in BOOLEAN : RecordTrail(pioneer)) \/ \E a \in Agent : NexusTrail(a) \/ ServiceTrail(a)
  BY <1>3, <1>7 DEF PollStart, PollEnd, Restart, WebhookTopup, PollFulfil, PollCredit, Consume, Refund,
     RecordTrail, NexusTrail, ServiceTrail, history
<1>8. CASE Claim
  BY <1>3, <1>8, ClaimDoes DEF history
<1> QED BY <1>4, <1>5, <1>6, <1>7, <1>8, Steps DEF OnLoop

-----------------------------------------------------------------------------
(* USDC: intents, transfers and the round of the poller.                     *)

\* A transfer that happened stays as it is.
LEMMA ChainStep ==
  ASSUME PaygInv, Next, NEW t \in Tx, chain[t] # None
  PROVE  chain'[t] = chain[t]
<1> USE DEF topupVars
<1>1. ASSUME NEW u \in Tx, NEW addr \in Address, NEW n \in Amount, TransferUsdc(u, addr, n)
      PROVE  chain'[t] = chain[t]
  BY <1>1 DEF TransferUsdc, PaygInv, TypeOK
<1>2. ASSUME NEW c \in Account, CreateAccount(c) \/ Rotate(c)
      PROVE  chain' = chain
  BY <1>2 DEF CreateAccount, Rotate
<1>3. ASSUME NEW p \in Payment, Pay(p) \/ Deliver(p)
      PROVE  chain' = chain
  BY <1>3 DEF Pay, Deliver
<1>4. ASSUME NEW p \in Payment, NEW c \in Account, NEW n \in Amount, TopupLightning(p, c, n)
      PROVE  chain' = chain
  BY <1>4 DEF TopupLightning
<1>5. ASSUME NEW c \in Account, NEW addr \in Address, NEW n \in Amount, TopupUsdc(c, addr, n)
      PROVE  chain' = chain
  BY <1>5 DEF TopupUsdc
<1>6. ASSUME NEW i \in 1..MaxIntents, Expire(i)
      PROVE  chain' = chain
  BY <1>6 DEF Expire
<1>7. ASSUME NEW a \in Agent, NexusTrail(a) \/ ServiceTrail(a)
      PROVE  chain' = chain
  BY <1>7 DEF NexusTrail, ServiceTrail
<1>8. ASSUME PollStart \/ Restart \/ LoopStep
      PROVE  chain' = chain
  BY <1>8 DEF PollStart, Restart, LoopStep, WebhookTopup, WebhookNonce, PollFulfil, PollCredit,
     PollEnd, Consume, RecordTrail, Refund
<1>9. CASE Claim
  BY <1>9, ClaimDoes
<1> QED BY <1>1, <1>2, <1>3, <1>4, <1>5, <1>6, <1>7, <1>8, <1>9 DEF Next, Claim

\* Rows stay, within the bound, and only fulfill_usdc_intent takes one out of pending.
LEMMA FulfilledStep ==
  ASSUME PaygInv, Next
  PROVE  /\ DOMAIN intents \subseteq DOMAIN intents' /\ Len(intents') <= MaxIntents
         /\ \A i \in DOMAIN intents :
              intents'[i].key = intents[i].key /\ intents'[i].trails = intents[i].trails
         /\ ~(loop.op = "poll" /\ loop'.op = "fulfil") => Fulfilled' = Fulfilled
<1>1. TypeOK /\ TypeOK'
  BY TypeStep DEF PaygInv
<1>2. DOMAIN intents = 1..Len(intents) /\ Len(intents) \in Nat
  BY <1>1, IntentFields
<1>3. DOMAIN intents' = 1..Len(intents') /\ Len(intents') \in Nat
  BY <1>1 DEF TypeOK
<1>4. Len(intents) <= MaxIntents /\ MaxIntents \in Nat
  BY LimitAssumption DEF PaygInv, RoundIsSound
<1>5. CASE IntentsKept
  <2>1. DOMAIN intents' = DOMAIN intents
    BY <1>5 DEF IntentsKept
  <2>2. Len(intents') = Len(intents)
    BY <1>1, <2>1 DEF TypeOK
  <2>3. PollFulfil => loop.op = "poll" /\ loop'.op = "fulfil"
    BY DEF PollFulfil
  <2> QED BY <1>4, <1>5, <2>1, <2>2, <2>3 DEF IntentsKept, Fulfilled
<1>6. CASE IntentAdded
  <2>1. /\ Len(intents) < MaxIntents
        /\ DOMAIN intents' = 1..(Len(intents) + 1)
        /\ \A i \in DOMAIN intents : intents'[i] = intents[i]
        /\ intents'[Len(intents) + 1].status = "pending"
    BY <1>6 DEF IntentAdded
  <2>2. Len(intents') = Len(intents) + 1
    BY <1>1, <1>2, <2>1 DEF TypeOK
  <2>3. DOMAIN intents' = DOMAIN intents \cup {Len(intents) + 1}
    BY <1>2, <2>1
  <2>4. Fulfilled' = Fulfilled
    BY <2>1, <2>3 DEF Fulfilled
  <2> QED BY <1>2, <1>4, <2>1, <2>2, <2>3, <2>4
<1> QED BY <1>5, <1>6, IntentStep

\* The poller works on transfers that happened and intents that exist, credits each
\* intent once, and each transfer once per life of the process.
LEMMA RoundStep == ASSUME PaygInv, Next PROVE RoundIsSound'
<1>1. TypeOK /\ RoundIsSound /\ restarts \in Nat /\ MaxIntents \in Nat
      /\ intentCredits \in [1..MaxIntents -> Nat] /\ txCredits \in [Tx -> Nat]
  BY LimitAssumption DEF PaygInv, TypeOK
<1>2. /\ Len(intents') <= MaxIntents /\ DOMAIN intents \subseteq DOMAIN intents'
      /\ ~(loop.op = "poll" /\ loop'.op = "fulfil") => Fulfilled' = Fulfilled
  BY FulfilledStep
<1>3. loop.op \in {"poll", "fulfil"} =>
        /\ loop.logs \subseteq Tx /\ loop.by_addr \in [Address -> Nat]
        /\ \A t \in loop.logs : chain[t] # None
        /\ \A addr \in Address : loop.by_addr[addr] \in {0} \cup DOMAIN intents
  BY <1>1, LoopFields DEF RoundIsSound
\* The round keeps its transfers and rows.
<1>4. ASSUME loop.op \in {"poll", "fulfil"}, loop'.logs = loop.logs, loop'.by_addr = loop.by_addr
      PROVE  /\ \A t \in loop'.logs : chain'[t] # None
             /\ \A addr \in Address : loop'.by_addr[addr] \in {0} \cup DOMAIN intents'
  <2>1. \A t \in loop.logs : chain'[t] # None
    BY <1>3, <1>4, ChainStep
  <2> QED BY <1>2, <1>3, <1>4, <2>1
\* Nothing is credited.
<1>5. ASSUME UNCHANGED <<intentCredits, txCredits>>, Fulfilled' = Fulfilled,
             Crediting' \subseteq Crediting,
             (restarts' = restarts /\ seen' = seen) \/ (restarts' = restarts + 1 /\ seen' = {})
      PROVE  /\ Crediting' \subseteq Fulfilled'
             /\ \A i \in 1..MaxIntents :
                  intentCredits'[i] <= IF i \in Fulfilled' \ Crediting' THEN 1 ELSE 0
             /\ \A t \in Tx : txCredits'[t] <= IF t \in seen' THEN 1 + restarts' ELSE restarts'
  <2>1. ASSUME NEW i \in 1..MaxIntents
        PROVE  intentCredits'[i] <= IF i \in Fulfilled' \ Crediting' THEN 1 ELSE 0
    <3>1. intentCredits[i] <= IF i \in Fulfilled \ Crediting THEN 1 ELSE 0
      BY <1>1 DEF RoundIsSound
    <3>2. intentCredits[i] \in Nat
      BY <1>1
    <3>3. CASE i \in Fulfilled \ Crediting
      BY <1>5, <3>1, <3>3
    <3>4. CASE i \notin Fulfilled \ Crediting
      <4>1. intentCredits'[i] = 0
        BY <1>5, <3>1, <3>2, <3>4
      <4> QED BY <4>1
    <3> QED BY <3>3, <3>4
  <2>2. ASSUME NEW t \in Tx
        PROVE  txCredits'[t] <= IF t \in seen' THEN 1 + restarts' ELSE restarts'
    <3>1. txCredits[t] <= IF t \in seen THEN 1 + restarts ELSE restarts
      BY <1>1 DEF RoundIsSound
    <3>2. txCredits[t] \in Nat
      BY <1>1
    <3> QED BY <1>1, <1>5, <3>1, <3>2
  <2>3. Crediting' \subseteq Fulfilled'
    BY <1>1, <1>5 DEF RoundIsSound
  <2> QED BY <2>1, <2>2, <2>3
<1>6. CASE Outside
  <2>1. UNCHANGED <<seen, loop, restarts, intentCredits, txCredits>>
    BY <1>6 DEF Outside, history
  <2>2. Fulfilled' = Fulfilled
    BY <1>2, <2>1
  <2>3. Crediting' = Crediting
    <3>1. CASE loop.op = "fulfil"
      <4>1. loop.tx \in Tx /\ chain[loop.tx] # None
        BY <1>1, <1>3, <3>1 DEF RoundIsSound
      <4>2. chain'[loop.tx] = chain[loop.tx]
        BY <4>1, ChainStep
      <4> QED BY <2>1, <4>2 DEF Crediting
    <3> QED BY <2>1, <3>1 DEF Crediting
  <2>4. loop'.op \in {"poll", "fulfil"} =>
          /\ \A t \in loop'.logs : chain'[t] # None
          /\ \A addr \in Address : loop'.by_addr[addr] \in {0} \cup DOMAIN intents'
    BY <1>4, <2>1
  <2>5. loop'.op = "fulfil" => loop'.tx \in loop'.logs \ seen'
    BY <1>1, <2>1 DEF RoundIsSound
  <2>6. /\ Crediting' \subseteq Fulfilled'
        /\ \A i \in 1..MaxIntents :
             intentCredits'[i] <= IF i \in Fulfilled' \ Crediting' THEN 1 ELSE 0
        /\ \A t \in Tx : txCredits'[t] <= IF t \in seen' THEN 1 + restarts' ELSE restarts'
    BY <1>5, <2>1, <2>2, <2>3
  <2> QED BY <1>2, <2>4, <2>5, <2>6 DEF RoundIsSound
\* The loop turns to something else, or goes on with something else.
<1>7. ASSUME UNCHANGED <<intentCredits, txCredits>>, loop'.op \notin {"poll", "fulfil"},
             (restarts' = restarts /\ seen' = seen) \/ (restarts' = restarts + 1 /\ seen' = {})
      PROVE  RoundIsSound'
  <2>1. Fulfilled' = Fulfilled /\ Crediting' = {}
    BY <1>2, <1>7 DEF Crediting
  <2>2. /\ Crediting' \subseteq Fulfilled'
        /\ \A i \in 1..MaxIntents :
             intentCredits'[i] <= IF i \in Fulfilled' \ Crediting' THEN 1 ELSE 0
        /\ \A t \in Tx : txCredits'[t] <= IF t \in seen' THEN 1 + restarts' ELSE restarts'
    BY <1>5, <1>7, <2>1
  <2> QED BY <1>2, <1>7, <2>2 DEF RoundIsSound
<1>8. CASE Restart
  <2>1. UNCHANGED <<intentCredits, txCredits>> /\ loop' = Idle /\ restarts' = restarts + 1 /\ seen' = {}
    BY <1>8 DEF Restart, history
  <2> QED BY <1>7, <2>1 DEF Idle
<1>9. CASE PollEnd \/ Refund \/ (\E p \in Payment : Deliver(p)) \/ \E a \in Agent : NexusTrail(a) \/ ServiceTrail(a)
  <2>1. UNCHANGED <<intentCredits, txCredits, restarts, seen>> /\ loop'.op \notin {"poll", "fulfil"}
    BY <1>9 DEF PollEnd, Refund, Deliver, NexusTrail, ServiceTrail, Idle, topupVars, history
  <2> QED BY <1>7, <2>1
<1>15. CASE Claim
  <2>1. UNCHANGED <<intentCredits, txCredits, restarts, seen>> /\ loop'.op \notin {"poll", "fulfil"}
    BY <1>15, ClaimDoes DEF Idle, history
  <2> QED BY <1>7, <2>1
<1>10. CASE WebhookTopup \/ WebhookNonce
  <2>1. UNCHANGED <<intentCredits, txCredits, restarts, seen>> /\ loop'.op \notin {"poll", "fulfil"}
    BY <1>10, WebhookTopupDoes, WebhookNonceDoes DEF Idle, topupVars
  <2> QED BY <1>7, <2>1
<1>11. CASE Consume \/ \E pioneer \in BOOLEAN : RecordTrail(pioneer)
  <2>1. UNCHANGED <<intentCredits, txCredits, restarts, seen>> /\ loop'.op \notin {"poll", "fulfil"}
    BY <1>11, ConsumeDoes, RecordTrailDoes DEF Idle, topupVars, history
  <2> QED BY <1>7, <2>1
<1>12. CASE PollStart
  <2>1. PICK logs \in SUBSET Tx, by_addr \in [Address -> Nat] :
          /\ \A t \in logs : chain[t] # None
          /\ \A addr \in Address : by_addr[addr] \in {0} \cup DOMAIN intents
          /\ loop = Idle
          /\ loop' = [op |-> "poll", logs |-> logs, by_addr |-> by_addr]
          /\ UNCHANGED <<topupVars, restarts, history>>
    BY <1>1, <1>12, PollStartDoes
  <2>2. Crediting = {} /\ Crediting' = {} /\ Fulfilled' = Fulfilled
    BY <1>2, <2>1 DEF Crediting, Idle
  <2>3. /\ Crediting' \subseteq Fulfilled'
        /\ \A i \in 1..MaxIntents :
             intentCredits'[i] <= IF i \in Fulfilled' \ Crediting' THEN 1 ELSE 0
        /\ \A t \in Tx : txCredits'[t] <= IF t \in seen' THEN 1 + restarts' ELSE restarts'
    BY <1>5, <2>1, <2>2 DEF topupVars, history
  <2>4. UNCHANGED <<chain, intents>>
    BY <2>1 DEF topupVars
  <2> QED BY <1>2, <2>1, <2>3, <2>4 DEF RoundIsSound
<1>13. CASE PollFulfil
  <2>1. PICK t \in Tx, i \in DOMAIN intents :
          /\ loop.op = "poll" /\ t \in loop.logs \ seen
          /\ i = loop.by_addr[chain[t].from]
          /\ intents[i].status = "pending"
          /\ intents' = [intents EXCEPT ![i] = [intents[i] EXCEPT !.status = "fulfilled"]]
          /\ loop' = [op |-> "fulfil", logs |-> loop.logs, by_addr |-> loop.by_addr, tx |-> t]
          /\ UNCHANGED <<chain, seen, restarts, history>>
    BY <1>13, PollFulfilDoes
  <2>2. Crediting = {} /\ Crediting' = {i}
    BY <2>1 DEF Crediting
  <2>3. i \notin Fulfilled
    BY <2>1 DEF Fulfilled
  <2>4. Fulfilled' = Fulfilled \cup {i}
    <3>1. intents \in Seq(IntentRow) /\ intents[i] \in IntentRow
      BY <1>1, IntentFields DEF TypeOK
    <3>2. [intents[i] EXCEPT !.status = "fulfilled"].status = "fulfilled"
      BY <3>1 DEF IntentRow
    <3>3. /\ DOMAIN intents' = DOMAIN intents
          /\ intents'[i].status = "fulfilled"
          /\ \A j \in DOMAIN intents : j # i => intents'[j] = intents[j]
      BY <2>1, <3>1, <3>2
    <3> QED BY <3>3 DEF Fulfilled
  <2>5. \A j \in 1..MaxIntents :
          intentCredits'[j] <= IF j \in Fulfilled' \ Crediting' THEN 1 ELSE 0
    <3>1. Fulfilled' \ Crediting' = Fulfilled \ Crediting
      BY <2>2, <2>3, <2>4
    <3> QED BY <1>1, <2>1, <3>1 DEF RoundIsSound, history
  <2>6. \A u \in Tx : txCredits'[u] <= IF u \in seen' THEN 1 + restarts' ELSE restarts'
    BY <1>1, <2>1 DEF RoundIsSound, history
  <2>7. /\ \A u \in loop'.logs : chain'[u] # None
        /\ \A addr \in Address : loop'.by_addr[addr] \in {0} \cup DOMAIN intents'
    BY <1>4, <2>1
  <2>8. loop'.tx \in loop'.logs \ seen'
    BY <2>1
  <2> QED BY <1>2, <2>2, <2>4, <2>5, <2>6, <2>7, <2>8 DEF RoundIsSound
<1>14. CASE PollCredit
  <2>1. PICK t \in Tx, i \in 1..MaxIntents, k \in Key :
          /\ loop.op = "fulfil" /\ t \notin seen /\ i \in Fulfilled /\ Crediting = {i}
          /\ \A j \in 1..MaxIntents : intentCredits'[j] =
               IF Valid(k) /\ j = i THEN intentCredits[j] + 1 ELSE intentCredits[j]
          /\ \A u \in Tx : txCredits'[u] =
               IF Valid(k) /\ u = t THEN txCredits[u] + 1 ELSE txCredits[u]
          /\ seen' = seen \cup {t}
          /\ loop' = [op |-> "poll", logs |-> loop.logs, by_addr |-> loop.by_addr]
          /\ UNCHANGED <<restarts>>
    BY <1>14, PollCreditDoes
  <2>2. Crediting' = {} /\ Fulfilled' = Fulfilled
    BY <1>2, <2>1 DEF Crediting
  <2>3. ASSUME NEW j \in 1..MaxIntents
        PROVE  intentCredits'[j] <= IF j \in Fulfilled' \ Crediting' THEN 1 ELSE 0
    <3>1. intentCredits[j] <= IF j \in Fulfilled \ {i} THEN 1 ELSE 0
      BY <1>1, <2>1 DEF RoundIsSound
    <3>2. intentCredits[j] \in Nat
      BY <1>1
    <3>3. CASE j = i
      BY <2>1, <2>2, <3>1, <3>2, <3>3
    <3>4. CASE j # i
      BY <2>1, <2>2, <3>1, <3>2, <3>4
    <3> QED BY <3>3, <3>4
  <2>4. ASSUME NEW u \in Tx
        PROVE  txCredits'[u] <= IF u \in seen' THEN 1 + restarts' ELSE restarts'
    <3>1. txCredits[u] <= IF u \in seen THEN 1 + restarts ELSE restarts
      BY <1>1 DEF RoundIsSound
    <3>2. txCredits[u] \in Nat
      BY <1>1
    <3>3. CASE u = t
      BY <1>1, <2>1, <3>1, <3>2, <3>3
    <3>4. CASE u # t
      BY <1>1, <2>1, <3>1, <3>2, <3>4
    <3> QED BY <3>3, <3>4
  <2>5. /\ \A u \in loop'.logs : chain'[u] # None
        /\ \A addr \in Address : loop'.by_addr[addr] \in {0} \cup DOMAIN intents'
    BY <1>4, <2>1
  <2>6. loop'.op # "fulfil"
    BY <2>1
  <2> QED BY <1>2, <2>2, <2>3, <2>4, <2>5, <2>6 DEF RoundIsSound
<1> QED BY <1>6, <1>8, <1>9, <1>10, <1>11, <1>12, <1>13, <1>14, <1>15, Steps DEF OnLoop

-----------------------------------------------------------------------------
(* The free tier.                                                            *)

\* Trails recorded on the credits of a's accounts.
OnCredit(a) == SumOf(served, {c \in Account : AgentOf[c] = a})

\* FreeTierBound, with the sum under its name.
LEMMA FreeTierIs ==
  /\ FreeTierBound <=> \A a \in Agent \ Exempt : month[a] <= MONTHLY_LIMIT_FREE + OnCredit(a)
  /\ FreeTierBound' <=> \A a \in Agent \ Exempt : month'[a] <= MONTHLY_LIMIT_FREE + OnCredit(a)'
<1>1. FreeTierBound <=> \A a \in Agent \ Exempt : month[a] <= MONTHLY_LIMIT_FREE + OnCredit(a)
  BY DEF FreeTierBound, OnCredit, SumOf
<1>2. FreeTierBound' <=> \A a \in Agent \ Exempt : month'[a] <= MONTHLY_LIMIT_FREE + OnCredit(a)'
  BY DEF FreeTierBound, OnCredit, SumOf, MapThenSumSet, MapThenFoldSet
<1> QED BY <1>1, <1>2

\* record_trail lets an agent pass the monthly limit only on a credit of its own.
LEMMA FreeTierStep == ASSUME PaygInv, Next PROVE FreeTierBound'
<1> DEFINE Own(a) == {c \in Account : AgentOf[c] = a}
<1>1. /\ served \in [Account -> Nat] /\ month \in [Agent -> Nat] /\ MONTHLY_LIMIT_FREE \in Nat
      /\ \A a \in Agent \ Exempt : month[a] <= MONTHLY_LIMIT_FREE + OnCredit(a)
  BY FreeTierIs, LimitAssumption DEF PaygInv, TypeOK
<1>2. \A a \in Agent : IsFiniteSet(Own(a))
  <2>1. \A a \in Agent : Own(a) \subseteq Account
    OBVIOUS
  <2> QED BY <2>1, AccountAssumption, FS_Subset
<1>3. ASSUME month' = month, served' = served
      PROVE  FreeTierBound'
  <2>1. \A a \in Agent : OnCredit(a)' = OnCredit(a)
    BY <1>3 DEF OnCredit
  <2> QED BY <1>1, <1>3, <2>1, FreeTierIs
<1>4. ASSUME NEW pioneer \in BOOLEAN, RecordTrail(pioneer)
      PROVE  FreeTierBound'
  <2>1. PICK a \in Agent, k \in Key \cup {None} :
          /\ loop.op = "record" /\ loop.agent = a /\ loop.key = k
          /\ month' \in [Agent -> Nat] /\ served' \in [Account -> Nat]
          /\ \/ /\ a \in Exempt \/ k # None \/ month[a] < MONTHLY_LIMIT_FREE
                /\ \A b \in Agent : month'[b] \in {month[b], IF b = a THEN month[b] + 1 ELSE month[b]}
                /\ \A c \in Account : served'[c] =
                     IF k # None /\ c = k.account THEN served[c] + 1 ELSE served[c]
             \/ month' = month /\ served' = served
    BY <1>4, RecordTrailDoes
  <2>2. ASSUME /\ a \in Exempt \/ k # None \/ month[a] < MONTHLY_LIMIT_FREE
               /\ \A b \in Agent : month'[b] \in {month[b], IF b = a THEN month[b] + 1 ELSE month[b]}
               /\ \A c \in Account : served'[c] =
                    IF k # None /\ c = k.account THEN served[c] + 1 ELSE served[c],
               NEW b \in Agent \ Exempt
        PROVE  month'[b] <= MONTHLY_LIMIT_FREE + OnCredit(b)'
    <3>1. month[b] \in Nat /\ month[b] <= MONTHLY_LIMIT_FREE + OnCredit(b)
      BY <1>1
    <3>2. month'[b] = month[b] \/ (b = a /\ month'[b] = month[b] + 1)
      BY <2>2
    <3>3. OnCredit(b) = SumOf(served, Own(b)) /\ OnCredit(b)' = SumOf(served', Own(b))
      BY DEF OnCredit
    <3>4. IsFiniteSet(Own(b))
      BY <1>2
    <3>5. \A c \in Own(b) : served[c] \in Nat /\ served'[c] \in Nat
      BY <1>1, <2>1
    <3>6. CASE k # None /\ AgentOf[k.account] = b
      <4>1. k.account \in Own(b)
        BY <2>1, <3>6, KeyFields
      <4>2. /\ served'[k.account] = served[k.account] + 1
            /\ \A c \in Own(b) \ {k.account} : served'[c] = served[c]
        BY <2>2, <3>6, <4>1
      <4> DEFINE S == Own(b)
                 x == k.account
      <4>3. /\ IsFiniteSet(S) /\ x \in S
            /\ \A c \in S : served[c] \in Nat /\ served'[c] \in Nat
            /\ served'[x] = served[x] + 1 /\ \A c \in S \ {x} : served'[c] = served[c]
            /\ OnCredit(b) = SumOf(served, S) /\ OnCredit(b)' = SumOf(served', S)
        BY <3>3, <3>4, <3>5, <4>1, <4>2
      <4> HIDE DEF S, x
      <4>4. \A c \in S : served[c] \in Int /\ served'[c] \in Int
        BY <4>3
      <4>5. SumOf(served', S) = SumOf(served, S) + (served'[x] - served[x]) /\ SumOf(served, S) \in Nat
        BY <4>3, <4>4, SumChange, SumType
      <4>6. OnCredit(b)' = OnCredit(b) + 1 /\ OnCredit(b) \in Nat
        BY <4>3, <4>4, <4>5
      <4> QED BY <1>1, <3>1, <3>2, <4>6
    <3>7. CASE ~(k # None /\ AgentOf[k.account] = b)
      <4>1. \A c \in Own(b) : served'[c] = served[c]
        BY <2>2, <3>7
      <4>2. OnCredit(b)' = OnCredit(b) /\ OnCredit(b) \in Nat
        BY <3>3, <3>4, <3>5, <4>1, SumSame, SumType
      <4>3. CASE b = a
        <5>1. k = None
          BY <2>1, <3>7, <4>3 DEF PaygInv, KeysIssued
        <5>2. month[b] < MONTHLY_LIMIT_FREE
          BY <2>2, <4>3, <5>1
        <5> QED BY <1>1, <3>1, <3>2, <4>2, <5>2
      <4> QED BY <1>1, <3>1, <3>2, <4>2, <4>3
    <3> QED BY <3>6, <3>7
  <2> QED BY <1>3, <2>1, <2>2, FreeTierIs
<1>5. CASE Outside
  BY <1>3, <1>5 DEF Outside, trailVars, history
<1>6. CASE PollStart \/ PollEnd \/ Restart \/ (\E p \in Payment : Deliver(p))
           \/ \E a \in Agent : NexusTrail(a) \/ ServiceTrail(a)
  BY <1>3, <1>6 DEF PollStart, PollEnd, Restart, Deliver, NexusTrail, ServiceTrail, trailVars, history
<1>7. CASE WebhookTopup \/ WebhookNonce \/ PollFulfil \/ PollCredit \/ Consume \/ Refund
  BY <1>3, <1>7, WebhookTopupDoes, WebhookNonceDoes, PollFulfilDoes, PollCreditDoes, ConsumeDoes,
     RefundDoes DEF trailVars, history
<1>8. CASE Claim
  BY <1>3, <1>8, ClaimDoes DEF trailVars, history
<1> QED BY <1>4, <1>5, <1>6, <1>7, <1>8, Steps DEF OnLoop

-----------------------------------------------------------------------------
(* Where the credits are.                                                    *)

\* What is left of account c, what it was served and what a handler holds of it.
Traced(c) == credit[c] + served[c] + Held(c)

\* At most one credit is held.
LEMMA HeldIs == ASSUME NEW c PROVE Held(c) \in {0, 1}
BY DEF Held

\* A credit is held between its UPDATE and the trail, or the refund.
LEMMA HeldBy ==
  ASSUME NEW c
  PROVE  /\ loop.op \notin {"record", "refund"} => Held(c) = 0
         /\ loop'.op \notin {"record", "refund"} => Held(c)' = 0
         /\ loop' = loop => Held(c)' = Held(c)
BY DEF Held

\* Apart from the two credits of a payment, credits only move: none is gained, and
\* none is lost but by a restart or a rotated api_key.
LEMMA FlowStep ==
  ASSUME PaygInv, Next, NEW c \in Account, ~WebhookTopup, ~PollCredit
  PROVE  /\ bought'[c] = bought[c] /\ Traced(c)' <= Traced(c)
         /\ (restarts' = restarts /\ gen[c] <= 1) => Traced(c)' = Traced(c)
<1>1. /\ TypeOK /\ TypeOK' /\ credit[c] \in Nat /\ served[c] \in Nat /\ Held(c) \in {0, 1} /\ Held(c)' \in {0, 1}
      /\ restarts \in Nat /\ gen[c] \in Nat
  BY TypeStep, HeldIs DEF PaygInv, TypeOK, Held
<1>2. ASSUME bought' = bought, credit' = credit, served' = served, Held(c)' = Held(c)
      PROVE  /\ bought'[c] = bought[c] /\ Traced(c)' <= Traced(c)
             /\ (restarts' = restarts /\ gen[c] <= 1) => Traced(c)' = Traced(c)
  BY <1>1, <1>2 DEF Traced
<1>3. CASE Outside
  BY <1>2, <1>3, HeldBy DEF Outside, history
<1>4. ASSUME bought' = bought, credit' = credit, served' = served,
             loop.op \notin {"record", "refund"}, loop'.op \notin {"record", "refund"}
      PROVE  /\ bought'[c] = bought[c] /\ Traced(c)' <= Traced(c)
             /\ (restarts' = restarts /\ gen[c] <= 1) => Traced(c)' = Traced(c)
  BY <1>2, <1>4, HeldBy
<1>5. CASE PollStart
  BY <1>1, <1>4, <1>5, PollStartDoes DEF Idle, accountVars, history
<1>6. CASE PollEnd \/ \E p \in Payment : Deliver(p)
  BY <1>4, <1>6 DEF PollEnd, Deliver, Idle, accountVars, history
<1>7. CASE Restart
  <2>1. /\ bought' = bought /\ credit' = credit /\ served' = served /\ restarts' = restarts + 1
        /\ loop'.op = "idle"
    BY <1>7 DEF Restart, Idle, accountVars, history
  <2>2. Held(c)' = 0
    BY <2>1, HeldBy
  <2> QED BY <1>1, <2>1, <2>2 DEF Traced
<1>8. ASSUME NEW a \in Agent, NexusTrail(a)
      PROVE  /\ bought'[c] = bought[c] /\ Traced(c)' <= Traced(c)
             /\ (restarts' = restarts /\ gen[c] <= 1) => Traced(c)' = Traced(c)
  <2>1. bought' = bought /\ credit' = credit /\ served' = served /\ loop = Idle
    BY <1>8 DEF NexusTrail, accountVars, history
  <2>2. loop'.op = "consume" \/ (loop'.op = "record" /\ loop'.key = None)
    BY <1>8 DEF NexusTrail
  <2>3. Held(c) = 0 /\ Held(c)' = 0
    BY <2>1, <2>2 DEF Held, Idle
  <2> QED BY <1>2, <2>1, <2>3
<1>9. ASSUME NEW a \in Agent, ServiceTrail(a)
      PROVE  /\ bought'[c] = bought[c] /\ Traced(c)' <= Traced(c)
             /\ (restarts' = restarts /\ gen[c] <= 1) => Traced(c)' = Traced(c)
  <2>1. bought' = bought /\ credit' = credit /\ served' = served /\ loop = Idle
    BY <1>9 DEF ServiceTrail, accountVars, history
  <2>2. Held(c) = 0 /\ Held(c)' = 0
    BY <1>9, <2>1 DEF Held, Idle, ServiceTrail
  <2> QED BY <1>2, <2>1, <2>2
<1>15. CASE Claim
  <2>1. /\ bought' = bought /\ credit' = credit /\ served' = served /\ loop = Idle
        /\ loop' = Idle \/ (loop'.op = "record" /\ loop'.key = None)
    BY <1>15, ClaimDoes DEF accountVars, history
  <2>2. Held(c) = 0 /\ Held(c)' = 0
    BY <2>1 DEF Held, Idle
  <2> QED BY <1>2, <2>1, <2>2
<1>10. CASE WebhookNonce
  BY <1>4, <1>10, WebhookNonceDoes DEF Idle, accountVars
<1>11. CASE PollFulfil
  BY <1>4, <1>11, PollFulfilDoes DEF accountVars, history
<1>12. CASE Consume
  <2>1. PICK a \in Agent, k \in Key :
          /\ loop.op = "consume"
          /\ \/ /\ credit[k.account] > 0
                /\ \A d \in Account : credit'[d] = IF d = k.account THEN credit[d] - 1 ELSE credit[d]
                /\ loop' = [op |-> "record", agent |-> a, key |-> k]
             \/ /\ credit' = credit
                /\ loop' = [op |-> "record", agent |-> a, key |-> None]
          /\ UNCHANGED <<history>>
    BY <1>12, ConsumeDoes
  <2>2. bought' = bought /\ served' = served /\ Held(c) = 0
    BY <2>1, HeldBy DEF history
  <2>3. CASE credit' = credit /\ loop' = [op |-> "record", agent |-> a, key |-> None]
    <3>1. Held(c)' = 0
      BY <2>3 DEF Held
    <3> QED BY <1>2, <2>2, <2>3, <3>1
  <2>4. CASE /\ credit[k.account] > 0
             /\ \A d \in Account : credit'[d] = IF d = k.account THEN credit[d] - 1 ELSE credit[d]
             /\ loop' = [op |-> "record", agent |-> a, key |-> k]
    <3>1. Held(c)' = IF c = k.account THEN 1 ELSE 0
      BY <2>4, NoneAssumption DEF Held
    <3>2. credit'[c] = IF c = k.account THEN credit[c] - 1 ELSE credit[c]
      BY <2>4
    <3> QED BY <1>1, <2>2, <3>1, <3>2 DEF Traced
  <2> QED BY <2>1, <2>3, <2>4
<1>13. ASSUME NEW pioneer \in BOOLEAN, RecordTrail(pioneer)
       PROVE  /\ bought'[c] = bought[c] /\ Traced(c)' <= Traced(c)
              /\ (restarts' = restarts /\ gen[c] <= 1) => Traced(c)' = Traced(c)
  <2>1. PICK a \in Agent, k \in Key \cup {None} :
          /\ loop.op = "record" /\ loop.key = k
          /\ \/ /\ \A d \in Account : served'[d] =
                     IF k # None /\ d = k.account THEN served[d] + 1 ELSE served[d]
                /\ loop' = Idle
             \/ /\ k # None
                /\ loop' = [op |-> "refund", agent |-> a, key |-> k]
                /\ served' = served
             \/ /\ k = None
                /\ loop' = Idle
                /\ served' = served
          /\ UNCHANGED <<accountVars, bought>>
    BY <1>13, RecordTrailDoes
  <2>2. bought' = bought /\ credit' = credit
    BY <2>1 DEF accountVars
  <2>3. Held(c) = IF k # None /\ c = k.account THEN 1 ELSE 0
    BY <2>1 DEF Held
  <2>4. CASE /\ \A d \in Account : served'[d] =
                  IF k # None /\ d = k.account THEN served[d] + 1 ELSE served[d]
             /\ loop' = Idle
    <3>1. Held(c)' = 0
      BY <2>4 DEF Held, Idle
    <3>2. served'[c] = IF k # None /\ c = k.account THEN served[c] + 1 ELSE served[c]
      BY <2>4
    <3> QED BY <1>1, <2>2, <2>3, <3>1, <3>2 DEF Traced
  <2>5. CASE k # None /\ loop' = [op |-> "refund", agent |-> a, key |-> k] /\ served' = served
    <3>1. Held(c)' = Held(c)
      BY <2>3, <2>5 DEF Held
    <3> QED BY <1>2, <2>2, <2>5, <3>1
  <2>6. CASE k = None /\ loop' = Idle /\ served' = served
    <3>1. Held(c)' = Held(c)
      BY <2>3, <2>6 DEF Held, Idle
    <3> QED BY <1>2, <2>2, <2>6, <3>1
  <2> QED BY <2>1, <2>4, <2>5, <2>6
<1>14. CASE Refund
  <2>1. PICK k \in Key :
          /\ loop.op = "refund" /\ loop.key = k /\ Topup(k, 1)
          /\ loop' = Idle
          /\ UNCHANGED <<history>>
    BY <1>14, RefundDoes
  <2>2. bought' = bought /\ served' = served
    BY <2>1 DEF history
  <2>3. Held(c) = (IF c = k.account THEN 1 ELSE 0) /\ Held(c)' = 0
    BY <2>1, NoneAssumption DEF Held, Idle
  <2>4. credit'[c] = IF Valid(k) /\ c = k.account THEN credit[c] + 1 ELSE credit[c]
    BY <1>1, <2>1, TopupDoes
  <2>5. (c = k.account /\ gen[c] <= 1) => Valid(k)
    <3>1. k.gen \in Nat /\ k.gen > 0 /\ k.gen <= gen[k.account]
      BY <2>1, KeyFields, NoneAssumption DEF PaygInv, KeysIssued, Issued
    <3> QED BY <1>1, <3>1 DEF Valid
  <2> QED BY <1>1, <2>2, <2>3, <2>4, <2>5 DEF Traced
<1> QED BY <1>3, <1>5, <1>6, <1>7, <1>8, <1>9, <1>10, <1>11, <1>12, <1>13, <1>14, <1>15, Steps DEF OnLoop

\* What was bought covers what an account holds, was served and has in flight.
LEMMA CoverStep == ASSUME PaygInv, Next PROVE CreditsCoverTrails'
<1> SUFFICES ASSUME NEW c \in Account
             PROVE  Traced(c)' <= bought'[c]
  BY DEF CreditsCoverTrails, Traced
<1>1. /\ TypeOK /\ TypeOK' /\ credit[c] \in Nat /\ served[c] \in Nat /\ bought[c] \in Nat
      /\ Held(c) \in {0, 1} /\ Held(c)' \in {0, 1} /\ credit'[c] \in Nat /\ served'[c] \in Nat
      /\ bought'[c] \in Nat
  BY TypeStep, HeldIs DEF PaygInv, TypeOK, Held
<1>2. Traced(c) <= bought[c]
  BY DEF PaygInv, CreditsCoverTrails, Traced
<1>3. CASE ~WebhookTopup /\ ~PollCredit
  BY <1>1, <1>2, <1>3, FlowStep DEF Traced
<1>4. ASSUME NEW k \in Key, NEW n \in Nat, Topup(k, n), served' = served,
             loop.op \notin {"record", "refund"}, loop'.op \notin {"record", "refund"},
             bought'[c] = IF Valid(k) /\ c = k.account THEN bought[c] + n ELSE bought[c]
      PROVE  Traced(c)' <= bought'[c]
  <2>1. credit'[c] = IF Valid(k) /\ c = k.account THEN credit[c] + n ELSE credit[c]
    BY <1>1, <1>4, TopupDoes
  <2>2. Held(c) = 0 /\ Held(c)' = 0
    BY <1>4, HeldBy
  <2> QED BY <1>1, <1>2, <1>4, <2>1, <2>2 DEF Traced
<1>5. CASE WebhookTopup
  <2>1. PICK k \in Key, n \in Nat :
          /\ Topup(k, n) /\ served' = served /\ loop.op = "topup" /\ loop'.op = "nonce"
          /\ bought'[c] = IF Valid(k) /\ c = k.account THEN bought[c] + n ELSE bought[c]
    BY <1>5, WebhookTopupDoes
  <2> QED BY <1>4, <2>1
<1>6. CASE PollCredit
  <2>1. PICK k \in Key, n \in Nat :
          /\ Topup(k, n) /\ served' = served /\ loop.op = "fulfil" /\ loop'.op = "poll"
          /\ bought'[c] = IF Valid(k) /\ c = k.account THEN bought[c] + n ELSE bought[c]
    BY <1>6, PollCreditDoes
  <2> QED BY <1>4, <2>1
<1> QED BY <1>3, <1>5, <1>6

-----------------------------------------------------------------------------
(* The books.                                                                *)

\* What each invoice and each intent is worth, and what has been credited of them.
InvoiceTrails == [p \in Payment |-> invoices[p].trails]
IntentTrails == [i \in DOMAIN intents |-> intents[i].trails]
PaidFor(c) == {p \in nonces \cup Unrecorded : invoices[p].key.account = c}
DoneFor(c) == {i \in Fulfilled \ Crediting : intents[i].key.account = c}
Income(c) == SumOf(InvoiceTrails, PaidFor(c)) + SumOf(IntentTrails, DoneFor(c))

\* BooksInFlight in these terms.
LEMMA BooksAre ==
  /\ BooksInFlight <=>
       IsFiniteSet(nonces) /\ (restarts = 0 => \A c \in Account : gen[c] <= 1 /\ AllHashed(c) => Traced(c) = Income(c))
  /\ BooksInFlight' <=>
       IsFiniteSet(nonces') /\ (restarts' = 0 => \A c \in Account : gen'[c] <= 1 /\ AllHashed(c)' => Traced(c)' = Income(c)')
<1>1. ASSUME NEW c
      PROVE  /\ credit[c] + served[c] + Held(c) = Traced(c)
             /\ LightningTrails(nonces \cup Unrecorded, c) + UsdcTrails(Fulfilled \ Crediting, c) = Income(c)
  <2>1. LightningTrails(nonces \cup Unrecorded, c) = SumOf(InvoiceTrails, PaidFor(c))
    BY DEF LightningTrails, InvoiceTrails, PaidFor, SumOf
  <2>2. UsdcTrails(Fulfilled \ Crediting, c) = SumOf(IntentTrails, DoneFor(c))
    BY DEF UsdcTrails, IntentTrails, DoneFor, SumOf
  <2> QED BY <2>1, <2>2 DEF Traced, Income
<1>2. ASSUME NEW c
      PROVE  /\ credit'[c] + served'[c] + Held(c)' = Traced(c)'
             /\ LightningTrails(nonces \cup Unrecorded, c)' + UsdcTrails(Fulfilled \ Crediting, c)' = Income(c)'
  <2>1. LightningTrails(nonces \cup Unrecorded, c)' = SumOf(InvoiceTrails, PaidFor(c))'
    BY DEF LightningTrails, InvoiceTrails, PaidFor, SumOf, MapThenSumSet, MapThenFoldSet
  <2>2. UsdcTrails(Fulfilled \ Crediting, c)' = SumOf(IntentTrails, DoneFor(c))'
    BY DEF UsdcTrails, IntentTrails, DoneFor, SumOf, MapThenSumSet, MapThenFoldSet
  <2> QED BY <2>1, <2>2 DEF Traced, Income
<1>3. BooksInFlight <=>
       IsFiniteSet(nonces) /\ (restarts = 0 => \A c \in Account : gen[c] <= 1 /\ AllHashed(c) => Traced(c) = Income(c))
  BY <1>1 DEF BooksInFlight
<1>4. BooksInFlight' <=>
       IsFiniteSet(nonces') /\ (restarts' = 0 => \A c \in Account : gen'[c] <= 1 /\ AllHashed(c)' => Traced(c)' = Income(c)')
  BY <1>2 DEF BooksInFlight
<1> QED BY <1>3, <1>4

\* The steps that change the processed payments, and the restarts.
LEMMA RecordedStep ==
  ASSUME PaygInv, Next
  PROVE  /\ restarts' = restarts \/ Restart
         /\ nonces' = nonces \/ \E p \in Payment : nonces' = nonces \cup {p}
         /\ ~WebhookTopup /\ ~WebhookNonce /\ ~Restart =>
              nonces' = nonces /\ Unrecorded' = Unrecorded
         /\ ~PollCredit /\ ~PollFulfil /\ ~Restart /\ ~Outside => Crediting' = Crediting
<1>1. TypeOK
  BY DEF PaygInv
<1>2. CASE Outside
  BY <1>2 DEF Outside, Unrecorded
<1>3. ASSUME UNCHANGED <<restarts, nonces>>,
             loop.op # "nonce", loop'.op # "nonce", loop.op # "fulfil", loop'.op # "fulfil"
      PROVE  UNCHANGED <<restarts, nonces>> /\ Unrecorded' = Unrecorded /\ Crediting' = Crediting
  BY <1>3 DEF Unrecorded, Crediting
<1>4. CASE PollStart
  BY <1>1, <1>3, <1>4, PollStartDoes DEF Idle, topupVars
<1>5. CASE PollEnd \/ Refund \/ (\E p \in Payment : Deliver(p)) \/ \E a \in Agent : NexusTrail(a) \/ ServiceTrail(a)
  BY <1>3, <1>5 DEF PollEnd, Refund, Deliver, NexusTrail, ServiceTrail, Idle, topupVars
<1>12. CASE Claim
  BY <1>3, <1>12, ClaimDoes DEF Idle
<1>6. CASE Consume \/ \E pioneer \in BOOLEAN : RecordTrail(pioneer)
  BY <1>3, <1>6, ConsumeDoes, RecordTrailDoes DEF Idle, topupVars
<1>7. CASE PollFulfil
  <2>1. UNCHANGED <<restarts, nonces>> /\ loop.op # "nonce" /\ loop'.op # "nonce"
    BY <1>7 DEF PollFulfil
  <2> QED BY <1>7, <2>1 DEF Unrecorded
<1>8. CASE PollCredit
  <2>1. UNCHANGED <<restarts, nonces>> /\ loop.op # "nonce" /\ loop'.op # "nonce"
    BY <1>8 DEF PollCredit
  <2> QED BY <1>8, <2>1 DEF Unrecorded
<1>9. CASE WebhookTopup
  <2>1. UNCHANGED <<restarts, nonces>> /\ loop.op # "fulfil" /\ loop'.op # "fulfil"
    BY <1>9, WebhookTopupDoes DEF topupVars
  <2> QED BY <1>9, <2>1 DEF Crediting
<1>10. CASE WebhookNonce
  <2>1. PICK p \in Payment :
          /\ restarts' = restarts /\ nonces' \in {nonces, nonces \cup {p}}
          /\ loop.op # "fulfil" /\ loop'.op # "fulfil"
    BY <1>10, WebhookNonceDoes DEF Idle
  <2> QED BY <1>10, <2>1 DEF Crediting
<1>11. CASE Restart
  BY <1>11 DEF Restart
<1> QED BY <1>2, <1>3, <1>4, <1>5, <1>6, <1>7, <1>8, <1>9, <1>10, <1>11, <1>12, Steps DEF OnLoop

\* Among the keys an account that never rotated has issued, none is invalid.
LEMMA OnlyKey ==
  ASSUME PaygInv, NEW k \in Key, Issued(k), gen[k.account] <= 1
  PROVE  Valid(k)
<1>1. gen[k.account] \in Nat /\ k.gen \in Nat /\ k.gen > 0
  BY KeyFields DEF PaygInv, TypeOK
<1> QED BY <1>1 DEF Issued, Valid

\* The payments already credited, and what they are worth, change only when the
\* webhook credits one.
LEMMA PaidStep ==
  ASSUME PaygInv, Next, ~Restart, NEW c \in Account, gen[c] <= 1
  PROVE  /\ \A p \in PaidFor(c) : InvoiceTrails'[p] = InvoiceTrails[p] /\ InvoiceTrails[p] \in Nat
         /\ IsFiniteSet(PaidFor(c))
         /\ ~WebhookTopup => PaidFor(c)' = PaidFor(c)
         /\ \A p \in nonces \cup Unrecorded : invoices'[p].key = invoices[p].key
<1>1. TypeOK /\ nonces \subseteq Payment
  BY DEF PaygInv, TypeOK
<1>2. \A p \in nonces \cup Unrecorded : p \in Payment /\ invoices[p] # NoInvoice
  <2>1. \A p \in Unrecorded : p \in Payment /\ invoices[p].status = "paid"
    BY <1>1, LoopFields DEF PaygInv, NoncesFollowCredits, Unrecorded
  <2>2. \A p \in nonces : invoices[p].status = "paid"
    BY DEF PaygInv, NoncesFollowCredits
  <2> QED BY <1>1, <2>1, <2>2 DEF NoInvoice
<1>3. \A p \in nonces \cup Unrecorded :
        /\ invoices'[p].key = invoices[p].key /\ invoices'[p].trails = invoices[p].trails
        /\ invoices[p].key \in Key /\ Issued(invoices[p].key) /\ invoices[p].trails \in Nat
  <2>1. ASSUME NEW p \in nonces \cup Unrecorded
        PROVE  /\ invoices'[p].key = invoices[p].key /\ invoices'[p].trails = invoices[p].trails
               /\ invoices[p].key \in Key /\ Issued(invoices[p].key) /\ invoices[p].trails \in Nat
    <3>1. p \in Payment /\ invoices[p] # NoInvoice
      BY <1>2
    <3>2. invoices'[p].key = invoices[p].key /\ invoices'[p].trails = invoices[p].trails
      BY <3>1, InvoiceStep
    <3>3. invoices[p].key \in Key /\ invoices[p].trails \in Amount
      BY <1>1, <3>1, InvoiceFields
    <3>4. Issued(invoices[p].key)
      BY <3>1 DEF PaygInv, KeysIssued
    <3> QED BY <3>2, <3>3, <3>4, AmountAssumption
  <2> QED BY <2>1
<1>4. \A p \in PaidFor(c) : p \in Payment /\ p \in nonces \cup Unrecorded
  BY <1>2 DEF PaidFor
<1>5. \A p \in PaidFor(c) : InvoiceTrails'[p] = InvoiceTrails[p] /\ InvoiceTrails[p] \in Nat
  BY <1>3, <1>4 DEF InvoiceTrails
<1>6. IsFiniteSet(PaidFor(c))
  <2>1. IsFiniteSet(nonces)
    BY DEF PaygInv, BooksInFlight
  <2>2. IsFiniteSet(nonces \cup Unrecorded)
    <3>1. CASE Unrecorded = {}
      <4>1. nonces \cup Unrecorded = nonces
        BY <3>1
      <4> QED BY <2>1, <4>1
    <3>2. CASE Unrecorded = {loop.payment}
      BY <2>1, <3>2, FS_AddElement
    <3>3. Unrecorded = {} \/ Unrecorded = {loop.payment}
      BY DEF Unrecorded
    <3> QED BY <3>1, <3>2, <3>3
  <2>3. PaidFor(c) \subseteq nonces \cup Unrecorded
    BY DEF PaidFor
  <2> QED BY <2>2, <2>3, FS_Subset
<1>7. ASSUME ~WebhookTopup
      PROVE  PaidFor(c)' = PaidFor(c)
  <2>1. CASE ~WebhookNonce
    <3>1. nonces' = nonces /\ Unrecorded' = Unrecorded
      BY <1>7, <2>1, RecordedStep
    <3> QED BY <1>3, <3>1 DEF PaidFor
  <2>2. CASE WebhookNonce
    <3>1. PICK p \in Payment, k \in Key :
            /\ loop.op = "nonce" /\ loop.payment = p /\ k = invoices[p].key
            /\ invoices[p] # NoInvoice
            /\ \/ Valid(k) /\ RecordNonce(p)
               \/ ~Valid(k) /\ nonces' = nonces
            /\ loop' = Idle /\ invoices' = invoices
      BY <2>2, WebhookNonceDoes
    <3>2. Unrecorded = {p} \ Unhashed /\ Unrecorded' = {}
      BY <3>1 DEF Unrecorded, Idle
    <3>3. CASE Valid(k)
      <4>1. (nonces \cup Unrecorded)' = nonces \cup Unrecorded
        BY <3>1, <3>2, <3>3 DEF RecordNonce
      <4> QED BY <3>1, <4>1 DEF PaidFor
    <3>4. CASE ~Valid(k)
      <4>1. Issued(k)
        BY <3>1 DEF PaygInv, KeysIssued
      <4>2. k.account # c
        BY <3>4, <4>1, OnlyKey
      <4> QED BY <3>1, <3>2, <3>4, <4>2 DEF PaidFor
    <3> QED BY <3>3, <3>4
  <2> QED BY <2>1, <2>2
<1> QED BY <1>3, <1>5, <1>6, <1>7

\* The intents already credited, and what they are worth, change only when
\* fulfill_usdc_intent credits one.
LEMMA DoneStep ==
  ASSUME PaygInv, Next, ~Restart, NEW c \in Account
  PROVE  /\ \A i \in DOMAIN intents : IntentTrails'[i] = IntentTrails[i] /\ IntentTrails[i] \in Nat
         /\ IsFiniteSet(DoneFor(c)) /\ DoneFor(c) \subseteq DOMAIN intents
         /\ ~PollCredit => DoneFor(c)' = DoneFor(c)
<1>1. TypeOK
  BY DEF PaygInv
<1>2. /\ DOMAIN intents \subseteq DOMAIN intents'
      /\ \A i \in DOMAIN intents :
           intents'[i].key = intents[i].key /\ intents'[i].trails = intents[i].trails
      /\ ~(loop.op = "poll" /\ loop'.op = "fulfil") => Fulfilled' = Fulfilled
  BY FulfilledStep
<1>3. \A i \in DOMAIN intents : intents[i].trails \in Nat
  BY <1>1, IntentFields, AmountAssumption
<1>4. \A i \in DOMAIN intents : IntentTrails'[i] = IntentTrails[i] /\ IntentTrails[i] \in Nat
  BY <1>2, <1>3 DEF IntentTrails
<1>5. IsFiniteSet(DoneFor(c)) /\ DoneFor(c) \subseteq DOMAIN intents
  <2>1. DoneFor(c) \subseteq DOMAIN intents
    BY DEF DoneFor, Fulfilled
  <2>2. IsFiniteSet(DOMAIN intents)
    BY <1>1, IntentFields, FS_Interval
  <2> QED BY <2>1, <2>2, FS_Subset
<1>6. ASSUME ~PollCredit
      PROVE  DoneFor(c)' = DoneFor(c)
  <2>1. ASSUME Fulfilled' \ Crediting' = Fulfilled \ Crediting
        PROVE  DoneFor(c)' = DoneFor(c)
    <3>1. \A i \in Fulfilled : i \in DOMAIN intents
      BY DEF Fulfilled
    <3> QED BY <1>2, <2>1, <3>1 DEF DoneFor
  <2>2. CASE Outside
    <3>1. loop' = loop
      BY <2>2 DEF Outside
    <3>2. Fulfilled' = Fulfilled
      BY <1>2, <3>1
    <3>3. Crediting' = Crediting
      <4>1. CASE loop.op = "fulfil"
        <5>1. loop.tx \in Tx /\ chain[loop.tx] # None
          BY <1>1, <4>1, LoopFields DEF PaygInv, RoundIsSound
        <5>2. chain'[loop.tx] = chain[loop.tx]
          BY <5>1, ChainStep
        <5> QED BY <3>1, <5>2 DEF Crediting
      <4> QED BY <3>1, <4>1 DEF Crediting
    <3> QED BY <2>1, <3>2, <3>3
  <2>3. CASE PollFulfil
    <3>1. PICK t \in Tx, i \in DOMAIN intents :
            /\ loop.op = "poll" /\ i = loop.by_addr[chain[t].from]
            /\ intents[i].status = "pending"
            /\ intents' = [intents EXCEPT ![i] = [intents[i] EXCEPT !.status = "fulfilled"]]
            /\ loop' = [op |-> "fulfil", logs |-> loop.logs, by_addr |-> loop.by_addr, tx |-> t]
            /\ UNCHANGED <<chain>>
      BY <2>3, PollFulfilDoes
    <3>2. Crediting = {} /\ Crediting' = {i}
      BY <3>1 DEF Crediting
    <3>3. /\ DOMAIN intents' = DOMAIN intents
          /\ \A j \in DOMAIN intents : j # i => intents'[j] = intents[j]
      BY <1>1, <3>1 DEF TypeOK
    <3>4. Fulfilled' \ {i} = Fulfilled /\ i \notin Fulfilled
      BY <3>1, <3>3 DEF Fulfilled
    <3> QED BY <2>1, <3>2, <3>4
  <2>4. CASE ~Outside /\ ~PollFulfil
    <3>1. Crediting' = Crediting
      BY <1>6, <2>4, RecordedStep
    <3>2. ~(loop.op = "poll" /\ loop'.op = "fulfil")
      <4>1. CASE loop.op = "poll" /\ loop'.op = "fulfil"
        <5>1. OnLoop
          BY <2>4, Steps
        <5>2. PollFulfil
          BY <4>1, <5>1, ConsumeDoes, RecordTrailDoes, ClaimDoes DEF OnLoop, Deliver, PollStart, PollEnd, Restart,
             NexusTrail, ServiceTrail, WebhookTopup, WebhookNonce, PollCredit, Refund, Idle
        <5> QED BY <2>4, <5>2
      <4> QED BY <4>1
    <3> QED BY <1>2, <2>1, <3>1, <3>2
  <2> QED BY <2>2, <2>3, <2>4
<1> QED BY <1>4, <1>5, <1>6

\* Between restarts, every step moves both sides of the books by the same amount.
LEMMA BooksStep == ASSUME PaygInv, Next PROVE BooksInFlight'
<1>1. /\ TypeOK /\ TypeOK' /\ restarts \in Nat
      /\ IsFiniteSet(nonces)
      /\ restarts = 0 => \A c \in Account : gen[c] <= 1 /\ AllHashed(c) => Traced(c) = Income(c)
  BY TypeStep, BooksAre DEF PaygInv, TypeOK
<1>2. IsFiniteSet(nonces')
  BY <1>1, RecordedStep, FS_AddElement
<1> SUFFICES ASSUME restarts' = 0, NEW c \in Account, gen'[c] <= 1, AllHashed(c)'
             PROVE  Traced(c)' = Income(c)'
  BY <1>2, BooksAre
<1>3. restarts = 0 /\ ~Restart
  BY <1>1, RecordedStep DEF Restart
<1>4. gen[c] <= 1
  <2>1. gen \in [Account -> Nat]
    BY <1>1 DEF TypeOK
  <2>2. ASSUME NEW d \in Account, CreateAccount(d) \/ Rotate(d)
        PROVE  gen[c] <= 1
    <3>1. gen' = [gen EXCEPT ![d] = gen[d] + 1]
      BY <2>1, <2>2 DEF CreateAccount, Rotate
    <3> QED BY <2>1, <3>1
  <2> QED BY <2>2, GenStep
<1>16. AllHashed(c)
  <2>1. ASSUME NEW p \in Unhashed, invoices[p] # NoInvoice
        PROVE  invoices[p].key.account # c
    <3>1. invoices'[p] # NoInvoice /\ invoices'[p].key = invoices[p].key
      BY <2>1, PaymentAssumption, InvoiceStep DEF NoInvoice
    <3> QED BY <3>1 DEF AllHashed
  <2> QED BY <2>1 DEF AllHashed
<1>5. Traced(c) = Income(c)
  BY <1>1, <1>3, <1>4, <1>16
\* The two sums of Income, their sets and their terms.
<1> DEFINE f == InvoiceTrails
           g == IntentTrails
           P == PaidFor(c)
           D == DoneFor(c)
<1>6. /\ IsFiniteSet(P) /\ \A p \in P : f'[p] = f[p] /\ f[p] \in Nat
      /\ ~WebhookTopup => P' = P
  BY <1>3, <1>4, PaidStep
<1>7. /\ IsFiniteSet(D) /\ D \subseteq DOMAIN intents
      /\ \A i \in DOMAIN intents : g'[i] = g[i] /\ g[i] \in Nat
      /\ ~PollCredit => D' = D
  BY <1>3, DoneStep
<1>8. Income(c) = SumOf(f, P) + SumOf(g, D) /\ Income(c)' = SumOf(f', P') + SumOf(g', D')
  BY DEF Income
<1> HIDE DEF f, g, P, D
<1>9. SumOf(f', P) = SumOf(f, P) /\ SumOf(f, P) \in Nat
  BY <1>6, SumSame, SumType
<1>10. SumOf(g', D) = SumOf(g, D) /\ SumOf(g, D) \in Nat
  BY <1>7, SumSame, SumType
<1>11. CASE ~WebhookTopup /\ ~PollCredit
  <2>1. Traced(c)' = Traced(c)
    BY <1>1, <1>3, <1>4, <1>11, FlowStep, RecordedStep
  <2>2. Income(c)' = Income(c)
    BY <1>6, <1>7, <1>8, <1>9, <1>10, <1>11
  <2> QED BY <1>5, <2>1, <2>2
\* An UPDATE on behalf of a payment.
<1>12. credit[c] \in Nat /\ served[c] \in Nat
  BY <1>1 DEF TypeOK
<1>13. ASSUME NEW k \in Key, NEW n \in Nat, Topup(k, n), Issued(k), served' = served,
              loop.op \notin {"record", "refund"}, loop'.op \notin {"record", "refund"}
       PROVE  Traced(c)' = IF k.account = c THEN Traced(c) + n ELSE Traced(c)
  <2>1. k.account = c => Valid(k)
    BY <1>4, <1>13, OnlyKey
  <2>2. credit'[c] = IF k.account = c THEN credit[c] + n ELSE credit[c]
    BY <1>1, <1>13, <2>1, TopupDoes
  <2>3. Held(c) = 0 /\ Held(c)' = 0
    BY <1>13, HeldBy
  <2> QED BY <1>12, <1>13, <2>2, <2>3 DEF Traced
<1>14. CASE WebhookTopup
  <2>1. PICK p \in Payment, k \in Key, n \in Nat :
          /\ loop.op = "topup" /\ loop.payment = p /\ ~AlreadyProcessed(p)
          /\ invoices[p] # NoInvoice /\ k = invoices[p].key /\ n = invoices[p].trails
          /\ Topup(k, n)
          /\ loop' = [op |-> "nonce", payment |-> p]
          /\ UNCHANGED <<topupVars, served>>
    BY <1>14, WebhookTopupDoes
  <2>2. UNCHANGED <<nonces, invoices, served>>
    BY <2>1 DEF topupVars
  <2>3. Unrecorded = {} /\ Unrecorded' = {p} \ Unhashed
    BY <2>1 DEF Unrecorded
  <2>14. k.account = c => p \notin Unhashed /\ p \notin nonces
    BY <1>16, <2>1 DEF AllHashed, AlreadyProcessed, HasExternalNonce
  <2>4. Issued(k)
    BY <2>1 DEF PaygInv, KeysIssued
  <2>5. Traced(c)' = IF k.account = c THEN Traced(c) + n ELSE Traced(c)
    BY <1>13, <2>1, <2>2, <2>4
  <2>6. ~PollCredit
    BY <2>1 DEF PollCredit
  <2>7. D' = D
    BY <1>7, <2>6
  <2>8. P' = IF k.account = c THEN P \cup {p} ELSE P
    BY <2>1, <2>2, <2>3, <2>14 DEF P, PaidFor
  <2>9. k.account = c => p \notin P
    BY <2>1, <2>3, <2>14 DEF P, PaidFor
  <2>10. f'[p] = n
    BY <2>1, <2>2 DEF f, InvoiceTrails
  <2>11. \A y \in P \cup {p} : f'[y] \in Int
    BY <1>6, <2>10
  <2>12. k.account = c => SumOf(f', P \cup {p}) = SumOf(f', P) + n
    BY <1>6, <2>9, <2>10, <2>11, SumAdd
  <2>13. Income(c)' = IF k.account = c THEN Income(c) + n ELSE Income(c)
    BY <1>8, <1>9, <1>10, <2>7, <2>8, <2>12
  <2> QED BY <1>5, <2>5, <2>13
<1>15. CASE PollCredit
  <2>1. PICK i \in 1..MaxIntents, k \in Key, n \in Nat :
          /\ loop.op = "fulfil" /\ i \in Fulfilled /\ Crediting = {i}
          /\ k = intents[i].key /\ n = intents[i].trails
          /\ Topup(k, n)
          /\ loop'.op = "poll"
          /\ UNCHANGED <<invoices, nonces, intents, served>>
    BY <1>15, PollCreditDoes
  <2>2. Crediting' = {} /\ Fulfilled' = Fulfilled /\ i \in DOMAIN intents
    BY <2>1 DEF Crediting, Fulfilled
  <2>3. Issued(k)
    BY <2>1, <2>2 DEF PaygInv, KeysIssued
  <2>4. Traced(c)' = IF k.account = c THEN Traced(c) + n ELSE Traced(c)
    BY <1>13, <2>1, <2>3
  <2>5. ~WebhookTopup
    BY <2>1 DEF WebhookTopup
  <2>6. P' = P
    BY <1>6, <2>5
  <2>7. D' = IF k.account = c THEN D \cup {i} ELSE D
    BY <2>1, <2>2 DEF D, DoneFor
  <2>8. i \notin D
    BY <2>1 DEF D, DoneFor
  <2>9. g'[i] = n
    BY <2>1, <2>2 DEF g, IntentTrails
  <2>10. \A y \in D \cup {i} : g'[y] \in Int
    BY <1>7, <2>9
  <2>11. SumOf(g', D \cup {i}) = SumOf(g', D) + n
    BY <1>7, <2>8, <2>9, <2>10, SumAdd
  <2>12. Income(c)' = IF k.account = c THEN Income(c) + n ELSE Income(c)
    BY <1>8, <1>9, <1>10, <2>6, <2>7, <2>11
  <2> QED BY <1>5, <2>4, <2>12
<1> QED BY <1>11, <1>14, <1>15

-----------------------------------------------------------------------------
(* The invariant and what follows from it.                                   *)

\* The empty database and the idle loop.
LEMMA InitInv == Init => PaygInv
<1> SUFFICES ASSUME Init PROVE PaygInv
  OBVIOUS
<1>1. loop.op = "idle" /\ \A c : Held(c) = 0
  BY DEF Init, Idle, Held
<1>2. TypeOK
  <2>1. intents \in Seq(IntentRow)
    BY DEF Init
  <2>2. loop \in Handlers
    BY DEF Init, Handlers, Idle
  <2>3. IsFiniteSet(Account) /\ MaxIntents \in Nat
    BY AccountAssumption, LimitAssumption
  <2> QED BY <2>1, <2>2, <2>3 DEF Init, TypeOK
<1>3. DOMAIN intents = {} /\ Len(intents) = 0
  BY DEF Init
<1>4. KeysIssued
  BY <1>1, <1>3 DEF Init, KeysIssued
<1>5. Unrecorded = {} /\ Crediting = {} /\ Fulfilled = {}
  BY <1>1, <1>3 DEF Unrecorded, Crediting, Fulfilled
<1>6. NoncesFollowCredits
  <2>1. \A p \in Payment : invoices[p] = NoInvoice /\ paymentCredits[p] = 0
    BY DEF Init
  <2> QED BY <1>1, <1>5, <2>1 DEF Init, NoncesFollowCredits
<1>11. AckedUnlessClaimed
  BY DEF Init, AckedUnlessClaimed
<1>7. RoundIsSound
  <2>1. /\ \A i \in 1..MaxIntents : intentCredits[i] = 0
        /\ \A t \in Tx : txCredits[t] = 0
        /\ restarts = 0 /\ seen = {}
    BY DEF Init
  <2> QED BY <1>1, <1>3, <1>5, <2>1, LimitAssumption DEF RoundIsSound
<1>8. BooksInFlight
  <2>1. nonces = {} /\ IsFiniteSet(nonces)
    BY FS_EmptySet DEF Init
  <2>2. ASSUME NEW c \in Account
        PROVE  Traced(c) = Income(c)
    <3>1. PaidFor(c) = {} /\ DoneFor(c) = {}
      BY <1>5, <2>1 DEF PaidFor, DoneFor
    <3>2. Income(c) = 0
      BY <3>1, SumEmpty DEF Income
    <3> QED BY <1>1, <3>2 DEF Traced, Init
  <2> QED BY <2>1, <2>2, BooksAre
<1>9. CreditsCoverTrails
  BY <1>1 DEF Init, CreditsCoverTrails
<1>10. FreeTierBound
  <2>1. ASSUME NEW a \in Agent
        PROVE  month[a] <= MONTHLY_LIMIT_FREE + OnCredit(a)
    <3>1. {c \in Account : AgentOf[c] = a} \subseteq Account
      OBVIOUS
    <3>2. IsFiniteSet({c \in Account : AgentOf[c] = a})
      BY <3>1, AccountAssumption, FS_Subset
    <3>3. \A c \in {c \in Account : AgentOf[c] = a} : served[c] \in Nat
      BY <1>2 DEF TypeOK
    <3>4. OnCredit(a) \in Nat
      BY <3>2, <3>3, SumType DEF OnCredit
    <3>5. month[a] = 0
      BY DEF Init
    <3> QED BY <3>4, <3>5, LimitAssumption
  <2> QED BY <2>1, FreeTierIs
<1> QED BY <1>2, <1>4, <1>6, <1>7, <1>8, <1>9, <1>10, <1>11 DEF PaygInv

\* Every step keeps the invariant.
LEMMA NextInv == PaygInv /\ [Next]_vars => PaygInv'
<1>1. ASSUME PaygInv, Next
      PROVE  PaygInv'
  BY <1>1, TypeStep, KeysStep, NoncesStep, AckedStep, RoundStep, BooksStep, CoverStep, FreeTierStep DEF PaygInv
<1>2. ASSUME PaygInv, UNCHANGED vars
      PROVE  PaygInv'
  <2> USE <1>2 DEF vars, accountVars, topupVars, trailVars, history
  <2>1. TypeOK' /\ KeysIssued'
    BY DEF PaygInv, TypeOK, KeysIssued, Issued
  <2>2. NoncesFollowCredits'
    BY DEF PaygInv, NoncesFollowCredits, Unrecorded, Valid, AlreadyProcessed, HasExternalNonce
  <2>3. RoundIsSound'
    BY DEF PaygInv, RoundIsSound, Crediting, Fulfilled
  <2>4. BooksInFlight'
    <3>1. \A c : Traced(c)' = Traced(c) /\ Income(c)' = Income(c)
      BY DEF Traced, Held, Income, InvoiceTrails, IntentTrails, PaidFor, DoneFor, Unrecorded, Crediting, Fulfilled
    <3>2. \A c : AllHashed(c)' <=> AllHashed(c)
      BY DEF AllHashed
    <3> QED BY <3>1, <3>2, BooksAre DEF PaygInv
  <2>7. AckedUnlessClaimed'
    BY DEF PaygInv, AckedUnlessClaimed
  <2>5. CreditsCoverTrails'
    BY DEF PaygInv, CreditsCoverTrails, Held
  <2>6. FreeTierBound'
    <3>1. \A a : OnCredit(a)' = OnCredit(a)
      BY DEF OnCredit
    <3> QED BY <3>1, FreeTierIs DEF PaygInv
  <2> QED BY <2>1, <2>2, <2>3, <2>4, <2>5, <2>6, <2>7 DEF PaygInv
<1> QED BY <1>1, <1>2

\* The tables, the handler on the event loop and the history agree in every
\* reachable state.
THEOREM Invariance == Spec => []PaygInv
BY InitInv, NextInv, PTL DEF Spec

\* consume_payg_credit and the refund: one credit never pays for two trails.
THEOREM CreditsCoverTrailsHolds == Spec => []CreditsCoverTrails
<1>1. PaygInv => CreditsCoverTrails
  BY DEF PaygInv
<1> QED BY <1>1, Invariance, PTL

\* record_trail's monthly limit is passed only on credits of the agent's accounts.
THEOREM FreeTierBoundHolds == Spec => []FreeTierBound
<1>1. PaygInv => FreeTierBound
  BY DEF PaygInv
<1> QED BY <1>1, Invariance, PTL

\* The webhook answers success only after the credit is on disk, or for a hash that
\* /external/trail had recorded.
THEOREM AckedUnlessClaimedHolds == Spec => []AckedUnlessClaimed
<1>1. PaygInv => AckedUnlessClaimed
  BY DEF PaygInv
<1> QED BY <1>1, Invariance, PTL

\* A payment whose notification carries its hash is credited once, and once more at
\* most for each restart.
THEOREM DuplicateNeedsRestartHolds == Spec => []DuplicateNeedsRestart
<1>1. PaygInv => DuplicateNeedsRestart
  <2> SUFFICES ASSUME PaygInv, NEW p \in Payment \ Unhashed
               PROVE  paymentCredits[p] <= 1 + restarts
    BY DEF DuplicateNeedsRestart
  <2>1. paymentCredits[p] \in Nat /\ restarts \in Nat
    BY DEF PaygInv, TypeOK
  <2>2. paymentCredits[p] <= 1 + restarts \/ paymentCredits[p] <= restarts
    BY DEF PaygInv, NoncesFollowCredits
  <2> QED BY <2>1, <2>2
<1> QED BY <1>1, Invariance, PTL

\* fulfill_usdc_intent credits an intent once, and a transfer once per life of the
\* process.
THEOREM UsdcCreditedOnceHolds == Spec => []UsdcCreditedOnce
<1>1. PaygInv => UsdcCreditedOnce
  <2> SUFFICES ASSUME PaygInv PROVE UsdcCreditedOnce
    OBVIOUS
  <2>1. ASSUME NEW i \in 1..MaxIntents
        PROVE  intentCredits[i] <= 1
    <3>1. intentCredits[i] \in Nat
      BY DEF PaygInv, TypeOK
    <3>2. intentCredits[i] <= 1 \/ intentCredits[i] <= 0
      BY DEF PaygInv, RoundIsSound
    <3> QED BY <3>1, <3>2
  <2>2. ASSUME NEW t \in Tx
        PROVE  txCredits[t] <= 1 + restarts
    <3>1. txCredits[t] \in Nat /\ restarts \in Nat
      BY DEF PaygInv, TypeOK
    <3>2. txCredits[t] <= 1 + restarts \/ txCredits[t] <= restarts
      BY DEF PaygInv, RoundIsSound
    <3> QED BY <3>1, <3>2
  <2> QED BY <2>1, <2>2 DEF UsdcCreditedOnce
<1> QED BY <1>1, Invariance, PTL

\* With the process up and the loop idle, an account that never rotated its key and
\* whose payments all have a hash has what those the webhook recorded and its intents
\* bought, less the trails recorded on credit.
THEOREM BooksBalanceHolds == Spec => []BooksBalance
<1>1. PaygInv => BooksBalance
  <2> SUFFICES ASSUME PaygInv, restarts = 0, loop = Idle, NEW c \in Account, gen[c] <= 1, AllHashed(c)
               PROVE  credit[c] + served[c] = LightningTrails(nonces, c) + UsdcTrails(Fulfilled, c)
    BY DEF BooksBalance
  <2>1. /\ nonces \cup Unrecorded = nonces
        /\ Fulfilled \ Crediting = Fulfilled
        /\ Held(c) = 0
    BY DEF Unrecorded, Crediting, Held, Idle
  <2>2. credit[c] \in Nat /\ served[c] \in Nat
    BY DEF PaygInv, TypeOK
  <2>3. credit[c] + served[c] + Held(c) = LightningTrails(nonces, c) + UsdcTrails(Fulfilled, c)
    BY <2>1 DEF PaygInv, BooksInFlight
  <2> QED BY <2>1, <2>2, <2>3
<1> QED BY <1>1, Invariance, PTL

-----------------------------------------------------------------------------
(* PrepaidCredits: every statement of a handler is a step of it or none.     *)

\* The credit a trail holds, by what the handler is.
LEMMA HeldKeyIs ==
  /\ \A l : (loop = l /\ l.op \in {"record", "refund"}) => HeldKey = l.key
  /\ loop.op \notin {"record", "refund"} => HeldKey = None
  /\ (loop'.op \in {"record", "refund"}) => HeldKey' = loop'.key
  /\ loop'.op \notin {"record", "refund"} => HeldKey' = None
  /\ loop' = loop => HeldKey' = HeldKey
  /\ loop = Idle => HeldKey = None
  /\ loop' = Idle => HeldKey' = None
BY DEF HeldKey, Idle

\* The invoices are paid only by payers, and the intents fulfilled only by the
\* poller.
LEMMA OrdersStay ==
  ASSUME PaygInv, Next
  PROVE  /\ invoices' = invoices => PaidInvoices' = PaidInvoices
         /\ ~(loop.op = "poll" /\ loop'.op = "fulfil") => FulfilledIntents' = FulfilledIntents
<1>1. invoices' = invoices => PaidInvoices' = PaidInvoices
  BY DEF PaidInvoices
<1>2. ASSUME ~(loop.op = "poll" /\ loop'.op = "fulfil")
      PROVE  FulfilledIntents' = FulfilledIntents
  <2>1. /\ Fulfilled' = Fulfilled
        /\ \A i \in DOMAIN intents :
              intents'[i].key = intents[i].key /\ intents'[i].trails = intents[i].trails
    BY <1>2, FulfilledStep
  <2>2. ASSUME NEW i \in 1..MaxIntents
        PROVE  (IF i \in Fulfilled' THEN OrderOf(intents'[i]) ELSE None)
                 = (IF i \in Fulfilled THEN OrderOf(intents[i]) ELSE None)
    BY <2>1 DEF OrderOf, Fulfilled
  <2> QED BY <2>2 DEF FulfilledIntents
<1> QED BY <1>1, <1>2

\* What PrepaidCredits sees, and what it does not.
Tables == <<gen, credit, served, month, paymentCredits, intentCredits, acked, claimed, restarts>>
LEMMA Unseen ==
  UNCHANGED <<Tables, HeldKey, PaidInvoices, FulfilledIntents>> => UNCHANGED Prepaid!absVars
BY DEF Prepaid!absVars, Tables

\* An order for a key that was issued.
LEMMA OrderIs ==
  ASSUME TypeOK, NEW k \in Key, Issued(k), NEW n \in Amount
  PROVE  [key |-> k, trails |-> n] \in Prepaid!Orders
<1>1. PICK c, g : c = k.account /\ g = k.gen
  OBVIOUS
<1>2. c \in Account /\ g \in Nat /\ g > 0 /\ gen[c] \in Nat /\ g <= gen[c]
  BY <1>1, KeyFields DEF TypeOK, Issued
<1>3. k = [account |-> c, gen |-> g] /\ g \in 1..gen[c]
  BY <1>1, <1>2 DEF Key
<1> QED BY <1>2, <1>3 DEF Prepaid!Orders

\* What the UPDATE of topup_payg does to the balance.
LEMMA TopupFills ==
  ASSUME TypeOK, NEW k \in Key, NEW n \in Nat, Topup(k, n)
  PROVE  /\ gen' = gen
         /\ Valid(k) => credit' = [credit EXCEPT ![k.account] = credit[k.account] + n]
         /\ ~Valid(k) => credit' = credit
BY TopupDoes, KeyFields DEF Topup, accountVars

\* The steps outside the event loop: a key is renewed, an invoice is paid.
LEMMA OutsideMaps ==
  ASSUME PaygInv, Next, Outside
  PROVE  Prepaid!AbsNext \/ UNCHANGED Prepaid!absVars
<1>1. /\ HeldKey' = HeldKey /\ FulfilledIntents' = FulfilledIntents
      /\ UNCHANGED <<credit, served, month, paymentCredits, intentCredits, acked, claimed, restarts>>
  <2>1. UNCHANGED <<credit, loop, trailVars, history, claimed, restarts>>
    BY DEF Outside
  <2>2. HeldKey' = HeldKey
    BY <2>1, HeldKeyIs
  <2>3. ~(loop.op = "poll" /\ loop'.op = "fulfil")
    BY <2>1
  <2>4. FulfilledIntents' = FulfilledIntents
    BY <2>3, OrdersStay
  <2> QED BY <2>1, <2>2, <2>4 DEF trailVars, history
<1>2. TypeOK
  BY DEF PaygInv
<1>3. ASSUME NEW c \in Account, CreateAccount(c) \/ Rotate(c)
      PROVE  Prepaid!AbsNext
  <2>1. gen \in [Account -> Nat]
    BY <1>2 DEF TypeOK
  <2>2. gen' = [gen EXCEPT ![c] = gen[c] + 1] /\ invoices' = invoices
    BY <1>3, <2>1 DEF CreateAccount, Rotate, topupVars
  <2>3. PaidInvoices' = PaidInvoices
    BY <2>2, OrdersStay
  <2>4. Prepaid!Renew(c)
    BY <1>1, <2>2, <2>3 DEF Prepaid!Renew
  <2> QED BY <2>4 DEF Prepaid!AbsNext
<1>4. ASSUME NEW p \in Payment, NEW c \in Account, NEW n \in Amount, TopupLightning(p, c, n)
      PROVE  UNCHANGED Prepaid!absVars
  <2>1. gen' = gen
    BY <1>4 DEF TopupLightning, accountVars
  <2>2. PaidInvoices' = PaidInvoices
    <3>1. PICK r : r = [status |-> "open", key |-> KeyOf(c), trails |-> n]
      OBVIOUS
    <3>2. invoices' = [invoices EXCEPT ![p] = r] /\ r.status = "open" /\ invoices[p].status = "none"
      BY <1>4, <3>1 DEF TopupLightning, NoInvoice
    <3>3. \A q \in Payment : invoices'[q] = IF q = p THEN r ELSE invoices[q]
      BY <1>2, <3>2 DEF TypeOK
    <3> QED BY <3>2, <3>3 DEF PaidInvoices
  <2> QED BY <1>1, <2>1, <2>2, Unseen DEF Tables
<1>5. ASSUME NEW p \in Payment, Pay(p)
      PROVE  Prepaid!AbsNext
  <2>1. gen' = gen /\ invoices[p].status = "open"
    BY <1>5 DEF Pay, accountVars
  <2>2. PICK o : o = OrderOf(invoices[p])
    OBVIOUS
  <2>3. PaidInvoices[p] = None
    BY <2>1 DEF PaidInvoices
  <2>4. PaidInvoices' = [PaidInvoices EXCEPT ![p] = o]
    <3>1. PICK r : r = [invoices[p] EXCEPT !.status = "paid"]
      OBVIOUS
    <3>2. invoices[p] \in Invoice
      BY <1>2, <2>1, InvoiceFields DEF NoInvoice
    <3>3. r.status = "paid" /\ r.key = invoices[p].key /\ r.trails = invoices[p].trails
      BY <3>1, <3>2 DEF Invoice
    <3>4. invoices' = [invoices EXCEPT ![p] = r]
      BY <1>5, <3>1 DEF Pay
    <3>5. \A q \in Payment : invoices'[q] = IF q = p THEN r ELSE invoices[q]
      BY <1>2, <3>4 DEF TypeOK
    <3> QED BY <2>2, <3>3, <3>5 DEF PaidInvoices, OrderOf
  <2>5. o \in Prepaid!Orders
    <3>1. invoices[p] # NoInvoice
      BY <2>1 DEF NoInvoice
    <3>2. invoices[p].key \in Key /\ invoices[p].trails \in Amount /\ Issued(invoices[p].key)
      BY <1>2, <3>1, InvoiceFields DEF PaygInv, KeysIssued
    <3> QED BY <1>2, <2>2, <3>2, OrderIs DEF OrderOf
  <2>6. Prepaid!PayInvoice(p, o)
    BY <1>1, <2>1, <2>3, <2>4 DEF Prepaid!PayInvoice
  <2> QED BY <2>5, <2>6 DEF Prepaid!AbsNext
<1>6. ASSUME gen' = gen, invoices' = invoices
      PROVE  UNCHANGED Prepaid!absVars
  <2>1. PaidInvoices' = PaidInvoices
    BY <1>6, OrdersStay
  <2> QED BY <1>1, <1>6, <2>1, Unseen DEF Tables
<1>7. ASSUME OnLoop
      PROVE  gen' = gen /\ invoices' = invoices
  BY <1>7, ClaimDoes DEF OnLoop, Deliver, PollStart, PollEnd, Restart, NexusTrail, ServiceTrail, WebhookTopup, WebhookNonce,
     PollFulfil, PollCredit, Consume, RecordTrail, Refund, Topup, accountVars, topupVars
<1>8. ASSUME NEW c \in Account, NEW addr \in Address, NEW n \in Amount, TopupUsdc(c, addr, n)
      PROVE  gen' = gen /\ invoices' = invoices
  BY <1>8 DEF TopupUsdc, accountVars
<1>9. ASSUME NEW i \in 1..MaxIntents, Expire(i)
      PROVE  gen' = gen /\ invoices' = invoices
  BY <1>9 DEF Expire, accountVars
<1>10. ASSUME NEW t \in Tx, NEW addr \in Address, NEW n \in Amount, TransferUsdc(t, addr, n)
       PROVE  gen' = gen /\ invoices' = invoices
  BY <1>10 DEF TransferUsdc, accountVars
<1> QED BY <1>3, <1>4, <1>5, <1>6, <1>7, <1>8, <1>9, <1>10 DEF Next, OnLoop, LoopStep, Claim

\* The webhook: phoenixd is answered, or an invoice credited.
LEMMA WebhookMaps ==
  ASSUME PaygInv, Next, UNCHANGED <<gen, invoices>>,
         (\E p \in Payment : Deliver(p)) \/ WebhookTopup \/ WebhookNonce
  PROVE  Prepaid!AbsNext \/ UNCHANGED Prepaid!absVars
<1>1. TypeOK /\ KeysIssued /\ NoncesFollowCredits
  BY DEF PaygInv
<1>2. PaidInvoices' = PaidInvoices
  BY OrdersStay
<1>3. ASSUME NEW p \in Payment, paymentCredits[p] > 0 \/ p \in claimed \ Unhashed,
             acked' = acked \cup {p}, HeldKey' = HeldKey,
             FulfilledIntents' = FulfilledIntents,
             UNCHANGED <<credit, served, month, paymentCredits, intentCredits, claimed, restarts>>
      PROVE  Prepaid!AbsNext
  <2>1. Prepaid!Acknowledge(p)
    BY <1>2, <1>3 DEF Prepaid!Acknowledge
  <2> QED BY <2>1 DEF Prepaid!AbsNext
<1>4. ASSUME NEW p \in Payment, Deliver(p)
      PROVE  Prepaid!AbsNext \/ UNCHANGED Prepaid!absVars
  <2>1. /\ UNCHANGED <<credit, served, month, paymentCredits, intentCredits, claimed, restarts>>
        /\ loop = Idle /\ loop' \in {Idle, [op |-> "topup", payment |-> p]}
    BY <1>4 DEF Deliver, accountVars, topupVars, trailVars
  <2>2. loop'.op \in {"idle", "topup"} /\ loop.op = "idle"
    BY <2>1 DEF Idle
  <2>3. HeldKey' = HeldKey /\ FulfilledIntents' = FulfilledIntents
    BY <2>2, HeldKeyIs, OrdersStay
  <2>4. CASE AlreadyProcessed(p)
    <3>1. paymentCredits[p] > 0 \/ p \in claimed \ Unhashed
      BY <1>1, <2>4 DEF NoncesFollowCredits, AlreadyProcessed, HasExternalNonce
    <3>2. acked' = acked \cup {p}
      BY <1>4, <2>4 DEF Deliver
    <3> QED BY <1>3, <2>1, <2>3, <3>1, <3>2
  <2>5. CASE ~AlreadyProcessed(p)
    <3>1. acked' = acked
      BY <1>4, <2>5 DEF Deliver
    <3> QED BY <1>2, <2>1, <2>3, <3>1, Unseen DEF Tables
  <2> QED BY <2>4, <2>5
<1>5. CASE WebhookTopup
  <2>1. PICK p \in Payment, k \in Key, n \in Nat :
           /\ loop.op = "topup" /\ loop.payment = p /\ ~AlreadyProcessed(p)
           /\ invoices[p] # NoInvoice /\ k = invoices[p].key /\ n = invoices[p].trails
           /\ Topup(k, n)
           /\ paymentCredits' \in [Payment -> Nat]
           /\ \A q \in Payment : paymentCredits'[q] =
                IF Valid(k) /\ q = p THEN paymentCredits[q] + 1 ELSE paymentCredits[q]
           /\ loop' = [op |-> "nonce", payment |-> p]
           /\ UNCHANGED <<topupVars, trailVars, restarts, acked, intentCredits, txCredits, served>>
    BY <1>5, WebhookTopupDoes
  <2>2. UNCHANGED <<month, claimed, restarts, acked, intentCredits, served>> /\ loop'.op = "nonce"
    BY <2>1 DEF trailVars, topupVars
  <2>3. HeldKey' = HeldKey /\ FulfilledIntents' = FulfilledIntents
    BY <2>1, <2>2, HeldKeyIs, OrdersStay
  <2>4. paymentCredits \in [Payment -> Nat]
    BY <1>1 DEF TypeOK
  <2>5. CASE ~Valid(k)
    <3>1. credit' = credit
      BY <1>1, <2>1, <2>5, TopupFills
    <3>2. paymentCredits' = paymentCredits
      BY <2>1, <2>4, <2>5
    <3> QED BY <1>2, <2>2, <2>3, <3>1, <3>2, Unseen DEF Tables
  <2>6. CASE Valid(k)
    <3>1. credit' = [credit EXCEPT ![k.account] = credit[k.account] + n]
      BY <1>1, <2>1, <2>6, TopupFills
    <3>2. paymentCredits' = [paymentCredits EXCEPT ![p] = paymentCredits[p] + 1]
      BY <2>1, <2>4, <2>6
    <3>3. invoices[p].status = "paid"
      BY <1>1, <2>1 DEF NoncesFollowCredits
    <3>4. PaidInvoices[p] = [key |-> k, trails |-> n]
      BY <2>1, <3>3 DEF PaidInvoices, OrderOf
    <3>5. PICK o : o = [key |-> k, trails |-> n]
      OBVIOUS
    <3>6. o # None /\ o.key = k /\ o.trails = n
      BY <2>1, <3>5, <1>1, InvoiceFields, NoneAssumption
    <3>7. Prepaid!Fill(o)
      BY <2>6, <3>1, <3>6 DEF Prepaid!Fill, Prepaid!Good, Valid
    <3>8. p \in Unhashed \/ (p \notin acked \cup claimed /\ paymentCredits[p] <= restarts)
      <4> SUFFICES ASSUME p \notin Unhashed
                   PROVE  p \notin acked \cup claimed /\ paymentCredits[p] <= restarts
        OBVIOUS
      <4>1. Unrecorded = {}
        BY <2>1 DEF Unrecorded
      <4>2. p \notin nonces \cup claimed
        BY <2>1 DEF AlreadyProcessed, HasExternalNonce
      <4>3. p \notin acked
        BY <1>1, <4>2 DEF NoncesFollowCredits
      <4> QED BY <1>1, <2>1, <2>6, <4>1, <4>2, <4>3 DEF NoncesFollowCredits
    <3>9. Prepaid!CreditInvoice(p)
      BY <1>2, <2>2, <2>3, <3>2, <3>4, <3>5, <3>7, <3>8 DEF Prepaid!CreditInvoice
    <3> QED BY <3>9 DEF Prepaid!AbsNext
  <2> QED BY <2>5, <2>6
<1>6. CASE WebhookNonce
  <2>1. PICK p \in Payment, k \in Key :
           /\ loop.op = "nonce" /\ loop.payment = p /\ k = invoices[p].key
           /\ \/ Valid(k) /\ acked' = acked \cup {p}
              \/ ~Valid(k) /\ acked' = acked
           /\ loop' = Idle
           /\ UNCHANGED <<accountVars, claimed, trailVars, restarts, paymentCredits, intentCredits, served>>
    BY <1>6, WebhookNonceDoes
  <2>2. UNCHANGED <<credit, served, month, paymentCredits, intentCredits, claimed, restarts>>
    BY <2>1 DEF accountVars, trailVars
  <2>3. HeldKey' = HeldKey /\ FulfilledIntents' = FulfilledIntents
    BY <2>1, HeldKeyIs, OrdersStay
  <2>4. CASE Valid(k)
    <3>1. paymentCredits[p] > 0
      BY <1>1, <2>1, <2>4 DEF NoncesFollowCredits
    <3>2. acked' = acked \cup {p}
      BY <2>1, <2>4
    <3> QED BY <1>3, <2>2, <2>3, <3>1, <3>2
  <2>5. CASE ~Valid(k)
    <3>1. acked' = acked
      BY <2>1, <2>5
    <3> QED BY <1>2, <2>2, <2>3, <3>1, Unseen DEF Tables
  <2> QED BY <2>4, <2>5
<1> QED BY <1>4, <1>5, <1>6

\* The poller: an intent is fulfilled, and then its account credited.
LEMMA PollerMaps ==
  ASSUME PaygInv, Next, UNCHANGED <<gen, invoices>>, PollStart \/ PollFulfil \/ PollCredit \/ PollEnd
  PROVE  Prepaid!AbsNext \/ UNCHANGED Prepaid!absVars
<1>1. TypeOK /\ KeysIssued /\ RoundIsSound
  BY DEF PaygInv
<1>2. PaidInvoices' = PaidInvoices
  BY OrdersStay
<1>3. CASE PollStart \/ PollEnd
  <2>1. /\ loop.op \in {"idle", "poll"} /\ loop'.op \in {"idle", "poll"}
        /\ UNCHANGED <<credit, served, month, paymentCredits, intentCredits, acked, claimed, restarts>>
    BY <1>3 DEF PollStart, PollEnd, Idle, accountVars, topupVars, trailVars, history
  <2>2. HeldKey' = HeldKey /\ FulfilledIntents' = FulfilledIntents
    BY <2>1, HeldKeyIs, OrdersStay
  <2> QED BY <1>2, <2>1, <2>2, Unseen DEF Tables
<1>4. CASE PollFulfil
  <2>1. PICK t \in Tx, i \in DOMAIN intents :
          /\ loop.op = "poll"
          /\ intents[i].status = "pending"
          /\ intents' = [intents EXCEPT ![i] = [intents[i] EXCEPT !.status = "fulfilled"]]
          /\ loop' = [op |-> "fulfil", logs |-> loop.logs, by_addr |-> loop.by_addr, tx |-> t]
          /\ UNCHANGED <<accountVars, claimed, trailVars, restarts, history>>
    BY <1>4, PollFulfilDoes
  <2>2. loop'.op = "fulfil" /\ UNCHANGED <<credit, served, month, paymentCredits, intentCredits, acked, claimed, restarts>>
    BY <2>1 DEF accountVars, trailVars, history
  <2>3. HeldKey' = HeldKey
    BY <2>1, <2>2, HeldKeyIs
  <2>4. i \in 1..MaxIntents
    BY <1>1, IntentFields, LimitAssumption DEF RoundIsSound
  <2>5. PICK o, r : o = OrderOf(intents[i]) /\ r = [intents[i] EXCEPT !.status = "fulfilled"]
    OBVIOUS
  <2>6. r.status = "fulfilled" /\ r.key = intents[i].key /\ r.trails = intents[i].trails
    <3>1. intents[i] \in IntentRow
      BY <1>1, IntentFields
    <3> QED BY <2>5, <3>1 DEF IntentRow
  <2>7. /\ DOMAIN intents' = DOMAIN intents
        /\ \A j \in DOMAIN intents : intents'[j] = IF j = i THEN r ELSE intents[j]
    <3>1. intents \in Seq(IntentRow)
      BY <1>1 DEF TypeOK
    <3> QED BY <2>1, <2>5, <3>1
  <2>8. FulfilledIntents[i] = None /\ FulfilledIntents' = [FulfilledIntents EXCEPT ![i] = o]
    <3>1. i \notin Fulfilled
      BY <2>1 DEF Fulfilled
    <3>2. Fulfilled' = Fulfilled \cup {i}
      BY <2>6, <2>7 DEF Fulfilled
    <3>3. ASSUME NEW j \in 1..MaxIntents
          PROVE  (IF j \in Fulfilled' THEN OrderOf(intents'[j]) ELSE None)
                   = IF j = i THEN o ELSE IF j \in Fulfilled THEN OrderOf(intents[j]) ELSE None
      <4>1. Fulfilled \subseteq DOMAIN intents
        BY DEF Fulfilled
      <4> QED BY <2>5, <2>6, <2>7, <3>1, <3>2, <4>1 DEF OrderOf
    <3> QED BY <2>4, <3>1, <3>3 DEF FulfilledIntents
  <2>9. o \in Prepaid!Orders
    <3>1. intents[i].key \in Key /\ intents[i].trails \in Amount /\ Issued(intents[i].key)
      BY <1>1, IntentFields DEF KeysIssued
    <3> QED BY <1>1, <2>5, <3>1, OrderIs DEF OrderOf
  <2>10. Prepaid!PayDeposit(i, o)
    BY <1>2, <2>2, <2>3, <2>8 DEF Prepaid!PayDeposit
  <2> QED BY <2>4, <2>9, <2>10 DEF Prepaid!AbsNext
<1>5. CASE PollCredit
  <2>1. PICK i \in 1..MaxIntents, k \in Key, n \in Nat :
           /\ loop.op = "fulfil" /\ i \in Fulfilled /\ Crediting = {i}
           /\ k = intents[i].key /\ n = intents[i].trails
           /\ Topup(k, n)
           /\ intentCredits' \in [1..MaxIntents -> Nat]
           /\ \A j \in 1..MaxIntents : intentCredits'[j] =
                IF Valid(k) /\ j = i THEN intentCredits[j] + 1 ELSE intentCredits[j]
           /\ loop' = [op |-> "poll", logs |-> loop.logs, by_addr |-> loop.by_addr]
           /\ UNCHANGED <<claimed, trailVars, restarts, acked, paymentCredits, served>>
    BY <1>5, PollCreditDoes
  <2>2. loop'.op = "poll" /\ UNCHANGED <<served, month, paymentCredits, acked, claimed, restarts>>
    BY <2>1 DEF trailVars
  <2>3. HeldKey' = HeldKey /\ FulfilledIntents' = FulfilledIntents
    BY <2>1, <2>2, HeldKeyIs, OrdersStay
  <2>4. intentCredits \in [1..MaxIntents -> Nat] /\ intentCredits[i] = 0
    <3>1. intentCredits \in [1..MaxIntents -> Nat]
      BY <1>1 DEF TypeOK
    <3>2. intentCredits[i] <= 0
      BY <1>1, <2>1 DEF RoundIsSound
    <3> QED BY <3>1, <3>2
  <2>5. CASE ~Valid(k)
    <3>1. credit' = credit
      BY <1>1, <2>1, <2>5, TopupFills
    <3>2. intentCredits' = intentCredits
      <4>1. \A j \in 1..MaxIntents : intentCredits'[j] = intentCredits[j]
        BY <2>1, <2>5
      <4>2. /\ intentCredits = [j \in 1..MaxIntents |-> intentCredits[j]]
            /\ intentCredits' = [j \in 1..MaxIntents |-> intentCredits'[j]]
        BY <2>1, <2>4
      <4>3. [j \in 1..MaxIntents |-> intentCredits'[j]] = [j \in 1..MaxIntents |-> intentCredits[j]]
        BY <4>1
      <4> QED BY ONLY <4>2, <4>3, Zenon
    <3> QED BY <1>2, <2>2, <2>3, <3>1, <3>2, Unseen DEF Tables
  <2>6. CASE Valid(k)
    <3>1. credit' = [credit EXCEPT ![k.account] = credit[k.account] + n]
      BY <1>1, <2>1, <2>6, TopupFills
    <3>2. intentCredits' = [intentCredits EXCEPT ![i] = 1]
      BY <2>1, <2>4, <2>6
    <3>3. PICK o : o = [key |-> k, trails |-> n]
      OBVIOUS
    <3>4. FulfilledIntents[i] = o
      BY <2>1, <3>3 DEF FulfilledIntents, OrderOf
    <3>5. o # None /\ o.key = k /\ o.trails = n
      <4>1. n \in Amount
        BY <1>1, <2>1, IntentFields DEF Fulfilled
      <4> QED BY <3>3, <4>1, NoneAssumption
    <3>6. Prepaid!Fill(o)
      BY <2>6, <3>1, <3>5 DEF Prepaid!Fill, Prepaid!Good, Valid
    <3>7. Prepaid!CreditDeposit(i)
      BY <1>2, <2>2, <2>3, <2>4, <3>2, <3>4, <3>6 DEF Prepaid!CreditDeposit
    <3> QED BY <2>1, <3>7 DEF Prepaid!AbsNext
  <2> QED BY <2>5, <2>6
<1> QED BY <1>3, <1>4, <1>5

\* /nexus/trail: a credit is taken, kept or given back, or the trail is free.
LEMMA TrailMaps ==
  ASSUME PaygInv, Next, UNCHANGED <<gen, invoices>>,
         \/ \E a \in Agent : NexusTrail(a) \/ ServiceTrail(a)
         \/ Consume \/ Refund \/ \E pioneer \in BOOLEAN : RecordTrail(pioneer)
  PROVE  Prepaid!AbsNext \/ UNCHANGED Prepaid!absVars
<1>1. TypeOK /\ KeysIssued
  BY DEF PaygInv
<1>2. PaidInvoices' = PaidInvoices
  BY OrdersStay
<1>3. ASSUME NEW a \in Agent, NexusTrail(a) \/ ServiceTrail(a)
      PROVE  UNCHANGED Prepaid!absVars
  <2>1. /\ loop.op = "idle" /\ (loop'.op = "consume" \/ (loop'.op = "record" /\ loop'.key = None))
        /\ UNCHANGED <<credit, served, month, paymentCredits, intentCredits, acked, claimed, restarts>>
    BY <1>3 DEF NexusTrail, ServiceTrail, Idle, accountVars, topupVars, trailVars, history
  <2>2. HeldKey' = HeldKey /\ FulfilledIntents' = FulfilledIntents
    BY <2>1, HeldKeyIs, OrdersStay
  <2> QED BY <1>2, <2>1, <2>2, Unseen DEF Tables
<1>4. CASE Consume
  <2>1. PICK k : loop.op = "consume" /\ loop.key = k /\ k \in Key
    BY <1>1, <1>4, LoopFields DEF Consume
  <2>2. UNCHANGED <<served, month, paymentCredits, intentCredits, acked, claimed, restarts>> /\ loop'.op = "record"
    BY <1>4 DEF Consume, topupVars, trailVars, history
  <2>3. HeldKey = None /\ HeldKey' = loop'.key /\ FulfilledIntents' = FulfilledIntents
    BY <2>1, <2>2, HeldKeyIs, OrdersStay
  <2>4. PICK c : c = k.account
    OBVIOUS
  <2>5. c \in Account
    BY <2>1, <2>4, KeyFields
  <2>6. CASE Valid(k) /\ tier[c] = "payg" /\ credit[c] > 0
    <3>1. credit' = [credit EXCEPT ![c] = credit[c] - 1] /\ loop'.key = k
      BY <1>4, <2>1, <2>4, <2>6 DEF Consume
    <3>2. k = [account |-> c, gen |-> gen[c]]
      BY <2>1, <2>4, <2>6 DEF Key, Valid
    <3>3. Prepaid!Take(c)
      BY <1>2, <2>2, <2>3, <2>6, <3>1, <3>2 DEF Prepaid!Take
    <3> QED BY <2>5, <3>3 DEF Prepaid!AbsNext
  <2>7. CASE ~(Valid(k) /\ tier[c] = "payg" /\ credit[c] > 0)
    <3>1. credit' = credit /\ loop'.key = None
      BY <1>4, <2>1, <2>4, <2>7 DEF Consume
    <3> QED BY <1>2, <2>2, <2>3, <3>1, Unseen DEF Tables
  <2> QED BY <2>6, <2>7
<1>5. CASE Refund
  <2>1. PICK k \in Key : loop.op = "refund" /\ loop.key = k /\ Topup(k, 1) /\ loop' = Idle
    BY <1>5, RefundDoes
  <2>2. UNCHANGED <<served, month, paymentCredits, intentCredits, acked, claimed, restarts>> /\ loop'.op = "idle"
    BY <1>5 DEF Refund, topupVars, trailVars, history, Idle
  <2>3. HeldKey = k /\ HeldKey' = None /\ FulfilledIntents' = FulfilledIntents
    BY <2>1, <2>2, HeldKeyIs, OrdersStay
  <2>4. k # None /\ k.account \in Account
    BY KeyFields, NoneAssumption
  <2>5. credit' = [credit EXCEPT ![k.account] = IF Valid(k) THEN credit[k.account] + 1 ELSE credit[k.account]]
    <3>1. credit \in [Account -> Nat]
      BY <1>1 DEF TypeOK
    <3>2. /\ Valid(k) => credit' = [credit EXCEPT ![k.account] = credit[k.account] + 1]
          /\ ~Valid(k) => credit' = credit
      BY <1>1, <2>1, TopupFills
    <3> QED BY <2>4, <3>1, <3>2
  <2>6. Prepaid!GiveBack
    BY <1>2, <2>2, <2>3, <2>4, <2>5 DEF Prepaid!GiveBack, Prepaid!Good, Valid
  <2> QED BY <2>6 DEF Prepaid!AbsNext
<1>6. ASSUME NEW pioneer \in BOOLEAN, RecordTrail(pioneer)
      PROVE  Prepaid!AbsNext \/ UNCHANGED Prepaid!absVars
  <2>1. PICK a, k : /\ loop.op = "record" /\ loop.agent = a /\ loop.key = k
                    /\ a \in Agent /\ k \in Key \cup {None}
    BY <1>1, <1>6, LoopFields DEF RecordTrail
  <2>2. UNCHANGED <<credit, paymentCredits, intentCredits, acked, claimed, restarts>>
    BY <1>6 DEF RecordTrail, accountVars, topupVars
  <2>3. loop'.op # "fulfil" /\ HeldKey = k
    BY <1>6, <2>1, HeldKeyIs DEF RecordTrail, Idle
  <2>4. FulfilledIntents' = FulfilledIntents
    BY <2>3, OrdersStay
  <2>5. CASE MayRecord(a, k # None)
    <3>1. /\ month' = [month EXCEPT ![a] = IF pioneer THEN month[a] ELSE month[a] + 1]
          /\ served' = IF k # None THEN [served EXCEPT ![k.account] = served[k.account] + 1] ELSE served
          /\ loop' = Idle
      BY <1>6, <2>1, <2>5 DEF RecordTrail
    <3>2. HeldKey' = None
      BY <3>1, HeldKeyIs
    <3>3. month \in [Agent -> Nat]
      BY <1>1 DEF TypeOK
    <3>4. month' \in {month, [month EXCEPT ![a] = month[a] + 1]}
      BY <3>1, <3>3
    <3>5. CASE k # None
      <4>1. AgentOf[k.account] = a
        BY <1>1, <2>1, <3>5 DEF KeysIssued
      <4>2. served' = [served EXCEPT ![k.account] = served[k.account] + 1]
        BY <3>1, <3>5
      <4>3. Prepaid!Keep
        BY <1>2, <2>2, <2>3, <2>4, <3>2, <3>4, <3>5, <4>1, <4>2 DEF Prepaid!Keep
      <4> QED BY <4>3 DEF Prepaid!AbsNext
    <3>6. CASE k = None
      <4>1. a \in Exempt \/ month[a] < MONTHLY_LIMIT_FREE
        BY <2>5, <3>6 DEF MayRecord
      <4>2. served' = served
        BY <3>1, <3>6
      <4>3. CASE month' = month
        BY <1>2, <2>2, <2>3, <2>4, <3>2, <3>6, <4>2, <4>3, Unseen DEF Tables
      <4>4. CASE month' = [month EXCEPT ![a] = month[a] + 1]
        <5>1. Prepaid!Free(a)
          BY <1>2, <2>2, <2>3, <2>4, <3>2, <3>6, <4>1, <4>2, <4>4 DEF Prepaid!Free
        <5> QED BY <2>1, <5>1 DEF Prepaid!AbsNext
      <4> QED BY <3>4, <4>3, <4>4
    <3> QED BY <3>5, <3>6
  <2>6. CASE ~MayRecord(a, k # None)
    <3>1. /\ month' = month /\ served' = served
          /\ loop' = IF k # None THEN [op |-> "refund", agent |-> a, key |-> k] ELSE Idle
      BY <1>6, <2>1, <2>6 DEF RecordTrail
    <3>2. HeldKey' = HeldKey
      <4>1. CASE k # None
        <5>1. loop'.op = "refund" /\ loop'.key = k
          BY <3>1, <4>1
        <5> QED BY <2>3, <5>1, HeldKeyIs
      <4>2. CASE k = None
        BY <2>3, <3>1, <4>2, HeldKeyIs
      <4> QED BY <4>1, <4>2
    <3> QED BY <1>2, <2>2, <2>4, <3>1, <3>2, Unseen DEF Tables
  <2> QED BY <2>5, <2>6
<1> QED BY <1>3, <1>4, <1>5, <1>6

\* Every step is a step of PrepaidCredits or changes nothing it sees.
LEMMA PrepaidStep ==
  ASSUME PaygInv, Next
  PROVE  Prepaid!AbsNext \/ UNCHANGED Prepaid!absVars
<1>1. CASE Outside
  BY <1>1, OutsideMaps
<1>2. CASE OnLoop /\ UNCHANGED <<gen, invoices, chain>>
  <2>1. UNCHANGED <<gen, invoices>>
    BY <1>2
  <2>2. CASE (\E p \in Payment : Deliver(p)) \/ WebhookTopup \/ WebhookNonce
    BY <2>1, <2>2, WebhookMaps
  <2>3. CASE PollStart \/ PollFulfil \/ PollCredit \/ PollEnd
    BY <2>1, <2>3, PollerMaps
  <2>4. CASE \/ \E a \in Agent : NexusTrail(a) \/ ServiceTrail(a)
             \/ Consume \/ Refund \/ \E pioneer \in BOOLEAN : RecordTrail(pioneer)
    BY <2>1, <2>4, TrailMaps
  <2>5. CASE Restart
    <3>1. /\ restarts' = restarts + 1 /\ loop' = Idle
          /\ UNCHANGED <<credit, served, month, paymentCredits, intentCredits, acked, claimed>>
      BY <2>5 DEF Restart, accountVars, trailVars, history
    <3>2. loop'.op = "idle"
      BY <3>1 DEF Idle
    <3>3. HeldKey' = None /\ FulfilledIntents' = FulfilledIntents /\ PaidInvoices' = PaidInvoices
      BY <2>1, <3>2, HeldKeyIs, OrdersStay
    <3>4. Prepaid!Crash
      BY <2>1, <3>1, <3>3 DEF Prepaid!Crash
    <3> QED BY <3>4 DEF Prepaid!AbsNext
  <2>6. CASE Claim
    <3>1. PICK p \in Payment, c \in Account :
            /\ loop = Idle
            /\ claimed' = claimed \cup {p}
            /\ loop' = Idle \/ loop' = [op |-> "record", agent |-> AgentOf[c], key |-> None]
            /\ UNCHANGED <<accountVars, trailVars, restarts, history>>
      BY <2>6, ClaimDoes
    <3>2. UNCHANGED <<credit, served, month, paymentCredits, intentCredits, acked, restarts>>
      BY <3>1 DEF accountVars, trailVars, history
    <3>3. loop'.op \in {"idle", "record"} /\ (loop'.op = "record" => loop'.key = None) /\ loop.op = "idle"
      BY <3>1 DEF Idle
    <3>4. HeldKey' = HeldKey /\ FulfilledIntents' = FulfilledIntents /\ PaidInvoices' = PaidInvoices
      BY <2>1, <3>3, HeldKeyIs, OrdersStay
    <3>5. Prepaid!TakeName(p)
      BY <2>1, <3>1, <3>2, <3>4 DEF Prepaid!TakeName
    <3> QED BY <3>5 DEF Prepaid!AbsNext
  <2> QED BY <1>2, <2>2, <2>3, <2>4, <2>5, <2>6 DEF OnLoop
<1> QED BY <1>1, <1>2, Steps

\* With nothing paid and nobody served, PrepaidCredits is at its start.
LEMMA PrepaidInit == Init => Prepaid!AbsInit
<1> SUFFICES ASSUME Init PROVE Prepaid!AbsInit
  OBVIOUS
<1>1. /\ \A p \in Payment : invoices[p] = NoInvoice
      /\ intents = <<>> /\ loop = Idle
  BY DEF Init
<1>2. PaidInvoices = [p \in Payment |-> None]
  BY <1>1 DEF PaidInvoices, NoInvoice
<1>3. FulfilledIntents = [i \in 1..MaxIntents |-> None]
  BY <1>1 DEF FulfilledIntents, Fulfilled
<1>4. HeldKey = None
  BY <1>1, HeldKeyIs
<1> QED BY <1>2, <1>3, <1>4 DEF Init, Prepaid!AbsInit

\* The tables, the webhook, the poller and /nexus/trail, statement by statement and
\* with restarts and rotations in between, implement prepaid credits that are
\* credited for what was paid, taken by one trail at a time, and lost only in a crash
\* or with a rotated key.
THEOREM PrepaidRefinement == Spec => ImplementsPrepaid
<1>1. PaygInv /\ [Next]_vars => [Prepaid!AbsNext]_(Prepaid!absVars)
  <2>1. CASE UNCHANGED vars
    <3>1. UNCHANGED <<Tables, HeldKey, PaidInvoices, FulfilledIntents>>
      BY <2>1 DEF vars, accountVars, topupVars, trailVars, history, Tables, HeldKey, PaidInvoices,
         FulfilledIntents, Fulfilled
    <3> QED BY <3>1, Unseen
  <2>2. ASSUME PaygInv, Next
        PROVE  Prepaid!AbsNext \/ UNCHANGED Prepaid!absVars
    BY <2>2, PrepaidStep
  <2> QED BY <2>1, <2>2
<1> QED BY <1>1, PrepaidInit, Invariance, PTL DEF Spec, ImplementsPrepaid, Prepaid!AbsSpec

=============================================================================
