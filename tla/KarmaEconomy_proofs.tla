------------------------- MODULE KarmaEconomy_proofs -------------------------
(* Machine-checked proofs about KarmaEconomy, for any number of actions,     *)
(* entities and handlers in flight; at the end, about the karma that is      *)
(* paid: that total_karma_real is accounted for by the rows, that nobody is  *)
(* paid without support, and that what is verified unpaid was ruled on.      *)
EXTENDS KarmaEconomy, SumLemmas, FiniteSetTheorems, TLAPS

\* upsert_wisdom keeps the columns well typed and the integer one below the real.
LEMMA UpsertRow ==
  ASSUME NEW w \in WisdomRow, NEW d \in Nat, NEW x \in BOOLEAN, NEW y \in BOOLEAN
  PROVE  /\ Upsert(w, d, x, y) \in WisdomRow
         /\ 10 * Upsert(w, d, x, y).total <= Upsert(w, d, x, y).real
<1>1. w.real + d \in Nat
  BY DEF WisdomRow
<1>2. \A n \in Nat : n \div 10 \in Nat /\ 10 * (n \div 10) <= n
  OBVIOUS
<1> QED BY <1>1, <1>2 DEF WisdomRow, Upsert

\* The attestation rows of an entity can be counted.
LEMMA RowsByCount ==
  ASSUME TypeOK, NEW a \in ActionId, NEW e
  PROVE  Cardinality(RowsBy(a, e)) \in Nat
<1>1. IsFiniteSet(1..Len(attestations[a]))
  BY FS_Interval DEF TypeOK
<1>2. RowsBy(a, e) \subseteq 1..Len(attestations[a])
  BY DEF RowsBy, TypeOK
<1> QED BY <1>1, <1>2, FS_Subset, FS_CardinalityType

\* A slash keeps the row well typed, does not raise total_karma and leaves
\* total_karma_real alone.
LEMMA SlashRow ==
  ASSUME TypeOK, NEW a \in ActionId, NEW e \in Everyone
  PROVE  /\ Slash(wisdom[e], e, a) \in WisdomRow
         /\ Slash(wisdom[e], e, a).total <= wisdom[e].total
         /\ Slash(wisdom[e], e, a).real = wisdom[e].real
<1> DEFINE n == Cardinality(RowsBy(a, e))
<1> DEFINE loss == (IF e = actions[a].entity THEN actions[a].karma ELSE 0)
                   + (IF e \in Genesis THEN 0 ELSE WITNESS_KARMA * n)
<1>1. n \in Nat
  BY RowsByCount
<1>2. actions[a].karma \in Nat /\ wisdom[e] \in WisdomRow
  BY DEF TypeOK, ActionRow
<1> HIDE DEF n
<1>3. loss \in Nat
  BY <1>1, <1>2 DEF WITNESS_KARMA
<1>4. Slash(wisdom[e], e, a) =
        [wisdom[e] EXCEPT !.total = Clamp(@ - loss),
                          !.verified = IF e = actions[a].entity THEN Clamp(@ - 1) ELSE @]
  BY DEF Slash, n
<1> HIDE DEF loss
<1>5. Clamp(wisdom[e].total - loss) \in Nat /\ Clamp(wisdom[e].total - loss) <= wisdom[e].total
  BY <1>2, <1>3 DEF WisdomRow, Clamp
<1>6. Clamp(wisdom[e].verified - 1) \in Nat
  BY <1>2 DEF WisdomRow, Clamp
<1> QED BY <1>2, <1>4, <1>5, <1>6 DEF WisdomRow

\* An empty slot is well typed.
LEMMA FreeRow == Free \in RequestRow
BY DEF Free, RequestRow

\* Changing the status of an action keeps the actions table well typed.
LEMMA StatusRow ==
  ASSUME TypeOK, NEW a \in ActionId, NEW x \in Status
  PROVE  [actions EXCEPT ![a].status = x] \in [ActionId -> ActionRow]
<1>1. [actions[a] EXCEPT !.status = x] \in ActionRow
  BY DEF TypeOK, ActionRow
<1> QED BY <1>1 DEF TypeOK

\* The initial database satisfies the invariant.
LEMMA InitKarmaInv == Init => KarmaInv
<1> SUFFICES ASSUME Init PROVE KarmaInv
  OBVIOUS
<1> USE GenesisAssumption, KarmaAssumption DEF Init, Free, Everyone
<1>1. TypeOK
  <2>1. wisdom \in [Everyone -> WisdomRow]
    BY DEF WisdomRow
  <2> QED BY <2>1 DEF TypeOK, AllOps, ActionRow, Status, RequestRow
<1>2. RequestsWellFormed /\ PostersKnown /\ LoopExclusive
  BY DEF RequestsWellFormed, PostersKnown, LoopExclusive
<1>3. DisputeInFlight /\ RulingInFlight /\ ReportedNotPending
  BY DEF DisputeInFlight, RulingInFlight, ReportedNotPending
<1>4. KarmaColumns
  BY DEF KarmaColumns
<1>5. OnePendingDispute /\ DisputedHasDispute
  BY DEF OnePendingDispute, DisputedHasDispute, PendingDisputes
<1> QED BY <1>1, <1>2, <1>3, <1>4, <1>5 DEF KarmaInv

\* A handler that passes its checks preserves the invariant, provided what it
\* checked includes what the invariant asks of its kind of request.
LEMMA AcceptKarmaInv ==
  ASSUME KarmaInv, NEW s \in Slot, NEW op \in AllOps, NEW a \in ActionId,
         NEW e \in Everyone \cup {None}, NEW phase \in {"marks", "commit"}, NEW arg \in Nat,
         Accept(s, op, a, e, phase, arg),
         actions[a].status # "none",
         op \in {"attest", "mcp_attest", "webhook", "report"} => e \in Everyone,
         phase = "marks" => op = "attest",
         op = "dispute" => PendingDisputes(a) = {},
         op = "ruling" => arg \in PendingDisputes(a),
         op \in {"report", "slash", "ruling"} => actions[a].status \notin {"none", "pending"}
  PROVE  KarmaInv'
<1> USE DEF KarmaInv, Accept, Request, tables
<1>1. TypeOK'
  BY DEF TypeOK, RequestRow
<1>2. RequestsWellFormed'
  BY DEF TypeOK, RequestsWellFormed
<1>3. PostersKnown' /\ KarmaColumns' /\ OnePendingDispute' /\ DisputedHasDispute'
  BY DEF PostersKnown, KarmaColumns, OnePendingDispute, DisputedHasDispute, PendingDisputes
<1>4. LoopExclusive'
  BY DEF TypeOK, LoopExclusive, ThreadFree, Thread
<1>5. DisputeInFlight' /\ RulingInFlight'
  <2>1. \A b : PendingDisputes(b)' = PendingDisputes(b)
    BY DEF PendingDisputes
  <2>2. \A t \in Slot : t # s => req'[t] = req[t]
    BY DEF TypeOK
  <2>3. req'[s].op = op /\ req'[s].action = a /\ req'[s].arg = arg
    BY DEF TypeOK
  <2> QED BY <2>1, <2>2, <2>3 DEF DisputeInFlight, RulingInFlight
<1>6. ReportedNotPending'
  BY DEF TypeOK, ReportedNotPending
<1> QED BY <1>1, <1>2, <1>3, <1>4, <1>5, <1>6

\* The Check steps of all handlers.
LEMMA CheckKarmaInv ==
  ASSUME KarmaInv, NEW s \in Slot, NEW a \in ActionId, NEW e \in Everyone,
         \/ AttestCheck(s, a, e) \/ McpAttestCheck(s, a, e) \/ WebhookCheck(s, a)
         \/ ReportCheck(s, a, e) \/ SlashCheck(s, a, e)
         \/ DisputeCheck(s, a, e) \/ RulingCheck(s, a)
  PROVE  KarmaInv'
<1> USE DEF AllOps
<1>1. CASE AttestCheck(s, a, e)
  BY <1>1, AcceptKarmaInv DEF AttestCheck, MayAttest, GENESIS_WEIGHT
<1>2. CASE McpAttestCheck(s, a, e)
  <2>1. wisdom[e].total \in Nat
    BY DEF KarmaInv, TypeOK, WisdomRow
  <2>2. (IF e \in Genesis THEN GENESIS_WEIGHT ELSE KarmaWeight(wisdom[e].total)) \in Nat
    BY <2>1 DEF GENESIS_WEIGHT, KarmaWeight, KARMA_WEIGHT_MIN, KARMA_WEIGHT_MAX
  <2> QED BY <1>2, <2>2, AcceptKarmaInv DEF McpAttestCheck, MayAttest
<1>3. CASE WebhookCheck(s, a)
  BY <1>3, AcceptKarmaInv, GenesisAssumption DEF WebhookCheck, GENESIS_WEIGHT, Everyone
<1>4. CASE ReportCheck(s, a, e)
  BY <1>4, AcceptKarmaInv DEF ReportCheck
<1>5. CASE SlashCheck(s, a, e)
  BY <1>5, AcceptKarmaInv DEF SlashCheck, KarmaInv, ReportedNotPending
<1>6. CASE DisputeCheck(s, a, e)
  BY <1>6, AcceptKarmaInv DEF DisputeCheck
<1>7. CASE RulingCheck(s, a)
  <2>1. PICK i \in PendingDisputes(a) : Accept(s, "ruling", a, None, "commit", i)
    BY <1>7 DEF RulingCheck
  <2>2. i \in Nat
    BY DEF KarmaInv, TypeOK, PendingDisputes
  <2> QED BY <1>7, <2>1, <2>2, AcceptKarmaInv DEF RulingCheck
<1> QED BY <1>1, <1>2, <1>3, <1>4, <1>5, <1>6, <1>7

\* Reading the attester's karma after the marks lookup starts its transaction;
\* no other handler of the loop may be in one.
LEMMA AttestWeighKarmaInv ==
  ASSUME KarmaInv, NEW s \in Slot, AttestWeigh(s)
  PROVE  KarmaInv'
<1> DEFINE weight == KarmaWeight(wisdom[req[s].by].total)
<1>1. PICK w \in {weight, weight \div 2} :
        req' = [req EXCEPT ![s] = Request("attest", req[s].action, req[s].by, "commit", w)]
  BY DEF AttestWeigh
<1>2. req[s].op = "attest" /\ req[s].by \in Everyone
  BY DEF KarmaInv, RequestsWellFormed, AttestWeigh
<1>3. w \in Nat
  <2>1. wisdom[req[s].by].total \in Nat
    BY <1>2 DEF KarmaInv, TypeOK, WisdomRow
  <2>2. weight \in Nat
    BY <2>1 DEF KarmaWeight, KARMA_WEIGHT_MIN, KARMA_WEIGHT_MAX
  <2> HIDE DEF weight
  <2> QED BY <2>2
<1>4. UNCHANGED tables /\ UNCHANGED day /\ req[s].phase = "marks" /\ ThreadFree("attest")
  BY DEF AttestWeigh
<1> USE <1>1, <1>2, <1>3, <1>4 DEF KarmaInv, tables, Request
<1>5. TypeOK'
  BY DEF TypeOK, RequestRow, AllOps
<1>6. RequestsWellFormed'
  BY DEF TypeOK, RequestsWellFormed
<1>7. PostersKnown' /\ KarmaColumns' /\ OnePendingDispute' /\ DisputedHasDispute'
  BY DEF PostersKnown, KarmaColumns, OnePendingDispute, DisputedHasDispute, PendingDisputes
<1>8. LoopExclusive'
  BY DEF TypeOK, LoopExclusive, ThreadFree, Thread
<1>9. DisputeInFlight' /\ RulingInFlight'
  <2>1. \A b : PendingDisputes(b)' = PendingDisputes(b)
    BY DEF PendingDisputes
  <2>2. req'[s].op = "attest" /\ \A t \in Slot : t # s => req'[t] = req[t]
    BY DEF TypeOK
  <2> QED BY <2>1, <2>2 DEF DisputeInFlight, RulingInFlight
<1>10. ReportedNotPending'
  BY DEF TypeOK, ReportedNotPending
<1> QED BY <1>5, <1>6, <1>7, <1>8, <1>9, <1>10

\* A transaction that leaves the disputes alone and moves at most one known
\* action, to verified or slashed, preserves the invariant once the tables it
\* writes are known to be well typed.
LEMMA SettleKarmaInv ==
  ASSUME KarmaInv, TypeOK', KarmaColumns', NEW s \in Slot, NEW a \in ActionId,
         req' = [req EXCEPT ![s] = Free],
         UNCHANGED disputes,
         actions[a].status # "none",
         NEW x \in {actions[a].status, "verified", "slashed"},
         actions' = [actions EXCEPT ![a].status = x],
         \A b \in ActionId : reports'[b] # {} => actions'[b].status \notin {"none", "pending"}
  PROVE  KarmaInv'
<1> USE DEF KarmaInv
<1>1. \A t \in Slot : req'[t].phase # "free" => t # s /\ req'[t] = req[t]
  BY DEF TypeOK, RequestRow, Free
<1>2. \A b \in ActionId :
        /\ actions'[b].entity = actions[b].entity
        /\ actions[b].status # "none" => actions'[b].status # "none"
        /\ actions'[b].status # "none" => actions[b].status # "none"
        /\ actions[b].status \notin {"none", "pending"} => actions'[b].status \notin {"none", "pending"}
        /\ actions'[b].status = "disputed" => actions[b].status = "disputed"
  <2>1. \A b \in ActionId : b # a => actions'[b] = actions[b]
    BY DEF TypeOK
  <2>2. actions'[a].entity = actions[a].entity /\ actions'[a].status = x
    BY DEF TypeOK
  <2> QED BY <2>1, <2>2
<1>3. \A b : PendingDisputes(b)' = PendingDisputes(b)
  BY DEF PendingDisputes
<1>4. RequestsWellFormed' /\ PostersKnown'
  BY <1>1, <1>2 DEF RequestsWellFormed, PostersKnown
<1>5. LoopExclusive'
  BY <1>1 DEF LoopExclusive
<1>6. DisputeInFlight' /\ RulingInFlight'
  BY <1>1, <1>3 DEF DisputeInFlight, RulingInFlight
<1>7. ReportedNotPending'
  BY <1>1, <1>2 DEF ReportedNotPending, RequestsWellFormed
<1>8. OnePendingDispute' /\ DisputedHasDispute'
  BY <1>2, <1>3 DEF OnePendingDispute, DisputedHasDispute
<1> QED BY <1>4, <1>5, <1>6, <1>7, <1>8

\* Paying the poster keeps the tables well typed and the two columns ordered.
LEMMA VerifyTables ==
  ASSUME TypeOK, NEW a \in ActionId, actions[a].entity \in Entity,
         NEW w \in [Everyone -> WisdomRow],
         \A e \in Everyone : 10 * w[e].total <= w[e].real,
         Verify(a, w)
  PROVE  /\ wisdom' \in [Everyone -> WisdomRow]
         /\ \A e \in Everyone : 10 * wisdom'[e].total <= wisdom'[e].real
         /\ awards' \in [ActionId -> Nat]
         /\ actions' = [actions EXCEPT ![a].status = "verified"]
<1> DEFINE p == actions[a].entity
           u == Upsert(w[p], 10 * actions[a].karma, TRUE, FALSE)
<1>1. p \in Everyone /\ 10 * actions[a].karma \in Nat
  BY DEF Everyone, TypeOK, ActionRow
<1>2. u \in WisdomRow /\ 10 * u.total <= u.real
  BY <1>1, UpsertRow
<1>3. wisdom' = [w EXCEPT ![p] = u]
  BY DEF Verify
<1> HIDE DEF u, p
<1>4. awards' \in [ActionId -> Nat] /\ actions' = [actions EXCEPT ![a].status = "verified"]
  BY DEF Verify, TypeOK
<1> QED BY <1>1, <1>2, <1>3, <1>4

\* The attestation transaction, verifying or not.
LEMMA AttestCommitKarmaInv ==
  ASSUME KarmaInv, NEW s \in Slot, AttestCommit(s)
  PROVE  KarmaInv'
<1>1. PICK a \in ActionId, e \in Everyone : a = req[s].action /\ e = req[s].by
  BY DEF KarmaInv, RequestsWellFormed, AttestCommit, Commit
<1> DEFINE u == Upsert(wisdom[e], 10 * WITNESS_KARMA, FALSE, TRUE)
           w == [wisdom EXCEPT ![e] = u]
<1>2. u \in WisdomRow /\ 10 * u.total <= u.real
  <2>1. wisdom[e] \in WisdomRow /\ 10 * WITNESS_KARMA \in Nat
    BY DEF KarmaInv, TypeOK, WITNESS_KARMA
  <2> QED BY <2>1, UpsertRow
<1>3. /\ req' = [req EXCEPT ![s] = Free]
      /\ UNCHANGED <<reports, disputes, trailKarma, day>>
      /\ attestations' = [attestations EXCEPT
           ![a] = Append(@, [attester |-> e, weight |-> req[s].arg, day |-> day])]
      /\ Verify(a, w) \/ (wisdom' = w /\ UNCHANGED <<actions, awards>>)
  BY <1>1 DEF AttestCommit, Commit
<1>4. w \in [Everyone -> WisdomRow] /\ \A f \in Everyone : 10 * w[f].total <= w[f].real
  <2> HIDE DEF u
  <2> QED BY <1>2 DEF KarmaInv, TypeOK, KarmaColumns
<1>5. actions[a].status # "none" /\ actions[a].entity \in Entity
  BY <1>1 DEF KarmaInv, RequestsWellFormed, PostersKnown, AttestCommit, Commit
<1> HIDE DEF w
<1>6. /\ wisdom' \in [Everyone -> WisdomRow]
      /\ KarmaColumns'
      /\ awards' \in [ActionId -> Nat]
      /\ actions' = [actions EXCEPT ![a].status = "verified"] \/ actions' = actions
  BY <1>3, <1>4, <1>5, VerifyTables DEF KarmaInv, TypeOK, KarmaColumns
<1>7. TypeOK'
  <2>1. [attester |-> e, weight |-> req[s].arg, day |-> day] \in AttestationRow
    BY DEF KarmaInv, TypeOK, AttestationRow, RequestRow
  <2>2. attestations' \in [ActionId -> Seq(AttestationRow)]
    BY <1>3, <2>1 DEF KarmaInv, TypeOK
  <2>3. req' \in [Slot -> RequestRow]
    BY <1>3, FreeRow DEF KarmaInv, TypeOK
  <2>4. actions' \in [ActionId -> ActionRow]
    <3>1. CASE actions' = actions
      BY <3>1 DEF KarmaInv, TypeOK
    <3>2. CASE actions' = [actions EXCEPT ![a].status = "verified"]
      <4>1. TypeOK /\ "verified" \in Status
        BY DEF KarmaInv, Status
      <4> QED BY <3>2, <4>1, StatusRow
    <3> QED BY <1>6, <3>1, <3>2
  <2> QED BY <1>3, <1>6, <2>2, <2>3, <2>4 DEF KarmaInv, TypeOK
<1>8. actions' = [actions EXCEPT ![a].status = "verified"]
      \/ actions' = [actions EXCEPT ![a].status = actions[a].status]
  BY <1>6 DEF KarmaInv, TypeOK, ActionRow
<1>9. \A b \in ActionId : reports'[b] # {} => actions'[b].status \notin {"none", "pending"}
  <2>1. ASSUME NEW b \in ActionId
        PROVE  actions'[b].status \in {actions[b].status, "verified"}
    <3>1. actions \in [ActionId -> ActionRow]
      BY DEF KarmaInv, TypeOK
    <3>2. CASE actions' = actions
      BY <3>2
    <3>3. CASE actions' = [actions EXCEPT ![a].status = "verified"]
      BY <3>1, <3>3 DEF ActionRow
    <3> QED BY <1>6, <3>2, <3>3
  <2> QED BY <2>1, <1>3 DEF KarmaInv, ReportedNotPending
<1> QED BY <1>3, <1>5, <1>6, <1>7, <1>8, <1>9, SettleKarmaInv

\* The Lightning attestation transaction, verifying or not.
LEMMA WebhookCommitKarmaInv ==
  ASSUME KarmaInv, NEW s \in Slot, WebhookCommit(s)
  PROVE  KarmaInv'
<1>1. PICK a \in ActionId : a = req[s].action
  BY DEF KarmaInv, RequestsWellFormed, WebhookCommit, Commit
<1>2. /\ req' = [req EXCEPT ![s] = Free]
      /\ UNCHANGED <<reports, disputes, trailKarma, day>>
      /\ attestations' = [attestations EXCEPT
           ![a] = Append(@, [attester |-> Lightning, weight |-> req[s].arg, day |-> day])]
      /\ Verify(a, wisdom) \/ UNCHANGED <<actions, awards, wisdom>>
  BY <1>1 DEF WebhookCommit, Commit
<1>3. actions[a].status # "none" /\ actions[a].entity \in Entity
  BY <1>1 DEF KarmaInv, RequestsWellFormed, PostersKnown, WebhookCommit, Commit
<1>4. /\ wisdom' \in [Everyone -> WisdomRow]
      /\ KarmaColumns'
      /\ awards' \in [ActionId -> Nat]
      /\ actions' = [actions EXCEPT ![a].status = "verified"] \/ actions' = actions
  BY <1>2, <1>3, VerifyTables DEF KarmaInv, TypeOK, KarmaColumns
<1>5. TypeOK'
  <2>1. [attester |-> Lightning, weight |-> req[s].arg, day |-> day] \in AttestationRow
    BY GenesisAssumption DEF KarmaInv, TypeOK, RequestRow, AttestationRow, Everyone
  <2>2. attestations' \in [ActionId -> Seq(AttestationRow)]
    BY <1>2, <2>1 DEF KarmaInv, TypeOK
  <2>3. req' \in [Slot -> RequestRow]
    BY <1>2, FreeRow DEF KarmaInv, TypeOK
  <2>4. actions' \in [ActionId -> ActionRow]
    <3>1. CASE actions' = actions
      BY <3>1 DEF KarmaInv, TypeOK
    <3>2. CASE actions' = [actions EXCEPT ![a].status = "verified"]
      <4>1. TypeOK /\ "verified" \in Status
        BY DEF KarmaInv, Status
      <4> QED BY <3>2, <4>1, StatusRow
    <3> QED BY <1>4, <3>1, <3>2
  <2> QED BY <1>2, <1>4, <2>2, <2>3, <2>4 DEF KarmaInv, TypeOK
<1>6. actions' = [actions EXCEPT ![a].status = "verified"]
      \/ actions' = [actions EXCEPT ![a].status = actions[a].status]
  BY <1>4 DEF KarmaInv, TypeOK, ActionRow
<1>7. \A b \in ActionId : reports'[b] # {} => actions'[b].status \notin {"none", "pending"}
  <2>1. ASSUME NEW b \in ActionId
        PROVE  actions'[b].status \in {actions[b].status, "verified"}
    <3>1. actions \in [ActionId -> ActionRow]
      BY DEF KarmaInv, TypeOK
    <3>2. CASE actions' = actions
      BY <3>2
    <3>3. CASE actions' = [actions EXCEPT ![a].status = "verified"]
      BY <3>1, <3>3 DEF ActionRow
    <3> QED BY <1>4, <3>2, <3>3
  <2> QED BY <2>1, <1>2 DEF KarmaInv, ReportedNotPending
<1> QED BY <1>2, <1>3, <1>4, <1>5, <1>6, <1>7, SettleKarmaInv

\* Filing a report.
LEMMA ReportCommitKarmaInv ==
  ASSUME KarmaInv, NEW s \in Slot, ReportCommit(s)
  PROVE  KarmaInv'
<1>1. PICK a \in ActionId, e \in Everyone : a = req[s].action /\ e = req[s].by
  BY DEF KarmaInv, RequestsWellFormed, ReportCommit, Commit
<1>2. /\ req' = [req EXCEPT ![s] = Free]
      /\ UNCHANGED <<actions, attestations, wisdom, disputes, awards, trailKarma, day>>
      /\ reports' = [reports EXCEPT ![a] = @ \cup {[reporter |-> e, status |-> "open"]}]
  BY <1>1 DEF ReportCommit, Commit
<1>3. actions[a].status \notin {"none", "pending"}
  BY <1>1 DEF KarmaInv, ReportedNotPending, ReportCommit, Commit
<1>4. TypeOK'
  <2>1. req' \in [Slot -> RequestRow]
    BY <1>2, FreeRow DEF KarmaInv, TypeOK
  <2>2. reports' \in [ActionId -> SUBSET [reporter : Everyone, status : {"open", "confirmed"}]]
    BY <1>2 DEF KarmaInv, TypeOK
  <2> QED BY <1>2, <2>1, <2>2 DEF KarmaInv, TypeOK
<1>5. actions' = [actions EXCEPT ![a].status = actions[a].status] /\ KarmaColumns'
  BY <1>2 DEF KarmaInv, TypeOK, ActionRow, KarmaColumns
<1>6. \A b \in ActionId : reports'[b] # {} => actions'[b].status \notin {"none", "pending"}
  BY <1>2, <1>3 DEF KarmaInv, TypeOK, ReportedNotPending
<1> QED BY <1>2, <1>3, <1>4, <1>5, <1>6, SettleKarmaInv

\* Slashing every row keeps the wisdom table well typed and its columns ordered.
LEMMA SlashTable ==
  ASSUME KarmaInv, NEW a \in ActionId, wisdom' = [e \in Everyone |-> Slash(wisdom[e], e, a)]
  PROVE  wisdom' \in [Everyone -> WisdomRow] /\ KarmaColumns'
<1>1. \A e \in Everyone : wisdom[e] \in WisdomRow /\ 10 * wisdom[e].total <= wisdom[e].real
  BY DEF KarmaInv, TypeOK, KarmaColumns
<1>2. \A e \in Everyone :
        /\ wisdom'[e] \in WisdomRow
        /\ wisdom'[e].total <= wisdom[e].total
        /\ wisdom'[e].real = wisdom[e].real
  BY SlashRow DEF KarmaInv
<1> QED BY <1>1, <1>2 DEF KarmaColumns, WisdomRow

\* The slash transaction.
LEMMA SlashCommitKarmaInv ==
  ASSUME KarmaInv, NEW s \in Slot, SlashCommit(s)
  PROVE  KarmaInv'
<1>1. PICK a \in ActionId : a = req[s].action
  BY DEF KarmaInv, RequestsWellFormed, SlashCommit, Commit
<1>2. /\ req' = [req EXCEPT ![s] = Free]
      /\ UNCHANGED <<attestations, disputes, awards, trailKarma, day>>
      /\ wisdom' = [e \in Everyone |-> Slash(wisdom[e], e, a)]
      /\ actions' = [actions EXCEPT ![a].status = "slashed"]
      /\ reports' = [reports EXCEPT ![a] = {[r EXCEPT !.status = "confirmed"] : r \in @}]
  BY <1>1 DEF SlashCommit, Commit
<1>3. actions[a].status \notin {"none", "pending"}
  BY <1>1 DEF KarmaInv, ReportedNotPending, SlashCommit, Commit
<1>4. wisdom' \in [Everyone -> WisdomRow] /\ KarmaColumns'
  BY <1>2, SlashTable
<1>5. TypeOK'
  <2>1. req' \in [Slot -> RequestRow]
    BY <1>2, FreeRow DEF KarmaInv, TypeOK
  <2>2. reports' \in [ActionId -> SUBSET [reporter : Everyone, status : {"open", "confirmed"}]]
    <3> DEFINE R == [reporter : Everyone, status : {"open", "confirmed"}]
    <3>1. \A r \in R : [r EXCEPT !.status = "confirmed"] \in R
      OBVIOUS
    <3>2. reports \in [ActionId -> SUBSET R]
      BY DEF KarmaInv, TypeOK
    <3> HIDE DEF R
    <3>3. {[r EXCEPT !.status = "confirmed"] : r \in reports[a]} \in SUBSET R
      BY <3>1, <3>2
    <3>4. reports' \in [ActionId -> SUBSET R]
      BY <1>2, <3>2, <3>3
    <3> QED BY <3>4 DEF R
  <2>3. actions' \in [ActionId -> ActionRow]
    BY <1>2, StatusRow DEF KarmaInv, TypeOK, Status
  <2> QED BY <1>2, <1>4, <2>1, <2>2, <2>3 DEF KarmaInv, TypeOK
<1>6. \A b \in ActionId : reports'[b] # {} => actions'[b].status \notin {"none", "pending"}
  BY <1>2 DEF KarmaInv, TypeOK, ActionRow, ReportedNotPending
<1> QED BY <1>2, <1>3, <1>4, <1>5, <1>6, SettleKarmaInv

\* Opening a dispute: what open_dispute read still holds, so the action gets its
\* only pending dispute.
LEMMA DisputeCommitKarmaInv ==
  ASSUME KarmaInv, NEW s \in Slot, DisputeCommit(s)
  PROVE  KarmaInv'
<1>1. PICK a \in ActionId : a = req[s].action
  BY DEF KarmaInv, RequestsWellFormed, DisputeCommit, Commit
<1>2. /\ req' = [req EXCEPT ![s] = Free]
      /\ UNCHANGED <<attestations, wisdom, reports, awards, trailKarma, day>>
      /\ disputes' = [disputes EXCEPT ![a] = Append(@, "pending")]
      /\ actions' = [actions EXCEPT ![a].status = "disputed"]
  BY <1>1 DEF DisputeCommit, Commit
<1>3. PendingDisputes(a) = {} /\ actions[a].status # "none"
  BY <1>1 DEF KarmaInv, DisputeInFlight, RequestsWellFormed, DisputeCommit, Commit
<1>4. \A t \in Slot : req'[t].phase # "free" => t # s /\ req'[t] = req[t]
  BY <1>2 DEF KarmaInv, TypeOK, RequestRow, Free
\* While this handler held the loop no other dispute or ruling was in flight.
<1>5. \A t \in Slot : req'[t].phase = "commit" => req[t].op \notin {"dispute", "ruling"}
  BY <1>4 DEF KarmaInv, LoopExclusive, DisputeCommit, Commit, Thread
<1>6. /\ \A b \in ActionId : b # a => PendingDisputes(b)' = PendingDisputes(b)
      /\ PendingDisputes(a)' = {Len(disputes[a]) + 1}
  <2>1. disputes[a] \in Seq(DisputeStatus)
    BY DEF KarmaInv, TypeOK
  <2>2. /\ disputes'[a] = Append(disputes[a], "pending")
        /\ \A b \in ActionId : b # a => disputes'[b] = disputes[b]
    BY <1>2 DEF KarmaInv, TypeOK
  <2>3. DOMAIN disputes'[a] = 1..(Len(disputes[a]) + 1)
    BY <2>1, <2>2
  <2>4. disputes'[a][Len(disputes[a]) + 1] = "pending"
    BY <2>1, <2>2
  <2>5. \A i \in 1..Len(disputes[a]) : disputes'[a][i] # "pending"
    BY <1>3, <2>1, <2>2 DEF PendingDisputes
  <2> QED BY <2>1, <2>2, <2>3, <2>4, <2>5 DEF PendingDisputes
<1>7. /\ \A b \in ActionId : b # a => actions'[b] = actions[b]
      /\ actions'[a].status = "disputed" /\ actions'[a].entity = actions[a].entity
  BY <1>2 DEF KarmaInv, TypeOK, ActionRow
<1>8. TypeOK'
  <2>1. req' \in [Slot -> RequestRow]
    BY <1>2, FreeRow DEF KarmaInv, TypeOK
  <2>2. actions' \in [ActionId -> ActionRow]
    BY <1>2, StatusRow DEF KarmaInv, TypeOK, Status
  <2>3. disputes' \in [ActionId -> Seq(DisputeStatus)]
    BY <1>2 DEF KarmaInv, TypeOK, DisputeStatus
  <2> QED BY <1>2, <2>1, <2>2, <2>3 DEF KarmaInv, TypeOK
<1>9. RequestsWellFormed' /\ PostersKnown' /\ LoopExclusive' /\ KarmaColumns'
  BY <1>2, <1>3, <1>4, <1>7 DEF KarmaInv, RequestsWellFormed, PostersKnown, LoopExclusive, KarmaColumns
<1>10. DisputeInFlight' /\ RulingInFlight'
  BY <1>4, <1>5 DEF DisputeInFlight, RulingInFlight
<1>11. ReportedNotPending'
  BY <1>2, <1>4, <1>7 DEF KarmaInv, ReportedNotPending, RequestsWellFormed
<1>12. OnePendingDispute' /\ DisputedHasDispute'
  <2>1. ASSUME NEW b \in ActionId
        PROVE  /\ \A i, j \in PendingDisputes(b)' : i = j
               /\ actions'[b].status = "disputed" => PendingDisputes(b)' # {}
    <3>1. CASE b = a
      BY <1>6, <3>1 DEF PendingDisputes
    <3>2. CASE b # a
      BY <1>6, <1>7, <3>2 DEF KarmaInv, OnePendingDispute, DisputedHasDispute
    <3> QED BY <3>1, <3>2
  <2> QED BY <2>1 DEF OnePendingDispute, DisputedHasDispute
<1> QED BY <1>8, <1>9, <1>10, <1>11, <1>12 DEF KarmaInv

\* A ruling closes the only pending dispute and takes the action out of disputed.
LEMMA RulingCommitKarmaInv ==
  ASSUME KarmaInv, NEW s \in Slot, NEW n \in 0..2, RulingCommit(s, n)
  PROVE  KarmaInv'
<1>1. PICK a \in ActionId : a = req[s].action
  BY DEF KarmaInv, RequestsWellFormed, RulingCommit, Commit
<1>2. PICK i \in PendingDisputes(a) : i = req[s].arg
  BY <1>1 DEF KarmaInv, RulingInFlight, RulingCommit, Commit
<1>3. PICK x \in {"verified", "slashed"} : actions' = [actions EXCEPT ![a].status = x]
  BY <1>1 DEF RulingCommit
<1>4. PICK o \in {"ruled_slash", "ruled_clear", "ruled_refused"} :
        disputes' = [disputes EXCEPT ![a][i] = o]
  BY <1>1, <1>2 DEF RulingCommit
<1>5. /\ req' = [req EXCEPT ![s] = Free]
      /\ UNCHANGED <<attestations, reports, awards, trailKarma, day>>
      /\ wisdom' = wisdom \/ wisdom' = [e \in Everyone |-> Slash(wisdom[e], e, a)]
  BY <1>1 DEF RulingCommit, Commit
<1>6. wisdom' \in [Everyone -> WisdomRow] /\ KarmaColumns'
  BY <1>5, SlashTable DEF KarmaInv, TypeOK, KarmaColumns
<1>7. \A t \in Slot : req'[t].phase # "free" => t # s /\ req'[t] = req[t]
  BY <1>5 DEF KarmaInv, TypeOK, RequestRow, Free
\* While this handler held the loop no other dispute or ruling was in flight.
<1>8. \A t \in Slot : req'[t].phase = "commit" => req[t].op \notin {"dispute", "ruling"}
  BY <1>7 DEF KarmaInv, LoopExclusive, RulingCommit, Commit, Thread
<1>9. /\ \A b \in ActionId : b # a => PendingDisputes(b)' = PendingDisputes(b)
      /\ PendingDisputes(a)' \subseteq PendingDisputes(a)
  BY <1>4 DEF KarmaInv, TypeOK, PendingDisputes
<1>10. /\ \A b \in ActionId : b # a => actions'[b] = actions[b]
       /\ actions'[a].status = x /\ actions'[a].entity = actions[a].entity
  BY <1>3 DEF KarmaInv, TypeOK, ActionRow
<1>11. TypeOK'
  <2>1. req' \in [Slot -> RequestRow]
    BY <1>5, FreeRow DEF KarmaInv, TypeOK
  <2>2. actions' \in [ActionId -> ActionRow]
    BY <1>3, StatusRow DEF KarmaInv, TypeOK, Status
  <2>3. disputes' \in [ActionId -> Seq(DisputeStatus)]
    <3>1. disputes[a] \in Seq(DisputeStatus) /\ i \in DOMAIN disputes[a]
      BY DEF KarmaInv, TypeOK, PendingDisputes
    <3>2. [disputes[a] EXCEPT ![i] = o] \in Seq(DisputeStatus)
      BY <3>1 DEF DisputeStatus
    <3> QED BY <1>4, <3>2 DEF KarmaInv, TypeOK
  <2> QED BY <1>5, <1>6, <2>1, <2>2, <2>3 DEF KarmaInv, TypeOK
<1>12. actions[a].status # "none"
  BY <1>1 DEF KarmaInv, RequestsWellFormed, RulingCommit, Commit
<1>13. RequestsWellFormed' /\ PostersKnown' /\ LoopExclusive'
  BY <1>7, <1>10, <1>12 DEF KarmaInv, RequestsWellFormed, PostersKnown, LoopExclusive
<1>14. DisputeInFlight' /\ RulingInFlight'
  BY <1>7, <1>8 DEF DisputeInFlight, RulingInFlight
<1>15. ReportedNotPending'
  BY <1>5, <1>7, <1>10 DEF KarmaInv, ReportedNotPending, RequestsWellFormed
<1>16. OnePendingDispute' /\ DisputedHasDispute'
  BY <1>9, <1>10 DEF KarmaInv, OnePendingDispute, DisputedHasDispute
<1> QED BY <1>6, <1>11, <1>13, <1>14, <1>15, <1>16 DEF KarmaInv

\* Every step preserves the invariant.
LEMMA NextKarmaInv == KarmaInv /\ [Next]_vars => KarmaInv'
<1> SUFFICES ASSUME KarmaInv, [Next]_vars PROVE KarmaInv'
  OBVIOUS
<1>1. ASSUME NEW a \in ActionId, NEW e \in Poster, NEW k \in KarmaValue, SubmitAction(a, e, k)
      PROVE  KarmaInv'
  <2>1. /\ actions[a].status = "none"
        /\ actions' = [actions EXCEPT ![a] = [status |-> "pending", entity |-> e, karma |-> k]]
        /\ UNCHANGED <<attestations, wisdom, reports, disputes, req, day, awards, trailKarma>>
    BY <1>1 DEF SubmitAction
  <2>2. /\ \A b \in ActionId : b # a => actions'[b] = actions[b]
        /\ actions'[a].status = "pending" /\ actions'[a].entity \in Entity
    BY <2>1, PosterAssumption DEF KarmaInv, TypeOK
  <2>3. \A b : PendingDisputes(b)' = PendingDisputes(b)
    BY <2>1 DEF PendingDisputes
  <2>4. TypeOK'
    BY <2>1, KarmaAssumption, PosterAssumption DEF KarmaInv, TypeOK, ActionRow, Status
  <2>5. RequestsWellFormed' /\ PostersKnown' /\ LoopExclusive' /\ KarmaColumns'
    BY <2>1, <2>2 DEF KarmaInv, RequestsWellFormed, PostersKnown, LoopExclusive, KarmaColumns
  <2>6. DisputeInFlight' /\ RulingInFlight'
    BY <2>1, <2>3 DEF KarmaInv, DisputeInFlight, RulingInFlight
  <2>7. ReportedNotPending'
    BY <2>1, <2>2 DEF KarmaInv, ReportedNotPending, RequestsWellFormed
  <2>8. OnePendingDispute' /\ DisputedHasDispute'
    BY <2>2, <2>3 DEF KarmaInv, OnePendingDispute, DisputedHasDispute
  <2> QED BY <2>4, <2>5, <2>6, <2>7, <2>8 DEF KarmaInv
<1>2. ASSUME NEW e \in Entity, NEW d \in TrailAward, AwardTrailKarma(e, d)
      PROVE  KarmaInv'
  <2>1. UNCHANGED <<actions, attestations, reports, disputes, req, day, awards>>
    BY <1>2 DEF AwardTrailKarma
  <2>2. e \in Everyone /\ d \in Nat /\ wisdom[e] \in WisdomRow
    BY KarmaAssumption DEF Everyone, KarmaInv, TypeOK
  <2>a. PICK action \in BOOLEAN :
          wisdom' = [wisdom EXCEPT ![e] = Upsert(@, d, action, FALSE)]
    BY <1>2 DEF AwardTrailKarma
  <2> DEFINE u == Upsert(wisdom[e], d, action, FALSE)
  <2>3. u \in WisdomRow /\ 10 * u.total <= u.real
    BY <2>2, UpsertRow
  <2>4. /\ wisdom' = [wisdom EXCEPT ![e] = u]
        /\ trailKarma' = [trailKarma EXCEPT ![e] = @ + d]
    BY <1>2, <2>a DEF AwardTrailKarma
  <2> HIDE DEF u
  <2>5. TypeOK' /\ KarmaColumns'
    BY <2>1, <2>2, <2>3, <2>4 DEF KarmaInv, TypeOK, KarmaColumns
  <2>6. RequestsWellFormed' /\ PostersKnown' /\ LoopExclusive' /\ ReportedNotPending'
    BY <2>1 DEF KarmaInv, RequestsWellFormed, PostersKnown, LoopExclusive, ReportedNotPending
  <2>7. DisputeInFlight' /\ RulingInFlight' /\ OnePendingDispute' /\ DisputedHasDispute'
    BY <2>1 DEF KarmaInv, DisputeInFlight, RulingInFlight, OnePendingDispute,
       DisputedHasDispute, PendingDisputes
  <2> QED BY <2>5, <2>6, <2>7 DEF KarmaInv
<1>3. ASSUME NEW s \in Slot, Abandon(s)
      PROVE  KarmaInv'
  <2>1. req' = [req EXCEPT ![s] = Free] /\ UNCHANGED tables /\ UNCHANGED day
    BY <1>3 DEF Abandon
  <2>2. \A t \in Slot : req'[t].phase # "free" => req'[t] = req[t]
    BY <2>1 DEF KarmaInv, TypeOK, RequestRow, Free
  <2>3. TypeOK'
    BY <2>1, FreeRow DEF KarmaInv, TypeOK, tables
  <2>4. RequestsWellFormed' /\ PostersKnown' /\ LoopExclusive' /\ ReportedNotPending' /\ KarmaColumns'
    BY <2>1, <2>2 DEF tables, KarmaInv, RequestsWellFormed, PostersKnown, LoopExclusive,
       ReportedNotPending, KarmaColumns
  <2>5. \A b : PendingDisputes(b)' = PendingDisputes(b)
    BY <2>1 DEF PendingDisputes, tables
  <2>6. DisputeInFlight' /\ RulingInFlight' /\ OnePendingDispute' /\ DisputedHasDispute'
    BY <2>1, <2>2, <2>5 DEF tables, KarmaInv, DisputeInFlight, RulingInFlight,
       OnePendingDispute, DisputedHasDispute
  <2> QED BY <2>3, <2>4, <2>6 DEF KarmaInv
<1>4. CASE NewDay \/ UNCHANGED vars
  <2>1. UNCHANGED tables /\ UNCHANGED req /\ day' \in Nat
    BY <1>4 DEF NewDay, vars, tables, KarmaInv, TypeOK
  <2>2. TypeOK' /\ KarmaColumns'
    BY <2>1 DEF tables, KarmaInv, TypeOK, KarmaColumns
  <2>3. RequestsWellFormed' /\ PostersKnown' /\ LoopExclusive' /\ ReportedNotPending'
    BY <2>1 DEF tables, KarmaInv, RequestsWellFormed, PostersKnown, LoopExclusive, ReportedNotPending
  <2>4. DisputeInFlight' /\ RulingInFlight' /\ OnePendingDispute' /\ DisputedHasDispute'
    BY <2>1 DEF tables, KarmaInv, DisputeInFlight, RulingInFlight, OnePendingDispute,
       DisputedHasDispute, PendingDisputes
  <2> QED BY <2>2, <2>3, <2>4 DEF KarmaInv
<1>5. ASSUME NEW s \in Slot, NEW a \in ActionId, WebhookCheck(s, a) \/ RulingCheck(s, a)
      PROVE  KarmaInv'
  BY <1>5, CheckKarmaInv, GenesisAssumption DEF Everyone
<1>6. ASSUME NEW s \in Slot, NEW a \in ActionId, NEW e \in Everyone,
             \/ AttestCheck(s, a, e) \/ McpAttestCheck(s, a, e)
             \/ ReportCheck(s, a, e) \/ SlashCheck(s, a, e) \/ DisputeCheck(s, a, e)
      PROVE  KarmaInv'
  BY <1>6, CheckKarmaInv
<1>7. ASSUME NEW s \in Slot,
             \/ AttestWeigh(s) \/ AttestCommit(s) \/ WebhookCommit(s) \/ ReportCommit(s)
             \/ SlashCommit(s) \/ DisputeCommit(s) \/ \E n \in 0..2 : RulingCommit(s, n)
      PROVE  KarmaInv'
  BY <1>7, AttestWeighKarmaInv, AttestCommitKarmaInv, WebhookCommitKarmaInv,
     ReportCommitKarmaInv, SlashCommitKarmaInv, DisputeCommitKarmaInv, RulingCommitKarmaInv
<1> QED BY <1>1, <1>2, <1>3, <1>4, <1>5, <1>6, <1>7 DEF Next

\* KarmaInv is an invariant of the karma economy.
THEOREM Invariance == Spec => []KarmaInv
BY InitKarmaInv, NextKarmaInv, PTL DEF Spec

\* total_karma never exceeds total_karma_real, whatever interleaves.
THEOREM KarmaColumnsHolds == Spec => []KarmaColumns
<1>1. KarmaInv => KarmaColumns
  BY DEF KarmaInv
<1> QED BY <1>1, Invariance, PTL

\* An action never has two pending disputes.
THEOREM OnePendingDisputeHolds == Spec => []OnePendingDispute
<1>1. KarmaInv => OnePendingDispute
  BY DEF KarmaInv
<1> QED BY <1>1, Invariance, PTL

\* A disputed action always has a dispute that can be ruled on.
THEOREM DisputedHasDisputeHolds == Spec => []DisputedHasDispute
<1>1. KarmaInv => DisputedHasDispute
  BY DEF KarmaInv
<1> QED BY <1>1, Invariance, PTL

\* Slashes reach only actions that left pending, and nothing returns to pending.
THEOREM PendingNeverSlashedHolds == Spec => PendingNeverSlashed
<1> DEFINE Keep == \A a \in ActionId :
       /\ actions[a].status = "pending" => actions'[a].status # "slashed"
       /\ actions[a].status # "none" => actions'[a].status \notin {"none", "pending"}
                                       \/ actions'[a] = actions[a]
<1>1. KarmaInv /\ [Next]_vars => [Keep]_vars
  <2> SUFFICES ASSUME KarmaInv, Next PROVE Keep
    OBVIOUS
  <2>1. CASE UNCHANGED actions
    BY <2>1
  <2>2. ASSUME NEW a \in ActionId, NEW e, NEW k, SubmitAction(a, e, k)
        PROVE  Keep
    BY <2>2 DEF SubmitAction, KarmaInv, TypeOK, ActionRow
  <2>3. ASSUME NEW a \in ActionId, NEW x \in {"verified", "disputed", "slashed"},
               actions' = [actions EXCEPT ![a].status = x],
               x = "slashed" => actions[a].status # "pending"
        PROVE  Keep
    BY <2>3 DEF KarmaInv, TypeOK, ActionRow
  <2>4. ASSUME NEW s \in Slot, AttestCommit(s) \/ WebhookCommit(s) \/ DisputeCommit(s)
        PROVE  Keep
    <3>1. PICK a \in ActionId : a = req[s].action
      BY <2>4 DEF AttestCommit, WebhookCommit, DisputeCommit, Commit, KarmaInv, RequestsWellFormed
    <3>2. \/ UNCHANGED actions
          \/ actions' = [actions EXCEPT ![a].status = "verified"]
          \/ actions' = [actions EXCEPT ![a].status = "disputed"]
      BY <2>4, <3>1 DEF AttestCommit, WebhookCommit, DisputeCommit, Verify
    <3> QED BY <2>1, <2>3, <3>2
  <2>5. ASSUME NEW s \in Slot, SlashCommit(s) \/ \E n \in 0..2 : RulingCommit(s, n)
        PROVE  Keep
    <3>1. PICK a \in ActionId : a = req[s].action
      BY <2>5 DEF SlashCommit, RulingCommit, Commit, KarmaInv, RequestsWellFormed
    <3>2. actions[a].status # "pending"
      BY <2>5, <3>1 DEF SlashCommit, RulingCommit, Commit, KarmaInv, ReportedNotPending
    <3>3. \/ actions' = [actions EXCEPT ![a].status = "verified"]
          \/ actions' = [actions EXCEPT ![a].status = "slashed"]
      BY <2>5, <3>1 DEF SlashCommit, RulingCommit
    <3> QED BY <2>3, <3>2, <3>3
  <2>6. ASSUME NEW s \in Slot, AttestWeigh(s) \/ ReportCommit(s) \/ Abandon(s)
        PROVE  UNCHANGED actions
    BY <2>6 DEF AttestWeigh, ReportCommit, Abandon, tables
  <2>7. ASSUME NEW s \in Slot, NEW a \in ActionId, NEW e \in Everyone,
               \/ AttestCheck(s, a, e) \/ McpAttestCheck(s, a, e)
               \/ ReportCheck(s, a, e) \/ SlashCheck(s, a, e) \/ DisputeCheck(s, a, e)
        PROVE  UNCHANGED actions
    BY <2>7 DEF AttestCheck, McpAttestCheck, ReportCheck, SlashCheck, DisputeCheck, Accept, tables
  <2>8. ASSUME NEW s \in Slot, NEW a \in ActionId, WebhookCheck(s, a) \/ RulingCheck(s, a)
        PROVE  UNCHANGED actions
    BY <2>8 DEF WebhookCheck, RulingCheck, Accept, tables
  <2>9. ASSUME (\E e \in Entity, d \in TrailAward : AwardTrailKarma(e, d)) \/ NewDay
        PROVE  UNCHANGED actions
    BY <2>9 DEF AwardTrailKarma, NewDay, tables
  <2> HIDE DEF Keep
  <2> QED BY <2>1, <2>2, <2>4, <2>5, <2>6, <2>7, <2>8, <2>9 DEF Next
<1> QED BY <1>1, Invariance, PTL DEF Spec, PendingNeverSlashed

-----------------------------------------------------------------------------
(* Weights and rows.                                                         *)

WeightsOf(rows) == [i \in DOMAIN rows |-> rows[i].weight]
RowsOf(rows, e) == {i \in DOMAIN rows : rows[i].attester = e}

\* TotalWeight under the name the lemmas about sums use.
LEMMA TotalWeightIs == ASSUME NEW rows PROVE TotalWeight(rows) = SumOf(WeightsOf(rows), DOMAIN rows)
BY DEF TotalWeight, WeightsOf, SumOf

\* The rows are numbered from one.
LEMMA AttestationRows ==
  ASSUME NEW rows \in Seq(AttestationRow)
  PROVE  /\ DOMAIN rows = 1..Len(rows) /\ Len(rows) \in Nat /\ IsFiniteSet(DOMAIN rows)
         /\ \A i \in DOMAIN rows : rows[i].weight \in Nat /\ rows[i].attester \in Everyone
         /\ TotalWeight(rows) \in Nat
<1>1. DOMAIN rows = 1..Len(rows) /\ Len(rows) \in Nat /\ \A i \in DOMAIN rows : rows[i] \in AttestationRow
  OBVIOUS
<1>2. IsFiniteSet(DOMAIN rows)
  BY <1>1, FS_Interval
<1>3. \A i \in DOMAIN rows : rows[i].weight \in Nat /\ rows[i].attester \in Everyone
  BY <1>1 DEF AttestationRow
<1>4. \A i \in DOMAIN rows : WeightsOf(rows)[i] \in Nat
  BY <1>3 DEF WeightsOf
<1>5. TotalWeight(rows) \in Nat
  BY <1>2, <1>4, TotalWeightIs, SumType
<1> QED BY <1>1, <1>2, <1>3, <1>5

\* One more attestation is one more row of its attester.
LEMMA RowAdded ==
  ASSUME NEW rows \in Seq(AttestationRow), NEW row \in AttestationRow, NEW e
  PROVE  /\ RowsOf(rows, e) # {} \/ row.attester = e => RowsOf(Append(rows, row), e) # {}
         /\ Cardinality(RowsOf(rows, e)) \in Nat
         /\ Cardinality(RowsOf(Append(rows, row), e))
              = Cardinality(RowsOf(rows, e)) + (IF row.attester = e THEN 1 ELSE 0)
<1> DEFINE n == Len(rows) + 1
           new == Append(rows, row)
<1>1. /\ DOMAIN new = DOMAIN rows \cup {n} /\ n \notin DOMAIN rows
      /\ new[n] = row /\ \A i \in DOMAIN rows : new[i] = rows[i]
  OBVIOUS
<1> HIDE DEF n, new
<1>2. RowsOf(new, e) = IF row.attester = e THEN RowsOf(rows, e) \cup {n} ELSE RowsOf(rows, e)
  BY <1>1 DEF RowsOf
<1>3. RowsOf(rows, e) \subseteq DOMAIN rows /\ n \notin RowsOf(rows, e)
  BY <1>1 DEF RowsOf
<1>4. IsFiniteSet(RowsOf(rows, e)) /\ Cardinality(RowsOf(rows, e)) \in Nat
  BY <1>3, AttestationRows, FS_Subset, FS_CardinalityType
<1>5. Cardinality(RowsOf(rows, e) \cup {n}) = Cardinality(RowsOf(rows, e)) + 1
  BY <1>3, <1>4, FS_AddElement
<1> QED BY <1>2, <1>4, <1>5 DEF new

\* One more attestation adds its weight.
LEMMA WeightAdded ==
  ASSUME NEW rows \in Seq(AttestationRow), NEW row \in AttestationRow
  PROVE  TotalWeight(Append(rows, row)) = TotalWeight(rows) + row.weight
<1> DEFINE n == Len(rows) + 1
           new == Append(rows, row)
<1>1. /\ new \in Seq(AttestationRow) /\ DOMAIN new = DOMAIN rows \cup {n} /\ n \notin DOMAIN rows
      /\ new[n] = row /\ \A i \in DOMAIN rows : new[i] = rows[i]
  OBVIOUS
<1>2. IsFiniteSet(DOMAIN rows)
  BY AttestationRows
<1> HIDE DEF n, new
<1>3. \A i \in DOMAIN rows \cup {n} : WeightsOf(new)[i] \in Int
  BY <1>1, AttestationRows DEF WeightsOf
<1>4. SumOf(WeightsOf(new), DOMAIN rows \cup {n}) = SumOf(WeightsOf(new), DOMAIN rows) + WeightsOf(new)[n]
  <2>1. PICK S, f : S = DOMAIN rows /\ f = WeightsOf(new)
    OBVIOUS
  <2>2. IsFiniteSet(S) /\ n \notin S /\ \A i \in S \cup {n} : f[i] \in Int
    BY <1>1, <1>2, <1>3, <2>1
  <2>3. SumOf(f, S \cup {n}) = SumOf(f, S) + f[n]
    BY <2>2, SumAdd
  <2> QED BY <2>1, <2>3
<1>5. \A i \in DOMAIN rows : WeightsOf(new)[i] = WeightsOf(rows)[i]
  BY <1>1 DEF WeightsOf
<1>6. SumOf(WeightsOf(new), DOMAIN rows) = SumOf(WeightsOf(rows), DOMAIN rows)
  BY <1>2, <1>5, SumSame
<1>7. WeightsOf(new)[n] = row.weight
  BY <1>1 DEF WeightsOf
<1>8. TotalWeight(new) = TotalWeight(rows) + row.weight
  BY <1>1, <1>4, <1>6, <1>7, TotalWeightIs
<1> QED BY <1>8 DEF new

-----------------------------------------------------------------------------
(* Support.                                                                  *)

\* What PaidOnlyWithSupport asks of the attestations of a paid action.
Supported(rows) ==
  \/ TotalWeight(rows) >= WEIGHT_THRESHOLD
  \/ RowsOf(rows, Lightning) # {} /\ Len(rows) >= ATTESTATIONS_NEEDED

\* PaidOnlyWithSupport, action by action.
LEMMA SupportIs == PaidOnlyWithSupport <=> \A a \in ActionId : awards[a] > 0 => Supported(attestations[a])
BY DEF PaidOnlyWithSupport, Supported, RowsBy, RowsOf

\* The same in the next state.
LEMMA SupportNext == PaidOnlyWithSupport' <=> \A a \in ActionId : awards'[a] > 0 => Supported(attestations'[a])
<1>1. PaidOnlyWithSupport' <=> (\A a \in ActionId : awards[a] > 0 => Supported(attestations[a]))'
  BY SupportIs, PTL
<1>2. ASSUME NEW a
      PROVE  Supported(attestations[a])' <=> Supported(attestations'[a])
  BY DEF Supported, TotalWeight, RowsOf, MapThenSumSet, MapThenFoldSet
<1> QED BY <1>1, <1>2

\* Attestations are never taken back, so support stays.
LEMMA SupportStays ==
  ASSUME NEW rows \in Seq(AttestationRow), NEW row \in AttestationRow, Supported(rows)
  PROVE  Supported(Append(rows, row))
<1>1. PICK new : new = Append(rows, row)
  OBVIOUS
<1>2. /\ Len(new) = Len(rows) + 1 /\ TotalWeight(new) = TotalWeight(rows) + row.weight
      /\ RowsOf(rows, Lightning) # {} => RowsOf(new, Lightning) # {}
  BY <1>1, RowAdded, WeightAdded
<1>3. row.weight \in Nat /\ TotalWeight(rows) \in Nat /\ Len(rows) \in Nat
  BY AttestationRows DEF AttestationRow
<1>4. Supported(new)
  BY <1>2, <1>3 DEF Supported, WEIGHT_THRESHOLD, ATTESTATIONS_NEEDED
<1> QED BY <1>1, <1>4

-----------------------------------------------------------------------------
(* The ledger.                                                               *)

\* The attestation rows of e by action, the karma paid by action and the actions e
\* posted, of any tables.
WitnessedIn(rows, e) == [a \in ActionId |-> Cardinality(RowsOf(rows[a], e))]
EarnedIn(paid, table) == [a \in ActionId |-> paid[a] * table[a].karma]
PostedIn(table, e) == {a \in ActionId : table[a].entity = e}

\* total_karma_real of e is what the tables account for.
Balanced(e, karma, trails, rows, paid, table) ==
  karma[e].real =
    10 * InitKarma[e] + trails[e] + 10 * WITNESS_KARMA * SumOf(WitnessedIn(rows, e), ActionId)
    + 10 * SumOf(EarnedIn(paid, table), PostedIn(table, e))

\* KarmaLedger, entity by entity.
LEMMA LedgerIs ==
  KarmaLedger <=> \A e \in Entity : Balanced(e, wisdom, trailKarma, attestations, awards, actions)
BY DEF KarmaLedger, Balanced, SumOf, WitnessedIn, EarnedIn, PostedIn, RowsOf, RowsBy

\* The same in the next state.
LEMMA LedgerNext ==
  KarmaLedger' <=> \A e \in Entity : Balanced(e, wisdom', trailKarma', attestations', awards', actions')
<1>1. KarmaLedger' <=> (\A e \in Entity : Balanced(e, wisdom, trailKarma, attestations, awards, actions))'
  BY LedgerIs, PTL
<1> QED BY <1>1 DEF Balanced, WitnessedIn, EarnedIn, PostedIn, RowsOf, SumOf, MapThenSumSet, MapThenFoldSet

\* A row is inserted for action a.
Inserted(rows, new, a, row) == new = [rows EXCEPT ![a] = Append(@, row)]

\* The award of action a is paid and a verified.
Paid(paid, more, table, new, a) ==
  more = [paid EXCEPT ![a] = @ + 1] /\ new = [table EXCEPT ![a].status = "verified"]

\* One more row of e if row is by e, and the award e gets if e posted action a.
Hit(row, e) == IF row.attester = e THEN 1 ELSE 0
Award(table, a, e) == IF table[a].entity = e THEN table[a].karma ELSE 0

\* The rows of e are a number.
LEMMA WitnessedType ==
  ASSUME NEW rows \in [ActionId -> Seq(AttestationRow)], NEW e
  PROVE  SumOf(WitnessedIn(rows, e), ActionId) \in Nat
<1>1. PICK f : f = WitnessedIn(rows, e)
  OBVIOUS
<1>2. ASSUME NEW b \in ActionId
      PROVE  f[b] \in Nat
  <2>1. RowsOf(rows[b], e) \subseteq DOMAIN rows[b] /\ rows[b] \in Seq(AttestationRow)
    BY DEF RowsOf
  <2>2. Cardinality(RowsOf(rows[b], e)) \in Nat
    BY <2>1, AttestationRows, FS_Subset, FS_CardinalityType
  <2> QED BY <1>1, <2>2 DEF WitnessedIn
<1>3. SumOf(f, ActionId) \in Nat
  BY <1>2, ActionAssumption, SumType
<1> QED BY <1>1, <1>3

\* An attestation by x on action a is one more witnessed row of x.
LEMMA WitnessAdded ==
  ASSUME NEW rows \in [ActionId -> Seq(AttestationRow)], NEW a \in ActionId, NEW row \in AttestationRow,
         NEW new, Inserted(rows, new, a, row), NEW e
  PROVE  /\ SumOf(WitnessedIn(rows, e), ActionId) \in Nat
         /\ SumOf(WitnessedIn(new, e), ActionId)
              = SumOf(WitnessedIn(rows, e), ActionId) + Hit(row, e)
<1>1. PICK f, g : f = WitnessedIn(rows, e) /\ g = WitnessedIn(new, e)
  OBVIOUS
<1>2. \A b \in ActionId : f[b] \in Nat
  <2>1. ASSUME NEW b \in ActionId
        PROVE  f[b] \in Nat
    <3>1. RowsOf(rows[b], e) \subseteq DOMAIN rows[b] /\ rows[b] \in Seq(AttestationRow)
      BY DEF RowsOf
    <3>2. Cardinality(RowsOf(rows[b], e)) \in Nat
      BY <3>1, AttestationRows, FS_Subset, FS_CardinalityType
    <3> QED BY <1>1, <3>2 DEF WitnessedIn
  <2> QED BY <2>1
<1>3. SumOf(f, ActionId) \in Nat
  BY <1>2, ActionAssumption, SumType
<1>4. new[a] = Append(rows[a], row) /\ \A b \in ActionId \ {a} : new[b] = rows[b]
  BY DEF Inserted
<1>5. g[a] = f[a] + (IF row.attester = e THEN 1 ELSE 0)
  <2>1. rows[a] \in Seq(AttestationRow)
    OBVIOUS
  <2>2. Cardinality(RowsOf(new[a], e)) = Cardinality(RowsOf(rows[a], e)) + (IF row.attester = e THEN 1 ELSE 0)
    <3>1. PICK old, now : old = rows[a] /\ now = new[a]
      OBVIOUS
    <3>2. old \in Seq(AttestationRow) /\ now = Append(old, row)
      BY <1>4, <2>1, <3>1
    <3>3. Cardinality(RowsOf(now, e)) = Cardinality(RowsOf(old, e)) + (IF row.attester = e THEN 1 ELSE 0)
      BY <3>2, RowAdded
    <3> QED BY <3>1, <3>3
  <2> QED BY <1>1, <2>2 DEF WitnessedIn
<1>6. \A b \in ActionId \ {a} : g[b] = f[b]
  BY <1>1, <1>4 DEF WitnessedIn
<1>7. (\A b \in ActionId : f[b] \in Int) /\ g[a] \in Int
  BY <1>2, <1>5
<1>8. SumOf(g, ActionId) = SumOf(f, ActionId) + (g[a] - f[a])
  BY <1>6, <1>7, ActionAssumption, SumChange
<1>9. g[a] - f[a] = IF row.attester = e THEN 1 ELSE 0
  BY <1>5, <1>2
<1> QED BY <1>1, <1>3, <1>8, <1>9 DEF Hit

\* What has been paid is a number.
LEMMA EarnedType ==
  ASSUME NEW paid \in [ActionId -> Nat], NEW table \in [ActionId -> ActionRow], NEW e
  PROVE  /\ IsFiniteSet(PostedIn(table, e)) /\ PostedIn(table, e) \subseteq ActionId
         /\ \A a \in ActionId : EarnedIn(paid, table)[a] = paid[a] * table[a].karma
                                /\ EarnedIn(paid, table)[a] \in Nat
         /\ SumOf(EarnedIn(paid, table), PostedIn(table, e)) \in Nat
<1>1. IsFiniteSet(PostedIn(table, e)) /\ PostedIn(table, e) \subseteq ActionId
  <2>1. PostedIn(table, e) \subseteq ActionId
    BY DEF PostedIn
  <2> QED BY <2>1, ActionAssumption, FS_Subset
<1>2. ASSUME NEW a \in ActionId
      PROVE  EarnedIn(paid, table)[a] = paid[a] * table[a].karma /\ EarnedIn(paid, table)[a] \in Nat
  <2>1. paid[a] \in Nat /\ table[a].karma \in Nat
    BY DEF ActionRow
  <2> QED BY <2>1 DEF EarnedIn
<1>3. SumOf(EarnedIn(paid, table), PostedIn(table, e)) \in Nat
  BY <1>1, <1>2, SumType
<1> QED BY <1>1, <1>2, <1>3

\* Paying the poster of a once more adds the karma of a to what the poster earned.
LEMMA PaymentEarned ==
  ASSUME NEW paid \in [ActionId -> Nat], NEW table \in [ActionId -> ActionRow], NEW a \in ActionId,
         NEW more, NEW new, Paid(paid, more, table, new, a), NEW e
  PROVE  SumOf(EarnedIn(more, new), PostedIn(new, e))
           = SumOf(EarnedIn(paid, table), PostedIn(table, e))
             + Award(table, a, e)
<1>1. PICK f, g, S : f = EarnedIn(paid, table) /\ g = EarnedIn(more, new) /\ S = PostedIn(table, e)
  OBVIOUS
<1>2. \A b \in ActionId : new[b].entity = table[b].entity /\ new[b].karma = table[b].karma
  BY DEF ActionRow, Paid
<1>3. PostedIn(new, e) = S /\ IsFiniteSet(S) /\ \A b \in S : f[b] \in Int
  <2>1. PostedIn(new, e) = S
    BY <1>1, <1>2 DEF PostedIn
  <2>2. IsFiniteSet(S) /\ S \subseteq ActionId /\ \A b \in ActionId : f[b] \in Nat
    BY <1>1, EarnedType
  <2> QED BY <2>1, <2>2
<1>4. \A b \in ActionId \ {a} : g[b] = f[b]
  BY <1>1, <1>2 DEF EarnedIn, Paid
<1>5. paid[a] \in Nat /\ table[a].karma \in Nat
  BY DEF ActionRow
<1>6. g[a] = f[a] + table[a].karma /\ f[a] \in Nat
  <2>1. more[a] = paid[a] + 1
    BY DEF Paid
  <2>2. f[a] = paid[a] * table[a].karma /\ g[a] = (paid[a] + 1) * table[a].karma /\ f[a] \in Nat
    BY <1>1, <1>2, <2>1, EarnedType DEF EarnedIn
  <2>3. (paid[a] + 1) * table[a].karma = paid[a] * table[a].karma + table[a].karma
    BY <1>5
  <2> QED BY <2>2, <2>3
<1>7. CASE table[a].entity = e
  <2>1. a \in S
    BY <1>1, <1>7 DEF PostedIn
  <2>2. g[a] \in Int /\ g[a] - f[a] = table[a].karma /\ \A b \in S \ {a} : g[b] = f[b]
    <3>1. S \subseteq ActionId
      BY <1>1, EarnedType
    <3> QED BY <1>4, <1>5, <1>6, <3>1
  <2>3. SumOf(g, S) = SumOf(f, S) + (g[a] - f[a])
    <3>1. IsFiniteSet(S) /\ (\A b \in S : f[b] \in Int) /\ g[a] \in Int /\ \A b \in S \ {a} : g[b] = f[b]
      BY <1>3, <2>2
    <3> QED BY <2>1, <3>1, SumChange
  <2> QED BY <1>1, <1>3, <1>7, <2>2, <2>3 DEF Award
<1>8. CASE table[a].entity # e
  <2>1. \A b \in S : g[b] = f[b]
    BY <1>1, <1>4, <1>8 DEF PostedIn
  <2>2. SumOf(g, S) = SumOf(f, S)
    BY <1>3, <2>1, SumSame
  <2>3. SumOf(f, S) \in Nat
    BY <1>1, EarnedType
  <2> QED BY <1>1, <1>3, <1>8, <2>2, <2>3 DEF Award
<1> QED BY <1>7, <1>8

\* A row that was paid nothing counts for nobody, whatever it becomes.
LEMMA UnpaidRow ==
  ASSUME NEW paid \in [ActionId -> Nat], NEW table \in [ActionId -> ActionRow], NEW new \in [ActionId -> ActionRow],
         NEW a \in ActionId,
         \/ paid[a] = 0
         \/ new[a].entity = table[a].entity /\ new[a].karma = table[a].karma,
         \A b \in ActionId \ {a} : new[b] = table[b], NEW e
  PROVE  SumOf(EarnedIn(paid, new), PostedIn(new, e)) = SumOf(EarnedIn(paid, table), PostedIn(table, e))
<1>1. PICK f, g, S, T : /\ f = EarnedIn(paid, table) /\ g = EarnedIn(paid, new)
                        /\ S = PostedIn(table, e) /\ T = PostedIn(new, e)
  OBVIOUS
<1>2. /\ IsFiniteSet(S) /\ IsFiniteSet(T) /\ S \subseteq ActionId /\ T \subseteq ActionId
      /\ \A b \in ActionId : f[b] \in Nat /\ g[b] \in Nat
  BY <1>1, EarnedType
<1>3. \A b \in ActionId \ {a} : g[b] = f[b]
  BY <1>1 DEF EarnedIn
<1>4. S \ {a} = T \ {a}
  BY <1>1 DEF PostedIn
<1>5. CASE paid[a] = 0
  <2>1. f[a] = 0 /\ g[a] = 0
    BY <1>1, <1>5 DEF EarnedIn, ActionRow
  <2>2. ASSUME NEW h, NEW R, IsFiniteSet(R), \A b \in R : h[b] \in Int, h[a] = 0
        PROVE  SumOf(h, R) = SumOf(h, R \ {a})
    <3>1. CASE a \in R
      <4>1. SumOf(h, R) = h[a] + SumOf(h, R \ {a})
        BY <2>2, <3>1, SumRemove
      <4>2. IsFiniteSet(R \ {a}) /\ \A b \in R \ {a} : h[b] \in Int
        BY <2>2, FS_Subset
      <4>3. SumOf(h, R \ {a}) \in Int
        BY <4>2, SumType
      <4> QED BY <2>2, <4>1, <4>3
    <3>2. CASE a \notin R
      <4>1. R \ {a} = R
        BY <3>2
      <4> QED BY <4>1
    <3> QED BY <3>1, <3>2
  <2>3. SumOf(f, S) = SumOf(f, S \ {a})
    BY <1>2, <2>1, <2>2
  <2>4. SumOf(g, T) = SumOf(g, T \ {a})
    BY <1>2, <2>1, <2>2
  <2>5. SumOf(f, S \ {a}) = SumOf(g, S \ {a})
    <3>1. IsFiniteSet(S \ {a}) /\ \A b \in S \ {a} : f[b] = g[b]
      BY <1>2, <1>3, FS_Subset
    <3> QED BY <3>1, SumSame
  <2> QED BY <1>1, <1>4, <2>3, <2>4, <2>5
<1>6. CASE new[a].entity = table[a].entity /\ new[a].karma = table[a].karma
  <2>1. S = T
    BY <1>1, <1>6 DEF PostedIn
  <2>2. \A b \in S : f[b] = g[b]
    BY <1>1, <1>6 DEF EarnedIn, PostedIn
  <2> QED BY <1>1, <1>2, <2>1, <2>2, SumSame
<1> QED BY <1>5, <1>6

-----------------------------------------------------------------------------
(* The handlers.                                                             *)

\* Nobody is paid and no row is written: the books stay balanced.
LEMMA LedgerQuiet ==
  ASSUME KarmaInv, LedgerInv, UNCHANGED <<attestations, awards, trailKarma>>,
         \A e \in Entity : wisdom'[e].real = wisdom[e].real,
         \A a \in ActionId : /\ actions'[a].entity = actions[a].entity /\ actions'[a].karma = actions[a].karma
                             /\ actions'[a].status = "none" => actions[a].status = "none"
  PROVE  LedgerInv'
<1>1. PaidOnceSubmitted'
  BY DEF LedgerInv, PaidOnceSubmitted
<1>2. KarmaLedger'
  <2>1. EarnedIn(awards', actions') = EarnedIn(awards, actions)
    BY DEF EarnedIn
  <2>2. \A e : PostedIn(actions', e) = PostedIn(actions, e)
    BY DEF PostedIn
  <2>3. \A e \in Entity : Balanced(e, wisdom, trailKarma, attestations, awards, actions)
    BY LedgerIs DEF LedgerInv
  <2>4. \A e \in Entity : Balanced(e, wisdom', trailKarma', attestations', awards', actions')
    BY <2>1, <2>2, <2>3 DEF Balanced
  <2> QED BY <2>4, LedgerNext
<1>3. PaidOnlyWithSupport'
  BY SupportIs, SupportNext DEF LedgerInv
<1> QED BY <1>1, <1>2, <1>3 DEF LedgerInv

\* e attests x times and is paid y.
Gains(karma, after, e, x, y) == after[e].real = karma[e].real + 10 * WITNESS_KARMA * x + 10 * y

\* The books stay balanced when the rows account for what is gained.
LEMMA BalancedNext ==
  ASSUME NEW e \in Entity, NEW x \in Nat, NEW y \in Nat, NEW karma, NEW after, Gains(karma, after, e, x, y),
         NEW trails, trails[e] \in Nat, NEW rows, NEW more,
         SumOf(WitnessedIn(rows, e), ActionId) \in Nat,
         SumOf(WitnessedIn(more, e), ActionId) = SumOf(WitnessedIn(rows, e), ActionId) + x,
         NEW paid, NEW given, NEW table, NEW new,
         SumOf(EarnedIn(paid, table), PostedIn(table, e)) \in Nat,
         SumOf(EarnedIn(given, new), PostedIn(new, e)) = SumOf(EarnedIn(paid, table), PostedIn(table, e)) + y,
         Balanced(e, karma, trails, rows, paid, table)
  PROVE  Balanced(e, after, trails, more, given, new)
<1>1. PICK k, t, seen, old : /\ k = InitKarma[e] /\ t = trails[e]
                             /\ seen = SumOf(WitnessedIn(rows, e), ActionId)
                             /\ old = SumOf(EarnedIn(paid, table), PostedIn(table, e))
  OBVIOUS
<1>2. k \in Nat /\ t \in Nat /\ seen \in Nat /\ old \in Nat
  BY <1>1, KarmaAssumption
<1>3. karma[e].real = 10 * k + t + 50 * seen + 10 * old
  BY <1>1, <1>2 DEF Balanced, WITNESS_KARMA
<1>4. after[e].real = karma[e].real + 50 * x + 10 * y
  BY DEF Gains, WITNESS_KARMA
<1>5. after[e].real = 10 * k + t + 50 * (seen + x) + 10 * (old + y)
  BY <1>2, <1>3, <1>4
<1> QED BY <1>1, <1>2, <1>5 DEF Balanced, WITNESS_KARMA

\* An attestation row is written, its attester is rewarded and, if the attestations now
\* support it, the poster is paid.
LEMMA LedgerAttests ==
  ASSUME KarmaInv, LedgerInv, NEW a \in ActionId, actions[a].status # "none", NEW row \in AttestationRow,
         Inserted(attestations, attestations', a, row), trailKarma' = trailKarma,
         NEW hit, \A e \in Entity : hit[e] \in Nat /\ hit[e] = Hit(row, e),
         NEW y, \A e \in Entity : y[e] \in Nat /\ Gains(wisdom, wisdom', e, hit[e], y[e]),
         \/ /\ Paid(awards, awards', actions, actions', a)
            /\ Supported(attestations'[a])
            /\ \A e \in Entity : y[e] = Award(actions, a, e)
         \/ UNCHANGED <<actions, awards>> /\ \A e \in Entity : y[e] = 0
  PROVE  LedgerInv'
<1>1. attestations \in [ActionId -> Seq(AttestationRow)]
  BY DEF KarmaInv, TypeOK
<1>2. awards \in [ActionId -> Nat] /\ actions \in [ActionId -> ActionRow]
  BY DEF KarmaInv, TypeOK
<1>3. PaidOnceSubmitted'
  <2> SUFFICES ASSUME NEW b \in ActionId, actions'[b].status = "none"
               PROVE  awards'[b] = 0
    BY DEF PaidOnceSubmitted
  <2>1. b # a /\ actions'[b] = actions[b] /\ awards'[b] = awards[b]
    BY <1>2 DEF ActionRow, Paid
  <2> QED BY <2>1 DEF LedgerInv, PaidOnceSubmitted
<1>4. ASSUME NEW e \in Entity
      PROVE  Balanced(e, wisdom', trailKarma', attestations', awards', actions')
  <2>1. hit[e] \in Nat /\ hit[e] = Hit(row, e)
    OBVIOUS
  <2>2. y[e] \in Nat /\ Gains(wisdom, wisdom', e, hit[e], y[e])
    OBVIOUS
  <2>3. SumOf(WitnessedIn(attestations, e), ActionId) \in Nat
    BY <1>1, WitnessAdded
  <2>4. SumOf(WitnessedIn(attestations', e), ActionId) = SumOf(WitnessedIn(attestations, e), ActionId) + hit[e]
    BY <1>1, <2>1, WitnessAdded
  <2>5. SumOf(EarnedIn(awards, actions), PostedIn(actions, e)) \in Nat
    BY <1>2, EarnedType
  <2>6. SumOf(EarnedIn(awards', actions'), PostedIn(actions', e))
          = SumOf(EarnedIn(awards, actions), PostedIn(actions, e)) + y[e]
    <3>1. CASE Paid(awards, awards', actions, actions', a) /\ y[e] = Award(actions, a, e)
      BY <1>2, <3>1, PaymentEarned
    <3>2. CASE UNCHANGED <<actions, awards>> /\ y[e] = 0
      BY <2>5, <3>2
    <3> QED BY <3>1, <3>2
  <2>7. Balanced(e, wisdom, trailKarma, attestations, awards, actions)
    BY LedgerIs DEF LedgerInv
  <2>8. trailKarma[e] \in Nat
    BY DEF KarmaInv, TypeOK, Everyone
  <2> QED BY <2>2, <2>1, <2>3, <2>4, <2>5, <2>6, <2>7, <2>8, BalancedNext
<1>5. PaidOnlyWithSupport'
  <2> SUFFICES ASSUME NEW b \in ActionId, awards'[b] > 0
               PROVE  Supported(attestations'[b])
    BY SupportNext
  <2>1. CASE b # a
    <3>1. awards'[b] = awards[b] /\ attestations'[b] = attestations[b]
      BY <1>1, <1>2, <2>1 DEF Paid, Inserted
    <3> QED BY <3>1, SupportIs DEF LedgerInv
  <2>2. CASE b = a /\ UNCHANGED <<actions, awards>>
    <3>1. awards[a] > 0
      BY <2>2
    <3>2. Supported(attestations[a]) /\ attestations[a] \in Seq(AttestationRow)
      BY <1>1, <3>1, SupportIs DEF LedgerInv
    <3>3. Supported(Append(attestations[a], row))
      BY <3>2, SupportStays
    <3>4. attestations'[a] = Append(attestations[a], row)
      BY <1>1 DEF Inserted
    <3> QED BY <2>2, <3>3, <3>4
  <2> QED BY <2>1, <2>2
<1> QED BY <1>3, <1>4, <1>5, LedgerNext DEF LedgerInv

\* The wisdom row of p is upserted with the delta d.
Upserted(w, next, p, d) == \E x, y \in BOOLEAN : next = [w EXCEPT ![p] = Upsert(@, d, x, y)]

\* Upserting the wisdom row of p adds the delta to its total_karma_real.
LEMMA UpsertReal ==
  ASSUME NEW w, DOMAIN w = Everyone, NEW p \in Everyone, NEW d, NEW next, Upserted(w, next, p, d)
  PROVE  /\ DOMAIN next = Everyone /\ next[p].real = w[p].real + d
         /\ \A f \in Everyone : f # p => next[f] = w[f]
<1> PICK x, y \in BOOLEAN : next = [w EXCEPT ![p] = Upsert(@, d, x, y)]
  BY DEF Upserted
<1>1. PICK u : u = Upsert(w[p], d, x, y)
  OBVIOUS
<1>2. u.real = w[p].real + d
  BY <1>1 DEF Upsert
<1>3. DOMAIN next = Everyone /\ next[p] = u /\ \A f \in Everyone : f # p => next[f] = w[f]
  BY <1>1
<1> QED BY <1>2, <1>3

\* Verify, from the wisdom table w: the poster is paid.
LEMMA VerifyPays ==
  ASSUME KarmaInv, NEW a \in ActionId, actions[a].entity \in Entity, NEW w, DOMAIN w = Everyone, Verify(a, w)
  PROVE  /\ Paid(awards, awards', actions, actions', a)
         /\ wisdom'[actions[a].entity].real = w[actions[a].entity].real + 10 * actions[a].karma
         /\ \A e \in Entity : e # actions[a].entity => wisdom'[e] = w[e]
<1>1. PICK p \in Everyone : p = actions[a].entity
  BY DEF Everyone
<1>2. PICK d : d = 10 * actions[a].karma
  OBVIOUS
<1>3. Upserted(w, wisdom', p, d)
  BY <1>1, <1>2 DEF Verify, Upserted
<1>4. wisdom'[p].real = w[p].real + d /\ \A f \in Everyone : f # p => wisdom'[f] = w[f]
  BY <1>3, UpsertReal
<1>5. Paid(awards, awards', actions, actions', a)
  BY DEF Verify, Paid
<1> QED BY <1>1, <1>2, <1>4, <1>5 DEF Everyone

\* What was checked of the action of a request is still so when it commits.
LEMMA CommitTarget ==
  ASSUME KarmaInv, NEW s \in Slot, req[s].phase = "commit"
  PROVE  /\ req[s].action \in ActionId /\ actions[req[s].action].status # "none"
         /\ actions[req[s].action].entity \in Entity /\ DOMAIN wisdom = Everyone
         /\ \A e \in Everyone : wisdom[e].real \in Nat
         /\ actions[req[s].action].karma \in Nat
<1>1. req[s].action \in ActionId /\ actions[req[s].action].status # "none"
  BY DEF KarmaInv, RequestsWellFormed
<1>2. actions[req[s].action].entity \in Entity
  BY <1>1 DEF KarmaInv, PostersKnown
<1>3. actions[req[s].action].karma \in Nat
  BY <1>1 DEF KarmaInv, TypeOK, ActionRow
<1>4. DOMAIN wisdom = Everyone /\ \A e \in Everyone : wisdom[e].real \in Nat
  BY DEF KarmaInv, TypeOK, WisdomRow
<1> QED BY <1>1, <1>2, <1>3, <1>4

\* The attestation transaction.
LEMMA AttestLedger == ASSUME KarmaInv, LedgerInv, NEW s \in Slot, AttestCommit(s) PROVE LedgerInv'
<1>1. /\ req[s].action \in ActionId /\ actions[req[s].action].status # "none"
      /\ actions[req[s].action].entity \in Entity /\ DOMAIN wisdom = Everyone
      /\ \A e \in Everyone : wisdom[e].real \in Nat
      /\ actions[req[s].action].karma \in Nat
  BY CommitTarget DEF AttestCommit, Commit
<1>2. PICK a \in ActionId, e \in Everyone : a = req[s].action /\ e = req[s].by
  BY <1>1 DEF KarmaInv, RequestsWellFormed, AttestCommit, Commit
<1>3. PICK row : row = [attester |-> e, weight |-> req[s].arg, day |-> day]
  OBVIOUS
<1>4. row \in AttestationRow /\ row.attester = e
  BY <1>3 DEF KarmaInv, TypeOK, AttestationRow, RequestRow
<1>5. PICK w : w = [wisdom EXCEPT ![e] = Upsert(@, 10 * WITNESS_KARMA, FALSE, TRUE)]
  OBVIOUS
<1>6. /\ attestations' = [attestations EXCEPT ![a] = Append(@, row)] /\ trailKarma' = trailKarma
      /\ \/ TotalWeight(attestations'[a]) >= WEIGHT_THRESHOLD /\ Verify(a, w)
         \/ wisdom' = w /\ UNCHANGED <<actions, awards>>
  BY <1>2, <1>3, <1>5 DEF AttestCommit
<1>7. DOMAIN w = Everyone /\ w[e].real = wisdom[e].real + 50 /\ \A f \in Everyone : f # e => w[f] = wisdom[f]
  <2>1. DOMAIN w = Everyone /\ w[e].real = wisdom[e].real + 10 * WITNESS_KARMA /\ \A f \in Everyone : f # e => w[f] = wisdom[f]
    <3>1. PICK d : d = 10 * WITNESS_KARMA
      OBVIOUS
    <3>2. Upserted(wisdom, w, e, d)
      BY <1>5, <3>1 DEF Upserted
    <3>3. DOMAIN w = Everyone /\ w[e].real = wisdom[e].real + d /\ \A f \in Everyone : f # e => w[f] = wisdom[f]
      BY <1>1, <3>2, UpsertReal
    <3> QED BY <3>1, <3>3
  <2> QED BY <2>1 DEF WITNESS_KARMA
<1>8. Inserted(attestations, attestations', a, row)
  BY <1>6 DEF Inserted
<1>9. PICK hit : hit = [f \in Entity |-> Hit(row, f)]
  OBVIOUS
<1>10. \A f \in Entity : hit[f] \in Nat /\ hit[f] = Hit(row, f) /\ hit[f] = IF f = e THEN 1 ELSE 0
  BY <1>4, <1>9 DEF Hit
<1>11. \A f \in Entity : w[f].real = wisdom[f].real + 50 * hit[f]
  BY <1>1, <1>7, <1>10 DEF Everyone
<1>12. CASE TotalWeight(attestations'[a]) >= WEIGHT_THRESHOLD /\ Verify(a, w)
  <2>1. PICK p \in Entity, k \in Nat : p = actions[a].entity /\ k = actions[a].karma
    BY <1>1, <1>2
  <2>2. Paid(awards, awards', actions, actions', a) /\ wisdom'[p].real = w[p].real + 10 * k
        /\ \A f \in Entity : f # p => wisdom'[f] = w[f]
    BY <1>7, <1>12, <2>1, VerifyPays
  <2>3. PICK y : y = [f \in Entity |-> Award(actions, a, f)]
    OBVIOUS
  <2>4. \A f \in Entity : y[f] \in Nat /\ y[f] = Award(actions, a, f) /\ y[f] = IF f = p THEN k ELSE 0
    BY <2>1, <2>3 DEF Award
  <2>5. ASSUME NEW f \in Entity
        PROVE  Gains(wisdom, wisdom', f, hit[f], y[f])
    <3>1. w[f].real = wisdom[f].real + 50 * hit[f] /\ hit[f] \in Nat /\ wisdom[f].real \in Nat
      BY <1>1, <1>10, <1>11 DEF Everyone
    <3>2. wisdom'[f].real = w[f].real + 10 * y[f]
      <4>1. CASE f = p
        BY <2>2, <2>4, <4>1
      <4>2. CASE f # p
        <5>1. wisdom'[f] = w[f] /\ y[f] = 0
          BY <2>2, <2>4, <4>2
        <5> QED BY <3>1, <5>1
      <4> QED BY <4>1, <4>2
    <3> QED BY <3>1, <3>2 DEF Gains, WITNESS_KARMA
  <2>6. Supported(attestations'[a])
    BY <1>12 DEF Supported
  <2> QED BY <1>1, <1>2, <1>4, <1>6, <1>8, <1>10, <2>2, <2>4, <2>5, <2>6, LedgerAttests
<1>13. CASE wisdom' = w /\ UNCHANGED <<actions, awards>>
  <2>1. PICK y : y = [f \in Entity |-> 0]
    OBVIOUS
  <2>2. \A f \in Entity : y[f] \in Nat /\ y[f] = 0
    BY <2>1
  <2>3. ASSUME NEW f \in Entity
        PROVE  Gains(wisdom, wisdom', f, hit[f], y[f])
    <3>1. w[f].real = wisdom[f].real + 50 * hit[f] /\ hit[f] \in Nat /\ wisdom[f].real \in Nat
      BY <1>1, <1>10, <1>11 DEF Everyone
    <3> QED BY <1>13, <2>2, <3>1 DEF Gains, WITNESS_KARMA
  <2> QED BY <1>1, <1>2, <1>4, <1>6, <1>8, <1>10, <1>13, <2>2, <2>3, LedgerAttests
<1> QED BY <1>6, <1>12, <1>13

\* The payment webhook's transaction: "lightning" attests, for no witness karma.
LEMMA WebhookLedger == ASSUME KarmaInv, LedgerInv, NEW s \in Slot, WebhookCommit(s) PROVE LedgerInv'
<1>1. /\ req[s].action \in ActionId /\ actions[req[s].action].status # "none"
      /\ actions[req[s].action].entity \in Entity /\ DOMAIN wisdom = Everyone
      /\ \A e \in Everyone : wisdom[e].real \in Nat
      /\ actions[req[s].action].karma \in Nat
  BY CommitTarget DEF WebhookCommit, Commit
<1>2. PICK a \in ActionId : a = req[s].action
  BY <1>1
<1>3. PICK row : row = [attester |-> Lightning, weight |-> req[s].arg, day |-> day]
  OBVIOUS
<1>4. row \in AttestationRow /\ row.attester = Lightning /\ Lightning \notin Entity
  BY <1>3, GenesisAssumption DEF KarmaInv, TypeOK, AttestationRow, RequestRow, Everyone
<1>5. /\ attestations' = [attestations EXCEPT ![a] = Append(@, row)] /\ trailKarma' = trailKarma
      /\ \/ Len(attestations'[a]) >= ATTESTATIONS_NEEDED /\ Verify(a, wisdom)
         \/ UNCHANGED <<actions, awards, wisdom>>
  BY <1>2, <1>3 DEF WebhookCommit
<1>6. Inserted(attestations, attestations', a, row)
  BY <1>5 DEF Inserted
<1>7. PICK hit : hit = [f \in Entity |-> 0]
  OBVIOUS
<1>8. \A f \in Entity : hit[f] \in Nat /\ hit[f] = Hit(row, f) /\ hit[f] = 0
  BY <1>4, <1>7 DEF Hit
<1>9. CASE Len(attestations'[a]) >= ATTESTATIONS_NEEDED /\ Verify(a, wisdom)
  <2>1. PICK p \in Entity, k \in Nat : p = actions[a].entity /\ k = actions[a].karma
    BY <1>1, <1>2
  <2>2. Paid(awards, awards', actions, actions', a) /\ wisdom'[p].real = wisdom[p].real + 10 * k
        /\ \A f \in Entity : f # p => wisdom'[f] = wisdom[f]
    BY <1>1, <1>9, <2>1, VerifyPays
  <2>3. PICK y : y = [f \in Entity |-> Award(actions, a, f)]
    OBVIOUS
  <2>4. \A f \in Entity : y[f] \in Nat /\ y[f] = Award(actions, a, f) /\ y[f] = IF f = p THEN k ELSE 0
    BY <2>1, <2>3 DEF Award
  <2>5. ASSUME NEW f \in Entity
        PROVE  Gains(wisdom, wisdom', f, hit[f], y[f])
    <3>1. wisdom[f].real \in Nat /\ hit[f] = 0
      BY <1>1, <1>8 DEF Everyone
    <3>2. CASE f = p
      BY <2>2, <2>4, <3>1, <3>2 DEF Gains, WITNESS_KARMA
    <3>3. CASE f # p
      <4>1. wisdom'[f] = wisdom[f] /\ y[f] = 0
        BY <2>2, <2>4, <3>3
      <4> QED BY <3>1, <4>1 DEF Gains, WITNESS_KARMA
    <3> QED BY <3>2, <3>3
  <2>6. Supported(attestations'[a])
    <3>1. PICK rows, more : rows = attestations[a] /\ more = attestations'[a]
      OBVIOUS
    <3>2. rows \in Seq(AttestationRow) /\ more = Append(rows, row)
      BY <1>5, <3>1 DEF KarmaInv, TypeOK
    <3>3. RowsOf(more, Lightning) # {}
      BY <1>4, <3>2, RowAdded
    <3> QED BY <1>9, <3>1, <3>3 DEF Supported
  <2> QED BY <1>1, <1>2, <1>4, <1>5, <1>6, <1>8, <2>2, <2>4, <2>5, <2>6, LedgerAttests
<1>10. CASE UNCHANGED <<actions, awards, wisdom>>
  <2>1. PICK y : y = [f \in Entity |-> 0]
    OBVIOUS
  <2>2. \A f \in Entity : y[f] \in Nat /\ y[f] = 0
    BY <2>1
  <2>3. ASSUME NEW f \in Entity
        PROVE  Gains(wisdom, wisdom', f, hit[f], y[f])
    <3>1. wisdom[f].real \in Nat /\ hit[f] = 0
      BY <1>1, <1>8 DEF Everyone
    <3> QED BY <1>10, <2>2, <3>1 DEF Gains, WITNESS_KARMA
  <2> QED BY <1>1, <1>2, <1>4, <1>5, <1>6, <1>8, <1>10, <2>2, <2>3, LedgerAttests
<1> QED BY <1>5, <1>9, <1>10

\* The status of one action changes, and nothing the ledger is about: reports, disputes,
\* slashes (which take from total_karma, not from total_karma_real) and rulings.
LEMMA StatusLedger ==
  ASSUME KarmaInv, LedgerInv, UNCHANGED <<attestations, awards, trailKarma>>, NEW s \in Slot,
         req[s].phase = "commit", NEW a, a = req[s].action,
         \/ UNCHANGED actions
         \/ \E x \in {"verified", "disputed", "slashed"} : actions' = [actions EXCEPT ![a].status = x],
         UNCHANGED wisdom \/ wisdom' = [e \in Everyone |-> Slash(wisdom[e], e, a)]
  PROVE  LedgerInv'
<1>1. a \in ActionId /\ TypeOK /\ actions \in [ActionId -> ActionRow]
  BY CommitTarget DEF KarmaInv, TypeOK
<1>2. \A e \in Entity : wisdom'[e].real = wisdom[e].real
  <2>1. CASE wisdom' = [e \in Everyone |-> Slash(wisdom[e], e, a)]
    <3>1. \A e \in Everyone : wisdom'[e].real = wisdom[e].real
      BY <1>1, <2>1, SlashRow
    <3> QED BY <3>1 DEF Everyone
  <2> QED BY <2>1
<1>3. \A b \in ActionId : /\ actions'[b].entity = actions[b].entity /\ actions'[b].karma = actions[b].karma
                          /\ actions'[b].status = "none" => actions[b].status = "none"
  <2>1. CASE \E x \in {"verified", "disputed", "slashed"} : actions' = [actions EXCEPT ![a].status = x]
    BY <1>1, <2>1 DEF ActionRow
  <2> QED BY <2>1
<1> QED BY <1>2, <1>3, LedgerQuiet

\* An INSERT of an action: it was paid nothing, whoever posts it.
LEMMA SubmitLedger ==
  ASSUME KarmaInv, LedgerInv, NEW a \in ActionId, NEW e \in Poster, NEW k \in KarmaValue, SubmitAction(a, e, k)
  PROVE  LedgerInv'
<1>1. /\ actions[a].status = "none"
      /\ actions' = [actions EXCEPT ![a] = [status |-> "pending", entity |-> e, karma |-> k]]
      /\ UNCHANGED <<attestations, wisdom, awards, trailKarma>>
  BY DEF SubmitAction
<1>2. awards \in [ActionId -> Nat] /\ actions \in [ActionId -> ActionRow]
  BY DEF KarmaInv, TypeOK
<1>3. actions' \in [ActionId -> ActionRow] /\ \A b \in ActionId \ {a} : actions'[b] = actions[b]
  BY <1>1, <1>2, KarmaAssumption, PosterAssumption DEF ActionRow, Status
<1>4. awards[a] = 0 /\ actions'[a].status = "pending"
  BY <1>1, <1>2 DEF LedgerInv, PaidOnceSubmitted
<1>5. PaidOnceSubmitted'
  BY <1>1, <1>3, <1>4 DEF LedgerInv, PaidOnceSubmitted
<1>6. ASSUME NEW f \in Entity
      PROVE  Balanced(f, wisdom', trailKarma', attestations', awards', actions')
  <2>1. SumOf(EarnedIn(awards, actions'), PostedIn(actions', f)) = SumOf(EarnedIn(awards, actions), PostedIn(actions, f))
    BY <1>2, <1>3, <1>4, UnpaidRow
  <2>2. Balanced(f, wisdom, trailKarma, attestations, awards, actions)
    BY LedgerIs DEF LedgerInv
  <2> QED BY <1>1, <2>1, <2>2 DEF Balanced
<1>7. PaidOnlyWithSupport'
  BY <1>1, SupportIs, SupportNext DEF LedgerInv
<1> QED BY <1>5, <1>6, <1>7, LedgerNext DEF LedgerInv

\* Karma from trails is counted as such.
LEMMA AwardLedger ==
  ASSUME KarmaInv, LedgerInv, NEW e \in Entity, NEW d \in TrailAward, AwardTrailKarma(e, d)
  PROVE  LedgerInv'
<1>1. UNCHANGED <<actions, attestations, awards>> /\ trailKarma' = [trailKarma EXCEPT ![e] = @ + d]
  BY DEF AwardTrailKarma
<1>2. Upserted(wisdom, wisdom', e, d)
  BY DEF AwardTrailKarma, Upserted
<1>3. e \in Everyone /\ DOMAIN wisdom = Everyone /\ DOMAIN trailKarma = Everyone /\ d \in Nat
  BY KarmaAssumption DEF Everyone, KarmaInv, TypeOK
<1>4. \A f \in Everyone : wisdom[f].real \in Nat /\ trailKarma[f] \in Nat
  BY DEF KarmaInv, TypeOK, WisdomRow
<1>5. wisdom'[e].real = wisdom[e].real + d /\ \A f \in Everyone : f # e => wisdom'[f] = wisdom[f]
  BY <1>2, <1>3, UpsertReal
<1>6. trailKarma'[e] = trailKarma[e] + d /\ \A f \in Everyone : f # e => trailKarma'[f] = trailKarma[f]
  BY <1>1, <1>3
<1>7. ASSUME NEW f \in Entity
      PROVE  Balanced(f, wisdom', trailKarma', attestations', awards', actions')
  <2>1. Balanced(f, wisdom, trailKarma, attestations, awards, actions)
    BY LedgerIs DEF LedgerInv
  <2>2. CASE f # e
    <3>1. wisdom'[f] = wisdom[f] /\ trailKarma'[f] = trailKarma[f]
      BY <1>5, <1>6, <2>2 DEF Everyone
    <3> QED BY <1>1, <2>1, <3>1 DEF Balanced
  <2>3. CASE f = e
    <3>1. PICK k, seen, old : /\ k = InitKarma[e] /\ seen = SumOf(WitnessedIn(attestations, e), ActionId)
                              /\ old = SumOf(EarnedIn(awards, actions), PostedIn(actions, e))
      OBVIOUS
    <3>2. k \in Nat /\ seen \in Nat /\ old \in Nat
      <4>1. k \in Nat
        BY <3>1, KarmaAssumption
      <4>2. awards \in [ActionId -> Nat] /\ actions \in [ActionId -> ActionRow]
        BY DEF KarmaInv, TypeOK
      <4>3. old \in Nat
        BY <3>1, <4>2, EarnedType
      <4>4. attestations \in [ActionId -> Seq(AttestationRow)]
        BY DEF KarmaInv, TypeOK
      <4>5. seen \in Nat
        BY <3>1, <4>4, WitnessedType
      <4> QED BY <4>1, <4>3, <4>5
    <3>3. wisdom[e].real = 10 * k + trailKarma[e] + 50 * seen + 10 * old
      BY <2>1, <2>3, <3>1, <3>2 DEF Balanced, WITNESS_KARMA
    <3>4. wisdom'[e].real = 10 * k + trailKarma'[e] + 50 * seen + 10 * old
      BY <1>3, <1>4, <1>5, <1>6, <3>2, <3>3
    <3> QED BY <1>1, <2>3, <3>1, <3>2, <3>4 DEF Balanced, WITNESS_KARMA
  <2> QED BY <2>2, <2>3
<1>8. PaidOnceSubmitted' /\ PaidOnlyWithSupport'
  BY <1>1, SupportIs, SupportNext DEF LedgerInv, PaidOnceSubmitted
<1> QED BY <1>7, <1>8, LedgerNext DEF LedgerInv

\* A new database is balanced: nobody attested and nobody was paid.
LEMMA InitLedgerInv == Init => LedgerInv
<1> SUFFICES ASSUME Init PROVE LedgerInv
  OBVIOUS
<1>1. /\ actions = [a \in ActionId |-> [status |-> "none", entity |-> None, karma |-> 0]]
      /\ attestations = [a \in ActionId |-> <<>>] /\ awards = [a \in ActionId |-> 0]
  BY DEF Init
<1>2. \A e \in Entity : wisdom[e].real = 10 * InitKarma[e] /\ trailKarma[e] = 0 /\ InitKarma[e] \in Nat
  BY KarmaAssumption DEF Init, Everyone
<1>3. PaidOnceSubmitted /\ PaidOnlyWithSupport
  BY <1>1 DEF PaidOnceSubmitted, PaidOnlyWithSupport
<1>4. ASSUME NEW e \in Entity
      PROVE  Balanced(e, wisdom, trailKarma, attestations, awards, actions)
  <2>1. PostedIn(actions, e) = {}
    BY <1>1, GenesisAssumption DEF PostedIn, Everyone
  <2>2. SumOf(EarnedIn(awards, actions), PostedIn(actions, e)) = 0
    BY <2>1, SumEmpty
  <2>3. SumOf(WitnessedIn(attestations, e), ActionId) = 0
    <3>1. PICK f : f = WitnessedIn(attestations, e)
      OBVIOUS
    <3>2. \A a \in ActionId : RowsOf(attestations[a], e) = {}
      BY <1>1 DEF RowsOf
    <3>3. \A a \in ActionId : f[a] = 0
      BY <3>1, <3>2, FS_EmptySet DEF WitnessedIn
    <3>4. SumOf(f, ActionId) = 0
      BY <3>3, ActionAssumption, SumZero
    <3> QED BY <3>1, <3>4
  <2> QED BY <1>2, <2>2, <2>3 DEF Balanced, WITNESS_KARMA
<1> QED BY <1>3, <1>4, LedgerIs DEF LedgerInv

\* No handler, however they interleave, unbalances the books or pays without support.
LEMMA NextLedgerInv == KarmaInv /\ LedgerInv /\ [Next]_vars => LedgerInv'
<1> SUFFICES ASSUME KarmaInv, LedgerInv, [Next]_vars PROVE LedgerInv'
  OBVIOUS
<1>1. ASSUME NEW a \in ActionId, NEW e \in Poster, NEW k \in KarmaValue, SubmitAction(a, e, k)
      PROVE  LedgerInv'
  BY <1>1, SubmitLedger
<1>2. ASSUME NEW e \in Entity, NEW d \in TrailAward, AwardTrailKarma(e, d)
      PROVE  LedgerInv'
  BY <1>2, AwardLedger
<1>3. CASE UNCHANGED tables \/ UNCHANGED vars
  <2>1. UNCHANGED <<actions, attestations, wisdom, awards, trailKarma>>
    BY <1>3 DEF tables, vars
  <2> QED BY <2>1, LedgerQuiet
<1>4. ASSUME NEW s \in Slot, AttestCommit(s) \/ WebhookCommit(s)
      PROVE  LedgerInv'
  BY <1>4, AttestLedger, WebhookLedger
<1>5. ASSUME NEW s \in Slot, ReportCommit(s) \/ SlashCommit(s) \/ DisputeCommit(s) \/ \E n \in 0..2 : RulingCommit(s, n)
      PROVE  LedgerInv'
  <2>1. /\ req[s].phase = "commit" /\ UNCHANGED <<attestations, awards, trailKarma>>
        /\ \/ UNCHANGED actions
           \/ \E x \in {"verified", "disputed", "slashed"} : actions' = [actions EXCEPT ![req[s].action].status = x]
        /\ UNCHANGED wisdom \/ wisdom' = [e \in Everyone |-> Slash(wisdom[e], e, req[s].action)]
    <3>1. CASE ReportCommit(s)
      BY <3>1 DEF ReportCommit, Commit
    <3>2. CASE SlashCommit(s)
      BY <3>2 DEF SlashCommit, Commit
    <3>3. CASE DisputeCommit(s)
      BY <3>3 DEF DisputeCommit, Commit
    <3>4. ASSUME NEW n \in 0..2, RulingCommit(s, n)
          PROVE  /\ req[s].phase = "commit" /\ UNCHANGED <<attestations, awards, trailKarma>>
                 /\ \E x \in {"verified", "disputed", "slashed"} : actions' = [actions EXCEPT ![req[s].action].status = x]
                 /\ UNCHANGED wisdom \/ wisdom' = [e \in Everyone |-> Slash(wisdom[e], e, req[s].action)]
      BY <3>4 DEF RulingCommit, Commit
    <3> QED BY <1>5, <3>1, <3>2, <3>3, <3>4
  <2> QED BY <2>1, StatusLedger
<1>6. ASSUME NEW s \in Slot, NEW a \in ActionId, NEW e \in Everyone,
             \/ AttestCheck(s, a, e) \/ McpAttestCheck(s, a, e)
             \/ ReportCheck(s, a, e) \/ SlashCheck(s, a, e) \/ DisputeCheck(s, a, e)
      PROVE  UNCHANGED tables
  BY <1>6 DEF AttestCheck, McpAttestCheck, ReportCheck, SlashCheck, DisputeCheck, Accept
<1>7. ASSUME NEW s \in Slot, NEW a \in ActionId, WebhookCheck(s, a) \/ RulingCheck(s, a)
      PROVE  UNCHANGED tables
  BY <1>7 DEF WebhookCheck, RulingCheck, Accept
<1>8. ASSUME NEW s \in Slot, AttestWeigh(s) \/ Abandon(s) \/ NewDay
      PROVE  UNCHANGED tables
  BY <1>8 DEF AttestWeigh, Abandon, NewDay
<1>9. NewDay => UNCHANGED tables
  BY DEF NewDay
<1> QED BY <1>1, <1>2, <1>3, <1>4, <1>5, <1>6, <1>7, <1>8, <1>9 DEF Next

-----------------------------------------------------------------------------
\* argentum.py's karma tables always satisfy both invariants.
THEOREM LedgerInvariance == Spec => [](KarmaInv /\ LedgerInv)
<1>1. Init => KarmaInv /\ LedgerInv
  BY InitKarmaInv, InitLedgerInv
<1>2. KarmaInv /\ LedgerInv /\ [Next]_vars => (KarmaInv /\ LedgerInv)'
  BY NextKarmaInv, NextLedgerInv
<1> QED BY <1>1, <1>2, PTL DEF Spec

\* No award of upsert_wisdom is lost or doubled: total_karma_real of every entity is what
\* its attestation rows, its paid actions and its trails account for.
THEOREM KarmaLedgerHolds == Spec => []KarmaLedger
<1>1. KarmaInv /\ LedgerInv => KarmaLedger
  BY DEF LedgerInv
<1> QED BY <1>1, LedgerInvariance, PTL

\* attest_action and payment_webhook pay a poster only for an action that reached
\* WEIGHT_THRESHOLD, or ATTESTATIONS_NEEDED with the payment among them.
THEOREM PaidOnlyWithSupportHolds == Spec => []PaidOnlyWithSupport
<1>1. KarmaInv /\ LedgerInv => PaidOnlyWithSupport
  BY DEF LedgerInv
<1> QED BY <1>1, LedgerInvariance, PTL

-----------------------------------------------------------------------------
\* An action that a handler leaves alone, or moves to another status than verified,
\* has the reason it had: rulings are not unwritten and payments not taken back.
LEMMA ReasonStays ==
  ASSUME VerifiedHasReason, NEW a \in ActionId,
         actions'[a].status = "verified" => actions[a].status = "verified",
         awards'[a] = awards[a], disputes'[a] = disputes[a]
  PROVE  actions'[a].status = "verified" =>
           \/ awards'[a] > 0
           \/ \E i \in DOMAIN disputes'[a] : disputes'[a][i] \in {"ruled_clear", "ruled_refused"}
BY DEF VerifiedHasReason

\* So is every action after a handler that verifies nothing and writes no dispute.
LEMMA ReasonQuiet ==
  ASSUME VerifiedHasReason, UNCHANGED <<awards, disputes>>,
         \A a \in ActionId : actions'[a].status = "verified" => actions[a].status = "verified"
  PROVE  VerifiedHasReason'
BY ReasonStays DEF VerifiedHasReason

\* The two transactions that may pay: what they verify they pay for.
LEMMA ReasonAttest ==
  ASSUME KarmaInv, VerifiedHasReason, NEW s \in Slot, AttestCommit(s) \/ WebhookCommit(s)
  PROVE  VerifiedHasReason'
<1>1. CASE UNCHANGED <<actions, awards>>
  <2>1. disputes' = disputes
    BY DEF AttestCommit, WebhookCommit
  <2> QED BY <1>1, <2>1, ReasonQuiet
<1>2. CASE \E w : Verify(req[s].action, w)
  <2>1. PICK b : b = req[s].action
    OBVIOUS
  <2>2. /\ actions' = [actions EXCEPT ![b].status = "verified"]
        /\ awards' = [awards EXCEPT ![b] = @ + 1] /\ disputes' = disputes
    BY <1>2, <2>1 DEF Verify, AttestCommit, WebhookCommit
  <2>3. awards \in [ActionId -> Nat] /\ actions \in [ActionId -> ActionRow]
    BY DEF KarmaInv, TypeOK
  <2>4. ASSUME NEW a \in ActionId, a # b
        PROVE  actions'[a] = actions[a] /\ awards'[a] = awards[a]
    BY <2>2, <2>3, <2>4
  <2>5. b \in ActionId => awards'[b] > 0
    BY <2>2, <2>3
  <2> QED BY <2>2, <2>4, <2>5, ReasonStays DEF VerifiedHasReason
<1> QED BY <1>1, <1>2 DEF AttestCommit, WebhookCommit

\* A dispute or a ruling writes the disputes of one action: a new one is added, or the
\* pending one the ruling took is closed; none that was ruled is written again.
LEMMA ReasonDispute ==
  ASSUME KarmaInv, VerifiedHasReason, NEW s \in Slot, DisputeCommit(s) \/ \E n \in 0..2 : RulingCommit(s, n)
  PROVE  VerifiedHasReason'
<1>1. PICK b, i : b = req[s].action /\ i = req[s].arg
  OBVIOUS
<1>2. actions \in [ActionId -> ActionRow] /\ disputes \in [ActionId -> Seq(DisputeStatus)]
  BY DEF KarmaInv, TypeOK
<1>3. b \in ActionId
  BY <1>1 DEF KarmaInv, RequestsWellFormed, DisputeCommit, RulingCommit, Commit
<1>4. /\ awards' = awards /\ \E x : actions' = [actions EXCEPT ![b].status = x]
      /\ \E d : disputes' = [disputes EXCEPT ![b] = d]
  <2>1. CASE DisputeCommit(s)
    BY <1>1, <2>1 DEF DisputeCommit
  <2>2. ASSUME NEW n \in 0..2, RulingCommit(s, n)
        PROVE  /\ awards' = awards /\ \E x : actions' = [actions EXCEPT ![b].status = x]
               /\ \E d : disputes' = [disputes EXCEPT ![b] = d]
    <3>1. \E y : disputes' = [disputes EXCEPT ![b][i] = y]
      BY <1>1, <2>2 DEF RulingCommit
    <3> QED BY <1>1, <2>2, <3>1 DEF RulingCommit
  <2> QED BY <2>1, <2>2
<1>5. ASSUME NEW a \in ActionId, a # b
      PROVE  actions'[a] = actions[a] /\ disputes'[a] = disputes[a]
  BY <1>2, <1>4, <1>5
<1>6. actions'[b].status = "verified" =>
        \E j \in DOMAIN disputes'[b] : disputes'[b][j] \in {"ruled_clear", "ruled_refused"}
  <2>1. CASE DisputeCommit(s)
    <3>1. actions'[b].status = "disputed"
      BY <1>1, <1>2, <1>3, <2>1 DEF DisputeCommit, ActionRow
    <3> QED BY <3>1
  <2>2. ASSUME NEW n \in 0..2, RulingCommit(s, n)
        PROVE  actions'[b].status = "verified" =>
                 \E j \in DOMAIN disputes'[b] : disputes'[b][j] \in {"ruled_clear", "ruled_refused"}
    <3>1. i \in DOMAIN disputes[b]
      BY <1>1, <2>2 DEF KarmaInv, RulingInFlight, RulingCommit, Commit, PendingDisputes
    <3>2. CASE n = 1
      <4>1. actions'[b].status = "slashed"
        BY <1>1, <1>2, <1>3, <2>2, <3>2 DEF RulingCommit, ActionRow
      <4> QED BY <4>1
    <3>3. CASE n # 1
      <4>1. PICK y \in {"ruled_clear", "ruled_refused"} : disputes' = [disputes EXCEPT ![b][i] = y]
        BY <1>1, <2>2, <3>3 DEF RulingCommit
      <4>2. disputes'[b] = [disputes[b] EXCEPT ![i] = y]
        BY <1>2, <1>3, <4>1
      <4>3. i \in DOMAIN disputes'[b] /\ disputes'[b][i] = y
        BY <3>1, <4>2
      <4> QED BY <4>3
    <3> QED BY <3>2, <3>3
  <2> QED BY <2>1, <2>2
<1> QED BY <1>4, <1>5, <1>6, ReasonStays DEF VerifiedHasReason

\* No handler verifies without paying or ruling, and none takes a reason away.
LEMMA NextReason == KarmaInv /\ VerifiedHasReason /\ [Next]_vars => VerifiedHasReason'
<1> SUFFICES ASSUME KarmaInv, VerifiedHasReason, [Next]_vars PROVE VerifiedHasReason'
  OBVIOUS
<1>1. actions \in [ActionId -> ActionRow]
  BY DEF KarmaInv, TypeOK
<1>2. ASSUME NEW a \in ActionId, NEW e \in Poster, NEW k \in KarmaValue, SubmitAction(a, e, k)
      PROVE  VerifiedHasReason'
  <2>1. \A b \in ActionId : actions'[b].status = "verified" => actions[b].status = "verified"
    BY <1>1, <1>2 DEF SubmitAction
  <2> QED BY <1>2, <2>1, ReasonQuiet DEF SubmitAction
<1>3. ASSUME NEW e \in Entity, NEW d \in TrailAward, AwardTrailKarma(e, d)
      PROVE  VerifiedHasReason'
  BY <1>3, ReasonQuiet DEF AwardTrailKarma
<1>4. CASE UNCHANGED tables \/ UNCHANGED vars
  BY <1>4, ReasonQuiet DEF tables, vars
<1>5. ASSUME NEW s \in Slot, ReportCommit(s) \/ SlashCommit(s)
      PROVE  VerifiedHasReason'
  <2>1. UNCHANGED <<awards, disputes>>
    BY <1>5 DEF ReportCommit, SlashCommit
  <2>2. actions' = actions \/ actions' = [actions EXCEPT ![req[s].action].status = "slashed"]
    BY <1>5 DEF ReportCommit, SlashCommit
  <2>3. \A b \in ActionId : actions'[b].status = "verified" => actions[b].status = "verified"
    BY <1>1, <2>2 DEF ActionRow
  <2> QED BY <2>1, <2>3, ReasonQuiet
<1>6. ASSUME NEW s \in Slot, NEW a \in ActionId, NEW e \in Everyone,
             \/ AttestCheck(s, a, e) \/ McpAttestCheck(s, a, e)
             \/ ReportCheck(s, a, e) \/ SlashCheck(s, a, e) \/ DisputeCheck(s, a, e)
      PROVE  UNCHANGED tables
  BY <1>6 DEF AttestCheck, McpAttestCheck, ReportCheck, SlashCheck, DisputeCheck, Accept
<1>7. ASSUME NEW s \in Slot, NEW a \in ActionId, WebhookCheck(s, a) \/ RulingCheck(s, a)
      PROVE  UNCHANGED tables
  BY <1>7 DEF WebhookCheck, RulingCheck, Accept
<1>8. ASSUME NEW s \in Slot, AttestWeigh(s) \/ Abandon(s)
      PROVE  UNCHANGED tables
  BY <1>8 DEF AttestWeigh, Abandon
<1>9. NewDay => UNCHANGED tables
  BY DEF NewDay
<1> QED BY <1>2, <1>3, <1>4, <1>5, <1>6, <1>7, <1>8, <1>9, ReasonAttest, ReasonDispute DEF Next

\* kleros_ruling: an action that is verified without having been paid for was restored
\* by a ruling, in every interleaving of the handlers.
THEOREM VerifiedHasReasonHolds == Spec => []VerifiedHasReason
<1>1. Init => KarmaInv /\ VerifiedHasReason
  BY InitKarmaInv DEF Init, VerifiedHasReason
<1>2. KarmaInv /\ VerifiedHasReason /\ [Next]_vars => (KarmaInv /\ VerifiedHasReason)'
  BY NextKarmaInv, NextReason
<1> QED BY <1>1, <1>2, PTL DEF Spec

=============================================================================
