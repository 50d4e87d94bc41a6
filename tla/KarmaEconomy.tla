---------------------------- MODULE KarmaEconomy ----------------------------
(***************************************************************************)
(* The karma economy of argentum.py: actions, attestations, karma, reports, *)
(* slashes, disputes and Kleros rulings over one SQLite database.            *)
(*                                                                          *)
(* A handler that changes the database reads first, in autocommit, and then *)
(* runs one write transaction.  It is modelled as a Check step (all guards  *)
(* and early returns) followed by a Commit step (the transaction), with the  *)
(* request kept in a slot in between.  Where other handlers may run in       *)
(* between depends on the thread the handler lives on:                       *)
(*   loop - async REST handlers share one event loop and only give it up at  *)
(*          an await (attest_action awaits the marks service);               *)
(*   mcp  - the MCP tools run one at a time in their own thread;             *)
(*   pool - plain def handlers run concurrently in the server's threadpool.  *)
(* Threads interleave freely; SQLite serialises the transactions.            *)
(*                                                                          *)
(* Weights are in hundredths, total_karma_real in tenths, so that the        *)
(* arithmetic of the code is exact in integers.                              *)
(***************************************************************************)
EXTENDS Integers, Sequences, FiniteSets, FiniteSetsExt

CONSTANTS
  ActionId,    \* ids of the actions that get submitted
  Entity,      \* ordinary participants
  Poster,      \* the entities that submit actions
  Genesis,     \* GENESIS_ATTESTORS
  Lightning,   \* the genesis attestor the payment webhook speaks for
  Slot,        \* bound: handlers in flight at once
  Ops,         \* the endpoints in use
  KarmaValue,  \* karma of the action types that get submitted
  TrailAward,  \* karma deltas, in tenths, that trails award
  InitKarma,   \* Entity -> karma earned before the behaviour starts
  MaxPerDay,   \* MAX_ATTESTATIONS_PER_DAY
  MaxDay,      \* bound: days simulated
  MaxDisputes, \* bound: disputes ever opened on one action
  MaxReal,     \* bound on total_karma_real for trail awards, in tenths
  None         \* no action / no caller, in an empty slot

AllOps == {"attest", "mcp_attest", "webhook", "report", "slash", "dispute", "ruling", "trail"}
Everyone == Entity \cup Genesis

ASSUME GenesisAssumption ==
  Genesis \cap Entity = {} /\ Lightning \in Genesis /\ None \notin Everyone
ASSUME ActionAssumption == IsFiniteSet(ActionId)
ASSUME PosterAssumption == Poster \subseteq Entity
ASSUME OpsAssumption == Ops \subseteq AllOps
ASSUME KarmaAssumption ==
  /\ KarmaValue \subseteq Nat
  /\ TrailAward \subseteq Nat
  /\ InitKarma \in [Entity -> Nat]
ASSUME BoundsAssumption ==
  MaxPerDay \in Nat /\ MaxDay \in Nat /\ MaxDisputes \in Nat /\ MaxReal \in Nat

WEIGHT_THRESHOLD == 200
ATTESTATIONS_NEEDED == 2
GENESIS_WEIGHT == 100
KARMA_WEIGHT_MIN == 50
KARMA_WEIGHT_MAX == 200
WITNESS_KARMA == 5
MINIMUM_KARMA_TO_ATTEST == 0
MINIMUM_KARMA_TO_DISPUTE == 10

VARIABLES
  actions,       \* actions table: status, entity_id, karma_value
  attestations,  \* ActionId -> its attestation rows, oldest first
  wisdom,        \* wisdom table; an absent row reads and updates as zeros
  reports,       \* ActionId -> set of reports
  disputes,      \* ActionId -> statuses of its disputes, oldest first
  req,           \* Slot -> the handler in flight there
  day,           \* the calendar day of now()
  awards,        \* history: ActionId -> times its poster was paid karma_value
  trailKarma     \* history: Everyone -> tenths of karma earned with trails

vars == <<actions, attestations, wisdom, reports, disputes, req, day, awards, trailKarma>>
tables == <<actions, attestations, wisdom, reports, disputes, awards, trailKarma>>

-----------------------------------------------------------------------------
(* Karma arithmetic.                                                        *)

Clamp(x) == IF x < 0 THEN 0 ELSE x

\* Mutant of Upsert: the delta is added to the integer column and copied back.
UpsertFromTotal(w, delta, action, attestation) ==
  [total    |-> w.total + delta \div 10,
   real     |-> 10 * (w.total + delta \div 10),
   verified |-> w.verified + (IF action THEN 1 ELSE 0),
   given    |-> w.given + (IF attestation THEN 1 ELSE 0)]

\* upsert_wisdom: the integer column is recomputed from the REAL one.
Upsert(w, delta, action, attestation) ==
  [total    |-> (w.real + delta) \div 10,
   real     |-> w.real + delta,
   verified |-> w.verified + (IF action THEN 1 ELSE 0),
   given    |-> w.given + (IF attestation THEN 1 ELSE 0)]

\* max(MIN, min(MAX, karma / 50)), in hundredths.
KarmaWeight(karma) ==
  IF 2 * karma < KARMA_WEIGHT_MIN THEN KARMA_WEIGHT_MIN
  ELSE IF 2 * karma > KARMA_WEIGHT_MAX THEN KARMA_WEIGHT_MAX
  ELSE 2 * karma

RowsBy(a, e) == {i \in DOMAIN attestations[a] : attestations[a][i].attester = e}

TotalWeight(rows) ==
  LET weight == [i \in DOMAIN rows |-> rows[i].weight]
  IN  MapThenSumSet(LAMBDA i : weight[i], DOMAIN rows)

\* Attestations by e on or after the start of the current day, over all actions.
TodayCount(e) ==
  MapThenSumSet(LAMBDA a : Cardinality({i \in RowsBy(a, e) : attestations[a][i].day = day}),
                ActionId)

\* Mutant of Slash: the loss is taken from total_karma_real instead.
SlashWrongColumn(w, e, a) ==
  LET loss == (IF e = actions[a].entity THEN actions[a].karma ELSE 0)
              + (IF e \in Genesis THEN 0 ELSE WITNESS_KARMA * Cardinality(RowsBy(a, e)))
  IN  [w EXCEPT !.real = Clamp(@ - 10 * loss)]

\* What confirm_slash and ruling 1 take from w, the wisdom row of e.
Slash(w, e, a) ==
  LET loss == (IF e = actions[a].entity THEN actions[a].karma ELSE 0)
              + (IF e \in Genesis THEN 0 ELSE WITNESS_KARMA * Cardinality(RowsBy(a, e)))
  IN  [w EXCEPT !.total = Clamp(@ - loss),
                !.verified = IF e = actions[a].entity THEN Clamp(@ - 1) ELSE @]

-----------------------------------------------------------------------------
(* Requests and the threads they run on.                                    *)

Free == [op |-> "free", action |-> None, by |-> None, phase |-> "free", arg |-> 0]
Request(op, a, e, phase, arg) ==
  [op |-> op, action |-> a, by |-> e, phase |-> phase, arg |-> arg]

Thread(op) ==
  CASE op \in {"report", "slash"} -> "pool"
    [] op = "mcp_attest" -> "mcp"
    [] OTHER -> "loop"

\* Mutant of ThreadFree: an await between the reads and the transaction.
AlwaysFree(op) == TRUE

\* No other handler of op's thread is between its reads and its transaction.
ThreadFree(op) ==
  \/ Thread(op) = "pool"
  \/ \A s \in Slot : req[s].phase = "commit" => Thread(req[s].op) # Thread(op)

\* A handler passes its checks in slot s.
Accept(s, op, a, e, phase, arg) ==
  /\ op \in Ops
  /\ req[s] = Free
  /\ ThreadFree(op)
  /\ req' = [req EXCEPT ![s] = Request(op, a, e, phase, arg)]
  /\ UNCHANGED tables
  /\ UNCHANGED day

\* The handler of slot s, running op, reaches its transaction and answers.
Commit(s, ops) ==
  /\ req[s].op \in ops
  /\ req[s].phase = "commit"
  /\ req' = [req EXCEPT ![s] = Free]
  /\ UNCHANGED day

-----------------------------------------------------------------------------
Status == {"none", "pending", "verified", "disputed", "slashed"}
ActionRow == [status : Status, entity : Entity \cup {None}, karma : Nat]
WisdomRow == [total : Nat, real : Nat, verified : Nat, given : Nat]
AttestationRow == [attester : Everyone, weight : Nat, day : Nat]
DisputeStatus == {"pending", "ruled_slash", "ruled_clear", "ruled_refused"}
RequestRow == [op : AllOps \cup {"free"}, action : ActionId \cup {None},
               by : Everyone \cup {None}, phase : {"free", "marks", "commit"}, arg : Nat]

TypeOK ==
  /\ actions \in [ActionId -> ActionRow]
  /\ attestations \in [ActionId -> Seq(AttestationRow)]
  /\ wisdom \in [Everyone -> WisdomRow]
  /\ reports \in [ActionId -> SUBSET [reporter : Everyone, status : {"open", "confirmed"}]]
  /\ disputes \in [ActionId -> Seq(DisputeStatus)]
  /\ req \in [Slot -> RequestRow]
  /\ day \in Nat
  /\ awards \in [ActionId -> Nat]
  /\ trailKarma \in [Everyone -> Nat]

Init ==
  /\ actions = [a \in ActionId |-> [status |-> "none", entity |-> None, karma |-> 0]]
  /\ attestations = [a \in ActionId |-> <<>>]
  /\ wisdom = [e \in Everyone |->
                 LET k == IF e \in Entity THEN InitKarma[e] ELSE 0
                 IN  [total |-> k, real |-> 10 * k, verified |-> 0, given |-> 0]]
  /\ reports = [a \in ActionId |-> {}]
  /\ disputes = [a \in ActionId |-> <<>>]
  /\ req = [s \in Slot |-> Free]
  /\ day = 0
  /\ awards = [a \in ActionId |-> 0]
  /\ trailKarma = [e \in Everyone |-> 0]

-----------------------------------------------------------------------------
(* Submission and attestation.                                              *)

\* submit_action, REST or MCP: one INSERT of a fresh id.
SubmitAction(a, e, k) ==
  /\ actions[a].status = "none"
  /\ actions' = [actions EXCEPT ![a] = [status |-> "pending", entity |-> e, karma |-> k]]
  /\ UNCHANGED <<attestations, wisdom, reports, disputes, req, day, awards, trailKarma>>

\* The refusals both attest_action handlers share.
MayAttest(a, e) ==
  /\ actions[a].status \notin {"none", "verified"}
  /\ actions[a].entity # e
  /\ RowsBy(a, e) = {}

\* REST attest_action up to the marks lookup.  A genesis attestor skips the
\* daily limit and the lookup and goes straight to its transaction.
AttestCheck(s, a, e) ==
  /\ MayAttest(a, e)
  /\ \/ /\ e \in Genesis
        /\ Accept(s, "attest", a, e, "commit", GENESIS_WEIGHT)
     \/ /\ e \notin Genesis
        /\ TodayCount(e) < MaxPerDay
        /\ Accept(s, "attest", a, e, "marks", 0)

\* The marks service answered with at least one mark: back on the loop, the
\* attester's karma is read; an unsigned attestation counts half.
AttestWeigh(s) ==
  /\ req[s].phase = "marks"
  /\ ThreadFree("attest")
  /\ wisdom[req[s].by].total >= MINIMUM_KARMA_TO_ATTEST
  /\ \E signed \in BOOLEAN :
       LET weight == KarmaWeight(wisdom[req[s].by].total)
       IN  req' = [req EXCEPT ![s] = Request("attest", req[s].action, req[s].by, "commit",
                                             IF signed THEN weight ELSE weight \div 2)]
  /\ UNCHANGED tables
  /\ UNCHANGED day

\* The MCP tool: no daily limit, no marks, full weight without a signature.
McpAttestCheck(s, a, e) ==
  /\ MayAttest(a, e)
  /\ Accept(s, "mcp_attest", a, e, "commit",
            IF e \in Genesis THEN GENESIS_WEIGHT ELSE KarmaWeight(wisdom[e].total))

\* The poster of a is paid and a becomes verified.
Verify(a, w) ==
  LET p == actions[a].entity
  IN  /\ actions' = [actions EXCEPT ![a].status = "verified"]
      /\ awards' = [awards EXCEPT ![a] = @ + 1]
      /\ wisdom' = [w EXCEPT ![p] = Upsert(@, 10 * actions[a].karma, TRUE, FALSE)]

\* The transaction of both attest_action handlers.
AttestCommit(s) ==
  LET a == req[s].action
      e == req[s].by
      w == [wisdom EXCEPT ![e] = Upsert(@, 10 * WITNESS_KARMA, FALSE, TRUE)]
  IN  /\ Commit(s, {"attest", "mcp_attest"})
      /\ attestations' = [attestations EXCEPT
           ![a] = Append(@, [attester |-> e, weight |-> req[s].arg, day |-> day])]
      /\ \/ /\ TotalWeight(attestations'[a]) >= WEIGHT_THRESHOLD
            /\ Verify(a, w)
         \/ /\ TotalWeight(attestations'[a]) < WEIGHT_THRESHOLD
            /\ wisdom' = w
            /\ UNCHANGED <<actions, awards>>
      /\ UNCHANGED <<reports, disputes, trailKarma>>

\* payment_webhook, after its await: an attestation by "lightning" that earns
\* no witness karma and verifies on the number of attestations.
WebhookCheck(s, a) ==
  /\ actions[a].status = "pending"
  /\ RowsBy(a, Lightning) = {}
  /\ Accept(s, "webhook", a, Lightning, "commit", GENESIS_WEIGHT)

\* Mutant of WebhookCommit: the payment alone is enough.
WebhookCommitAlone(s) ==
  LET a == req[s].action
  IN  /\ Commit(s, {"webhook"})
      /\ attestations' = [attestations EXCEPT
           ![a] = Append(@, [attester |-> Lightning, weight |-> req[s].arg, day |-> day])]
      /\ Verify(a, wisdom)
      /\ UNCHANGED <<reports, disputes, trailKarma>>

WebhookCommit(s) ==
  LET a == req[s].action
  IN  /\ Commit(s, {"webhook"})
      /\ attestations' = [attestations EXCEPT
           ![a] = Append(@, [attester |-> Lightning, weight |-> req[s].arg, day |-> day])]
      /\ \/ /\ Len(attestations'[a]) >= ATTESTATIONS_NEEDED
            /\ Verify(a, wisdom)
         \/ /\ Len(attestations'[a]) < ATTESTATIONS_NEEDED
            /\ UNCHANGED <<actions, awards, wisdom>>
      /\ UNCHANGED <<reports, disputes, trailKarma>>

\* A successful trail execution pays its author; /external/trail and an anchored
\* /nexus/trail pay their agent and count as one of its verified actions.
AwardTrailKarma(e, d) ==
  /\ "trail" \in Ops
  /\ wisdom[e].real + d <= MaxReal
  /\ \E action \in BOOLEAN : wisdom' = [wisdom EXCEPT ![e] = Upsert(@, d, action, FALSE)]
  /\ trailKarma' = [trailKarma EXCEPT ![e] = @ + d]
  /\ UNCHANGED <<actions, attestations, reports, disputes, req, day, awards>>

-----------------------------------------------------------------------------
(* Reports and slashing.                                                    *)

\* Mutant of ReportCheck: any existing action can be reported.
ReportCheckAny(s, a, e) ==
  /\ actions[a].status # "none"
  /\ actions[a].entity # e
  /\ \A r \in reports[a] : r.reporter # e
  /\ Accept(s, "report", a, e, "commit", 0)

ReportCheck(s, a, e) ==
  /\ actions[a].status = "verified"
  /\ actions[a].entity # e
  /\ \A r \in reports[a] : r.reporter # e
  /\ Accept(s, "report", a, e, "commit", 0)

ReportCommit(s) ==
  /\ Commit(s, {"report"})
  /\ reports' = [reports EXCEPT
       ![req[s].action] = @ \cup {[reporter |-> req[s].by, status |-> "open"]}]
  /\ UNCHANGED <<actions, attestations, wisdom, disputes, awards, trailKarma>>

\* confirm_slash, up to its first UPDATE.
SlashCheck(s, a, g) ==
  /\ g \in Genesis
  /\ actions[a].status \notin {"none", "slashed"}
  /\ \E r \in reports[a] : r.status = "open"
  /\ Accept(s, "slash", a, g, "commit", 0)

SlashCommit(s) ==
  LET a == req[s].action
  IN  /\ Commit(s, {"slash"})
      /\ wisdom' = [e \in Everyone |-> Slash(wisdom[e], e, a)]
      /\ actions' = [actions EXCEPT ![a].status = "slashed"]
      /\ reports' = [reports EXCEPT ![a] = {[r EXCEPT !.status = "confirmed"] : r \in @}]
      /\ UNCHANGED <<attestations, disputes, awards, trailKarma>>

-----------------------------------------------------------------------------
(* Disputes and rulings.                                                    *)

PendingDisputes(a) == {i \in DOMAIN disputes[a] : disputes[a][i] = "pending"}

DisputeCheck(s, a, e) ==
  /\ actions[a].status \in {"verified", "pending"}
  /\ actions[a].entity # e
  /\ e \in Genesis \/ wisdom[e].total >= MINIMUM_KARMA_TO_DISPUTE
  /\ PendingDisputes(a) = {}
  /\ Len(disputes[a]) < MaxDisputes
  /\ Accept(s, "dispute", a, e, "commit", 0)

DisputeCommit(s) ==
  LET a == req[s].action
  IN  /\ Commit(s, {"dispute"})
      /\ disputes' = [disputes EXCEPT ![a] = Append(@, "pending")]
      /\ actions' = [actions EXCEPT ![a].status = "disputed"]
      /\ UNCHANGED <<attestations, wisdom, reports, awards, trailKarma>>

\* kleros_ruling takes the newest pending dispute; arg remembers which.
RulingCheck(s, a) ==
  /\ actions[a].status = "disputed"
  /\ \E i \in PendingDisputes(a) :
       /\ \A j \in PendingDisputes(a) : j <= i
       /\ Accept(s, "ruling", a, None, "commit", i)

\* Mutant of RulingCommit: a refused ruling closes the dispute and nothing else.
RulingCommitForgets(s, ruling) ==
  LET a == req[s].action
  IN  /\ Commit(s, {"ruling"})
      /\ disputes' = [disputes EXCEPT ![a][req[s].arg] = "ruled_refused"]
      /\ UNCHANGED <<actions, attestations, wisdom, reports, awards, trailKarma>>

\* Mutant of RulingCommit: the ruling restores the action and stays unrecorded.
RulingCommitUnrecorded(s, ruling) ==
  LET a == req[s].action
  IN  /\ Commit(s, {"ruling"})
      /\ actions' = [actions EXCEPT ![a].status = IF ruling = 1 THEN "slashed" ELSE "verified"]
      /\ UNCHANGED <<attestations, wisdom, reports, disputes, awards, trailKarma>>

\* Ruling 1 slashes; 2 (clear) and 0 (refused) restore the action to verified.
RulingCommit(s, ruling) ==
  LET a == req[s].action
  IN  /\ Commit(s, {"ruling"})
      /\ \/ /\ ruling = 1
            /\ wisdom' = [e \in Everyone |-> Slash(wisdom[e], e, a)]
            /\ actions' = [actions EXCEPT ![a].status = "slashed"]
            /\ disputes' = [disputes EXCEPT ![a][req[s].arg] = "ruled_slash"]
         \/ /\ ruling # 1
            /\ actions' = [actions EXCEPT ![a].status = "verified"]
            /\ disputes' = [disputes EXCEPT ![a][req[s].arg] =
                              IF ruling = 2 THEN "ruled_clear" ELSE "ruled_refused"]
            /\ UNCHANGED wisdom
      /\ UNCHANGED <<attestations, reports, awards, trailKarma>>

-----------------------------------------------------------------------------
\* A handler ends without its transaction: too few marks, "database is
\* locked", or the process restarting under it.
Abandon(s) ==
  /\ req[s] # Free
  /\ req' = [req EXCEPT ![s] = Free]
  /\ UNCHANGED tables
  /\ UNCHANGED day

NewDay ==
  /\ day < MaxDay
  /\ day' = day + 1
  /\ UNCHANGED tables
  /\ UNCHANGED req

Next ==
  \/ \E a \in ActionId, e \in Poster, k \in KarmaValue : SubmitAction(a, e, k)
  \/ \E s \in Slot, a \in ActionId, e \in Everyone :
       \/ AttestCheck(s, a, e) \/ McpAttestCheck(s, a, e)
       \/ ReportCheck(s, a, e) \/ SlashCheck(s, a, e) \/ DisputeCheck(s, a, e)
  \/ \E s \in Slot, a \in ActionId : WebhookCheck(s, a) \/ RulingCheck(s, a)
  \/ \E s \in Slot :
       \/ AttestWeigh(s) \/ AttestCommit(s) \/ WebhookCommit(s) \/ ReportCommit(s)
       \/ SlashCommit(s) \/ DisputeCommit(s) \/ \E n \in 0..2 : RulingCommit(s, n)
       \/ Abandon(s)
  \/ \E e \in Entity, d \in TrailAward : AwardTrailKarma(e, d)
  \/ NewDay

Spec == Init /\ [][Next]_vars

-----------------------------------------------------------------------------
(* Properties.                                                              *)

\* The two karma columns: total_karma, the one weights and dispute gates read,
\* never exceeds the total_karma_real that badges show, however upserts and
\* slashes interleave (and by TypeOK neither goes below zero).
KarmaColumns == \A e \in Everyone : 10 * wisdom[e].total <= wisdom[e].real

\* No award is lost or applied twice by concurrent transactions:
\* total_karma_real is what the rows of the database and the trails account for.
KarmaLedger ==
  \A e \in Entity :
    LET witnessed == [a \in ActionId |-> Cardinality(RowsBy(a, e))]
        earned == [a \in ActionId |-> awards[a] * actions[a].karma]
    IN  wisdom[e].real =
          10 * InitKarma[e] + trailKarma[e]
          + 10 * WITNESS_KARMA * MapThenSumSet(LAMBDA a : witnessed[a], ActionId)
          + 10 * MapThenSumSet(LAMBDA a : earned[a], {a \in ActionId : actions[a].entity = e})

\* A poster is only ever paid for an action whose attestations reach the
\* weight threshold, or number two with the Lightning payment among them.
PaidOnlyWithSupport ==
  \A a \in ActionId : awards[a] > 0 =>
    \/ TotalWeight(attestations[a]) >= WEIGHT_THRESHOLD
    \/ RowsBy(a, Lightning) # {} /\ Len(attestations[a]) >= ATTESTATIONS_NEEDED

\* open_dispute's "no double disputes" check holds although it is not in the
\* transaction: the event loop keeps disputes and rulings apart.
OnePendingDispute == \A a \in ActionId : \A i, j \in PendingDisputes(a) : i = j

\* kleros_ruling's "No pending dispute" 404 is unreachable for a disputed action.
DisputedHasDispute ==
  \A a \in ActionId : actions[a].status = "disputed" => PendingDisputes(a) # {}

\* kleros_ruling verifies what it restores without looking at the attestations: an
\* action that is verified and whose poster was never paid has been through a
\* ruling of 2 or 0, whatever was attested, reported or disputed since.
VerifiedHasReason ==
  \A a \in ActionId : actions[a].status = "verified" =>
    \/ awards[a] > 0
    \/ \E i \in DOMAIN disputes[a] : disputes[a][i] \in {"ruled_clear", "ruled_refused"}

\* Only an action that has been verified, or disputed, is ever slashed, and
\* nothing becomes pending again.
PendingNeverSlashed ==
  [][\A a \in ActionId :
       /\ actions[a].status = "pending" => actions'[a].status # "slashed"
       /\ actions[a].status # "none" => actions'[a].status \notin {"none", "pending"}
                                       \/ actions'[a] = actions[a]]_vars

-----------------------------------------------------------------------------
(* What the README and the code say of themselves and the code does not keep. *)

\* README, "max 5 attestations per day per entity (genesis attestors exempt)".
DailyLimit ==
  \A e \in Entity, d \in 0..day :
    MapThenSumSet(LAMBDA a : Cardinality({i \in RowsBy(a, e) : attestations[a][i].day = d}),
                  ActionId) <= MaxPerDay

\* open_dispute, "Action status moves to 'disputed' - karma frozen until ruling":
\* while a dispute stays pending, neither the status nor the award moves.
FrozenWhileDisputed ==
  [][\A a \in ActionId :
       (actions[a].status = "disputed" /\ PendingDisputes(a)' = PendingDisputes(a)) =>
         actions'[a].status = "disputed" /\ awards'[a] = awards[a]]_vars

\* README, "poster and attestors lose karma": what a slash took does not come
\* back, so a step raises total_karma by no more than the karma it awards.
SlashedKarmaStaysLost ==
  [][\A e \in Everyone :
       10 * (wisdom'[e].total - wisdom[e].total) < 10 + Clamp(wisdom'[e].real - wisdom[e].real)]_vars

-----------------------------------------------------------------------------
(* The inductive invariant behind KarmaColumns, OnePendingDispute,          *)
(* DisputedHasDispute and PendingNeverSlashed.  What a handler checked must  *)
(* still be true when it commits; for disputes and rulings it is, because    *)
(* both live on the event loop.                                             *)

\* A request in flight is about an action that exists.
RequestsWellFormed ==
  \A s \in Slot : req[s].phase # "free" =>
    /\ req[s].action \in ActionId
    /\ actions[req[s].action].status # "none"
    /\ req[s].op \in {"attest", "mcp_attest", "webhook", "report"} => req[s].by \in Everyone
    /\ req[s].phase = "marks" => req[s].op = "attest"

PostersKnown == \A a \in ActionId : actions[a].status # "none" => actions[a].entity \in Entity

\* The event loop is between the reads and the transaction of one handler only.
LoopExclusive ==
  \A s, t \in Slot :
    /\ req[s].phase = "commit" /\ Thread(req[s].op) = "loop"
    /\ req[t].phase = "commit" /\ Thread(req[t].op) = "loop"
    => s = t

\* What open_dispute and kleros_ruling read is not stale when they write.
DisputeInFlight ==
  \A s \in Slot : req[s].phase = "commit" /\ req[s].op = "dispute" =>
    PendingDisputes(req[s].action) = {}
RulingInFlight ==
  \A s \in Slot : req[s].phase = "commit" /\ req[s].op = "ruling" =>
    req[s].arg \in PendingDisputes(req[s].action)

\* Reports, slashes and rulings are about actions that left pending.
ReportedNotPending ==
  /\ \A a \in ActionId : reports[a] # {} => actions[a].status \notin {"none", "pending"}
  /\ \A s \in Slot : req[s].phase = "commit" /\ req[s].op \in {"report", "slash", "ruling"} =>
       actions[req[s].action].status \notin {"none", "pending"}

KarmaInv ==
  /\ TypeOK
  /\ RequestsWellFormed
  /\ PostersKnown
  /\ LoopExclusive
  /\ DisputeInFlight
  /\ RulingInFlight
  /\ ReportedNotPending
  /\ KarmaColumns
  /\ OnePendingDispute
  /\ DisputedHasDispute

\* And behind KarmaLedger and PaidOnlyWithSupport: nobody is paid for an action
\* before it is submitted, when its poster and its karma are not known.
PaidOnceSubmitted == \A a \in ActionId : actions[a].status = "none" => awards[a] = 0

LedgerInv ==
  /\ PaidOnceSubmitted
  /\ KarmaLedger
  /\ PaidOnlyWithSupport

=============================================================================
