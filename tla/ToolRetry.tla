------------------------------ MODULE ToolRetry ------------------------------
(***************************************************************************)
(* crewai-unguarded-retry: a tool with a real effect behind each of the     *)
(* guards of the worked example, under the re-dispatch of crewAI            *)
(* (identical arguments, a bounded number of attempts), re-proposals by the *)
(* model (other arguments) and restarts; the cases the example runs; and    *)
(* the ledger of idempotency-ref-v1.1, which its fourth guard implements.   *)
(* One agent calls here; the durable guard between concurrent workers has a *)
(* module of its own, IdempotencyGuard.                                     *)
(*                                                                          *)
(* A call is its logical action and its arguments; an effect is its         *)
(* position in the effect store. A digest is the value it digests, so an    *)
(* idempotency_ref is what it is derived from.                              *)
(***************************************************************************)
EXTENDS Naturals, Sequences, FiniteSets

CONSTANTS
  MAX_ATTEMPTS,  \* crewAI's _max_parsing_attempts
  MaxProposals,  \* bound: tool calls the model proposes
  MaxRestarts    \* bound

ASSUME ToolRetryAssumption ==
  MAX_ATTEMPTS \in Nat \ {0, 1} /\ MaxProposals \in Nat /\ MaxRestarts \in Nat

VARIABLES
  tool,       \* which guard the tool has
  world,      \* the guard's records and bound digests, by idempotency_ref, the
              \* EffectStore, and what the last attempt came to
  calling,    \* the ToolCalling being dispatched, and its attempts left
  proposals,  \* calls proposed so far (history: a sequence)
  restarts,
  answers     \* what the tool returned (history)

toolVars == <<tool, world, calling, proposals, restarts, answers>>

NoEffect == 0
Actions == {"A", "B"}
Arguments == {100, 250}
Call(action, args) == [action |-> action, args |-> args]
\* Two calls share an action, the arguments, both, or neither.
Calls == {Call("A", 100), Call("A", 250), Call("B", 100)}
NoCall == [left |-> 0]
Modes == {"conformant", "no_digest_check", "content_key", "digest_inside"}
Tools == {"unguarded", "guarded", "durable", "bound"} \cup Modes

-----------------------------------------------------------------------------
(* One attempt                                                              *)

\* f with v at x.
With(f, x, v) == [y \in DOMAIN f \cup {x} |-> IF y = x THEN v ELSE f[y]]

Raised == [returned |-> FALSE, outcome |-> "none", effect |-> NoEffect]
Returned(outcome, effect) == [returned |-> TRUE, outcome |-> outcome, effect |-> effect]

NewGuard == [records |-> <<>>, bound |-> <<>>, effects |-> <<>>, last |-> Raised]

\* apply_effect, one transaction.
ApplyEffect(effects, call) == Append(effects, call)

\* What a tool function does: it returns, or it raises before or after its
\* effect commits, or once its guard has returned (the acknowledgement is lost).
Runs == {"returns", "raises_after", "raises_before", "lost_ack"}

\* The effect runs; the guard's records once it has returned, or raised.
RunEffect(w, call, run, outcome, whenReturned, whenRaised) ==
  [records |-> IF run \in {"returns", "lost_ack"} THEN whenReturned ELSE whenRaised,
   bound |-> w.bound,
   effects |-> IF run = "raises_before" THEN w.effects ELSE ApplyEffect(w.effects, call),
   last |-> IF run = "returns" THEN Returned(outcome, Len(w.effects) + 1) ELSE Raised]

\* The guard answers without running the effect.
Refuse(w, outcome, effect) == [w EXCEPT !.last = Returned(outcome, effect)]

Unguarded(w, call, run) == RunEffect(w, call, run, "COMMITTED", w.records, w.records)

\* derive_idempotency_ref: of the logical action, never of the arguments.
IdempotencyRef(call) == call.action

Status(w, ref) == IF ref \in DOMAIN w.records THEN w.records[ref].status ELSE "none"

Pending == [status |-> "PENDING", effect |-> NoEffect]

\* IdempotencyGuard.guard.
Guard(w, call, run) ==
  LET ref == IdempotencyRef(call) IN
  CASE Status(w, ref) = "COMMITTED" -> Refuse(w, "RECONCILED_GUARD", w.records[ref].effect)
    [] Status(w, ref) = "PENDING" -> Refuse(w, "PENDING_GUARD", NoEffect)
    [] OTHER ->
         RunEffect(w, call, run, "COMMITTED",
                   With(w.records, ref, [status |-> "COMMITTED", effect |-> Len(w.effects) + 1]),
                   With(w.records, ref, Pending))

\* DurableIdempotencyGuard.guard: the PENDING record is reserved before the
\* effect, so it is there however the effect ends. One worker always reserves.
DurableGuard(w, call, run) ==
  LET ref == IdempotencyRef(call)
      reserved == [w EXCEPT !.records = With(@, ref, Pending)]
  IN IF Status(w, ref) # "none" THEN Guard(w, call, run)
     ELSE RunEffect(reserved, call, run, "COMMITTED",
                    With(reserved.records, ref, [status |-> "COMMITTED", effect |-> Len(w.effects) + 1]),
                    reserved.records)

\* ArgumentBoundGuard.guard: the digest is bound before the guard is asked. The
\* tool turns the error into an answer.
BoundGuard(w, call, run) ==
  LET ref == IdempotencyRef(call) IN
  IF ref \in DOMAIN w.bound /\ w.bound[ref] # call.args
  THEN Refuse(w, "ARGUMENT_MISMATCH_REQUIRES_NEW_DECISION", NoEffect)
  ELSE Guard([w EXCEPT !.bound = With(@, ref, call.args)], call, run)

\* LogicalIdentityGuard.artifact.
Artifact(mode, call) ==
  CASE mode = "content_key" -> <<"payload", call.args>>
    [] mode = "digest_inside" -> <<call.action, call.args>>
    [] OTHER -> <<call.action>>

\* Mutant of LogicalDispatch: admission is recorded after the effect.
LogicalDispatchAdmitsLate(mode, w, call, run) ==
  LET ref == Artifact(mode, call) IN
  CASE ref \notin DOMAIN w.records ->
         RunEffect(w, call, run, "EXECUTE",
                   With(w.records, ref, [digest |-> call.args, effect |-> Len(w.effects) + 1]), w.records)
    [] ref \in DOMAIN w.records /\ (mode = "no_digest_check" \/ w.records[ref].digest = call.args) ->
         Refuse(w, "DUPLICATE", w.records[ref].effect)
    [] OTHER -> Refuse(w, "CONFLICT", NoEffect)

\* LogicalIdentityGuard.dispatch: the admission is recorded before the effect.
LogicalDispatch(mode, w, call, run) ==
  LET ref == Artifact(mode, call) IN
  CASE ref \notin DOMAIN w.records ->
         RunEffect(w, call, run, "EXECUTE",
                   With(w.records, ref, [digest |-> call.args, effect |-> Len(w.effects) + 1]),
                   With(w.records, ref, [digest |-> call.args, effect |-> NoEffect]))
    [] ref \in DOMAIN w.records /\ (mode = "no_digest_check" \/ w.records[ref].digest = call.args) ->
         Refuse(w, "DUPLICATE", w.records[ref].effect)
    [] OTHER -> Refuse(w, "CONFLICT", NoEffect)

Attempt(t, w, call, run) ==
  CASE t = "unguarded" -> Unguarded(w, call, run)
    [] t = "guarded" -> Guard(w, call, run)
    [] t = "durable" -> DurableGuard(w, call, run)
    [] t = "bound" -> BoundGuard(w, call, run)
    [] OTHER -> LogicalDispatch(t, w, call, run)

EffectsIn(w, action) == {i \in DOMAIN w.effects : w.effects[i].action = action}

\* IdempotencyGuard.reconcile: on what the effect store shows, from PENDING only.
Reconcile(w, action) ==
  LET seen == EffectsIn(w, action) IN
  IF Status(w, action) # "PENDING" \/ seen = {} THEN w
  ELSE [w EXCEPT !.records = With(@, action, [status |-> "COMMITTED",
                                              effect |-> CHOOSE i \in seen : \A j \in seen : i <= j])]

-----------------------------------------------------------------------------
(* crewAI's ToolUsage                                                       *)

ToolInit ==
  /\ tool \in Tools
  /\ world = NewGuard
  /\ calling = NoCall
  /\ proposals = <<>>
  /\ restarts = 0
  /\ answers = {}

\* The harness builds a ToolCalling; a single call has one attempt.
Propose(call, attempts) ==
  /\ calling = NoCall
  /\ Len(proposals) < MaxProposals
  /\ calling' = [left |-> attempts, call |-> call]
  /\ proposals' = Append(proposals, call)
  /\ UNCHANGED <<tool, world, restarts, answers>>

\* One attempt. While it raises, crewAI sends the same ToolCalling again.
ToolUse(run) ==
  /\ calling # NoCall
  /\ run = "lost_ack" => tool \in Modes /\ calling.left > 1
  /\ world' = Attempt(tool, world, calling.call, run)
  /\ calling' = IF world'.last.returned \/ calling.left = 1 THEN NoCall ELSE [calling EXCEPT !.left = @ - 1]
  /\ answers' = IF world'.last.returned
                THEN answers \cup {[call |-> calling.call, outcome |-> world'.last.outcome,
                                    effect |-> world'.last.effect]}
                ELSE answers
  /\ UNCHANGED <<tool, proposals, restarts>>

ReconcileRecord(action) ==
  /\ tool \in {"guarded", "durable"} /\ calling = NoCall
  /\ Reconcile(world, action) # world
  /\ world' = Reconcile(world, action)
  /\ UNCHANGED <<tool, calling, proposals, restarts, answers>>

\* A new process: the effect store is kept, and the guard's records if durable.
Restarted(t, w) ==
  [records |-> IF t = "durable" THEN w.records ELSE <<>>, bound |-> <<>>,
   effects |-> w.effects, last |-> Raised]

NewProcess ==
  /\ tool # "unguarded"
  /\ restarts < MaxRestarts
  /\ world' = Restarted(tool, world)
  /\ calling' = NoCall
  /\ restarts' = restarts + 1
  /\ UNCHANGED <<tool, proposals, answers>>

ToolNext ==
  \/ \E call \in Calls, attempts \in {1, MAX_ATTEMPTS} : Propose(call, attempts)
  \/ \E run \in Runs : ToolUse(run)
  \/ \E action \in Actions : ReconcileRecord(action)
  \/ NewProcess

-----------------------------------------------------------------------------
(* The cases, each a world left by a fixed sequence of calls                *)

\* use() with one tool function that always does run.
Use(t, w, call, attempts, run) ==
  LET after[n \in 0..attempts] ==
        IF n = 0 THEN w
        ELSE IF n > 1 /\ after[n - 1].last.returned THEN after[n - 1]
        ELSE Attempt(t, after[n - 1], call, run)
  IN after[attempts]

PayOf(amount) == Call("A", amount)

UnguardedCase == Use("unguarded", NewGuard, PayOf(100), MAX_ATTEMPTS, "raises_after")

GuardedCase == Reconcile(Use("guarded", NewGuard, PayOf(100), MAX_ATTEMPTS, "raises_after"), "A")

\* Two single calls, with two amounts.
MismatchCase(t) ==
  Use(t, Use(t, NewGuard, PayOf(100), 1, "returns"), PayOf(250), 1, "returns")

ArgumentMismatchNaive == MismatchCase("guarded")
ArgumentMismatchGuarded == MismatchCase("bound")

\* Attempt 1 dies after its effect, a new process makes attempt 2.
RestartCase(t) ==
  Use(t, Restarted(t, Use(t, NewGuard, PayOf(100), 1, "raises_after")), PayOf(100), 1, "returns")

RestartNaive == RestartCase("guarded")
RestartGuarded == Reconcile(RestartCase("durable"), "A")

\* What verify, verify_argument_mismatch and verify_restart check.
CasesComeOut ==
  /\ Len(UnguardedCase.effects) > 1
  /\ Len(GuardedCase.effects) = 1 /\ GuardedCase.records["A"].status = "COMMITTED"
  /\ ArgumentMismatchNaive.effects = <<PayOf(100)>>
  /\ ArgumentMismatchNaive.last.outcome = "RECONCILED_GUARD"
  /\ ArgumentMismatchGuarded.effects = <<PayOf(100)>>
  /\ ArgumentMismatchGuarded.last.outcome = "ARGUMENT_MISMATCH_REQUIRES_NEW_DECISION"
  /\ Len(RestartNaive.effects) = 2 /\ RestartNaive.last.outcome = "COMMITTED"
  /\ Len(RestartGuarded.effects) = 1 /\ RestartGuarded.last.outcome = "PENDING_GUARD"
  /\ RestartGuarded.records["A"] = [status |-> "COMMITTED", effect |-> 1]

-----------------------------------------------------------------------------
(* idempotency-ref-v1.1: the four events, the ledger, and the negatives     *)

Events == <<PayOf(100), PayOf(100), Call("B", 100), PayOf(250)>>

\* decide: the ledger maps an idempotency_ref to the digest admitted.
Decide(ledger, ref, digest, checkDigest) ==
  CASE ref \notin DOMAIN ledger -> "EXECUTE"
    [] ref \in DOMAIN ledger /\ (~checkDigest \/ ledger[ref] = digest) -> "DUPLICATE"
    [] OTHER -> "CONFLICT"

NoReplay == [ledger |-> <<>>, effects |-> 0, out |-> <<>>]

\* One event against the ledger.
Entered(mode, s, call) ==
  LET ref == Artifact(mode, call)
      outcome == Decide(s.ledger, ref, call.args, mode # "no_digest_check")
      n == s.effects + (IF outcome = "EXECUTE" THEN 1 ELSE 0)
  IN [ledger |-> IF outcome = "EXECUTE" THEN With(s.ledger, ref, call.args) ELSE s.ledger,
      effects |-> n, out |-> Append(s.out, <<outcome, n>>)]

\* replay, with the references that the mode derives.
Replay(mode, calls) ==
  LET after[n \in 0..Len(calls)] ==
        IF n = 0 THEN NoReplay ELSE Entered(mode, after[n - 1], calls[n])
  IN after[Len(calls)]

\* The same events through the guard, the first acknowledgement lost.
LogicalIdentityCase(mode) ==
  LET w1 == Attempt(mode, NewGuard, Events[1], "lost_ack")
      w2 == Attempt(mode, w1, Events[2], "returns")
      w3 == Attempt(mode, w2, Events[3], "returns")
      w4 == Attempt(mode, w3, Events[4], "returns")
  IN <<<<"EXECUTE", Len(w1.effects)>>, <<w2.last.outcome, Len(w2.effects)>>,
       <<w3.last.outcome, Len(w3.effects)>>, <<w4.last.outcome, Len(w4.effects)>>>>

\* What build.py declares of the events.
Declared == <<<<"EXECUTE", 1>>, <<"DUPLICATE", 1>>, <<"EXECUTE", 2>>, <<"CONFLICT", 2>>>>

FirstDivergence(got) ==
  LET apart == {i \in DOMAIN got : got[i] # Declared[i]} IN
  IF apart = {} THEN <<>>
  ELSE LET first == CHOOSE i \in apart : \A j \in apart : i <= j IN <<first, got[first]>>

ExpectedDivergence ==
  [conformant |-> <<>>, content_key |-> <<3, <<"DUPLICATE", 1>>>>,
   no_digest_check |-> <<4, <<"DUPLICATE", 2>>>>, digest_inside |-> <<4, <<"EXECUTE", 3>>>>]

\* The verifiers of the vectors, over the ledger and through crewAI.
LedgerVerifies(mode) == FirstDivergence(Replay(mode, Events).out) = ExpectedDivergence[mode]

GuardVerifies(mode) == FirstDivergence(LogicalIdentityCase(mode)) = ExpectedDivergence[mode]

-----------------------------------------------------------------------------

EffectsOf(action) == EffectsIn(world, action)

FirstProposed(action) ==
  proposals[CHOOSE i \in DOMAIN proposals :
              proposals[i].action = action /\ \A j \in 1..(i - 1) : proposals[j].action # action].args

(***************************************************************************)
(* Under re-dispatch, changed arguments, lost acknowledgements and effects  *)
(* that raise on either side of their commit, every guard keyed on the      *)
(* logical action lets one effect per action through in the life of a       *)
(* process, and the durable one across processes; the argument-bound and    *)
(* the conformant v1.1 guard also never answer a call with the effect of    *)
(* another action or of other arguments, and within one process run only    *)
(* what the action was first proposed with. The keys derived from content   *)
(* keep the arguments right and lose the action, or the other way about,    *)
(* which is why they are not conformant. A guard of idempotency-ref-v1.1    *)
(* never runs what a replay of the calls proposed to its process against    *)
(* the ledger of its mode would not, and the cases and the vectors come out *)
(* as their runners and verifiers require.                                  *)
(***************************************************************************)
OneEffectPerLogicalAction ==
  /\ tool \in {"guarded", "bound", "conformant", "no_digest_check"} =>
       \A a \in Actions : Cardinality(EffectsOf(a)) <= 1 + restarts
  /\ tool = "durable" => \A a \in Actions : Cardinality(EffectsOf(a)) <= 1
  /\ tool \in {"bound", "conformant"} =>
       /\ \A x \in answers : x.effect # NoEffect => world.effects[x.effect] = x.call
       /\ restarts = 0 => \A i \in DOMAIN world.effects : world.effects[i].args = FirstProposed(world.effects[i].action)
  /\ tool \in {"guarded", "durable", "no_digest_check"} =>
       \A x \in answers : x.effect # NoEffect => world.effects[x.effect].action = x.call.action
  /\ tool \in {"content_key", "digest_inside"} =>
       \A x \in answers : x.effect # NoEffect => world.effects[x.effect].args = x.call.args
  /\ tool = "content_key" => Len(world.effects) <= Cardinality(Arguments) * (1 + restarts)
  /\ tool \in Modes /\ restarts = 0 =>
       LET replayed == Replay(tool, proposals) IN
       /\ Len(world.effects) <= replayed.effects
       /\ \A ref \in DOMAIN world.records :
            ref \in DOMAIN replayed.ledger /\ world.records[ref].digest = replayed.ledger[ref]
  /\ tool \in Modes /\ proposals = <<>> => LedgerVerifies(tool) /\ GuardVerifies(tool)
  /\ tool = "unguarded" /\ proposals = <<>> => CasesComeOut

-----------------------------------------------------------------------------
(* The inductive invariant behind OneEffectPerLogicalAction.                  *)

\* What a guard keys its records on.
Ref(t, call) == IF t \in Modes THEN Artifact(t, call) ELSE IdempotencyRef(call)

ToolTypeOK ==
  /\ tool \in Tools
  /\ world = [records |-> world.records, bound |-> world.bound, effects |-> world.effects, last |-> world.last]
  /\ world.effects \in Seq(Calls)
  /\ calling = NoCall \/ calling \in [left : Nat \ {0}, call : Calls]
  /\ proposals \in Seq(Calls)
  /\ calling # NoCall => proposals # <<>> /\ calling.call = proposals[Len(proposals)]
  /\ restarts \in Nat

\* Effect i is one a call with this reference had, in this guard's eyes.
EffectFits(t, w, ref, i) ==
  /\ i \in DOMAIN w.effects /\ Ref(t, w.effects[i]) = ref
  /\ t = "bound" => w.effects[i].args = w.bound[ref]
  /\ t \in Modes => w.effects[i].args = w.records[ref].digest

\* A record that names an effect names one of its own key and arguments.
RecordsFit(t, w) ==
  \A ref \in DOMAIN w.records :
    /\ w.records[ref].effect # NoEffect => EffectFits(t, w, ref, w.records[ref].effect)
    /\ t \in {"guarded", "durable", "bound"} =>
         ref \in Actions /\ (w.records[ref] = Pending \/ w.records[ref].status = "COMMITTED")
    /\ t = "bound" => ref \in DOMAIN w.bound

AnswersFit(t, w) ==
  \A x \in answers :
    /\ x.call \in Calls
    /\ x.effect # NoEffect =>
         /\ x.effect \in DOMAIN w.effects /\ Ref(t, w.effects[x.effect]) = Ref(t, x.call)
         /\ t \in {"bound", "conformant"} => w.effects[x.effect].args = x.call.args

\* One effect per key in the life of a process (in any, if the records are
\* durable), and none before its record.
OncePerKey(t, w, lives) ==
  \A ref \in {Ref(t, call) : call \in Calls} :
    Cardinality({i \in DOMAIN w.effects : Ref(t, w.effects[i]) = ref})
      <= lives + (IF ref \in DOMAIN w.records THEN 1 ELSE 0)

\* The arguments the first of some calls with this action had.
FirstArgs(calls, action, args) ==
  \E i \in DOMAIN calls : calls[i] = Call(action, args) /\ \A j \in 1..(i - 1) : calls[j].action # action

\* The arguments a guard holds an action to.
HeldArgs(t, w) ==
  IF t = "bound" THEN {Call(a, w.bound[a]) : a \in Actions \cap DOMAIN w.bound}
  ELSE {Call(a, w.records[<<a>>].digest) : a \in {b \in Actions : <<b>> \in DOMAIN w.records}}

\* In the first process, it holds each action called so far to what came first.
FirstHeld(t, w) ==
  /\ \A i \in DOMAIN w.effects : w.effects[i] \in HeldArgs(t, w)
  /\ \A held \in HeldArgs(t, w) : FirstArgs(proposals, held.action, held.args)
  /\ \A i \in DOMAIN proposals :
       \/ i = Len(proposals) /\ calling # NoCall
       \/ \E held \in HeldArgs(t, w) : held.action = proposals[i].action

\* There, the records of a v1.1 guard are the ledger of the calls it has seen.
InLedger(t, w) ==
  LET replayed == Replay(t, proposals)
      due == (IF calling = NoCall THEN {} ELSE {Artifact(t, calling.call)}) \ DOMAIN w.records
  IN /\ DOMAIN replayed.ledger = DOMAIN w.records \cup due
     /\ \A ref \in DOMAIN w.records : w.records[ref].digest = replayed.ledger[ref]
     /\ \A ref \in due : calling.call.args = replayed.ledger[ref]
     /\ replayed.effects \in Nat /\ Len(w.effects) + Cardinality(due) <= replayed.effects

ToolInv ==
  /\ ToolTypeOK
  /\ RecordsFit(tool, world)
  /\ AnswersFit(tool, world)
  /\ tool # "unguarded" => OncePerKey(tool, world, IF tool = "durable" THEN 0 ELSE restarts)
  /\ tool \in {"bound", "conformant"} /\ restarts = 0 => FirstHeld(tool, world)
  /\ tool \in Modes /\ restarts = 0 => InLedger(tool, world)
=============================================================================
