---------------------------- MODULE ExecutionJoin ----------------------------
(***************************************************************************)
(* The execution-join-ref-v1 verifier: verify_vector, the test of the       *)
(* reason of a FAIL vector, map_authority_at_dispatch, and the Case E       *)
(* worked example that reuses the post-commit invariant.                    *)
(*                                                                          *)
(* A record keeps, of the envelope and the preimages supplied with it, what *)
(* the invariants tell apart:                                               *)
(*   supplied  the vector has a preimages object at all                     *)
(*   sealed    every preimage digests to the envelope's reference           *)
(*   eff       effective_action_ref: none, same as action_ref, rewritten    *)
(*   dec       the decision preimage: the reference it names, its outcome,  *)
(*             whether policy_expires_ms is before ts_ms, its profile,      *)
(*             whether it has its required fields                           *)
(*   res, proof  the preimage: none, bound to this attempt_id, or not       *)
(*   pc        the post-commit observation                                  *)
(*   unique    checks.no_duplicate_attempt / result_uniqueness              *)
(* A fixture is authored with the checks computed then, and may be edited   *)
(* afterwards without them.                                                 *)
(***************************************************************************)
EXTENDS Naturals, FiniteSets

VARIABLES
  vector,    \* the vector: the record, and expected, checks, mode as authored
  now,       \* the record as the verifier sees it
  mapping    \* the latest case of map_authority_at_dispatch or Case E (history)

joinVars == <<vector, now, mapping>>

NoDecision == [names |-> "none"]
Decision ==
  [names |-> "action", outcome |-> "permit", expired |-> FALSE, profile |-> "none", complete |-> TRUE]

Sound ==
  [supplied |-> TRUE, sealed |-> TRUE, eff |-> "none",
   dec |-> Decision,
   res |-> "bound", proof |-> "bound", pc |-> "none", unique |-> TRUE]

\* The decisions, and the records, that differ in one part.
ChangedDecision(d) ==
  IF d = NoDecision THEN {Decision}
  ELSE {NoDecision, [d EXCEPT !.expired = ~@], [d EXCEPT !.complete = ~@]}
       \cup {[d EXCEPT !.names = x] : x \in {"action", "effective"}}
       \cup {[d EXCEPT !.outcome = x] : x \in {"permit", "deny"}}
       \cup {[d EXCEPT !.profile = x] : x \in {"none", "known", "unknown"}}

Changed(r) ==
  {[r EXCEPT !.supplied = ~@], [r EXCEPT !.sealed = ~@], [r EXCEPT !.unique = ~@]}
  \cup {[r EXCEPT !.eff = x] : x \in {"none", "same", "rewritten"}}
  \cup {[r EXCEPT !.dec = x] : x \in ChangedDecision(r.dec)}
  \cup {[r EXCEPT !.res = x] : x \in {"none", "bound", "unbound"}}
  \cup {[r EXCEPT !.proof = x] : x \in {"none", "bound", "unbound"}}
  \cup {[r EXCEPT !.pc = x] : x \in {"none", "agrees", "diverges", "incomplete"}}

-----------------------------------------------------------------------------
(* verify_vector. Without preimages nothing is recomputed.                  *)

HasDecision(r) == r.supplied /\ r.dec # NoDecision
HasResult(r) == r.supplied /\ r.res # "none"
HasProof(r) == r.supplied /\ r.proof # "none"
HasObservation(r) == r.supplied /\ r.pc # "none"

Offline(r, mode) == ~r.supplied /\ mode = "VERIFIER_OFFLINE"
UnsupportedProfile(r) == HasDecision(r) /\ r.dec.profile = "unknown"
Malformed(r) == HasDecision(r) /\ ~r.dec.complete

\* 1. The observation is invariant 7's.
CanonicalOk(r) ==
  ~Malformed(r) /\ (r.sealed \/ ~(HasDecision(r) \/ HasResult(r) \/ HasProof(r)))

\* 2. decision -> action_ref, result -> attempt_id.
NamesAction(r) == r.dec.names = "action" \/ (r.eff = "same" /\ r.dec.names = "effective")

ChainOk(r) ==
  /\ HasDecision(r) => ~Malformed(r) /\ NamesAction(r)
  /\ HasResult(r) => r.res = "bound"

\* 6. The reference dispatched is the effective one where there is one.
NamesTarget(r) == IF r.eff = "rewritten" THEN r.dec.names = "effective" ELSE NamesAction(r)

EffectiveCallOk(r) ==
  /\ CanonicalOk(r)
  /\ HasDecision(r) /\ ~Malformed(r) /\ NamesTarget(r) /\ r.dec.outcome = "permit"
  /\ ~r.dec.expired

\* 7. Against the result preimage's output_hash.
PostCommitOk(r) == r.pc = "agrees" /\ r.sealed /\ HasResult(r)

\* computed: the invariants this record lets the verifier compute.
Recomputable(r) ==
  {k \in {"canonical_envelope"} : HasDecision(r) \/ HasResult(r) \/ HasProof(r) \/ HasObservation(r)}
  \cup {k \in {"chain_integrity"} : HasDecision(r) \/ HasResult(r)}
  \cup {k \in {"proof_binding"} : HasProof(r)}
  \cup {k \in {"effective_call_binding"} : HasDecision(r) \/ r.eff # "none"}
  \cup {k \in {"post_commit_consistency"} : HasObservation(r)}

Computed(r) ==
  [k \in Recomputable(r) |->
     CASE k = "canonical_envelope" -> CanonicalOk(r)
       [] k = "chain_integrity" -> ChainOk(r)
       [] k = "proof_binding" -> r.proof = "bound"
       [] k = "effective_call_binding" -> EffectiveCallOk(r)
       [] k = "post_commit_consistency" -> PostCommitOk(r)]

False(f) == {k \in DOMAIN f : ~f[k]}

\* _check: false by itself, or other than the fixture declares.
JoinFailures(r, checks, mode) ==
  IF Offline(r, mode) THEN {"VERIFIER_OFFLINE"}
  ELSE IF UnsupportedProfile(r) THEN {"UNSUPPORTED_CANONICAL_PROFILE"}
  ELSE False(Computed(r))
       \cup {k \in DOMAIN Computed(r) \cap DOMAIN checks : checks[k] # Computed(r)[k]}
       \cup (False(checks) \cap {"unique"})

ConfirmedBy(r, checks, mode) ==
  {k \in False(checks) \ {"unique"} :
     ~Offline(r, mode) /\ ~UnsupportedProfile(r) /\ k \in False(Computed(r))}
  \cup (False(checks) \cap {"unique"} \cap JoinFailures(r, checks, mode))

\* Mutant of ExpectedReasonConfirmed: any failure will do.
AnyFailureConfirms(r, checks, mode) == JoinFailures(r, checks, mode) # {}

\* _expected_reason_confirmed: a check declared false is false still, or, with
\* none declared so, the failure is the sentinel.
ExpectedReasonConfirmed(r, checks, mode) ==
  IF False(checks) # {} THEN ConfirmedBy(r, checks, mode) # {}
  ELSE mode \in JoinFailures(r, checks, mode)

\* main: the line printed for one vector is a tick.
RunnerOk(v, r) ==
  LET conforms == JoinFailures(r, v.checks, v.mode) = {}
  IN IF v.expected = "PASS" THEN conforms
     ELSE ~conforms /\ ExpectedReasonConfirmed(r, v.checks, v.mode)

-----------------------------------------------------------------------------
(* Case E: task and request recompute, authority and acceptance are         *)
(* declared, the later observation agrees with the response committed to.   *)

CaseEInputs ==
  [task : BOOLEAN, request : BOOLEAN, authority : BOOLEAN, acceptance : BOOLEAN,
   pc_request : BOOLEAN, pc_hash : BOOLEAN, declared : {"none", "true", "false"}]

CaseE(e) ==
  LET canonical == e.task /\ e.request
      pc == e.pc_request /\ e.pc_hash
  IN {x \in {"canonical_envelope"} : ~canonical \/ (e.declared # "none" /\ (e.declared = "true") # canonical)}
     \cup {x \in {"authority_and_payment"} : ~e.authority}
     \cup {x \in {"acceptance"} : ~e.acceptance}
     \cup {x \in {"post_commit_consistency"} : ~pc}

-----------------------------------------------------------------------------

\* The fixture's convention: a vector the verifier halts on declares no check.
Authored(r) ==
  LET mode == IF ~r.supplied /\ r.unique THEN "VERIFIER_OFFLINE"
              ELSE IF UnsupportedProfile(r) THEN "UNSUPPORTED_CANONICAL_PROFILE" ELSE "none"
      checks == IF mode = "none"
                THEN [k \in {"unique"} \cup Recomputable(r) |-> IF k = "unique" THEN r.unique ELSE Computed(r)[k]]
                ELSE <<>>
  IN [checks |-> checks, mode |-> mode, record |-> r,
      expected |-> IF JoinFailures(r, checks, mode) = {} THEN "PASS" ELSE "FAIL"]

JoinInit ==
  /\ vector = Authored(Sound)
  /\ now = Sound
  /\ mapping = [result |-> "none"]

\* A fixture is written: a sound record with up to two parts changed.
Author(r) ==
  /\ vector.record = Sound /\ now = Sound
  /\ vector' = Authored(r)
  /\ now' = r
  /\ UNCHANGED mapping

\* The record is edited, its declared checks are not (unique is one of them).
EditVector(r) ==
  /\ now = vector.record \/ (vector.record \in Changed(Sound) /\ now \in Changed(vector.record))
  /\ r.unique = now.unique
  /\ now' = r
  /\ UNCHANGED <<vector, mapping>>

\* build_vector: a permit for the approved call, beside the dispatched one.
BuildVector(same) == [Sound EXCEPT !.eff = IF same THEN "same" ELSE "rewritten", !.res = "none", !.proof = "none"]

\* One denied case: its files, the installed reader's answer, its reason.
MapDispatch(intact, drifted, reason, same) ==
  LET r == BuildVector(same)
      ok == ~Computed(r)["effective_call_binding"]
  IN /\ mapping' =
          [same |-> same,
           result |-> IF ~intact \/ drifted THEN "problem"
                      ELSE IF reason # "dispatch_not_approved" THEN "not_modeled"
                      ELSE IF ok THEN "mapped" ELSE "problem"]
     /\ UNCHANGED <<vector, now>>

CaseEVector(e) ==
  /\ mapping' = [result |-> "case_e", e |-> e, failures |-> CaseE(e)]
  /\ UNCHANGED <<vector, now>>

JoinNext ==
  \/ /\ mapping.result = "none"
     /\ \/ \E r1 \in Changed(Sound) : \E r2 \in Changed(r1) : Author(r2)
        \/ \E r \in Changed(now) : EditVector(r)
  \/ /\ vector.record = Sound /\ now = Sound
     /\ \E intact, drifted, same \in BOOLEAN, reason \in {"dispatch_not_approved", "grant_revoked"} :
          MapDispatch(intact, drifted, reason, same)
  \/ /\ vector.record = Sound /\ now = Sound
     /\ \E e \in CaseEInputs : CaseEVector(e)

-----------------------------------------------------------------------------

\* What is wrong with a record, said of the record and not of the checks.
Broken(r) ==
  {x \in {"offline"} : ~r.supplied}
  \cup {x \in {"profile"} : UnsupportedProfile(r)}
  \cup {x \in {"digest"} : ~CanonicalOk(r)}
  \cup {x \in {"decision_or_result"} : ~ChainOk(r)}
  \cup {x \in {"proof"} : HasProof(r) /\ r.proof = "unbound"}
  \cup {x \in {"dispatch"} : (HasDecision(r) \/ r.eff # "none") /\ ~EffectiveCallOk(r)}
  \cup {x \in {"observation"} : HasObservation(r) /\ ~PostCommitOk(r)}
  \cup {x \in {"registry"} : ~r.unique}

(***************************************************************************)
(* A FAIL vector edited after it was authored is reported as correctly      *)
(* rejected only while something it was authored to fail for is still       *)
(* wrong: failing for another reason, or because its declared checks are    *)
(* stale, does not count. A vector nobody edited is reported as expected,   *)
(* and a PASS vector passes only with nothing wrong in what it supplies.    *)
(* map_authority_at_dispatch maps a case only when the calls differ. Case E *)
(* accepts exactly what is sound and not declared otherwise.                *)
(***************************************************************************)
RejectedForItsReason ==
  LET reported == RunnerOk(vector, now) IN
  /\ reported /\ vector.expected = "FAIL" => Broken(vector.record) \cap Broken(now) # {}
  /\ reported /\ vector.expected = "PASS" => Broken(now) \ {"offline"} = {}
  /\ now = vector.record => reported
  /\ mapping.result = "mapped" => ~mapping.same
  /\ mapping.result = "case_e" =>
       (mapping.failures = {} <=>
          /\ \A k \in DOMAIN mapping.e \ {"declared"} : mapping.e[k]
          /\ mapping.e.declared # "false")

(***************************************************************************)
(* What verify_vector does not keep. The specification lets a guardrail     *)
(* rewrite the args if a decision covers the rewritten call: a record with  *)
(* nothing wrong before the rewrite, rewritten and with its decision moved  *)
(* to the effective reference, conforms. Invariant 2 still asks that        *)
(* decision for the original action_ref.                                    *)
(***************************************************************************)
CoveredRewriteConforms ==
  LET r == vector.record
      unrewritten == [r EXCEPT !.eff = "none", !.dec.names = "action"]
  IN HasDecision(r) /\ r.eff = "rewritten" /\ r.dec.names = "effective" /\ Broken(unrewritten) = {} =>
       JoinFailures(r, vector.checks, vector.mode) = {}

-----------------------------------------------------------------------------
(* The inductive invariant behind RejectedForItsReason: a fixture declares    *)
(* what its record came to when it was authored, and an edit leaves unique.   *)

RecordFits(r) ==
  /\ r = [supplied |-> r.supplied, sealed |-> r.sealed, eff |-> r.eff, dec |-> r.dec,
          res |-> r.res, proof |-> r.proof, pc |-> r.pc, unique |-> r.unique]
  /\ r.proof \in {"none", "bound", "unbound"}
  /\ r.unique \in BOOLEAN

JoinInv ==
  /\ vector = Authored(vector.record)
  /\ RecordFits(vector.record) /\ RecordFits(now)
  /\ now.unique = vector.record.unique
  /\ mapping.result = "mapped" => ~mapping.same
  /\ mapping.result = "case_e" => mapping.e \in CaseEInputs /\ mapping.failures = CaseE(mapping.e)
=============================================================================
