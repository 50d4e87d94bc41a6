--------------------------- MODULE DelegationChain ---------------------------
(***************************************************************************)
(* The delegation-chain verifiers: the reference evaluate_vector with its   *)
(* SeenRegistry, the frozen copy and the AAE-02 7.5 layer of                *)
(* revoked-ancestor, the reduced copy of leaf-screen-halt, and the          *)
(* partial-chain-recovery and mid-hop-revocation runners.                   *)
(*                                                                          *)
(* A digest is the value it digests, so delegation_chain_ref is a chain     *)
(* artifact and leaf_action_ref a leaf preimage. A signature is what was    *)
(* signed. A scope is the sequence of its ':'-separated segments.           *)
(***************************************************************************)
EXTENDS Naturals, Sequences, FiniteSets, SequencesExt, FiniteSetsExt

VARIABLES
  registry,  \* SeenRegistry of the file being run: [ids, refs]
  at,        \* vectors of the partial-chain-recovery file run so far
  passed,    \* vectors accepted since the registry was created (history)
  last       \* the latest evaluation (history)

chainVars == <<registry, at, passed, last>>

NoSig == <<>>
All == <<"m", "*">>
Pay == <<"m", "pay">>
Route == <<"m", "pay", "route">>
NoRegistry == [ids |-> {}, refs |-> {}]

-----------------------------------------------------------------------------
(* The submissions: a chain of three signed hops, and what happens to it.   *)

\* hop_signing_preimage, with the key it was signed with.
HopSigningPreimage(id, h) == <<h.delegator, id, h.delegator, h.delegatee, h.scope, h.ref>>

Hop(id, from, to, scope, ref) ==
  LET h == [delegator |-> from, delegatee |-> to, scope |-> scope, ref |-> ref, sig |-> NoSig]
  IN [h EXCEPT !.sig = HopSigningPreimage(id, h)]

Leaf(agent, scope) == [agent_id |-> agent, scope |-> scope]

Chain(id, hops, leaf) == [chain_id |-> id, root |-> "a", hops |-> hops, leaf_action_ref |-> leaf]

Submission(chain, leaf) == [chain |-> chain, dcr |-> chain, leaf |-> leaf]

OriginalHops ==
  <<Hop("k1", "a", "b", Pay, "r1"), Hop("k1", "b", "c", Pay, "r2"), Hop("k1", "c", "d", Route, "r3")>>
Original == Chain("k1", OriginalHops, Leaf("d", Route))

\* Another hops sequence under the reference and leaf of the original.
Edited(hops) == [chain |-> Chain("k1", hops, Leaf("d", Route)), dcr |-> Original, leaf |-> Leaf("d", Route)]

Signed ==
  [original    |-> Edited(OriginalHops),
   missing     |-> Edited(<<OriginalHops[1], OriginalHops[3]>>),
   substituted |-> Edited(<<OriginalHops[1], [OriginalHops[2] EXCEPT !.ref = "r9"], OriginalHops[3]>>),
   misplaced   |-> Edited(<<OriginalHops[1], OriginalHops[3], OriginalHops[2]>>),
   \* edited and sealed again: the signatures are the ones of the original
   retargeted  |-> Submission(Chain("k1", <<OriginalHops[1], OriginalHops[2], [OriginalHops[3] EXCEPT !.delegatee = "e"]>>,
                                  Leaf("d", Route)), Leaf("d", Route)),
   rerooted    |-> Submission([Original EXCEPT !.root = "e"], Leaf("d", Route)),
   \* sealed over a hop that someone else delegated, and over one that the key
   \* of someone else signed
   broken      |-> Submission(Chain("k1", <<OriginalHops[1], OriginalHops[2], Hop("k1", "x", "d", Route, "r3")>>,
                                  Leaf("d", Route)), Leaf("d", Route)),
   forged      |-> Submission(Chain("k6", <<[Hop("k6", "a", "d", Pay, "r10") EXCEPT !.sig = <<"attacker">>]>>,
                                  Leaf("d", Pay)), Leaf("d", Pay)),
   \* delegated anew, each hop signed by its delegator
   widened     |-> Submission(Chain("k2", <<Hop("k2", "a", "b", Pay, "r4"), Hop("k2", "b", "d", All, "r5")>>,
                                  Leaf("d", All)), Leaf("d", All)),
   reused      |-> Submission(Chain("k3", <<Hop("k3", "a", "b", All, "r1"), Hop("k3", "b", "d", Route, "r6")>>,
                                  Leaf("d", Route)), Leaf("d", Route)),
   overreach   |-> Submission(Chain("k4", <<Hop("k4", "a", "d", Pay, "r7")>>, Leaf("d", All)), Leaf("d", All)),
   otherleaf   |-> Submission(Chain("k5", <<Hop("k5", "a", "d", Pay, "r8")>>, Leaf("d", Pay)), Leaf("c", Pay))]

Names == DOMAIN Signed

\* hop_signature is optional: the same chain without it, under its own reference.
Unsigned(v) ==
  LET bare(c) == [c EXCEPT !.hops = [i \in DOMAIN c.hops |-> [c.hops[i] EXCEPT !.sig = NoSig]]]
  IN [chain |-> bare(v.chain), dcr |-> bare(v.dcr), leaf |-> v.leaf]

Vector(n, signed) == IF signed THEN Signed[n] ELSE Unsigned(Signed[n])

Refs(v) == {v.chain.hops[i].ref : i \in DOMAIN v.chain.hops}

-----------------------------------------------------------------------------
(* The reference verifier                                                   *)

ScopeIsNarrowerOrEqual(parent, child) ==
  \/ parent = child
  \/ LET wild == Len(parent) > 1 /\ Last(parent) = "*"
         prefix == IF wild THEN Front(parent) ELSE parent
     IN IsStrictPrefix(prefix, child) \/ (wild /\ child = prefix)

VerifyHopSignature(id, h, keys) ==
  IF h.delegator \notin keys THEN "key_unresolved"
  ELSE IF h.sig = HopSigningPreimage(id, h) THEN "valid"
  ELSE "invalid"

\* Checks 0 to 3, which every copy shares.
Structural(v) ==
  LET hops == v.chain.hops IN
  {x \in {"delegation_chain_ref mismatch"} : v.dcr # v.chain}
  \cup {x \in {"chain_break"} : \E i \in 1..(Len(hops) - 1) : hops[i].delegatee # hops[i + 1].delegator}
  \cup {x \in {"root_anchoring"} : v.chain.root # hops[1].delegator}
  \cup {x \in {"leaf_anchoring"} : v.leaf # v.chain.leaf_action_ref}
  \cup {x \in {"scope_mismatch_at_leaf"} : v.leaf.scope # Last(hops).scope}

\* hop_signature is checked where it is present.
SignatureAnswers(v, keys) ==
  {VerifyHopSignature(v.chain.chain_id, v.chain.hops[i], keys) :
     i \in {j \in DOMAIN v.chain.hops : v.chain.hops[j].sig # NoSig}}

Widening(v) ==
  {x \in {"scope_widening"} :
     \E i \in 2..Len(v.chain.hops) :
       ~ScopeIsNarrowerOrEqual(v.chain.hops[i - 1].scope, v.chain.hops[i].scope)}

SeenContains(reg, v) == v.chain.chain_id \in reg.ids \/ Refs(v) \cap reg.refs # {}

SeenRecord(reg, v) == [ids |-> reg.ids \cup {v.chain.chain_id}, refs |-> reg.refs \cup Refs(v)]

\* evaluate_vector: what it finds wrong, what it could not assess, the verdict.
Failures(v, reg, keys, complete, narrowing) ==
  Structural(v)
  \cup {x \in {"hop_signature_invalid"} : "invalid" \in SignatureAnswers(v, keys)}
  \cup {x \in {"delegator_key_not_in_complete_key_set"} : complete /\ "key_unresolved" \in SignatureAnswers(v, keys)}
  \cup (IF narrowing THEN Widening(v) ELSE {})
  \cup {x \in {"replay_detected"} : SeenContains(reg, v)}

Verdict(v, reg, keys, complete, narrowing) ==
  IF Failures(v, reg, keys, complete, narrowing) # {} THEN "FAIL"
  ELSE IF ~complete /\ "key_unresolved" \in SignatureAnswers(v, keys) THEN "NOT_ASSESSED"
  ELSE "PASS"

-----------------------------------------------------------------------------
(* The copies, run against a fresh registry per vector.                     *)

\* An unresolved key is an invalid signature, narrowing is always enforced.
FrozenSignature(id, h, keys) == h.delegator \in keys /\ h.sig = HopSigningPreimage(id, h)

FrozenFailures(v, keys) ==
  Structural(v) \cup Widening(v)
  \cup {x \in {"hop_signature_invalid"} :
          \E i \in DOMAIN v.chain.hops :
            v.chain.hops[i].sig # NoSig /\ ~FrozenSignature(v.chain.chain_id, v.chain.hops[i], keys)}

\* No signatures, no registry.
LeafScreenFailures(v) == Structural(v) \cup Widening(v)

RevokedAncestorIndices(v, revoked) == {i \in DOMAIN v.chain.hops : v.chain.hops[i].ref \in revoked}

\* Every hop below the first revoked one, and the leaf when there is such a hop.
Enforce75(v, revoked) ==
  LET hops == v.chain.hops
      ancestors == RevokedAncestorIndices(v, revoked)
  IN IF ancestors = {} THEN {}
     ELSE {<<"descendant_of_revoked_ancestor", i>> : i \in (Min(ancestors) + 1)..Len(hops)}
          \cup {x \in {<<"leaf_action_under_revoked_ancestor", 0>>} : Min(ancestors) < Len(hops)}

ModelVerdict(v, keys, model, revoked) ==
  IF FrozenFailures(v, keys) = {} /\ (model = "7.5" => Enforce75(v, revoked) = {}) THEN "PASS" ELSE "FAIL"

-----------------------------------------------------------------------------
(* The runners. pubkeys, keys_are_complete and enforce_scope_narrowing are  *)
(* declared per vector.                                                     *)

ChainInit ==
  /\ registry = NoRegistry
  /\ at = 0
  /\ passed = {}
  /\ last = [by |-> "none"]

\* Mutant of Evaluate: the registry is filled before the verdict is known.
EvaluateRecordsFirst(v, keys, complete, narrowing) ==
  LET verdict == Verdict(v, registry, keys, complete, narrowing) IN
  /\ last.by = "none"
  /\ last' = [by |-> "reference", vector |-> v, keys |-> keys, complete |-> complete,
              narrowing |-> narrowing, before |-> passed, verdict |-> verdict]
  /\ registry' = SeenRecord(registry, v)
  /\ passed' = IF verdict = "PASS" THEN passed \cup {v} ELSE passed

\* evaluate_vector on the file's registry: only what passed is recorded.
Evaluate(v, keys, complete, narrowing) ==
  LET verdict == Verdict(v, registry, keys, complete, narrowing) IN
  /\ last.by = "none"
  /\ last' = [by |-> "reference", vector |-> v, keys |-> keys, complete |-> complete,
              narrowing |-> narrowing, before |-> passed, verdict |-> verdict]
  /\ registry' = IF verdict = "PASS" THEN SeenRecord(registry, v) ELSE registry
  /\ passed' = IF verdict = "PASS" THEN passed \cup {v} ELSE passed

\* run_file: the next vector, whichever the file holds.
Submit(n, signed, keys, complete, narrowing) ==
  /\ at = 0
  /\ Evaluate(Vector(n, signed), keys, complete, narrowing)
  /\ UNCHANGED at

\* The verdict is printed beside the expected one; the loop goes on.
Report ==
  /\ last.by # "none"
  /\ last' = [by |-> "none"]
  /\ UNCHANGED <<registry, at, passed>>

\* main: each vectors file has a registry of its own.
NewFile ==
  /\ last.by = "none"
  /\ at # 0 \/ registry # NoRegistry
  /\ registry' = NoRegistry
  /\ at' = 0
  /\ passed' = {}
  /\ UNCHANGED last

\* The vectors of partial-chain-recovery, in file order.
RecoveryFile == <<"missing", "substituted", "misplaced", "original", "original">>

\* Its fixture integrity: what each vector is, relative to the original chain.
RecoveryIntact ==
  LET hops(k) == Vector(RecoveryFile[k], FALSE).chain.hops
      original == hops(4)
  IN /\ \A k \in 1..5 : Vector(RecoveryFile[k], FALSE).dcr = Vector("original", FALSE).chain
     /\ hops(1) = RemoveAt(original, 2)
     /\ \A i \in {1, 3} : hops(2)[i] = original[i]
     /\ hops(2)[2].ref # original[2].ref /\ hops(2)[2] = [original[2] EXCEPT !.ref = hops(2)[2].ref]
     /\ ToSet(hops(3)) = ToSet(original) /\ hops(3) # original
     /\ hops(5) = original

RecoveryStep ==
  /\ RecoveryIntact
  /\ at < 5
  /\ at = 0 => registry = NoRegistry
  /\ at' = at + 1
  /\ Evaluate(Vector(RecoveryFile[at + 1], FALSE), {}, FALSE, FALSE)

\* The other runners are programs of their own.
Afresh == last.by = "none" /\ at = 0 /\ registry = NoRegistry

\* The same vector with a revocation beside it.
WithRevocation(v, ref) == [part \in DOMAIN v \cup {"revocation"} |-> IF part = "revocation" THEN ref ELSE v[part]]

\* A pair of mid-hop-revocation: the vector and the same one with a revocation
\* of hop 2 beside it, which evaluate_vector does not read. The history keeps
\* both verdicts.
MidHopPair(n) ==
  LET v == Vector(n, FALSE) IN
  /\ Afresh
  /\ last' = [by |-> "pair",
              baseline |-> Verdict(v, NoRegistry, {}, FALSE, FALSE),
              with_revocation |-> Verdict(WithRevocation(v, v.chain.hops[2].ref), NoRegistry, {}, FALSE, FALSE)]
  /\ UNCHANGED <<registry, at, passed>>

\* The same pair in revoked-ancestor's own runner.
RevokedAncestorPair(n) ==
  LET v == Vector(n, FALSE) IN
  /\ Afresh
  /\ last' = [by |-> "pair",
              baseline |-> FrozenFailures(v, {}),
              with_revocation |-> FrozenFailures(WithRevocation(v, v.chain.hops[2].ref), {})]
  /\ UNCHANGED <<registry, at, passed>>

\* One case of verify_enforcement, with the revocations it declares known.
EnforcementCase(n, signed, keys, model, revoked) ==
  LET v == Vector(n, signed) IN
  /\ Afresh
  /\ last' = [by |-> "frozen", vector |-> v, keys |-> keys, model |-> model, revoked |-> revoked,
              verdict |-> ModelVerdict(v, keys, model, revoked)]
  /\ UNCHANGED <<registry, at, passed>>

LeafScreenCase(n) ==
  LET v == Vector(n, FALSE) IN
  /\ Afresh
  /\ last' = [by |-> "leaf_screen", vector |-> v,
              verdict |-> IF LeafScreenFailures(v) = {} THEN "PASS" ELSE "FAIL"]
  /\ UNCHANGED <<registry, at, passed>>

KeySets == {{}, {"a"}, {"b", "c"}, {"a", "b", "c"}}

ChainNext ==
  \/ \E n \in Names, signed, complete, narrowing \in BOOLEAN, keys \in KeySets :
       Submit(n, signed, keys, complete, narrowing)
  \/ Report
  \/ NewFile
  \/ RecoveryStep
  \/ \E n \in {"original", "broken"} : MidHopPair(n) \/ RevokedAncestorPair(n)
  \/ \E n \in Names, signed \in BOOLEAN, keys \in KeySets, model \in {"default", "7.5"},
        revoked \in SUBSET {"r1", "r2", "r3"} : EnforcementCase(n, signed, keys, model, revoked)
  \/ \E n \in Names : LeafScreenCase(n)

-----------------------------------------------------------------------------

\* What was delegated hop by hop for the action asked for: the chains that were
\* made so, and the ones an edit of which no signature is left to show.
Delegated(v) ==
  \E n \in {"original", "widened", "reused"}, s \in BOOLEAN : v = Vector(n, s)

Undetected(v) == v \in {Vector("retargeted", FALSE), Vector("forged", FALSE)}

Delegators(v) == {v.chain.hops[i].delegator : i \in {j \in DOMAIN v.chain.hops : v.chain.hops[j].sig # NoSig}}

Overlap(v, w) == v.chain.chain_id = w.chain.chain_id \/ Refs(v) \cap Refs(w) # {}

\* What the latest evaluation should have come to.
LastIsRight ==
  /\ last.by = "reference" =>
       /\ last.verdict = "PASS" <=>
            /\ Delegated(last.vector) \/ Undetected(last.vector)
            /\ last.narrowing => last.vector.chain.chain_id # "k2"
            /\ Delegators(last.vector) \subseteq last.keys
            /\ \A w \in last.before : ~Overlap(last.vector, w)
       /\ last.verdict = "NOT_ASSESSED" =>
            ~last.complete /\ ~(Delegators(last.vector) \subseteq last.keys)
  /\ last.by = "frozen" =>
       LET reference == Verdict(last.vector, NoRegistry, last.keys, TRUE, TRUE)
           above == {last.vector.chain.hops[i].ref : i \in 1..(Len(last.vector.chain.hops) - 1)}
       IN last.verdict = "PASS" <=>
            reference = "PASS" /\ (last.model = "7.5" => above \cap last.revoked = {})
  /\ last.by = "leaf_screen" => last.verdict = Verdict(last.vector, NoRegistry, {}, TRUE, TRUE)
  /\ last.by = "pair" => last.baseline = last.with_revocation

(***************************************************************************)
(* Over any sequence of submissions, failed and unassessed ones included:   *)
(* the registry holds exactly what was accepted, no two accepted chains     *)
(* share an identifier or a delegation, and a submission is accepted        *)
(* exactly when it was delegated so (widening counts where enforced), every *)
(* signing key is at hand and nothing accepted before overlaps it: what     *)
(* failed before never counts. The frozen and leaf-screen copies agree with *)
(* the reference under complete keys and enforced narrowing; the 7.5 layer  *)
(* refuses in addition exactly the chains with a revoked hop above the last *)
(* one; a revocation artifact never changes the structural verdict; and     *)
(* partial-chain-recovery ends with the one restored chain recorded.        *)
(***************************************************************************)
FailedAttemptsDoNotCount ==
  /\ registry = [ids |-> {v.chain.chain_id : v \in passed}, refs |-> UNION {Refs(v) : v \in passed}]
  /\ \A v, w \in passed : v # w => ~Overlap(v, w)
  /\ LastIsRight
  /\ at > 0 => Cardinality(registry.ids) = (IF at < 4 THEN 0 ELSE 1)
  /\ at > 0 => Cardinality(registry.refs) = (IF at < 4 THEN 0 ELSE 3)

-----------------------------------------------------------------------------
(* The inductive invariant behind FailedAttemptsDoNotCount.                   *)

Vectors == {Vector(n, s) : n \in Names, s \in BOOLEAN}

RegistryHoldsAccepted ==
  /\ passed \subseteq Vectors
  /\ registry = [ids |-> {v.chain.chain_id : v \in passed}, refs |-> UNION {Refs(v) : v \in passed}]
  /\ \A v, w \in passed : v # w => ~Overlap(v, w)

\* How far partial-chain-recovery has come says what it has accepted.
RecoveryAccepted ==
  /\ at \in 0..5
  /\ at \in 1..3 => passed = {}
  /\ at \in 4..5 => passed = {Vector("original", FALSE)}

ChainInv == RegistryHoldsAccepted /\ RecoveryAccepted /\ LastIsRight
=============================================================================
