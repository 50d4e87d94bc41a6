------------------------- MODULE LogsAndRetries_proofs -------------------------
(***************************************************************************)
(* The two evidence components whose verdicts are folds over a list of any  *)
(* length: trail heads with their Merkle trees, and the guards of the retry *)
(* examples.                                                                *)
(*                                                                          *)
(* Trail heads: a digest determines what it was computed from, so what      *)
(* verify_trail accepts is the log (HeadInv), and what was logged honestly   *)
(* it accepts (HonestInv).                                                  *)
(*                                                                          *)
(* Retries: ToolInv is inductive and implies OneEffectPerLogicalAction. An  *)
(* attempt is one of two things, whichever the guard (AttemptIs): it is     *)
(* answered from the records, or it leaves a record and runs the effect at  *)
(* most once. What the guards hold then follows from their references       *)
(* alone. Replay and Use are recursive functions: both are lists given by a *)
(* start and a step (Along), which exist and agree by least-counterexample  *)
(* arguments, and are then unfolded one step at a time.                     *)
(***************************************************************************)
EXTENDS TrailHead, ToolRetry, SumLemmas, FiniteSetTheorems, SequenceTheorems, TLAPS

-----------------------------------------------------------------------------
(* Merkle trees and trail heads.                                             *)

\* A function on an initial segment of the numbers is a sequence.
LEMMA FunctionIsSeq ==
  ASSUME NEW n \in Nat, NEW s, s = [i \in 1..n |-> s[i]]
  PROVE  s \in Seq({s[i] : i \in 1..n}) /\ Len(s) = n
OBVIOUS

\* g lists the hashes that verify_inclusion recomputes from the first n siblings.
RecomputesTo(g, ref, proof, n) ==
  g = [k \in 0..n |-> IF k = 0 THEN LeafHash(ref) ELSE NodeHash(g[k - 1], proof[k])]

\* There is such a list: otherwise take the shortest that is missing.
LEMMA RecomputesExists ==
  ASSUME NEW ref, NEW proof, NEW k \in Nat
  PROVE  \E g : RecomputesTo(g, ref, proof, k)
<1> DEFINE Bad == {n \in Nat : ~ \E g : RecomputesTo(g, ref, proof, n)}
<1> SUFFICES ASSUME Bad # {} PROVE FALSE
  OBVIOUS
<1>1. PICK n \in Bad : \A m \in Bad : n <= m
  <2> HIDE DEF Bad
  <2>1. Bad \subseteq Nat
    BY DEF Bad
  <2> QED BY <2>1, LeastNatural
<1>2. n # 0
  <2>1. RecomputesTo([m \in 0..0 |-> LeafHash(ref)], ref, proof, 0)
    BY DEF RecomputesTo
  <2> QED BY <2>1
<1>3. PICK p : p = n - 1
  OBVIOUS
<1>4. p \in Nat /\ n = p + 1 /\ p \notin Bad
  BY <1>1, <1>2, <1>3
<1>5. PICK g : RecomputesTo(g, ref, proof, p)
  BY <1>4
<1> DEFINE h == [m \in 0..n |-> IF m = n THEN NodeHash(g[p], proof[n]) ELSE g[m]]
<1>6. RecomputesTo(h, ref, proof, n)
  <2>1. ASSUME NEW m \in 0..n
        PROVE  h[m] = IF m = 0 THEN LeafHash(ref) ELSE NodeHash(h[m - 1], proof[m])
    <3>1. CASE m = n
      <4>1. h[m - 1] = g[p] /\ h[m] = NodeHash(g[p], proof[n])
        BY <3>1, <1>2, <1>4
      <4> QED BY <4>1, <3>1, <1>2
    <3>2. CASE m = 0
      BY <3>2, <1>2, <1>4, <1>5 DEF RecomputesTo
    <3>3. CASE m # 0 /\ m # n
      <4>1. PICK q : q = m - 1
        OBVIOUS
      <4>2. q \in 0..p /\ q \in 0..n /\ q # n /\ m \in 0..p
        BY <4>1, <3>3, <1>4
      <4>3. g[m] = NodeHash(g[q], proof[m])
        BY <4>1, <4>2, <3>3, <1>5 DEF RecomputesTo
      <4>4. h[m] = g[m] /\ h[q] = g[q]
        BY <4>2, <3>3
      <4> QED BY <4>1, <4>3, <4>4, <3>3
    <3> QED BY <3>1, <3>2, <3>3
  <2>2. h = [m \in 0..n |-> h[m]]
    OBVIOUS
  <2> HIDE DEF h
  <2> QED BY <2>1, <2>2 DEF RecomputesTo
<1> QED BY <1>6

\* Two such lists agree as far as their proofs do.
LEMMA RecomputesAgree ==
  ASSUME NEW ref, NEW k \in Nat, NEW l \in Nat, k <= l, NEW s, NEW t, \A i \in 1..k : s[i] = t[i],
         NEW g, RecomputesTo(g, ref, s, k), NEW h, RecomputesTo(h, ref, t, l)
  PROVE  \A n \in 0..k : g[n] = h[n]
<1> DEFINE Bad == {n \in 0..k : g[n] # h[n]}
<1> SUFFICES ASSUME Bad # {} PROVE FALSE
  OBVIOUS
<1>1. PICK n \in Bad : \A m \in Bad : n <= m
  <2> HIDE DEF Bad
  <2>1. Bad \subseteq Nat
    BY DEF Bad
  <2> QED BY <2>1, LeastNatural
<1>2. g[0] = LeafHash(ref) /\ h[0] = LeafHash(ref)
  BY DEF RecomputesTo
<1>3. PICK p : p = n - 1
  OBVIOUS
<1>4. p \in 0..k /\ p \in 0..l /\ p \notin Bad /\ n # 0 /\ s[n] = t[n]
  BY <1>1, <1>2, <1>3
<1>5. g[n] = NodeHash(g[p], s[n]) /\ h[n] = NodeHash(h[p], t[n])
  BY <1>1, <1>3, <1>4 DEF RecomputesTo
<1> QED BY <1>1, <1>4, <1>5

Walked(ref, proof, n) == (CHOOSE g : RecomputesTo(g, ref, proof, n))[n]

\* verify_inclusion's loop, one sibling at a time.
LEMMA WalkedUnfolds ==
  ASSUME NEW ref, NEW proof
  PROVE  /\ Walked(ref, proof, 0) = LeafHash(ref)
         /\ \A k \in Nat : Walked(ref, proof, k + 1) = NodeHash(Walked(ref, proof, k), proof[k + 1])
<1> DEFINE G(k) == CHOOSE g : RecomputesTo(g, ref, proof, k)
<1>1. ASSUME NEW k \in Nat
      PROVE  RecomputesTo(G(k), ref, proof, k) /\ Walked(ref, proof, k) = G(k)[k]
  BY RecomputesExists DEF Walked
<1>2. Walked(ref, proof, 0) = LeafHash(ref)
  <2>1. RecomputesTo(G(0), ref, proof, 0) /\ Walked(ref, proof, 0) = G(0)[0]
    BY <1>1
  <2> HIDE DEF G
  <2> QED BY <2>1 DEF RecomputesTo
<1>3. ASSUME NEW k \in Nat
      PROVE  Walked(ref, proof, k + 1) = NodeHash(Walked(ref, proof, k), proof[k + 1])
  <2>1. PICK l : l = k + 1
    OBVIOUS
  <2>2. l \in Nat /\ k <= l /\ k \in 0..k /\ l \in 0..l /\ l # 0 /\ l - 1 = k
    BY <2>1
  <2>3. /\ RecomputesTo(G(k), ref, proof, k) /\ Walked(ref, proof, k) = G(k)[k]
        /\ RecomputesTo(G(l), ref, proof, l) /\ Walked(ref, proof, l) = G(l)[l]
    BY <1>1, <2>2
  <2> HIDE DEF G
  <2>4. G(k)[k] = G(l)[k]
    BY <2>2, <2>3, RecomputesAgree
  <2>5. G(l)[l] = NodeHash(G(l)[k], proof[l])
    BY <2>2, <2>3 DEF RecomputesTo
  <2> QED BY <2>1, <2>3, <2>4, <2>5
<1> QED BY <1>2, <1>3

\* A longer proof with the same beginning.
LEMMA WalkedPrefix ==
  ASSUME NEW ref, NEW s, NEW t, NEW k \in Nat, \A i \in 1..k : s[i] = t[i]
  PROVE  Walked(ref, s, k) = Walked(ref, t, k)
<1>1. PICK g : RecomputesTo(g, ref, s, k) /\ Walked(ref, s, k) = g[k]
  BY RecomputesExists DEF Walked
<1>2. PICK h : RecomputesTo(h, ref, t, k) /\ Walked(ref, t, k) = h[k]
  BY RecomputesExists DEF Walked
<1>3. k <= k /\ k \in 0..k
  OBVIOUS
<1> QED BY <1>1, <1>2, <1>3, RecomputesAgree

\* Recomputed walks the whole proof.
LEMMA RecomputedIs == \A ref, proof : Recomputed(ref, proof) = Walked(ref, proof, Len(proof))
BY DEF Recomputed, Walked, RecomputesTo

\* A proof leads from one leaf to a root only: sorted or not, a node has no
\* other child next to the one given.
LEMMA OneLeafPerProof ==
  ASSUME NEW x, NEW y, x # y, NEW proof, NEW n \in Nat
  PROVE  Walked(x, proof, n) # Walked(y, proof, n)
<1> DEFINE Bad == {k \in Nat : Walked(x, proof, k) = Walked(y, proof, k)}
<1> SUFFICES ASSUME Bad # {} PROVE FALSE
  OBVIOUS
<1>1. PICK k \in Bad : \A m \in Bad : k <= m
  <2> HIDE DEF Bad
  <2>1. Bad \subseteq Nat
    BY DEF Bad
  <2> QED BY <2>1, LeastNatural
<1>2. LeafHash(x) # LeafHash(y)
  BY DEF LeafHash
<1>3. k # 0
  BY <1>2, WalkedUnfolds
<1>4. PICK p : p = k - 1
  OBVIOUS
<1>5. p \in Nat /\ k = p + 1 /\ p \notin Bad
  BY <1>1, <1>3, <1>4
<1>6. Walked(x, proof, p) # Walked(y, proof, p)
  BY <1>5
<1>7. /\ Walked(x, proof, k) = NodeHash(Walked(x, proof, p), proof[k])
      /\ Walked(y, proof, k) = NodeHash(Walked(y, proof, p), proof[k])
  BY <1>5, WalkedUnfolds
<1>8. \A a, b, c : NodeHash(a, c) = NodeHash(b, c) => a = b
  <2> SUFFICES ASSUME NEW a, NEW b, NEW c, <<"node", {a, c}>> = <<"node", {b, c}>> PROVE a = b
    BY DEF NodeHash
  <2>1. {a, c} = {b, c}
    OBVIOUS
  <2>2. a \in {b, c} /\ b \in {a, c}
    BY <2>1
  <2> QED BY <2>2
<1> QED BY <1>1, <1>6, <1>7, <1>8


\* The levels of a tree up to the n-th.
LevelsTo(g, refs, n) ==
  g = [k \in 0..n |-> IF k = 0 THEN [i \in DOMAIN refs |-> LeafHash(refs[i])] ELSE NextLevel(g[k - 1])]

\* build_merkle_tree makes one level after the other.
LEMMA LevelsExist ==
  ASSUME NEW refs, NEW k \in Nat
  PROVE  \E g : LevelsTo(g, refs, k)
<1> DEFINE Bad == {n \in Nat : ~ \E g : LevelsTo(g, refs, n)}
           leaves == [i \in DOMAIN refs |-> LeafHash(refs[i])]
<1> SUFFICES ASSUME Bad # {} PROVE FALSE
  OBVIOUS
<1>1. PICK n \in Bad : \A m \in Bad : n <= m
  <2> HIDE DEF Bad
  <2>1. Bad \subseteq Nat
    BY DEF Bad
  <2> QED BY <2>1, LeastNatural
<1>2. n # 0
  <2>1. LevelsTo([m \in 0..0 |-> leaves], refs, 0)
    BY DEF LevelsTo
  <2> QED BY <2>1
<1>3. PICK p : p = n - 1
  OBVIOUS
<1>4. p \in Nat /\ n = p + 1 /\ p \notin Bad
  BY <1>1, <1>2, <1>3
<1>5. PICK g : LevelsTo(g, refs, p)
  BY <1>4
<1>6. g = [m \in 0..p |-> IF m = 0 THEN leaves ELSE NextLevel(g[m - 1])]
  BY <1>5 DEF LevelsTo
<1> DEFINE h == [m \in 0..n |-> IF m = n THEN NextLevel(g[p]) ELSE g[m]]
<1> HIDE DEF leaves
<1>7. LevelsTo(h, refs, n)
  <2>1. ASSUME NEW m \in 0..n
        PROVE  h[m] = IF m = 0 THEN leaves ELSE NextLevel(h[m - 1])
    <3>1. CASE m = n
      <4>1. h[m - 1] = g[p] /\ h[m] = NextLevel(g[p])
        BY <3>1, <1>2, <1>4
      <4> QED BY <4>1, <3>1, <1>2
    <3>2. CASE m = 0
      BY <3>2, <1>2, <1>4, <1>6
    <3>3. CASE m # 0 /\ m # n
      <4>1. PICK q : q = m - 1
        OBVIOUS
      <4>2. q \in 0..p /\ q \in 0..n /\ q # n /\ m \in 0..p
        BY <4>1, <3>3, <1>4
      <4>3. g[m] = NextLevel(g[q])
        BY <4>1, <4>2, <3>3, <1>6
      <4>4. h[m] = g[m] /\ h[q] = g[q]
        BY <4>2, <3>3
      <4> QED BY <4>1, <4>3, <4>4, <3>3
    <3> QED BY <3>1, <3>2, <3>3
  <2>2. h = [m \in 0..n |-> h[m]]
    OBVIOUS
  <2> HIDE DEF h
  <2>3. h = [m \in 0..n |-> IF m = 0 THEN leaves ELSE NextLevel(h[m - 1])]
    BY <2>1, <2>2
  <2> QED BY <2>3 DEF LevelsTo, leaves
<1> QED BY <1>7

\* A level of w nodes.
Wide(level, w) == w \in Nat /\ w >= 1 /\ level = [i \in 1..w |-> level[i]]

\* It is a sequence of that length.
LEMMA WideIsSeq ==
  ASSUME NEW level, NEW w, Wide(level, w)
  PROVE  Len(level) = w
BY FunctionIsSeq DEF Wide

\* build_merkle_tree pairs neighbours and carries up an odd last node.
LEMMA NextLevelWide ==
  ASSUME NEW level, NEW w, Wide(level, w), NEW h, h = (w + 1) \div 2
  PROVE  /\ Wide(NextLevel(level), h)
         /\ \A i \in 1..h : NextLevel(level)[i] =
              IF 2 * i <= w THEN NodeHash(level[2 * i - 1], level[2 * i]) ELSE level[2 * i - 1]
<1>1. h \in Nat /\ h >= 1
  BY DEF Wide
<1>2. Len(level) = w
  BY WideIsSeq
<1>3. NextLevel(level) = [i \in 1..h |-> IF 2 * i <= w THEN NodeHash(level[2 * i - 1], level[2 * i])
                                         ELSE level[2 * i - 1]]
  BY <1>2 DEF NextLevel
<1> QED BY <1>1, <1>3 DEF Wide

\* Every level has half the nodes of the one below, rounded up; the last has one.
LEMMA LevelsNarrow ==
  ASSUME NEW refs, NEW N \in Nat, Wide(refs, N), NEW lv, lv = Levels(refs)
  PROVE  /\ lv[0] = [i \in 1..N |-> LeafHash(refs[i])]
         /\ \A k \in 0..N : k # N => lv[k + 1] = NextLevel(lv[k])
         /\ \A k \in 0..N : \E w : Wide(lv[k], w) /\ (w = 1 \/ w + k <= N)
         /\ Height(refs) \in 0..N /\ Len(lv[Height(refs)]) = 1
<1>1. Len(refs) = N /\ DOMAIN refs = 1..N /\ N \in Nat /\ N >= 1
  BY WideIsSeq DEF Wide
<1>2. LevelsTo(lv, refs, N)
  <2>1. Levels(refs) = CHOOSE g : LevelsTo(g, refs, Len(refs))
    BY DEF Levels, LevelsTo
  <2>2. \E g : LevelsTo(g, refs, Len(refs))
    BY <1>1, LevelsExist
  <2> QED BY <1>1, <2>1, <2>2
<1>3. lv[0] = [i \in 1..N |-> LeafHash(refs[i])]
  BY <1>1, <1>2 DEF LevelsTo
<1>4. ASSUME NEW k \in 0..N, k # N
      PROVE  lv[k + 1] = NextLevel(lv[k])
  <2>1. PICK l : l = k + 1
    OBVIOUS
  <2>2. l \in 0..N /\ l # 0 /\ l - 1 = k
    BY <2>1, <1>4
  <2> QED BY <2>1, <2>2, <1>2 DEF LevelsTo
<1> DEFINE Ok(k) == \E w : Wide(lv[k], w) /\ (w = 1 \/ w + k <= N)
           Bad == {k \in 0..N : ~Ok(k)}
<1>5. ASSUME Bad # {} PROVE FALSE
  <2>1. PICK k \in Bad : \A m \in Bad : k <= m
    <3> HIDE DEF Bad
    <3>1. Bad \subseteq Nat
      BY DEF Bad
    <3> QED BY <3>1, <1>5, LeastNatural
  <2>2. Ok(0)
    <3>1. Wide(lv[0], N)
      BY <1>3 DEF Wide
    <3>2. N + 0 <= N
      OBVIOUS
    <3> QED BY <3>1, <3>2
  <2>3. PICK p : p = k - 1
    OBVIOUS
  <2>4. p \in 0..N /\ p # N /\ k = p + 1 /\ p \notin Bad
    <3>1. k \in 0..N /\ ~Ok(k) /\ \A m \in 0..N : ~Ok(m) => k <= m
      BY <2>1
    <3> HIDE DEF Ok
    <3>2. k # 0
      BY <2>2, <3>1
    <3>3. p \in 0..N /\ p # N /\ k = p + 1 /\ p < k
      BY <2>3, <3>1, <3>2
    <3> QED BY <3>1, <3>3
  <2>5. PICK w : Wide(lv[p], w) /\ (w = 1 \/ w + p <= N)
    BY <2>4
  <2>6. PICK h : h = (w + 1) \div 2
    OBVIOUS
  <2>7. Wide(lv[k], h)
    BY <1>4, <2>4, <2>5, <2>6, NextLevelWide
  <2>8. h = 1 \/ h + k <= N
    <3>1. w \in Nat /\ w >= 1
      BY <2>5 DEF Wide
    <3> QED BY <3>1, <2>4, <2>5, <2>6
  <2> QED BY <2>1, <2>7, <2>8
<1>6. \A k \in 0..N : Ok(k)
  BY <1>5
<1> DEFINE T == {k \in 0..N : Len(lv[k]) = 1}
<1>7. N \in T
  <2>1. PICK w : Wide(lv[N], w) /\ (w = 1 \/ w + N <= N)
    BY <1>6
  <2>2. w = 1
    BY <2>1 DEF Wide
  <2>3. Len(lv[N]) = 1
    BY <2>1, <2>2, WideIsSeq
  <2> QED BY <2>3
<1>8. \E k \in T : \A m \in T : k <= m
  <2>1. T \subseteq Nat /\ T # {}
    BY <1>7
  <2> HIDE DEF T
  <2> QED BY <2>1, LeastNatural
<1>9. Height(refs) = Min(T)
  BY <1>1 DEF Height
<1>10. Min(T) \in T
  <2> HIDE DEF T
  <2> QED BY <1>8 DEF Min
<1> QED BY <1>3, <1>4, <1>6, <1>9, <1>10


\* A turn of get_proof's loop over a level.
Turn(level, place) ==
  LET idx == place.idx
      sibling == IF idx % 2 = 0 THEN idx + 1 ELSE idx - 1
  IN [idx |-> idx \div 2,
      proof |-> place.proof \o (IF sibling < Len(level) THEN <<level[sibling + 1]>> ELSE <<>>)]

LoopTo(g, p, lv, n) ==
  g = [k \in 0..n |-> IF k = 0 THEN [idx |-> p, proof |-> <<>>] ELSE Turn(lv[k - 1], g[k - 1])]

\* get_proof takes one turn after the other.
LEMMA LoopExists ==
  ASSUME NEW p0, NEW lv, NEW k \in Nat
  PROVE  \E g : LoopTo(g, p0, lv, k)
<1> DEFINE Bad == {n \in Nat : ~ \E g : LoopTo(g, p0, lv, n)}
           first == [idx |-> p0, proof |-> <<>>]
<1> SUFFICES ASSUME Bad # {} PROVE FALSE
  OBVIOUS
<1>1. PICK n \in Bad : \A m \in Bad : n <= m
  <2> HIDE DEF Bad
  <2>1. Bad \subseteq Nat
    BY DEF Bad
  <2> QED BY <2>1, LeastNatural
<1>2. n # 0
  <2>1. LoopTo([m \in 0..0 |-> first], p0, lv, 0)
    BY DEF LoopTo
  <2> QED BY <2>1
<1>3. PICK p : p = n - 1
  OBVIOUS
<1>4. p \in Nat /\ n = p + 1 /\ p \notin Bad
  BY <1>1, <1>2, <1>3
<1>5. PICK g : LoopTo(g, p0, lv, p)
  BY <1>4
<1>6. g = [m \in 0..p |-> IF m = 0 THEN first ELSE Turn(lv[m - 1], g[m - 1])]
  BY <1>5 DEF LoopTo
<1> DEFINE h == [m \in 0..n |-> IF m = n THEN Turn(lv[p], g[p]) ELSE g[m]]
<1> HIDE DEF first
<1>7. LoopTo(h, p0, lv, n)
  <2>1. ASSUME NEW m \in 0..n
        PROVE  h[m] = IF m = 0 THEN first ELSE Turn(lv[m - 1], h[m - 1])
    <3>1. CASE m = n
      <4>1. m - 1 = p /\ h[p] = g[p] /\ h[m] = Turn(lv[p], g[p])
        BY <3>1, <1>2, <1>4
      <4> QED BY <4>1, <3>1, <1>2
    <3>2. CASE m = 0
      BY <3>2, <1>2, <1>4, <1>6
    <3>3. CASE m # 0 /\ m # n
      <4>1. PICK q : q = m - 1
        OBVIOUS
      <4>2. q \in 0..p /\ q \in 0..n /\ q # n /\ m \in 0..p
        BY <4>1, <3>3, <1>4
      <4>3. g[m] = Turn(lv[q], g[q])
        BY <4>1, <4>2, <3>3, <1>6
      <4>4. h[m] = g[m] /\ h[q] = g[q]
        BY <4>2, <3>3
      <4> QED BY <4>1, <4>3, <4>4, <3>3
    <3> QED BY <3>1, <3>2, <3>3
  <2>2. h = [m \in 0..n |-> h[m]]
    OBVIOUS
  <2> HIDE DEF h
  <2>3. h = [m \in 0..n |-> IF m = 0 THEN first ELSE Turn(lv[m - 1], h[m - 1])]
    BY <2>1, <2>2
  <2> QED BY <2>3 DEF LoopTo, first
<1> QED BY <1>7

\* What the loop has so far leads from the leaf to its node of this level.
Leads(x, level, place) ==
  /\ place.idx \in Nat /\ \E w : Wide(level, w) /\ place.idx < w
  /\ \E n \in Nat : place.proof = [i \in 1..n |-> place.proof[i]]
                    /\ Walked(x, place.proof, n) = level[place.idx + 1]

\* A turn of get_proof keeps to the path from the leaf.
LEMMA TurnLeads ==
  ASSUME NEW x, NEW level, NEW place, Leads(x, level, place)
  PROVE  Leads(x, NextLevel(level), Turn(level, place))
<1>a. PICK w : Wide(level, w) /\ place.idx < w /\ place.idx \in Nat
  BY DEF Leads
<1>b. PICK n \in Nat : place.proof = [i \in 1..n |-> place.proof[i]] /\ Walked(x, place.proof, n) = level[place.idx + 1]
  BY DEF Leads
<1>1. /\ Wide(level, w) /\ place.idx < w /\ place.idx \in Nat
      /\ place.proof = [i \in 1..n |-> place.proof[i]]
      /\ Walked(x, place.proof, n) = level[place.idx + 1]
  BY <1>a, <1>b
<1>2. PICK h, idx, s, sibling, j :
        /\ h = (w + 1) \div 2 /\ idx = place.idx /\ s = place.proof /\ j = (idx \div 2) + 1
        /\ sibling = IF idx % 2 = 0 THEN idx + 1 ELSE idx - 1
  OBVIOUS
<1>3. w \in Nat /\ idx \in Nat /\ idx < w /\ Len(level) = w /\ level = [i \in 1..w |-> level[i]]
  BY <1>1, <1>2, WideIsSeq DEF Wide
<1>n. /\ w \in Nat /\ idx \in Nat /\ idx < w /\ j = (idx \div 2) + 1
      /\ sibling = IF idx % 2 = 0 THEN idx + 1 ELSE idx - 1
  BY <1>2, <1>3
<1>4. Wide(NextLevel(level), h)
      /\ \A i \in 1..h : NextLevel(level)[i] =
              IF 2 * i <= w THEN NodeHash(level[2 * i - 1], level[2 * i]) ELSE level[2 * i - 1]
  BY <1>1, <1>2, NextLevelWide
<1>5. h \in Nat /\ j \in 1..h /\ idx \div 2 \in Nat /\ idx \div 2 < h
  BY <1>2, <1>3
<1>6. NextLevel(level)[j] = IF 2 * j <= w THEN NodeHash(level[2 * j - 1], level[2 * j]) ELSE level[2 * j - 1]
  BY <1>4, <1>5
<1>7. s \in Seq({s[i] : i \in 1..n}) /\ Len(s) = n /\ s = [i \in 1..n |-> s[i]]
  <2>1. s = [i \in 1..n |-> s[i]]
    BY <1>1, <1>2
  <2> QED BY <2>1, FunctionIsSeq
<1> DEFINE t == s \o (IF sibling < w THEN <<level[sibling + 1]>> ELSE <<>>)
<1>8. Turn(level, place) = [idx |-> idx \div 2, proof |-> t]
  BY <1>2, <1>3 DEF Turn
<1>9. \E m \in Nat : t = [i \in 1..m |-> t[i]] /\ Walked(x, t, m) = NextLevel(level)[j]
  <2>1. CASE sibling < w
    <3>1. PICK y, u, m : y = level[sibling + 1] /\ u = s \o <<y>> /\ m = n + 1
      OBVIOUS
    <3>2. /\ u \in Seq({s[i] : i \in 1..n} \cup {y}) /\ Len(u) = m
          /\ \A i \in 1..n : u[i] = s[i]
          /\ u[m] = y
      BY <1>7, <3>1
    <3>3. m \in Nat /\ u = [i \in 1..m |-> u[i]]
      BY <3>1, <3>2
    <3>4. Walked(x, u, n) = level[idx + 1]
      <4>1. Walked(x, s, n) = level[idx + 1]
        BY <1>1, <1>2
      <4>2. Walked(x, s, n) = Walked(x, u, n)
        BY <3>2, WalkedPrefix
      <4> QED BY <4>1, <4>2
    <3>5. Walked(x, u, m) = NodeHash(level[idx + 1], y)
      <4>1. Walked(x, u, n + 1) = NodeHash(Walked(x, u, n), u[n + 1])
        BY WalkedUnfolds
      <4> QED BY <4>1, <3>1, <3>2, <3>4
    <3>6. NodeHash(level[idx + 1], y) = NextLevel(level)[j]
      <4>1. CASE idx % 2 = 0
        <5>1. sibling = idx + 1 /\ 2 * j = sibling + 1 /\ 2 * j - 1 = idx + 1 /\ 2 * j <= w
          BY <4>1, <1>n, <2>1
        <5> QED BY <5>1, <1>6, <3>1
      <4>2. CASE idx % 2 # 0
        <5>0. PICK d : d = idx \div 2
          OBVIOUS
        <5>a. idx = 2 * d + 1 /\ d \in Nat /\ j = d + 1 /\ sibling = idx - 1
          BY <4>2, <5>0, <1>n
        <5>1. 2 * j = idx + 1 /\ 2 * j - 1 = sibling + 1 /\ 2 * j <= w
          BY <5>a, <1>n
        <5>2. NextLevel(level)[j] = NodeHash(y, level[idx + 1])
          BY <5>1, <1>6, <3>1
        <5>3. NodeHash(y, level[idx + 1]) = NodeHash(level[idx + 1], y)
          BY DEF NodeHash
        <5> QED BY <5>2, <5>3
      <4> QED BY <4>1, <4>2
    <3>7. t = u
      BY <2>1, <3>1
    <3> QED BY <3>3, <3>5, <3>6, <3>7
  <2>2. CASE ~(sibling < w)
    <3>1. idx % 2 = 0 /\ idx + 1 = w
      BY <2>2, <1>n
    <3>2. 2 * j - 1 = idx + 1 /\ ~(2 * j <= w)
      BY <3>1, <1>n
    <3>3. NextLevel(level)[j] = level[idx + 1]
      BY <3>2, <1>6
    <3>4. t = s
      BY <2>2, <1>7
    <3> QED BY <3>3, <3>4, <1>1, <1>2
  <2> QED BY <2>1, <2>2
<1> HIDE DEF t
<1>10. Turn(level, place).idx = idx \div 2 /\ Turn(level, place).proof = t
  BY <1>8
<1>11. (idx \div 2) + 1 = j
  BY <1>2
<1> QED BY <1>4, <1>5, <1>9, <1>10, <1>11 DEF Leads


\* A non-empty list of leaves, and a position in it, counted from 0.
Leaves(refs, p) ==
  \E N \in Nat : refs = [i \in 1..N |-> refs[i]] /\ p \in 0..(N - 1)

\* The whole proof leads to the root.
LEMMA ProofLeads ==
  ASSUME NEW refs, NEW p, Leaves(refs, p)
  PROVE  \E n \in Nat : /\ Len(GetProof(refs, p)) = n
                        /\ Walked(refs[p + 1], GetProof(refs, p), n) = MerkleRoot(refs)
<1>1. PICK N \in Nat : refs = [i \in 1..N |-> refs[i]] /\ p \in 0..(N - 1)
  BY DEF Leaves
<1>2. PICK lv, H, x : lv = Levels(refs) /\ H = Height(refs) /\ x = refs[p + 1]
  OBVIOUS
<1>3. /\ lv[0] = [i \in 1..N |-> LeafHash(refs[i])]
      /\ \A k \in 0..N : k # N => lv[k + 1] = NextLevel(lv[k])
      /\ H \in 0..N /\ Len(lv[H]) = 1
  <2>1. N >= 1
    BY <1>1
  <2>2. lv = Levels(refs) /\ Wide(refs, N)
    BY <1>1, <1>2, <2>1 DEF Wide
  <2>3. /\ lv[0] = [i \in 1..N |-> LeafHash(refs[i])]
        /\ \A k \in 0..N : k # N => lv[k + 1] = NextLevel(lv[k])
        /\ Height(refs) \in 0..N /\ Len(lv[Height(refs)]) = 1
    BY <2>1, <2>2, LevelsNarrow
  <2> QED BY <2>3, <1>2
<1>4. H \in Nat /\ H <= N
  BY <1>3
<1>5. PICK g : g = CHOOSE f : LoopTo(f, p, lv, H)
  OBVIOUS
<1>6. LoopTo(g, p, lv, H)
  BY <1>4, <1>5, LoopExists
<1>7. GetProof(refs, p) = g[H].proof
  BY <1>2, <1>5 DEF GetProof, LoopTo, Turn
<1>8. g[0] = [idx |-> p, proof |-> <<>>]
  BY <1>4, <1>6 DEF LoopTo
<1>9. Leads(x, lv[0], g[0])
  <2>1. Wide(lv[0], N) /\ p < N /\ p \in Nat
    BY <1>1, <1>3 DEF Wide
  <2>2. Walked(x, <<>>, 0) = LeafHash(x)
    BY WalkedUnfolds
  <2>3. lv[0][p + 1] = LeafHash(x)
    <3>1. p + 1 \in 1..N
      BY <1>1
    <3> QED BY <3>1, <1>2, <1>3
  <2>4. <<>> = [i \in 1..0 |-> <<>>[i]]
    OBVIOUS
  <2>5. g[0].idx = p /\ g[0].proof = <<>>
    BY <1>8
  <2>6. \E n \in Nat : g[0].proof = [i \in 1..n |-> g[0].proof[i]] /\ Walked(x, g[0].proof, n) = lv[0][g[0].idx + 1]
    BY <2>2, <2>3, <2>4, <2>5
  <2> QED BY <2>1, <2>5, <2>6 DEF Leads
<1> DEFINE Bad == {k \in 0..H : ~Leads(x, lv[k], g[k])}
<1>10. ASSUME Bad # {} PROVE FALSE
  <2>1. PICK k \in Bad : \A m \in Bad : k <= m
    <3>1. Bad \subseteq Nat
      BY <1>4
    <3> HIDE DEF Bad
    <3> QED BY <3>1, <1>10, LeastNatural
  <2>2. k # 0
    BY <1>9
  <2>3. PICK q : q = k - 1
    OBVIOUS
  <2>4. q \in 0..H /\ q \in 0..N /\ q # N /\ k = q + 1 /\ q \notin Bad /\ k \in 0..H
    BY <1>4, <2>1, <2>2, <2>3
  <2>5. Leads(x, lv[q], g[q])
    BY <2>4
  <2>6. lv[k] = NextLevel(lv[q])
    BY <1>3, <2>4
  <2>7. g[k] = Turn(lv[q], g[q])
    BY <1>6, <2>2, <2>3, <2>4 DEF LoopTo
  <2>8. Leads(x, lv[k], g[k])
    BY <2>5, <2>6, <2>7, TurnLeads
  <2> QED BY <2>1, <2>8
<1>11. Leads(x, lv[H], g[H])
  <2>1. H \in 0..H
    BY <1>4
  <2> QED BY <1>10, <2>1
<1>12. PICK w : Wide(lv[H], w) /\ g[H].idx < w /\ g[H].idx \in Nat
  BY <1>11 DEF Leads
<1>13. g[H].idx + 1 = 1
  <2>1. w = 1
    BY <1>3, <1>12, WideIsSeq
  <2> QED BY <1>12, <2>1
<1>14. PICK n \in Nat : g[H].proof = [i \in 1..n |-> g[H].proof[i]]
                        /\ Walked(x, g[H].proof, n) = lv[H][g[H].idx + 1]
  BY <1>11 DEF Leads
<1>15. Len(g[H].proof) = n
  BY <1>14, FunctionIsSeq
<1>16. MerkleRoot(refs) = lv[H][1]
  BY <1>2 DEF MerkleRoot
<1> QED BY <1>2, <1>7, <1>13, <1>14, <1>15, <1>16

\* get_proof's proof of a leaf leads verify_inclusion to the root, for any number
\* of leaves (merkle.py).
THEOREM EveryLeafProven ==
  ASSUME NEW refs, NEW p, Leaves(refs, p)
  PROVE  VerifyInclusion(refs[p + 1], GetProof(refs, p), MerkleRoot(refs))
BY ProofLeads, RecomputedIs DEF VerifyInclusion

\* and it proves no other leaf, whatever verify_inclusion is given for one.
THEOREM NoOtherLeafProven ==
  ASSUME NEW refs, NEW p, Leaves(refs, p), NEW x, x # refs[p + 1]
  PROVE  ~VerifyInclusion(x, GetProof(refs, p), MerkleRoot(refs))
<1>1. PICK n \in Nat : /\ Len(GetProof(refs, p)) = n
                      /\ Walked(refs[p + 1], GetProof(refs, p), n) = MerkleRoot(refs)
  BY ProofLeads
<1>2. Walked(x, GetProof(refs, p), n) # Walked(refs[p + 1], GetProof(refs, p), n)
  BY OneLeafPerProof
<1> QED BY <1>1, <1>2, RecomputedIs DEF VerifyInclusion


-----------------------------------------------------------------------------
(* Logs.                                                                     *)

IsEntry(e) ==
  e = [agent |-> e.agent, seq |-> e.seq, ref |-> e.ref, prev |-> e.prev, aseq |-> e.aseq, head |-> e.head]

\* n entries, well formed or not, chained or not.
EntryList(es, n) == n \in Nat /\ es = [i \in 1..n |-> es[i]] /\ \A i \in 1..n : IsEntry(es[i])

\* The entries up to one with the true head are the logged ones, since each of
\* them holds the head of the one before.
LEMMA HashChain ==
  ASSUME NEW es, NEW n, EntryList(es, n), NEW L, NEW N, EntryList(L, N), NEW g, Chained(L, g),
         NEW from \in Nat, from >= 1,
         \A i \in 1..n : EntryDefect(es, from, i) = "ok",
         NEW m \in 1..n, from + m - 1 <= N, es[1].agent = g, \A i \in 1..n : es[i].agent = g,
         es[m].head = L[from + m - 1].head
  PROVE  \A i \in 1..m : es[i] = L[from + i - 1]
<1>1. n \in Nat /\ N \in Nat /\ Len(L) = N /\ m \in Nat /\ DOMAIN es = 1..n
  BY FunctionIsSeq DEF EntryList
<1> DEFINE Bad == {d \in 0..(m - 1) : es[m - d] # L[from + (m - d) - 1]}
<1>2. ASSUME NEW i \in 1..n, NEW l \in 1..N, l = from + i - 1, es[i].head = L[l].head
      PROVE  es[i] = L[l] /\ (i # 1 => es[i - 1].head = L[l - 1].head)
  <2>1. /\ es[i].seq = l
        /\ es[i].head = ComputeHead(g, es[i].seq, es[i].ref, es[i].prev, es[i].aseq)
        /\ i > 1 => es[i].prev = es[i - 1].head
    <3>1. EntryDefect(es, from, i) = "ok"
      OBVIOUS
    <3>2. /\ es[i].seq = from + i - 1
          /\ es[i].head = ComputeHead(es[1].agent, es[i].seq, es[i].ref, es[i].prev, es[i].aseq)
          /\ ~(i > 1 /\ es[i].prev # es[i - 1].head)
      BY <3>1 DEF EntryDefect
    <3> QED BY <1>2, <3>2
  <2>2. PICK p : p = IF l = 1 THEN Absent ELSE L[l - 1].head
    OBVIOUS
  <2>3. L[l] = Entry(g, l, L[l].ref, p, L[l].aseq)
    BY <1>1, <2>2 DEF Chained
  <2>4. L[l] = [agent |-> g, seq |-> l, ref |-> L[l].ref, prev |-> p, aseq |-> L[l].aseq,
                head |-> ComputeHead(g, l, L[l].ref, p, L[l].aseq)]
    BY <2>3 DEF Entry
  <2>5. L[l].head = ComputeHead(g, l, L[l].ref, p, L[l].aseq)
    BY <2>4
  <2>6. <<g, l, es[i].ref, es[i].prev, es[i].aseq>> = <<g, l, L[l].ref, p, L[l].aseq>>
    BY <1>2, <2>1, <2>5 DEF ComputeHead
  <2>7. es[i].ref = L[l].ref /\ es[i].prev = p /\ es[i].aseq = L[l].aseq
    BY <2>6
  <2>8. es[i] = [agent |-> g, seq |-> l, ref |-> es[i].ref, prev |-> es[i].prev, aseq |-> es[i].aseq, head |-> es[i].head]
    <3>1. IsEntry(es[i]) /\ es[i].agent = g
      BY DEF EntryList
    <3> QED BY <3>1, <2>1 DEF IsEntry
  <2>9. es[i] = L[l]
    BY <1>2, <2>4, <2>5, <2>7, <2>8
  <2>10. i # 1 => es[i - 1].head = L[l - 1].head
    <3>1. i # 1 => i > 1 /\ l # 1
      BY <1>2, <1>1
    <3> QED BY <2>1, <2>2, <2>7, <3>1
  <2> QED BY <2>9, <2>10
<1>3. ASSUME Bad # {} PROVE FALSE
  <2>1. PICK d \in Bad : \A x \in Bad : d <= x
    <3>1. Bad \subseteq Nat
      BY <1>1
    <3> HIDE DEF Bad
    <3> QED BY <3>1, <1>3, LeastNatural
  <2>2. PICK i, l : i = m - d /\ l = from + i - 1
    OBVIOUS
  <2>3. i \in 1..n /\ l \in 1..N /\ d \in 0..(m - 1) /\ es[i] # L[l]
    BY <1>1, <2>1, <2>2
  <2>4. es[i].head = L[l].head
    <3>1. CASE d = 0
      BY <3>1, <2>2, <1>1
    <3>2. CASE d # 0
      <4>1. PICK c, j, k : c = d - 1 /\ j = i + 1 /\ k = l + 1
        OBVIOUS
      <4>2. c \in 0..(m - 1) /\ c < d /\ j = m - c /\ k = from + j - 1 /\ j \in 1..n /\ k \in 1..N /\ j # 1
        BY <1>1, <2>2, <2>3, <3>2, <4>1
      <4>3. c \notin Bad
        BY <2>1, <2>3, <4>2
      <4>4. es[j] = L[k]
        BY <4>2, <4>3
      <4>5. es[j - 1].head = L[k - 1].head
        BY <1>2, <4>2, <4>4
      <4>6. j - 1 = i /\ k - 1 = l
        BY <2>3, <4>1
      <4> QED BY <4>5, <4>6
    <3> QED BY <3>1, <3>2
  <2> QED BY <1>2, <2>2, <2>3, <2>4
<1>4. ASSUME NEW i \in 1..m
      PROVE  es[i] = L[from + i - 1]
  <2>1. PICK d : d = m - i
    OBVIOUS
  <2>2. d \in 0..(m - 1) /\ m - d = i
    BY <1>1, <2>1
  <2> QED BY <1>3, <2>2
<1> QED BY <1>4


Positive == {"complete", "window_complete", "complete_unsealed_tail", "window_complete_unsealed_tail"}

\* A positive verdict has passed every test.
LEMMA PositivePasses ==
  ASSUME NEW es, NEW n, EntryList(es, n), NEW from \in Nat, NEW anchor, NEW shown, NEW clock,
         VerifyTrail(es, from, anchor, shown, clock) \in Positive
  PROVE  /\ n >= 1
         /\ \A i \in 1..n : es[i].agent = es[1].agent /\ EntryDefect(es, from, i) = "ok"
         /\ VerifyTrail(es, from, anchor, shown, clock) = Completeness(es, from, shown, clock)
<1>1. n \in Nat /\ Len(es) = n /\ DOMAIN es = 1..n
  BY FunctionIsSeq DEF EntryList
<1>2. PICK a, b, c, d, e : /\ a = Shape(es) /\ b = Continuity(es, from) /\ c = WindowStart(es, from, anchor)
                           /\ d = AgentSeq(es, from) /\ e = Completeness(es, from, shown, clock)
  OBVIOUS
<1>3. a \notin Positive /\ b \notin Positive /\ c \notin Positive /\ d \notin Positive
  <2>1. a \notin Positive
    BY <1>2 DEF Shape, Positive
  <2>2. b \notin Positive
    BY <1>2 DEF Continuity, EntryDefect, Positive
  <2>3. c \notin Positive
    BY <1>2 DEF WindowStart, Positive
  <2>4. d \notin Positive
    BY <1>2 DEF AgentSeq, Positive
  <2> QED BY <2>1, <2>2, <2>3, <2>4
<1>4. Then(a, Then(b, Then(c, Then(d, e)))) \in Positive
  BY <1>2 DEF VerifyTrail
<1>5. a = "ok" /\ b = "ok" /\ VerifyTrail(es, from, anchor, shown, clock) = e
  BY <1>2, <1>3, <1>4 DEF Then, VerifyTrail
<1>6. es # <<>> /\ \A i \in DOMAIN es : es[i].agent = es[1].agent
  BY <1>2, <1>5 DEF Shape
<1>7. n >= 1
  BY <1>1, <1>6 DEF EntryList
<1> DEFINE bad == {i \in DOMAIN es : EntryDefect(es, from, i) # "ok"}
<1>8. bad = {}
  <2> SUFFICES ASSUME bad # {} PROVE FALSE
    OBVIOUS
  <2>1. b = "seq_order" \/ b = EntryDefect(es, from, Min(bad))
    BY <1>2 DEF Continuity
  <2>2. \E x \in bad : \A y \in bad : x <= y
    <3>1. bad \subseteq Nat
      BY <1>1
    <3> HIDE DEF bad
    <3> QED BY <3>1, LeastNatural
  <2>3. Min(bad) \in bad
    <3> HIDE DEF bad
    <3> QED BY <2>2 DEF Min
  <2> QED BY <1>5, <2>1, <2>3
<1> QED BY <1>1, <1>2, <1>5, <1>6, <1>7, <1>8

\* What the tests on the checkpoint say of the entries.
LEMMA CompletenessPasses ==
  ASSUME NEW es, NEW n \in Nat, Len(es) = n, n >= 1, NEW from \in Nat, NEW shown, NEW clock,
         es[n].seq = from + n - 1, shown.cp.seq \in Nat,
         Completeness(es, from, shown, clock) \in Positive
  PROVE  /\ shown.cp.agent = es[1].agent /\ Proven(shown)
         /\ from <= shown.cp.seq /\ shown.cp.seq <= from + n - 1
         /\ es[shown.cp.seq - from + 1].head = shown.cp.head
         /\ Completeness(es, from, shown, clock) \in {"complete", "window_complete"} <=> shown.cp.seq = from + n - 1
<1>1. PICK c, s, h, l, q : /\ c = Completeness(es, from, shown, clock) /\ s = shown.cp.seq /\ l = from + n - 1
                           /\ q = s - from + 1 /\ h = es[q].head
  OBVIOUS
<1>2. Last(es).seq = l
  BY <1>1 DEF Last
<1>3. /\ c = IF shown = NoCheckpoint THEN "no_checkpoint"
             ELSE IF shown.cp.agent # es[1].agent THEN "checkpoint_other_agent"
             ELSE IF ~Proven(shown) THEN "not_in_root"
             ELSE IF clock - shown.cp.end > MaxAge THEN "checkpoint_too_old"
             ELSE IF s < from THEN "checkpoint_before_window"
             ELSE IF l < s THEN "log_shorter_than_checkpoint"
             ELSE IF h # shown.cp.head THEN "head_differs_from_checkpoint"
             ELSE IF l = s THEN IF from > 1 THEN "window_complete" ELSE "complete"
             ELSE IF from > 1 THEN "window_complete_unsealed_tail" ELSE "complete_unsealed_tail"
  BY <1>1, <1>2 DEF Completeness
<1>4. /\ shown.cp.agent = es[1].agent /\ Proven(shown) /\ ~(s < from) /\ ~(l < s) /\ h = shown.cp.head
      /\ c \in {"complete", "window_complete"} <=> l = s
  BY <1>1, <1>3 DEF Positive
<1>5. s \in Nat /\ l \in Nat
  BY <1>1
<1> QED BY <1>1, <1>4, <1>5


\* The entries of a chained log are entries.
LEMMA ChainedIsList ==
  ASSUME NEW L, L \in Seq(Range(L)), NEW g, Chained(L, g)
  PROVE  EntryList(L, Len(L))
<1>1. Len(L) \in Nat /\ L = [i \in 1..Len(L) |-> L[i]]
  OBVIOUS
<1>2. ASSUME NEW i \in 1..Len(L)
      PROVE  IsEntry(L[i])
  <2>1. PICK p : L[i] = Entry(g, i, L[i].ref, p, L[i].aseq)
    BY DEF Chained
  <2>2. PICK e, r, a : e = L[i] /\ r = L[i].ref /\ a = L[i].aseq
    OBVIOUS
  <2>3. e = [agent |-> g, seq |-> i, ref |-> r, prev |-> p, aseq |-> a, head |-> ComputeHead(g, i, r, p, a)]
    BY <2>1, <2>2 DEF Entry
  <2>4. IsEntry(e)
    BY <2>3 DEF IsEntry
  <2> QED BY <2>2, <2>4
<1> QED BY <1>1, <1>2 DEF EntryList

\* Every agent's log is chained.
LEMMA LogOfIs ==
  ASSUME HeadInv, NEW g \in {"a", "b", "c"}
  PROVE  /\ EntryList(LogOf(g), Len(LogOf(g))) /\ Chained(LogOf(g), g)
         /\ LogOf(g) \in Seq(Range(LogOf(g)))
<1>1. CASE g = "a"
  BY <1>1, ChainedIsList DEF HeadInv, LogOf
<1>2. CASE g # "a"
  <2>1. PICK L, e : L = LogOf(g) /\ e = Entry(g, 1, "other", Absent, 0)
    OBVIOUS
  <2>2. L = <<e>>
    BY <1>2, <2>1 DEF LogOf, OtherLog
  <2>3. Len(L) = 1 /\ L[1] = e /\ DOMAIN L = 1..1 /\ L \in Seq(Range(L))
    BY <2>2 DEF Range
  <2>4. e.ref = "other" /\ e.aseq = 0
    BY <2>1 DEF Entry
  <2>5. Chained(L, g)
    BY <2>1, <2>3, <2>4 DEF Chained
  <2> QED BY <2>1, <2>3, <2>5, ChainedIsList
<1> QED BY <1>1, <1>2

LogIn(l, g) == IF g = "a" THEN l ELSE OtherLog(g)

\* CheckpointStands and HeadInv, of a log and seals given as values.
StandsIn(l, cp) ==
  /\ cp.agent \in {"a", "b", "c"}
  /\ cp.seq \in 1..Len(LogIn(l, cp.agent))
  /\ cp = [agent |-> cp.agent, end |-> cp.end, seq |-> cp.seq, head |-> LogIn(l, cp.agent)[cp.seq].head]

SealsStand(l, ss) ==
  /\ ss \in Seq(Range(ss))
  /\ \A q \in DOMAIN ss : ss[q] \in Seq(Range(ss[q])) /\ \A i \in DOMAIN ss[q] : StandsIn(l, ss[q][i])

HeadFits == log \in Seq(Range(log)) /\ Chained(log, "a") /\ SealsStand(log, seals)

\* HeadInv in the words of the values.
LEMMA HeadInvIs == HeadInv <=> HeadFits
<1>1. \A cp : CheckpointStands(cp) <=> StandsIn(log, cp)
  BY DEF CheckpointStands, StandsIn, LogOf, LogIn
<1> QED BY <1>1 DEF HeadInv, HeadFits, SealsStand

\* append_entry: the new entry holds the head of the last one.
LEMMA AppendEntryInv ==
  ASSUME HeadInv, NEW ref \in ActionRef, AppendEntry(ref)
  PROVE  HeadInv'
<1>1. PICK n, a, p, e : /\ n = Len(log) /\ a = (IF numbered THEN counter + 1 ELSE 0)
                        /\ p = (IF log = <<>> THEN Absent ELSE Last(log).head)
                        /\ e = Entry("a", n + 1, ref, p, a)
  OBVIOUS
<1>2. log' = Append(log, e) /\ seals' = seals
  BY <1>1 DEF AppendEntry, Append1
<1>3. log \in Seq(Range(log)) /\ Chained(log, "a") /\ n \in Nat
  BY <1>1 DEF HeadInv
<1>4. /\ log' \in Seq(Range(log) \cup {e}) /\ Len(log') = n + 1
      /\ \A i \in 1..n : log'[i] = log[i]
      /\ log'[n + 1] = e
  BY <1>1, <1>2, <1>3
<1>5. log' \in Seq(Range(log'))
  <2>1. log' = [i \in 1..(n + 1) |-> log'[i]] /\ n + 1 \in Nat /\ Range(log') = {log'[i] : i \in 1..(n + 1)}
    BY <1>3, <1>4 DEF Range
  <2> QED BY <2>1, FunctionIsSeq
<1>6. Chained(log', "a")
  <2> SUFFICES ASSUME NEW i \in 1..(n + 1)
               PROVE  log'[i] = Entry("a", i, log'[i].ref, IF i = 1 THEN Absent ELSE log'[i - 1].head, log'[i].aseq)
    BY <1>4 DEF Chained
  <2>1. CASE i \in 1..n
    <3>1. log[i] = Entry("a", i, log[i].ref, IF i = 1 THEN Absent ELSE log[i - 1].head, log[i].aseq)
      BY <1>1, <1>3, <2>1 DEF Chained
    <3>2. i # 1 => i - 1 \in 1..n
      BY <1>3, <2>1
    <3> QED BY <1>4, <2>1, <3>1, <3>2
  <2>2. CASE i = n + 1
    <3>1. e.ref = ref /\ e.aseq = a
      BY <1>1 DEF Entry
    <3>2. n = 0 <=> log = <<>>
      BY <1>1, <1>3
    <3>3. p = IF i = 1 THEN Absent ELSE log'[i - 1].head
      <4>1. CASE n = 0
        BY <4>1, <3>2, <2>2, <1>1
      <4>2. CASE n # 0
        <5>1. i # 1 /\ i - 1 = n /\ n \in 1..n
          BY <1>3, <2>2, <4>2
        <5>2. p = log[n].head
          BY <1>1, <3>2, <4>2 DEF Last
        <5> QED BY <5>1, <5>2, <1>4
      <4> QED BY <4>1, <4>2
    <3>4. log'[i] = e
      BY <1>4, <2>2
    <3> QED BY <1>1, <2>2, <3>1, <3>3, <3>4
  <2>3. i \in 1..n \/ i = n + 1
    BY <1>3
  <2> QED BY <2>1, <2>2, <2>3
<1>7. ASSUME NEW cp, StandsIn(log, cp)
      PROVE  StandsIn(log', cp)
  <2>1. CASE cp.agent = "a"
    <3>1. LogIn(log, cp.agent) = log /\ LogIn(log', cp.agent) = log'
      BY <2>1 DEF LogIn
    <3>2. cp.seq \in 1..n /\ cp = [agent |-> cp.agent, end |-> cp.end, seq |-> cp.seq, head |-> log[cp.seq].head]
      BY <1>1, <1>7, <3>1 DEF StandsIn
    <3>3. cp.seq \in 1..(n + 1) /\ log'[cp.seq] = log[cp.seq]
      BY <1>3, <1>4, <3>2
    <3> QED BY <1>4, <2>1, <3>1, <3>2, <3>3 DEF StandsIn
  <2>2. CASE cp.agent # "a"
    <3>1. LogIn(log, cp.agent) = LogIn(log', cp.agent)
      BY <2>2 DEF LogIn
    <3> QED BY <1>7, <3>1 DEF StandsIn
  <2> QED BY <2>1, <2>2
<1>8. SealsStand(log', seals')
  <2>1. SealsStand(log, seals)
    BY HeadInvIs DEF HeadFits
  <2> QED BY <1>2, <1>7, <2>1 DEF SealsStand
<1>9. HeadFits'
  BY <1>5, <1>6, <1>8 DEF HeadFits
<1> QED BY <1>9, HeadInvIs, PTL


\* seal_period: every checkpoint is of an agent's last entry.
LEMMA SealPeriodInv ==
  ASSUME HeadInv, SealPeriod
  PROVE  HeadInv'
<1>1. PICK present : present = IF log = <<>> THEN Tail(Agents) ELSE Agents
  OBVIOUS
<1>2. PICK period : period = [i \in DOMAIN present |-> MakeCheckpoint(present[i])]
  OBVIOUS
<1>3. seals' = Append(seals, period) /\ log' = log
  BY <1>1, <1>2 DEF SealPeriod
<1>4. \E n \in Nat : /\ DOMAIN present = 1..n
                     /\ \A i \in 1..n : present[i] \in {"a", "b", "c"} /\ (log = <<>> => present[i] # "a")
  <2>1. CASE log = <<>>
    <3>1. Tail(<<"a", "b", "c">>) = <<"b", "c">>
      OBVIOUS
    <3>2. present = <<"b", "c">>
      BY <1>1, <2>1, <3>1 DEF Agents
    <3>3. DOMAIN present = 1..2 /\ \A i \in 1..2 : present[i] \in {"b", "c"}
      BY <3>2
    <3> QED BY <3>3
  <2>2. CASE log # <<>>
    <3>1. present = <<"a", "b", "c">>
      BY <1>1, <2>2 DEF Agents
    <3>2. DOMAIN present = 1..3 /\ \A i \in 1..3 : present[i] \in {"a", "b", "c"}
      BY <3>1
    <3> QED BY <3>2, <2>2
  <2> QED BY <2>1, <2>2
<1>5. PICK n \in Nat : /\ DOMAIN present = 1..n
                       /\ \A i \in 1..n : present[i] \in {"a", "b", "c"} /\ (log = <<>> => present[i] # "a")
  BY <1>4
<1>6. ASSUME NEW i \in 1..n
      PROVE  StandsIn(log, period[i])
  <2>1. PICK g, L, k, end : /\ g = present[i] /\ L = LogOf(g) /\ k = Len(L) /\ end = Len(seals) + 1
    OBVIOUS
  <2>2. g \in {"a", "b", "c"} /\ (log = <<>> => g # "a")
    BY <1>5, <2>1
  <2>3. EntryList(L, k) /\ Chained(L, g)
    BY <2>1, <2>2, LogOfIs
  <2>4. k >= 1 /\ k \in Nat
    <3>1. CASE g = "a"
      <4>1. L = log /\ log # <<>> /\ log \in Seq(Range(log))
        BY <2>1, <2>2, <3>1 DEF LogOf, HeadInv
      <4> QED BY <2>1, <4>1
    <3>2. CASE g # "a"
      BY <2>1, <3>2 DEF LogOf, OtherLog
    <3> QED BY <3>1, <3>2
  <2>5. period[i] = [agent |-> g, end |-> end, seq |-> L[k].seq, head |-> L[k].head]
    BY <1>2, <1>5, <2>1 DEF MakeCheckpoint, Last
  <2>6. L[k].seq = k
    <3>1. k \in 1..Len(L)
      BY <2>1, <2>4
    <3>2. PICK p : L[k] = Entry(g, k, L[k].ref, p, L[k].aseq)
      BY <2>3, <3>1 DEF Chained
    <3> QED BY <3>2 DEF Entry
  <2>7. LogIn(log, g) = L /\ Len(L) = k /\ k \in 1..k
    BY <2>1, <2>4 DEF LogIn, LogOf
  <2> QED BY <2>2, <2>5, <2>6, <2>7 DEF StandsIn
<1>7. period \in Seq(Range(period)) /\ DOMAIN period = 1..n
  <2>1. period = [i \in 1..n |-> period[i]] /\ Range(period) = {period[i] : i \in 1..n}
    BY <1>2, <1>5 DEF Range
  <2> QED BY <2>1, FunctionIsSeq
<1>8. PICK m : m = Len(seals)
  OBVIOUS
<1>9. SealsStand(log, seals)
  BY HeadInvIs DEF HeadFits
<1>10. m \in Nat /\ seals \in Seq(Range(seals)) /\ DOMAIN seals = 1..m
  BY <1>8, <1>9 DEF SealsStand
<1>11. /\ DOMAIN seals' = 1..(m + 1) /\ seals' = [q \in 1..(m + 1) |-> seals'[q]]
       /\ \A q \in 1..m : seals'[q] = seals[q]
       /\ seals'[m + 1] = period
  <2>1. /\ seals' \in Seq(Range(seals) \cup {period}) /\ Len(seals') = m + 1
        /\ \A q \in 1..m : seals'[q] = seals[q]
        /\ seals'[m + 1] = period
    BY <1>3, <1>8, <1>10
  <2> QED BY <2>1, <1>10
<1>12. SealsStand(log', seals')
  <2>1. seals' \in Seq(Range(seals'))
    <3>1. m + 1 \in Nat /\ Range(seals') = {seals'[q] : q \in 1..(m + 1)}
      BY <1>10, <1>11 DEF Range
    <3> QED BY <1>11, <3>1, FunctionIsSeq
  <2>2. ASSUME NEW q \in 1..(m + 1)
        PROVE  seals'[q] \in Seq(Range(seals'[q])) /\ \A i \in DOMAIN seals'[q] : StandsIn(log, seals'[q][i])
    <3>1. CASE q = m + 1
      BY <3>1, <1>6, <1>7, <1>11
    <3>2. CASE q # m + 1
      <4>1. q \in 1..m
        BY <3>2, <1>10
      <4> QED BY <4>1, <1>9, <1>10, <1>11 DEF SealsStand
    <3> QED BY <3>1, <3>2
  <2> QED BY <1>3, <1>11, <2>1, <2>2 DEF SealsStand
<1>13. HeadFits'
  BY <1>3, <1>12, HeadInvIs DEF HeadFits
<1> QED BY <1>13, HeadInvIs, PTL

\* append_entry, an omitted one and seal_period keep the invariant.
LEMMA HeadNextInv == HeadInv /\ HeadNext => HeadInv'
<1> SUFFICES ASSUME HeadInv, HeadNext PROVE HeadInv'
  OBVIOUS
<1>1. CASE OmitEntry
  <2>1. log' = log /\ seals' = seals
    BY <1>1 DEF OmitEntry
  <2>2. HeadFits'
    BY <2>1, HeadInvIs DEF HeadFits
  <2> QED BY <2>2, HeadInvIs, PTL
<1> QED BY <1>1, AppendEntryInv, SealPeriodInv DEF HeadNext

\* Nothing is logged yet, and nothing sealed.
LEMMA HeadInitInv == HeadInit => HeadInv
<1> SUFFICES ASSUME HeadInit PROVE HeadInv
  OBVIOUS
<1>1. log = <<>> /\ seals = <<>>
  BY DEF HeadInit
<1> QED BY <1>1 DEF HeadInv, Chained

\* Steps of the other verifiers leave the log alone.
LEMMA HeadFrame == HeadInv /\ UNCHANGED headVars => HeadInv'
<1> SUFFICES ASSUME HeadInv, UNCHANGED headVars PROVE HeadInv'
  OBVIOUS
<1>1. log' = log /\ seals' = seals
  BY DEF headVars
<1>2. HeadFits'
  BY <1>1, HeadInvIs DEF HeadFits
<1> QED BY <1>2, HeadInvIs, PTL


\* Whatever list of entries is shown, a positive verdict of verify_trail means
\* that it is the log as far as the checkpoint, and that the checkpoint is a
\* sealed one.
WholeLog(es, shown, from, v) ==
  LET covered == SubSeq(LogOf(shown.cp.agent), from, shown.cp.seq) IN
  /\ v \in {"complete", "window_complete"} => es = covered
  /\ v \in {"complete_unsealed_tail", "window_complete_unsealed_tail"} =>
       SubSeq(es, 1, Len(covered)) = covered /\ Len(es) > Len(covered)
  /\ v \in Positive => shown \in Sealed

\* A checkpoint shown has a head of the log, whose proof is another's unless it
\* is sealed.
LEMMA ShownStands ==
  ASSUME HeadInv, NEW shown \in Sealed \cup Lowered
  PROVE  StandsIn(log, shown.cp) /\ (shown \in Sealed \/ ~Proven(shown))
<1>1. HeadFits /\ SealsStand(log, seals)
  BY HeadInvIs DEF HeadFits
<1>2. ASSUME NEW p \in DOMAIN seals, NEW i \in DOMAIN seals[p]
      PROVE  /\ Shown(p, i) = [cp |-> seals[p][i], proof |-> GetProof(seals[p], i - 1), root |-> MerkleRoot(seals[p])]
             /\ StandsIn(log, seals[p][i])
             /\ \A x : x # seals[p][i] => ~VerifyInclusion(x, GetProof(seals[p], i - 1), MerkleRoot(seals[p]))
  <2>1. seals[p] \in Seq(Range(seals[p])) /\ StandsIn(log, seals[p][i])
    BY <1>1 DEF SealsStand
  <2>2. PICK N : N = Len(seals[p])
    OBVIOUS
  <2>3. N \in Nat /\ seals[p] = [k \in 1..N |-> seals[p][k]] /\ i \in 1..N
    BY <2>1, <2>2
  <2>4. PICK q : q = i - 1
    OBVIOUS
  <2>5. q \in 0..(N - 1) /\ q + 1 = i
    BY <2>3, <2>4
  <2>6. Leaves(seals[p], q)
    BY <2>3, <2>5 DEF Leaves
  <2> QED BY <2>1, <2>4, <2>5, <2>6, NoOtherLeafProven DEF Shown
<1>3. CASE shown \in Sealed
  <2>1. PICK p \in DOMAIN seals : \E i \in DOMAIN seals[p] : shown = Shown(p, i)
    BY <1>3 DEF Sealed
  <2>2. PICK i \in DOMAIN seals[p] : shown = Shown(p, i)
    BY <2>1
  <2>3. shown.cp = seals[p][i]
    BY <1>2, <2>2
  <2> QED BY <1>2, <1>3, <2>3
<1>4. CASE shown \in Lowered
  <2>1. PICK k \in DOMAIN log : \E s \in {t \in Sealed : t.cp.agent = "a" /\ t.cp.seq > k} :
                                  shown = [s EXCEPT !.cp = [@ EXCEPT !.seq = k, !.head = log[k].head]]
    BY <1>4 DEF Lowered
  <2>2. PICK s \in Sealed : /\ s.cp.agent = "a" /\ s.cp.seq > k
                            /\ shown = [s EXCEPT !.cp = [@ EXCEPT !.seq = k, !.head = log[k].head]]
    BY <2>1
  <2>3. PICK p \in DOMAIN seals : \E i \in DOMAIN seals[p] : s = Shown(p, i)
    BY <2>2 DEF Sealed
  <2>4. PICK i \in DOMAIN seals[p] : s = Shown(p, i)
    BY <2>3
  <2>5. PICK c, proof, root, h, d : /\ c = seals[p][i] /\ proof = GetProof(seals[p], i - 1) /\ root = MerkleRoot(seals[p])
                                    /\ h = log[k].head /\ d = [c EXCEPT !.seq = k, !.head = h]
    OBVIOUS
  <2>6. s = [cp |-> c, proof |-> proof, root |-> root] /\ StandsIn(log, c)
        /\ \A x : x # c => ~VerifyInclusion(x, proof, root)
    BY <1>2, <2>4, <2>5
  <2>7. shown = [cp |-> d, proof |-> proof, root |-> root]
    BY <2>2, <2>5, <2>6
  <2>8. c.agent = "a" /\ c.seq > k
    BY <2>2, <2>6
  <2>9. PICK end, seq, head : c = [agent |-> "a", end |-> end, seq |-> seq, head |-> head]
    BY <2>6, <2>8 DEF StandsIn
  <2>10. d = [agent |-> "a", end |-> end, seq |-> k, head |-> h]
    <3>1. d = [c EXCEPT !.seq = k, !.head = h]
      BY <2>5
    <3> QED BY ONLY <2>9, <3>1
  <2>11. k \in 1..Len(log)
    BY <1>1 DEF HeadFits
  <2>12. StandsIn(log, d)
    <3>0. h = log[k].head
      BY <2>5
    <3>1. d.agent = "a" /\ d.seq = k /\ d.end = end /\ h = log[k].head
      BY <2>10, <3>0
    <3>2. LogIn(log, d.agent) = log
      BY <3>1 DEF LogIn
    <3>3. d = [agent |-> d.agent, end |-> d.end, seq |-> d.seq, head |-> log[d.seq].head]
      BY <2>10, <3>1
    <3> QED BY <2>11, <3>1, <3>2, <3>3 DEF StandsIn
  <2>13. d # c
    <3>1. d.seq = k /\ c.seq > k /\ k \in Int
      BY <2>8, <2>10, <2>11
    <3> QED BY <3>1
  <2>14. ~Proven(shown)
    BY <2>6, <2>7, <2>13 DEF Proven
  <2> QED BY <2>7, <2>12, <2>14
<1> QED BY <1>3, <1>4


\* verify_trail, shown any list of entries with a sealed or lowered checkpoint.
LEMMA ShownIsWhole ==
  ASSUME HeadInv, NEW es, NEW n, EntryList(es, n), NEW from \in Nat, from >= 1, NEW anchor, NEW clock,
         NEW shown \in Sealed \cup Lowered
  PROVE  WholeLog(es, shown, from, VerifyTrail(es, from, anchor, shown, clock))
<1>1. PICK v, g, L, N, s, m, covered :
        /\ v = VerifyTrail(es, from, anchor, shown, clock) /\ g = shown.cp.agent /\ L = LogOf(g) /\ N = Len(L)
        /\ s = shown.cp.seq /\ m = s - from + 1 /\ covered = SubSeq(L, from, s)
  OBVIOUS
<1> SUFFICES ASSUME v \in Positive
             PROVE  /\ v \in {"complete", "window_complete"} => es = covered
                    /\ v \in {"complete_unsealed_tail", "window_complete_unsealed_tail"} =>
                         SubSeq(es, 1, Len(covered)) = covered /\ Len(es) > Len(covered)
                    /\ shown \in Sealed
  BY <1>1 DEF WholeLog, Positive
<1>2. /\ n \in Nat /\ n >= 1 /\ Len(es) = n
      /\ \A i \in 1..n : es[i].agent = es[1].agent /\ EntryDefect(es, from, i) = "ok"
      /\ v = Completeness(es, from, shown, clock)
  <2>1. n \in Nat /\ Len(es) = n
    BY FunctionIsSeq DEF EntryList
  <2>2. VerifyTrail(es, from, anchor, shown, clock) \in Positive
    BY <1>1
  <2>3. /\ n >= 1
        /\ \A i \in 1..n : es[i].agent = es[1].agent /\ EntryDefect(es, from, i) = "ok"
        /\ VerifyTrail(es, from, anchor, shown, clock) = Completeness(es, from, shown, clock)
    BY <2>2, PositivePasses
  <2> QED BY <1>1, <2>1, <2>3
<1>3. g \in {"a", "b", "c"} /\ s \in 1..N /\ shown.cp.head = L[s].head /\ (shown \in Sealed \/ ~Proven(shown))
  <2>1. LogIn(log, g) = L
    BY <1>1 DEF LogIn, LogOf
  <2>2. StandsIn(log, shown.cp)
    BY ShownStands
  <2>3. shown.cp.head = L[s].head
    <3>1. PICK c, h : c = shown.cp /\ h = L[s].head
      OBVIOUS
    <3>2. c = [agent |-> c.agent, end |-> c.end, seq |-> c.seq, head |-> h]
      BY <1>1, <2>1, <2>2, <3>1 DEF StandsIn
    <3>3. c.head = h
      BY <3>2
    <3> QED BY <3>1, <3>3
  <2> QED BY <1>1, <2>1, <2>2, <2>3, ShownStands DEF StandsIn
<1>4. EntryList(L, N) /\ Chained(L, g) /\ L \in Seq(Range(L)) /\ N \in Nat
  BY <1>1, <1>3, LogOfIs DEF EntryList
<1>5. es[n].seq = from + n - 1
  <2>1. EntryDefect(es, from, n) = "ok"
    BY <1>2
  <2> QED BY <2>1 DEF EntryDefect
<1>6. /\ g = es[1].agent /\ Proven(shown) /\ from <= s /\ s <= from + n - 1
      /\ es[m].head = L[s].head
      /\ v \in {"complete", "window_complete"} <=> s = from + n - 1
  <2>1. s \in Nat
    BY <1>3, <1>4
  <2>2. shown.cp.seq = s /\ shown.cp.seq \in Nat /\ n \in Nat /\ Len(es) = n /\ n >= 1
    BY <1>1, <1>2, <2>1
  <2>3. Completeness(es, from, shown, clock) = v /\ Completeness(es, from, shown, clock) \in Positive
    BY <1>2
  <2>4. /\ shown.cp.agent = es[1].agent /\ Proven(shown)
        /\ from <= shown.cp.seq /\ shown.cp.seq <= from + n - 1
        /\ es[shown.cp.seq - from + 1].head = shown.cp.head
        /\ Completeness(es, from, shown, clock) \in {"complete", "window_complete"} <=> shown.cp.seq = from + n - 1
    BY ONLY <2>2, <2>3, <1>5, from \in Nat, CompletenessPasses
  <2>5. shown.cp.agent = g /\ shown.cp.head = L[s].head /\ shown.cp.seq - from + 1 = m
    BY <1>1, <1>3, <2>2
  <2> QED BY ONLY <2>2, <2>3, <2>4, <2>5
<1>7. m \in 1..n /\ from + m - 1 = s /\ s <= N /\ s \in Nat /\ m \in Nat
  <2>1. s \in Nat /\ n \in Nat /\ N \in Nat /\ m = s - from + 1 /\ s <= N /\ from <= s /\ s <= from + n - 1
    BY <1>1, <1>2, <1>3, <1>4, <1>6
  <2> QED BY ONLY <2>1, from \in Nat, from >= 1
<1>8. \A i \in 1..m : es[i] = L[from + i - 1]
  <2>1. \A i \in 1..n : es[i].agent = g
    BY <1>2, <1>6
  <2>2. \A i \in 1..n : EntryDefect(es, from, i) = "ok"
    BY <1>2
  <2>3. es[m].head = L[from + m - 1].head /\ from + m - 1 <= N
    BY <1>6, <1>7
  <2> QED BY <1>4, <1>6, <1>7, <2>1, <2>2, <2>3, HashChain
<1>9. covered \in Seq(Range(L)) /\ Len(covered) = m /\ \A i \in 1..m : covered[i] = L[from + i - 1]
  <2>1. from \in 1..N /\ s \in from..N
    BY <1>4, <1>6, <1>7
  <2>2. m = s - from + 1
    BY <1>1
  <2> QED BY <1>1, <1>4, <2>1, <2>2
<1>10. covered = [i \in 1..m |-> es[i]]
  BY <1>8, <1>9
<1>11. es \in Seq({es[i] : i \in 1..n}) /\ es = [i \in 1..n |-> es[i]]
  BY <1>2, FunctionIsSeq DEF EntryList
<1>12. v \in {"complete", "window_complete"} => es = covered
  <2>1. s = from + n - 1 => m = n
    BY <1>1, <1>2
  <2> QED BY <1>6, <1>10, <1>11, <2>1
<1>13. SubSeq(es, 1, m) = covered
  <2>1. /\ SubSeq(es, 1, m) \in Seq({es[i] : i \in 1..n}) /\ Len(SubSeq(es, 1, m)) = m
        /\ \A i \in 1..m : SubSeq(es, 1, m)[i] = es[i]
    <3>1. PICK S : S = {es[i] : i \in 1..n}
      OBVIOUS
    <3>2. es \in Seq(S) /\ Len(es) = n /\ m \in 1..n
      BY <1>2, <1>7, <1>11, <3>1
    <3>3. SubSeq(es, 1, m) \in Seq(S) /\ Len(SubSeq(es, 1, m)) = m /\ \A i \in 1..m : SubSeq(es, 1, m)[i] = es[i]
      BY ONLY <3>2, n \in Nat, <1>2
    <3> QED BY <3>1, <3>3
  <2> QED BY <1>10, <2>1
<1>14. v \notin {"complete", "window_complete"} => n > m
  <2>1. s # from + n - 1 => n > m
    BY <1>2, <1>6, <1>7
  <2> QED BY <1>6, <2>1
<1> QED BY <1>2, <1>3, <1>6, <1>9, <1>12, <1>13, <1>14


\* Lists of entries, over some set of them.
EntriesOnly(es) == \E S : es \in Seq(S) /\ \A x \in S : IsEntry(x)

\* The two ways to say that es lists entries.
LEMMA EntriesOnlyIs ==
  ASSUME NEW es
  PROVE  /\ EntriesOnly(es) => EntryList(es, Len(es))
         /\ \A n : EntryList(es, n) => EntriesOnly(es)
<1>1. ASSUME EntriesOnly(es) PROVE EntryList(es, Len(es))
  <2>1. PICK S : es \in Seq(S) /\ \A x \in S : IsEntry(x)
    BY <1>1 DEF EntriesOnly
  <2>2. Len(es) \in Nat /\ es = [i \in 1..Len(es) |-> es[i]] /\ \A i \in 1..Len(es) : es[i] \in S
    BY <2>1
  <2> QED BY <2>1, <2>2 DEF EntryList
<1>2. ASSUME NEW n, EntryList(es, n) PROVE EntriesOnly(es)
  <2>1. n \in Nat /\ es \in Seq({es[i] : i \in 1..n}) /\ \A x \in {es[i] : i \in 1..n} : IsEntry(x)
    BY <1>2, FunctionIsSeq DEF EntryList
  <2> QED BY <2>1 DEF EntriesOnly
<1> QED BY <1>1, <1>2

\* What append_entry makes is an entry.
LEMMA EntryIsEntry ==
  ASSUME NEW g, NEW i, NEW r, NEW p, NEW a
  PROVE  IsEntry(Entry(g, i, r, p, a))
BY DEF Entry, IsEntry

\* Appending an entry,
LEMMA AppendEntries ==
  ASSUME NEW es, EntriesOnly(es), NEW e, IsEntry(e)
  PROVE  EntriesOnly(Append(es, e))
<1>1. PICK S : es \in Seq(S) /\ \A x \in S : IsEntry(x)
  BY DEF EntriesOnly
<1>2. PICK T : T = S \cup {e}
  OBVIOUS
<1>3. Append(es, e) \in Seq(T) /\ \A x \in T : IsEntry(x)
  BY <1>1, <1>2
<1> QED BY <1>3 DEF EntriesOnly

\* joining lists of them,
LEMMA ConcatEntries ==
  ASSUME NEW es, EntriesOnly(es), NEW fs, EntriesOnly(fs)
  PROVE  EntriesOnly(es \o fs)
<1>1. PICK S : es \in Seq(S) /\ \A x \in S : IsEntry(x)
  BY DEF EntriesOnly
<1>2. PICK R : fs \in Seq(R) /\ \A x \in R : IsEntry(x)
  BY DEF EntriesOnly
<1>3. PICK T : T = S \cup R
  OBVIOUS
<1>4. es \in Seq(T) /\ fs \in Seq(T) /\ \A x \in T : IsEntry(x)
  BY <1>1, <1>2, <1>3
<1>5. es \o fs \in Seq(T)
  BY <1>4
<1> QED BY <1>4, <1>5 DEF EntriesOnly

\* cutting one,
LEMMA SubSeqEntries ==
  ASSUME NEW es, EntriesOnly(es), NEW i \in Int, NEW j \in Int, i >= 1, j <= Len(es)
  PROVE  EntriesOnly(SubSeq(es, i, j))
<1>1. PICK S : es \in Seq(S) /\ \A x \in S : IsEntry(x)
  BY DEF EntriesOnly
<1>2. \A k \in i..j : es[k] \in S
  BY <1>1
<1>3. SubSeq(es, i, j) \in Seq(S)
  BY <1>2, SubSeqProperties
<1> QED BY <1>1, <1>3 DEF EntriesOnly

\* and replacing one leave entries only.
LEMMA ExceptEntries ==
  ASSUME NEW es, EntriesOnly(es), NEW i \in 1..Len(es), NEW e, IsEntry(e)
  PROVE  EntriesOnly([es EXCEPT ![i] = e])
<1>1. PICK S : es \in Seq(S) /\ \A x \in S : IsEntry(x)
  BY DEF EntriesOnly
<1>2. PICK T : T = S \cup {e}
  OBVIOUS
<1>3. PICK n : n = Len(es)
  OBVIOUS
<1>4. n \in Nat /\ es \in [1..n -> T] /\ i \in 1..n /\ e \in T /\ \A x \in T : IsEntry(x)
  BY <1>1, <1>2, <1>3
<1>5. PICK fs : fs = [es EXCEPT ![i] = e]
  OBVIOUS
<1>6. fs \in [1..n -> T]
  BY <1>4, <1>5
<1>7. fs \in Seq(T)
  BY <1>4, <1>6
<1> QED BY <1>4, <1>5, <1>7 DEF EntriesOnly

\* The logs chained afresh.
ChainTo(g, refs, n) ==
  g = [k \in 0..n |-> IF k = 0 THEN <<>> ELSE Append1(g[k - 1], "a", refs[k], 0)]

\* The fresh log of some action_refs, entry by entry.
LEMMA ChainExists ==
  ASSUME NEW refs, NEW k \in Nat
  PROVE  \E g : ChainTo(g, refs, k) /\ \A n \in 0..k : EntriesOnly(g[n])
<1> DEFINE Ok(n) == \E g : ChainTo(g, refs, n) /\ \A i \in 0..n : EntriesOnly(g[i])
           Bad == {n \in Nat : ~Ok(n)}
<1> SUFFICES ASSUME Bad # {} PROVE FALSE
  OBVIOUS
<1>1. PICK n \in Bad : \A m \in Bad : n <= m
  <2> HIDE DEF Bad
  <2>1. Bad \subseteq Nat
    BY DEF Bad
  <2> QED BY <2>1, LeastNatural
<1>2. n # 0
  <2>1. PICK z : z = [m \in 0..0 |-> <<>>]
    OBVIOUS
  <2>2. ChainTo(z, refs, 0)
    BY <2>1 DEF ChainTo
  <2>3. PICK e, S : e = <<>> /\ S = {}
    OBVIOUS
  <2>a. e \in Seq(S) /\ \A x \in S : IsEntry(x)
    BY <2>3
  <2>b. EntriesOnly(e)
    BY <2>a DEF EntriesOnly
  <2>4. EntriesOnly(<<>>)
    BY <2>b, <2>3
  <2>5. \A i \in 0..0 : EntriesOnly(z[i])
    BY <2>1, <2>4
  <2>6. Ok(0)
    BY <2>2, <2>5
  <2> HIDE DEF Ok
  <2> QED BY <2>6, <1>1
<1>3. PICK p : p = n - 1
  OBVIOUS
<1>4. p \in Nat /\ n = p + 1 /\ p \notin Bad /\ n \in Nat
  <2> HIDE DEF Ok
  <2> QED BY <1>1, <1>2, <1>3
<1>5. PICK g : ChainTo(g, refs, p) /\ \A i \in 0..p : EntriesOnly(g[i])
  BY <1>4
<1>6. g = [m \in 0..p |-> IF m = 0 THEN <<>> ELSE Append1(g[m - 1], "a", refs[m], 0)]
  BY <1>5 DEF ChainTo
<1> DEFINE final == Append1(g[p], "a", refs[n], 0)
           h == [m \in 0..n |-> IF m = n THEN final ELSE g[m]]
<1>7. ChainTo(h, refs, n)
  <2>1. ASSUME NEW m \in 0..n
        PROVE  h[m] = IF m = 0 THEN <<>> ELSE Append1(h[m - 1], "a", refs[m], 0)
    <3>1. CASE m = n
      <4>1. m - 1 = p /\ h[p] = g[p] /\ h[m] = final
        BY <3>1, <1>2, <1>4
      <4> QED BY <4>1, <3>1, <1>2
    <3>2. CASE m = 0
      BY <3>2, <1>2, <1>4, <1>6
    <3>3. CASE m # 0 /\ m # n
      <4>1. PICK q : q = m - 1
        OBVIOUS
      <4>2. q \in 0..p /\ q \in 0..n /\ q # n /\ m \in 0..p
        BY <4>1, <3>3, <1>4
      <4>3. g[m] = Append1(g[q], "a", refs[m], 0)
        BY <4>1, <4>2, <3>3, <1>6
      <4>4. h[m] = g[m] /\ h[q] = g[q]
        BY <4>2, <3>3
      <4> QED BY <4>1, <4>3, <4>4, <3>3
    <3> QED BY <3>1, <3>2, <3>3
  <2>2. h = [m \in 0..n |-> h[m]]
    OBVIOUS
  <2> HIDE DEF h
  <2>3. h = [m \in 0..n |-> IF m = 0 THEN <<>> ELSE Append1(h[m - 1], "a", refs[m], 0)]
    BY <2>1, <2>2
  <2> QED BY <2>3 DEF ChainTo
<1>8. EntriesOnly(final)
  <2>1. EntriesOnly(g[p]) /\ p \in 0..p
    BY <1>4, <1>5
  <2> QED BY <2>1, AppendEntries, EntryIsEntry DEF Append1
<1> HIDE DEF final
<1>9. \A i \in 0..n : EntriesOnly(h[i])
  BY <1>4, <1>5, <1>8
<1>10. Ok(n)
  <2> HIDE DEF h
  <2> QED BY <1>7, <1>9
<1> QED
  <2> HIDE DEF Ok
  <2> QED BY <1>1, <1>10

\* There is one such log only.
LEMMA ChainAgrees ==
  ASSUME NEW refs, NEW k \in Nat, NEW g, ChainTo(g, refs, k), NEW h, ChainTo(h, refs, k)
  PROVE  g[k] = h[k]
<1> DEFINE Bad == {n \in 0..k : g[n] # h[n]}
<1> SUFFICES ASSUME Bad # {} PROVE FALSE
  OBVIOUS
<1>1. PICK n \in Bad : \A m \in Bad : n <= m
  <2> HIDE DEF Bad
  <2>1. Bad \subseteq Nat
    BY DEF Bad
  <2> QED BY <2>1, LeastNatural
<1>2. g[0] = <<>> /\ h[0] = <<>>
  BY DEF ChainTo
<1>3. PICK p : p = n - 1
  OBVIOUS
<1>4. p \in 0..k /\ p \notin Bad /\ n # 0
  BY <1>1, <1>2, <1>3
<1>5. g[n] = Append1(g[p], "a", refs[n], 0) /\ h[n] = Append1(h[p], "a", refs[n], 0)
  BY <1>1, <1>3, <1>4 DEF ChainTo
<1> QED BY <1>1, <1>4, <1>5

\* A log chained afresh lists entries.
LEMMA ChainOfEntries ==
  ASSUME NEW refs, NEW n \in Nat, Len(refs) = n
  PROVE  EntriesOnly(ChainOf(refs))
<1>1. PICK h : h = CHOOSE g : ChainTo(g, refs, n)
  OBVIOUS
<1>2. ChainOf(refs) = h[n]
  BY <1>1 DEF ChainOf, ChainTo
<1>3. PICK g : ChainTo(g, refs, n) /\ \A i \in 0..n : EntriesOnly(g[i])
  BY ChainExists
<1>4. ChainTo(h, refs, n)
  BY <1>1, <1>3
<1>5. g[n] = h[n] /\ n \in 0..n
  BY <1>3, <1>4, ChainAgrees
<1> QED BY <1>2, <1>3, <1>5


\* Whatever a consumer is shown here is a list of entries.
LEMMA PresentedEntries ==
  ASSUME HeadInv, NEW es \in Presented
  PROVE  EntriesOnly(es)
<1>1. PICK n : n = Len(log)
  OBVIOUS
<1>2. log \in Seq(Range(log)) /\ n \in Nat /\ DOMAIN log = 1..n /\ EntryList(log, n)
  BY <1>1, ChainedIsList DEF HeadInv
<1>3. EntriesOnly(log)
  BY <1>2, EntriesOnlyIs
<1>4. \A i \in 1..n : IsEntry(log[i])
  BY <1>2 DEF EntryList
<1>5. \A g : EntriesOnly(OtherLog(g))
  <2> SUFFICES ASSUME NEW g PROVE EntriesOnly(OtherLog(g))
    OBVIOUS
  <2>1. PICK e, S : e = Entry(g, 1, "other", Absent, 0) /\ S = {e}
    OBVIOUS
  <2>2. OtherLog(g) \in Seq(S) /\ \A x \in S : IsEntry(x)
    BY <2>1, EntryIsEntry DEF OtherLog
  <2> QED BY <2>2 DEF EntriesOnly
<1>6. ASSUME NEW i \in 1..n, NEW j \in 1..n
      PROVE  EntriesOnly(SubSeq(log, i, j))
  <2>1. i \in Int /\ j \in Int /\ i >= 1 /\ j <= Len(log)
    BY <1>1, <1>2
  <2> QED BY <2>1, <1>3, SubSeqEntries
<1>7. ASSUME NEW i \in 1..n
      PROVE  EntriesOnly(RemoveAt(log, i))
  <2>1. PICK b, e : b = i - 1 /\ e = i + 1
    OBVIOUS
  <2>2. b \in Int /\ e \in Int /\ b <= Len(log) /\ e >= 1 /\ n \in Int /\ n <= Len(log) /\ 1 >= 1 /\ 1 \in Int
    BY <1>1, <1>2, <2>1
  <2>3. EntriesOnly(SubSeq(log, 1, b)) /\ EntriesOnly(SubSeq(log, e, n))
    BY <2>2, <1>3, SubSeqEntries
  <2>4. RemoveAt(log, i) = SubSeq(log, 1, b) \o SubSeq(log, e, n)
    BY <1>1, <2>1 DEF RemoveAt
  <2> QED BY <2>3, <2>4, ConcatEntries
<1>8. ASSUME NEW i \in 1..n, NEW j \in 1..n
      PROVE  EntriesOnly([log EXCEPT ![i] = log[j], ![j] = log[i]])
  <2>1. PICK x, y, f : x = log[j] /\ y = log[i] /\ f = [log EXCEPT ![i] = x]
    OBVIOUS
  <2>2. IsEntry(x) /\ IsEntry(y) /\ i \in 1..Len(log)
    BY <1>1, <1>4, <2>1
  <2>3. EntriesOnly(f)
    BY <1>3, <2>1, <2>2, ExceptEntries
  <2>4. Len(f) = n
    BY <1>1, <1>2, <2>1
  <2>5. EntriesOnly([f EXCEPT ![j] = y])
    BY <2>2, <2>3, <2>4, ExceptEntries
  <2>6. [log EXCEPT ![i] = log[j], ![j] = log[i]] = [f EXCEPT ![j] = y]
    BY <2>1
  <2> QED BY <2>5, <2>6
<1>9. ASSUME NEW i \in 1..n, NEW r
      PROVE  EntriesOnly([log EXCEPT ![i].ref = r])
  <2>1. PICK x, y : x = log[i] /\ y = [x EXCEPT !.ref = r]
    OBVIOUS
  <2>2. IsEntry(x)
    BY <1>4, <2>1
  <2>3. IsEntry(y)
    BY <2>1, <2>2 DEF IsEntry
  <2>4. i \in 1..Len(log)
    BY <1>1
  <2>5. EntriesOnly([log EXCEPT ![i] = y])
    BY <1>3, <2>3, <2>4, ExceptEntries
  <2>6. [log EXCEPT ![i].ref = r] = [log EXCEPT ![i] = y]
    BY <2>1
  <2> QED BY <2>5, <2>6
<1>10. ASSUME NEW i \in 1..n, NEW r
       PROVE  EntriesOnly([log EXCEPT ![i] = Entry("a", i, r, @.prev, @.aseq)])
  <2>1. PICK y : y = Entry("a", i, r, log[i].prev, log[i].aseq)
    OBVIOUS
  <2>2. IsEntry(y) /\ i \in 1..Len(log)
    BY <1>1, <2>1, EntryIsEntry
  <2>3. EntriesOnly([log EXCEPT ![i] = y])
    BY <1>3, <2>2, ExceptEntries
  <2>4. [log EXCEPT ![i] = Entry("a", i, r, @.prev, @.aseq)] = [log EXCEPT ![i] = y]
    BY <2>1
  <2> QED BY <2>3, <2>4
<1>11. ASSUME NEW refs \in RefSeqs
       PROVE  EntriesOnly(ChainOf(refs)) /\ EntriesOnly(SubSeq(ChainOf(refs), 2, Len(ChainOf(refs))))
  <2>1. PICK m \in 1..MaxEntries : refs \in [1..m -> ActionRef]
    BY DEF RefSeqs
  <2>2. m \in Nat /\ Len(refs) = m
    <3>1. m \in Nat /\ refs = [k \in 1..m |-> refs[k]]
      BY <2>1, TrailHeadAssumption
    <3> QED BY <3>1, FunctionIsSeq
  <2>3. EntriesOnly(ChainOf(refs))
    BY <2>2, ChainOfEntries
  <2>4. Len(ChainOf(refs)) \in Int
    BY <2>3 DEF EntriesOnly
  <2>5. 2 \in Int /\ 2 >= 1 /\ Len(ChainOf(refs)) <= Len(ChainOf(refs))
    BY <2>4
  <2> QED BY <2>3, <2>4, <2>5, SubSeqEntries
<1>12. EntriesOnly(log \o OtherLog("b"))
  BY <1>3, <1>5, ConcatEntries
<1>13. \/ \E i, j \in 1..n : es = SubSeq(log, i, j)
       \/ \E i \in 1..n : es = RemoveAt(log, i)
       \/ \E i, j \in 1..n : es = [log EXCEPT ![i] = log[j], ![j] = log[i]]
       \/ \E i \in 1..n, r \in ActionRef \cup {Junk} : es = [log EXCEPT ![i].ref = r]
       \/ \E i \in 1..n, r \in ActionRef : es = [log EXCEPT ![i] = Entry("a", i, r, @.prev, @.aseq)]
       \/ \E refs \in RefSeqs : es = ChainOf(refs) \/ es = SubSeq(ChainOf(refs), 2, Len(ChainOf(refs)))
       \/ es = OtherLog("b") \/ es = log \o OtherLog("b")
  <2> DEFINE chains == {ChainOf(refs) : refs \in RefSeqs}
             A == {SubSeq(log, i, j) : i, j \in 1..n}
             B == {RemoveAt(log, i) : i \in 1..n}
             C == {[log EXCEPT ![i] = log[j], ![j] = log[i]] : i, j \in 1..n}
             D == {[log EXCEPT ![i].ref = r] : i \in 1..n, r \in ActionRef \cup {Junk}}
             E == {[log EXCEPT ![i] = Entry("a", i, r, @.prev, @.aseq)] : i \in 1..n, r \in ActionRef}
             F == {SubSeq(c, 2, Len(c)) : c \in chains}
             G == {OtherLog("b"), log \o OtherLog("b")}
  <2>1. Presented = A \cup B \cup C \cup D \cup E \cup chains \cup F \cup G
    BY <1>1 DEF Presented
  <2>2. es \in A => \E i, j \in 1..n : es = SubSeq(log, i, j)
    OBVIOUS
  <2>3. es \in B => \E i \in 1..n : es = RemoveAt(log, i)
    OBVIOUS
  <2>4. es \in C => \E i, j \in 1..n : es = [log EXCEPT ![i] = log[j], ![j] = log[i]]
    BY ONLY TRUE
  <2>5. es \in D => \E i \in 1..n, r \in ActionRef \cup {Junk} : es = [log EXCEPT ![i].ref = r]
    BY ONLY TRUE
  <2>6. es \in E => \E i \in 1..n, r \in ActionRef : es = [log EXCEPT ![i] = Entry("a", i, r, @.prev, @.aseq)]
    BY ONLY TRUE
  <2>7. es \in chains \cup F => \E refs \in RefSeqs : es = ChainOf(refs) \/ es = SubSeq(ChainOf(refs), 2, Len(ChainOf(refs)))
    BY ONLY TRUE
  <2>8. es \in G => es = OtherLog("b") \/ es = log \o OtherLog("b")
    OBVIOUS
  <2>9. es \in A \/ es \in B \/ es \in C \/ es \in D \/ es \in E \/ es \in chains \cup F \/ es \in G
    <3> HIDE DEF A, B, C, D, E, F, G, chains
    <3> QED BY <2>1
  <2> HIDE DEF A, B, C, D, E, F, G, chains
  <2> QED BY <2>2, <2>3, <2>4, <2>5, <2>6, <2>7, <2>8, <2>9
<1> QED BY <1>5, <1>6, <1>7, <1>8, <1>9, <1>10, <1>11, <1>12, <1>13


\* The invariant says what the property asks, of the lists shown.
LEMMA HeadInvImplies == HeadInv => CompleteMeansWholeLog
<1> SUFFICES ASSUME HeadInv, NEW es \in Presented, NEW shown \in Sealed \cup Lowered, NEW from \in 1..MaxEntries,
                    NEW anchor \in {NoCheckpoint} \cup {s \in Sealed : s.cp.seq = 1}
             PROVE  LET v == VerifyTrail(es, from, anchor, shown, Len(seals))
                        covered == SubSeq(LogOf(shown.cp.agent), from, shown.cp.seq)
                        whole == v \in {"complete", "window_complete"}
                        longer == v \in {"complete_unsealed_tail", "window_complete_unsealed_tail"}
                    IN /\ whole => es = covered
                       /\ longer => SubSeq(es, 1, Len(covered)) = covered /\ Len(es) > Len(covered)
                       /\ whole \/ longer => shown \in Sealed
  BY DEF CompleteMeansWholeLog
<1>1. EntryList(es, Len(es))
  BY PresentedEntries, EntriesOnlyIs
<1>2. from \in Nat /\ from >= 1
  BY TrailHeadAssumption
<1>3. WholeLog(es, shown, from, VerifyTrail(es, from, anchor, shown, Len(seals)))
  BY <1>1, <1>2, ShownIsWhole
<1> QED BY <1>3 DEF WholeLog, Positive

\* ... and of any list of entries at all.
AnyLogIsWhole ==
  \A es, anchor, clock : \A from \in Nat \ {0}, shown \in Sealed \cup Lowered :
    (\E n : EntryList(es, n)) => WholeLog(es, shown, from, VerifyTrail(es, from, anchor, shown, clock))

\* The invariant says it of any list.
LEMMA HeadInvAny == HeadInv => AnyLogIsWhole
<1> SUFFICES ASSUME HeadInv, NEW es, NEW anchor, NEW clock, NEW from \in Nat \ {0}, NEW shown \in Sealed \cup Lowered,
                    NEW n, EntryList(es, n)
             PROVE  WholeLog(es, shown, from, VerifyTrail(es, from, anchor, shown, clock))
  BY DEF AnyLogIsWhole
<1>1. from \in Nat /\ from >= 1
  OBVIOUS
<1> QED BY <1>1, ShownIsWhole

-----------------------------------------------------------------------------
(* Honest logs.                                                              *)

\* A sealed checkpoint is proven in its period's root.
LEMMA SealedProven ==
  ASSUME HeadInv, NEW s \in Sealed
  PROVE  /\ Proven(s) /\ s # NoCheckpoint /\ StandsIn(log, s.cp)
         /\ \E p \in DOMAIN seals : \E i \in DOMAIN seals[p] : s.cp = seals[p][i]
<1>1. PICK p \in DOMAIN seals : \E i \in DOMAIN seals[p] : s = Shown(p, i)
  BY DEF Sealed
<1>2. PICK i \in DOMAIN seals[p] : s = Shown(p, i)
  BY <1>1
<1>3. seals[p] \in Seq(Range(seals[p])) /\ StandsIn(log, seals[p][i])
  BY HeadInvIs DEF HeadFits, SealsStand
<1>4. PICK N, q : N = Len(seals[p]) /\ q = i - 1
  OBVIOUS
<1>5. N \in Nat /\ seals[p] = [k \in 1..N |-> seals[p][k]] /\ i \in 1..N
  BY <1>3, <1>4
<1>6. q \in 0..(N - 1) /\ q + 1 = i
  BY <1>4, <1>5
<1>7. Leaves(seals[p], q)
  BY <1>5, <1>6 DEF Leaves
<1>8. VerifyInclusion(seals[p][q + 1], GetProof(seals[p], q), MerkleRoot(seals[p]))
  BY <1>7, EveryLeafProven
<1>9. s.cp = seals[p][i] /\ s.proof = GetProof(seals[p], q) /\ s.root = MerkleRoot(seals[p])
  BY <1>2, <1>4 DEF Shown
<1>10. Proven(s)
  BY <1>6, <1>8, <1>9 DEF Proven
<1>11. s # NoCheckpoint
  <2>1. PICK c : c = seals[p][i]
    OBVIOUS
  <2>2. "agent" \in DOMAIN c
    BY <1>3, <2>1 DEF StandsIn
  <2>3. "agent" \notin DOMAIN Absent
    BY DEF Absent
  <2>4. s.cp = c /\ NoCheckpoint.cp = Absent
    BY <1>9, <2>1 DEF NoCheckpoint
  <2> QED BY <2>2, <2>3, <2>4
<1> QED BY <1>3, <1>9, <1>10, <1>11

\* es is entries k to n of L.
Window(es, L, k, n) == es = [i \in 1..(n - k + 1) |-> L[k + i - 1]]

\* What SubSeq cuts, and what Front leaves of it.
LEMMA WindowIs ==
  ASSUME NEW L, L \in Seq(Range(L)), NEW n \in 1..Len(L), NEW k \in 1..n
  PROVE  /\ Window(SubSeq(L, k, n), L, k, n)
         /\ Window(Front(SubSeq(L, k, n)), L, k, n - 1)
<1>1. n \in Nat /\ k \in Nat /\ \A i \in k..n : L[i] \in Range(L)
  BY DEF Range
<1>2. PICK es : es = SubSeq(L, k, n)
  OBVIOUS
<1>3. es \in Seq(Range(L)) /\ Len(es) = n - k + 1 /\ \A i \in 1..(n - k + 1) : es[i] = L[k + i - 1]
  BY <1>1, <1>2, SubSeqProperties
<1>4. Window(es, L, k, n)
  BY <1>1, <1>3 DEF Window
<1>5. PICK fs, m : fs = SubSeq(es, 1, m) /\ m = Len(es) - 1
  OBVIOUS
<1>6. fs = Front(es)
  BY <1>5 DEF Front
<1>7. fs \in Seq(Range(L)) /\ Len(fs) = m /\ \A i \in 1..m : fs[i] = es[i]
  <2>1. m \in Int /\ m = n - k /\ m <= Len(es) /\ 1 \in Int /\ \A i \in 1..m : es[i] \in Range(L)
    BY <1>1, <1>3, <1>5
  <2>2. SubSeq(es, 1, m) \in Seq(Range(L))
    BY <2>1, SubSeqProperties
  <2>3. m >= 0
    BY <1>1, <2>1
  <2> QED BY <1>3, <1>5, <2>1, <2>2, <2>3, SubSeqProperties
<1>8. Window(fs, L, k, n - 1)
  <2>1. m = (n - 1) - k + 1 /\ m \in Nat
    BY <1>1, <1>3, <1>5
  <2> QED BY <1>1, <1>3, <1>7, <2>1 DEF Window
<1> QED BY <1>2, <1>4, <1>6, <1>8

\* Entries that verify_trail has nothing against, as far as continuity goes.
Straight(es, n, from) ==
  /\ EntryList(es, n) /\ n >= 1 /\ from \in Nat /\ from >= 1
  /\ \A i \in 1..n : /\ es[i].agent = "a" /\ es[i].ref # Junk /\ es[i].seq = from + i - 1
                     /\ EntryDefect(es, from, i) = "ok"

\* It has nothing against them.
LEMMA StraightPasses ==
  ASSUME NEW es, NEW n, NEW from, Straight(es, n, from)
  PROVE  Shape(es) = "ok" /\ Continuity(es, from) = "ok"
<1>1. n \in Nat /\ n >= 1 /\ Len(es) = n /\ DOMAIN es = 1..n /\ from \in Nat
  BY FunctionIsSeq DEF EntryList, Straight
<1>2. es # <<>>
  BY <1>1
<1>3. {i \in DOMAIN es : es[i].ref = Junk \/ es[i].agent # es[1].agent} = {}
  BY <1>1 DEF Straight
<1>4. {i \in DOMAIN es : EntryDefect(es, from, i) # "ok"} = {}
  BY <1>1 DEF Straight
<1>5. ~Reordered(es, from)
  BY <1>1 DEF Straight, Reordered
<1> QED BY <1>2, <1>3, <1>4, <1>5 DEF Shape, Continuity

\* What is left to test.
LEMMA StraightVerdict ==
  ASSUME NEW es, NEW n, NEW from, Straight(es, n, from), NEW anchor, NEW shown, NEW clock
  PROVE  VerifyTrail(es, from, anchor, shown, clock) =
           Then(WindowStart(es, from, anchor), Then(AgentSeq(es, from), Completeness(es, from, shown, clock)))
<1>1. Shape(es) = "ok" /\ Continuity(es, from) = "ok"
  BY StraightPasses
<1> QED BY <1>1 DEF VerifyTrail, Then

\* A window of the log is straight.
LEMMA LogStraight ==
  ASSUME HonestInv, NEW n \in 1..Len(log), NEW k \in 1..n, NEW es, Window(es, log, k, n),
         NEW m, m = n - k + 1
  PROVE  /\ Straight(es, m, k)
         /\ \A i \in 1..m : es[i] = log[k + i - 1]
         /\ \A i \in 1..m : IF numbered THEN es[i].aseq \in Nat \ {0} ELSE es[i].aseq = 0
         /\ es[1].prev = IF k = 1 THEN Absent ELSE log[k - 1].head
<1>1. /\ log \in Seq(Range(log)) /\ Chained(log, "a") /\ EntryList(log, Len(log))
      /\ n \in Nat /\ k \in Nat /\ n <= Len(log) /\ Len(log) \in Nat
  BY ChainedIsList DEF HonestInv, HeadInv
<1>2. m = n - k + 1
  OBVIOUS
<1>3. m \in Nat /\ m >= 1 /\ es = [i \in 1..m |-> log[k + i - 1]]
  BY <1>1, <1>2 DEF Window
<1>4. ASSUME NEW i \in 1..m
      PROVE  /\ k + i - 1 \in 1..Len(log) /\ es[i] = log[k + i - 1]
             /\ (i > 1 => i - 1 \in 1..m /\ k + (i - 1) - 1 = (k + i - 1) - 1)
  BY <1>1, <1>2, <1>3
<1>5. ASSUME NEW i \in 1..m
      PROVE  /\ es[i].agent = "a" /\ es[i].seq = k + i - 1
             /\ es[i].prev = IF k + i - 1 = 1 THEN Absent ELSE log[(k + i - 1) - 1].head
             /\ es[i].head = ComputeHead("a", es[i].seq, es[i].ref, es[i].prev, es[i].aseq)
  <2>1. PICK l, p, r, a : /\ l = k + i - 1 /\ p = (IF l = 1 THEN Absent ELSE log[l - 1].head)
                          /\ r = log[l].ref /\ a = log[l].aseq
    OBVIOUS
  <2>2. l \in 1..Len(log) /\ es[i] = log[l]
    BY <1>4, <2>1
  <2>3. log[l] = Entry("a", l, r, p, a)
    BY <1>1, <2>1, <2>2 DEF Chained
  <2>4. es[i] = Entry("a", l, r, p, a)
    BY <2>2, <2>3
  <2>5. /\ es[i].agent = "a" /\ es[i].seq = l /\ es[i].prev = p /\ es[i].ref = r /\ es[i].aseq = a
        /\ es[i].head = ComputeHead("a", l, r, p, a)
    BY <2>4 DEF Entry
  <2> QED BY <2>1, <2>5
<1>6. ASSUME NEW i \in 1..m
      PROVE  /\ es[i].ref # Junk
             /\ IF numbered THEN es[i].aseq \in Nat \ {0} ELSE es[i].aseq = 0
  <2>1. PICK l : l = k + i - 1
    OBVIOUS
  <2>2. l \in DOMAIN log /\ es[i] = log[l]
    BY <1>1, <1>4, <2>1
  <2> QED BY <2>2, TrailHeadAssumption DEF HonestInv
<1>7. ASSUME NEW i \in 1..m
      PROVE  EntryDefect(es, k, i) = "ok"
  <2>1. 1 \in 1..m
    BY <1>3
  <2>2. es[1].agent = "a"
    BY <1>5, <2>1
  <2>3. PICK e, l : e = es[i] /\ l = k + i - 1
    OBVIOUS
  <2>4. e.seq = l /\ e.prev = (IF l = 1 THEN Absent ELSE log[l - 1].head)
        /\ e.head = ComputeHead("a", e.seq, e.ref, e.prev, e.aseq) /\ l \in 1..Len(log)
    BY <1>4, <1>5, <2>3
  <2>5. l # 1 => e.prev # Absent
    <3> SUFFICES ASSUME l # 1 PROVE log[l - 1].head # Absent
      BY <2>4
    <3>1. PICK j : j = l - 1
      OBVIOUS
    <3>2. j \in 1..Len(log)
      BY <1>1, <2>4, <3>1
    <3>3. PICK p, r, a : log[j] = Entry("a", j, r, p, a)
      BY <1>1, <3>2 DEF Chained
    <3>4. log[j].head = <<"a", j, r, p, a>>
      BY <3>3 DEF Entry, ComputeHead
    <3>5. <<"a", j, r, p, a>> # <<>>
      OBVIOUS
    <3> QED BY <3>1, <3>4, <3>5 DEF Absent
  <2>6. i > 1 => e.prev = es[i - 1].head
    <3> SUFFICES ASSUME i > 1 PROVE e.prev = es[i - 1].head
      OBVIOUS
    <3>1. PICK j : j = i - 1
      OBVIOUS
    <3>2. j \in 1..m /\ k + j - 1 = l - 1 /\ l # 1
      BY <1>1, <1>3, <2>3, <3>1
    <3>3. es[j] = log[l - 1]
      BY <1>4, <3>2
    <3> QED BY <2>4, <3>1, <3>2, <3>3
  <2>7. (e.seq = 1) <=> (e.prev = Absent)
    BY <2>4, <2>5
  <2>8. (e.seq = 1) = (e.prev = Absent)
    BY <2>7
  <2> QED BY <2>2, <2>3, <2>4, <2>6, <2>8 DEF EntryDefect
<1>8. EntryList(es, m)
  <2>1. \A i \in 1..m : IsEntry(es[i])
    BY <1>1, <1>4 DEF EntryList
  <2>2. es = [i \in 1..m |-> es[i]]
    BY <1>3
  <2> QED BY <1>3, <2>1, <2>2 DEF EntryList
<1>9. Straight(es, m, k)
  BY <1>1, <1>3, <1>5, <1>6, <1>7, <1>8 DEF Straight
<1>10. es[1].prev = IF k = 1 THEN Absent ELSE log[k - 1].head
  <2>1. 1 \in 1..m /\ k + 1 - 1 = k
    BY <1>1, <1>3
  <2> QED BY <1>5, <2>1
<1> QED BY <1>2, <1>4, <1>6, <1>9, <1>10

-----------------------------------------------------------------------------
(* What verify_trail says of an honest log.                                   *)

\* A sealed checkpoint of agent "a", with its proof.
Certifies(shown) ==
  /\ shown # NoCheckpoint /\ Proven(shown) /\ shown.cp.agent = "a" /\ shown.cp.seq \in 1..Len(log)
  /\ shown.cp.head = log[shown.cp.seq].head

\* A window of the log starts where its anchor says, or at the genesis.
LEMMA WindowStarts ==
  ASSUME HonestInv, NEW n \in 1..Len(log), NEW k \in 1..n, NEW es, Window(es, log, k, n),
         NEW anchor, anchor # NoCheckpoint => Certifies(anchor) /\ anchor.cp.seq = k - 1
  PROVE  WindowStart(es, k, anchor) = "ok"
<1>1. es[1].agent = "a" /\ es[1].prev = (IF k = 1 THEN Absent ELSE log[k - 1].head)
  <2>1. PICK m : m = n - k + 1
    OBVIOUS
  <2>2. 1 \in 1..m
    BY <2>1
  <2>3. Straight(es, m, k) /\ es[1].prev = IF k = 1 THEN Absent ELSE log[k - 1].head
    BY ONLY HonestInv, n \in 1..Len(log), k \in 1..n, Window(es, log, k, n), <2>1, LogStraight
  <2> QED BY <2>2, <2>3 DEF Straight
<1>2. CASE anchor = NoCheckpoint
  BY <1>2 DEF WindowStart
<1>3. CASE anchor # NoCheckpoint
  <2>1. /\ Proven(anchor) /\ anchor.cp.agent = "a" /\ anchor.cp.seq = k - 1 /\ anchor.cp.seq >= 1
        /\ anchor.cp.head = log[k - 1].head
    BY <1>3 DEF Certifies
  <2>2. k # 1
    BY <2>1
  <2> QED BY <1>1, <1>3, <2>1, <2>2 DEF WindowStart
<1> QED BY <1>2, <1>3

\* The entries of the log whose agent_seq is not the next.
Gap(k) ==
  IF k = 1 THEN \E i \in DOMAIN log : log[i].aseq \notin {0, i}
  ELSE \E i \in (k + 1)..Len(log) : log[i].aseq \notin {0, log[i - 1].aseq + 1}

\* verify_trail sees a gap where there is one.
LEMMA AgentSeqIs ==
  ASSUME HonestInv, NEW k \in 1..Len(log), NEW es, Window(es, log, k, Len(log))
  PROVE  AgentSeq(es, k) = IF Gap(k) THEN "agent_seq_not_contiguous" ELSE "ok"
<1>1. PICK n, m : n = Len(log) /\ m = n - k + 1
  OBVIOUS
<1>2. n \in Nat /\ k \in 1..n /\ m \in Nat /\ m >= 1 /\ DOMAIN log = 1..n /\ n \in 1..n
  BY <1>1 DEF HonestInv, HeadInv
<1>3. /\ \A i \in 1..m : es[i] = log[k + i - 1]
      /\ \A i \in 1..m : IF numbered THEN es[i].aseq \in Nat \ {0} ELSE es[i].aseq = 0
      /\ Straight(es, m, k)
  <2>1. n \in 1..Len(log) /\ k \in 1..n /\ Window(es, log, k, n)
    BY <1>1, <1>2
  <2> QED BY ONLY HonestInv, <1>1, <2>1, LogStraight
<1>4. DOMAIN es = 1..m /\ Len(es) = m
  BY <1>3, FunctionIsSeq DEF Straight, EntryList
<1>5. CASE ~numbered
  <2>1. \A i \in 1..n : log[i].aseq = 0
    BY <1>2, <1>5 DEF HonestInv
  <2>2. ~Gap(k)
    BY <1>1, <1>2, <2>1 DEF Gap
  <2>3. {i \in DOMAIN es : es[i].aseq # 0} = {}
    BY <1>3, <1>4, <1>5
  <2> QED BY <2>2, <2>3 DEF AgentSeq
<1>6. CASE numbered
  <2>1. {i \in DOMAIN es : es[i].aseq # 0} = DOMAIN es /\ DOMAIN es # {}
    <3>1. ASSUME NEW i \in 1..m PROVE es[i].aseq # 0
      <4>1. es[i].aseq \in Nat \ {0}
        BY <1>3, <1>6
      <4> QED BY <4>1
    <3>2. 1 \in DOMAIN es
      BY <1>2, <1>4
    <3>3. {i \in DOMAIN es : es[i].aseq # 0} = DOMAIN es
      BY <1>4, <3>1
    <3> QED BY <3>2, <3>3
  <2>2. AgentSeq(es, k) = IF (k = 1 /\ es[1].aseq # 1) \/ \E i \in 1..(m - 1) : es[i + 1].aseq # es[i].aseq + 1
                          THEN "agent_seq_not_contiguous" ELSE "ok"
    BY <2>1, <1>4 DEF AgentSeq
  <2>3. PICK q : q = [i \in 1..n |-> log[i].aseq]
    OBVIOUS
  <2>4. \A i \in 1..n : log[i].aseq = q[i] /\ q[i] \in Nat /\ q[i] # 0
    BY <1>2, <1>6, <2>3 DEF HonestInv
  <2>5. \A i \in 1..m : k + i - 1 \in 1..n /\ es[i].aseq = q[k + i - 1]
    BY <1>1, <1>2, <1>3, <2>4
  <2>6. (\E i \in 1..(m - 1) : es[i + 1].aseq # es[i].aseq + 1) <=> \E j \in (k + 1)..n : q[j] # q[j - 1] + 1
    <3>1. ASSUME NEW i \in 1..(m - 1), es[i + 1].aseq # es[i].aseq + 1
          PROVE  \E j \in (k + 1)..n : q[j] # q[j - 1] + 1
      <4>1. PICK j, h : j = k + i /\ h = i + 1
        OBVIOUS
      <4>2. j \in (k + 1)..n /\ i \in 1..m /\ h \in 1..m /\ k + h - 1 = j /\ k + i - 1 = j - 1
        BY <1>1, <1>2, <4>1
      <4>3. es[h].aseq = q[j] /\ es[i].aseq = q[j - 1]
        BY <2>5, <4>2
      <4> QED BY <3>1, <4>1, <4>2, <4>3
    <3>2. ASSUME NEW j \in (k + 1)..n, q[j] # q[j - 1] + 1
          PROVE  \E i \in 1..(m - 1) : es[i + 1].aseq # es[i].aseq + 1
      <4>1. PICK i, h : i = j - k /\ h = i + 1
        OBVIOUS
      <4>2. i \in 1..(m - 1) /\ i \in 1..m /\ h \in 1..m /\ k + h - 1 = j /\ k + i - 1 = j - 1
        BY <1>1, <1>2, <4>1
      <4>3. es[h].aseq = q[j] /\ es[i].aseq = q[j - 1]
        BY <2>5, <4>2
      <4> QED BY <3>2, <4>1, <4>2, <4>3
    <3> QED BY <3>1, <3>2
  <2>7. CASE k # 1
    <3>1. Gap(k) <=> \E j \in (k + 1)..n : q[j] # q[j - 1] + 1
      <4>1. \A j \in (k + 1)..n : j \in 1..n /\ j - 1 \in 1..n
        BY <1>2
      <4> QED BY <1>1, <2>4, <2>7, <4>1 DEF Gap
    <3> QED BY <2>2, <2>6, <2>7, <3>1
  <2>8. CASE k = 1
    <3>1. Gap(k) <=> \E i \in 1..n : q[i] # i
      BY <1>2, <2>4, <2>8 DEF Gap
    <3>2. es[1].aseq = q[1]
      BY <1>2, <2>5, <2>8
    <3>3. q[1] # 1 => \E i \in 1..n : q[i] # i
      BY <1>2
    <3>4. (\E j \in 2..n : q[j] # q[j - 1] + 1) => \E i \in 1..n : q[i] # i
      <4> SUFFICES ASSUME NEW j \in 2..n, q[j] # q[j - 1] + 1, \A i \in 1..n : q[i] = i PROVE FALSE
        OBVIOUS
      <4>1. j \in 1..n /\ j - 1 \in 1..n
        BY <1>2
      <4> QED BY <4>1
    <3>5. (\E i \in 1..n : q[i] # i) => q[1] # 1 \/ \E j \in 2..n : q[j] # q[j - 1] + 1
      <4> SUFFICES ASSUME \E i \in 1..n : q[i] # i, q[1] = 1, \A j \in 2..n : q[j] = q[j - 1] + 1 PROVE FALSE
        OBVIOUS
      <4> DEFINE Bad == {i \in 1..n : q[i] # i}
      <4>1. PICK i \in Bad : \A x \in Bad : i <= x
        <5>1. Bad \subseteq Nat /\ Bad # {}
          OBVIOUS
        <5> HIDE DEF Bad
        <5> QED BY <5>1, LeastNatural
      <4>2. PICK j : j = i - 1
        OBVIOUS
      <4>3. i # 1 /\ i \in 2..n /\ j \in 1..n /\ j < i
        BY <1>2, <4>1, <4>2
      <4>4. q[j] = j
        BY <4>1, <4>3
      <4> QED BY <4>1, <4>2, <4>3, <4>4
    <3>6. k + 1 = 2
      BY <2>8
    <3> QED BY <2>2, <2>6, <2>8, <3>1, <3>2, <3>3, <3>4, <3>5, <3>6
  <2> QED BY <2>7, <2>8
<1> QED BY <1>5, <1>6 DEF HonestInv

\* The last test, for entries that end at last under a checkpoint shown in time.
LEMMA CompletenessIs ==
  ASSUME NEW es, NEW n, NEW from, Straight(es, n, from), NEW shown, shown # NoCheckpoint, Proven(shown),
         shown.cp.agent = "a", NEW clock, ~(clock - shown.cp.end > MaxAge),
         NEW c, c = shown.cp.seq, NEW last, last = from + n - 1
  PROVE  Completeness(es, from, shown, clock) =
           IF c < from THEN "checkpoint_before_window"
           ELSE IF last < c THEN "log_shorter_than_checkpoint"
           ELSE IF es[c - from + 1].head # shown.cp.head THEN "head_differs_from_checkpoint"
           ELSE IF last = c THEN IF from > 1 THEN "window_complete" ELSE "complete"
           ELSE IF from > 1 THEN "window_complete_unsealed_tail" ELSE "complete_unsealed_tail"
<1>1. n \in Nat /\ n >= 1 /\ Len(es) = n /\ es[1].agent = "a" /\ es[n].seq = last
  <2>1. n \in Nat /\ n >= 1 /\ Len(es) = n
    BY FunctionIsSeq DEF EntryList, Straight
  <2>2. 1 \in 1..n /\ n \in 1..n
    BY <2>1
  <2> QED BY <2>1, <2>2 DEF Straight
<1>2. Last(es).seq = last
  BY <1>1 DEF Last
<1> QED BY <1>1, <1>2 DEF Completeness

\* The same without one.
LEMMA NoCheckpointIs == \A es, from, clock : Completeness(es, from, NoCheckpoint, clock) = "no_checkpoint"
BY DEF Completeness

\* The honest log and its windows are accepted under a checkpoint of the last
\* period, unless the agent's numbering has a gap.
LEMMA HonestVerdict ==
  ASSUME HonestInv, NEW k \in 1..Len(log), NEW es, Window(es, log, k, Len(log)),
         NEW anchor, anchor # NoCheckpoint => Certifies(anchor) /\ anchor.cp.seq = k - 1,
         NEW shown, Certifies(shown), NEW clock, ~(clock - shown.cp.end > MaxAge),
         NEW c, c = shown.cp.seq, NEW n, n = Len(log)
  PROVE  VerifyTrail(es, k, anchor, shown, clock) =
           IF Gap(k) THEN "agent_seq_not_contiguous"
           ELSE IF c < k THEN "checkpoint_before_window"
           ELSE IF k = 1 THEN IF c = n THEN "complete" ELSE "complete_unsealed_tail"
           ELSE IF c = n THEN "window_complete" ELSE "window_complete_unsealed_tail"
<1>1. n \in Nat /\ n \in 1..n /\ k \in 1..n /\ c \in 1..n
  BY DEF HonestInv, HeadInv, Certifies
<1>2. PICK m : m = n - k + 1
  OBVIOUS
<1>3. Straight(es, m, k) /\ \A i \in 1..m : es[i] = log[k + i - 1]
  <2>1. n \in 1..Len(log) /\ k \in 1..n /\ Window(es, log, k, n)
    BY <1>1
  <2> QED BY ONLY HonestInv, <1>2, <2>1, LogStraight
<1>4. WindowStart(es, k, anchor) = "ok"
  BY <1>1, WindowStarts
<1>5. AgentSeq(es, k) = IF Gap(k) THEN "agent_seq_not_contiguous" ELSE "ok"
  BY <1>1, AgentSeqIs
<1>6. k + m - 1 = n /\ ~(n < c)
  BY <1>1, <1>2
<1>7. Completeness(es, k, shown, clock) =
        IF c < k THEN "checkpoint_before_window"
        ELSE IF n < c THEN "log_shorter_than_checkpoint"
        ELSE IF es[c - k + 1].head # shown.cp.head THEN "head_differs_from_checkpoint"
        ELSE IF n = c THEN IF k > 1 THEN "window_complete" ELSE "complete"
        ELSE IF k > 1 THEN "window_complete_unsealed_tail" ELSE "complete_unsealed_tail"
  BY <1>3, <1>6, CompletenessIs DEF Certifies
<1>8. ~(c < k) => es[c - k + 1].head = shown.cp.head
  <2> SUFFICES ASSUME ~(c < k) PROVE es[c - k + 1].head = shown.cp.head
    OBVIOUS
  <2>1. PICK i : i = c - k + 1
    OBVIOUS
  <2>2. i \in 1..m /\ k + i - 1 = c
    BY <1>1, <1>2, <2>1
  <2>3. es[i] = log[c]
    BY <1>3, <2>2
  <2> QED BY <2>1, <2>3 DEF Certifies
<1>9. k > 1 <=> k # 1
  BY <1>1
<1>10. VerifyTrail(es, k, anchor, shown, clock) =
         Then("ok", Then(IF Gap(k) THEN "agent_seq_not_contiguous" ELSE "ok", Completeness(es, k, shown, clock)))
  BY <1>3, <1>4, <1>5, StraightVerdict
<1> QED BY <1>6, <1>7, <1>8, <1>9, <1>10 DEF Then

-----------------------------------------------------------------------------
(* HonestInv is inductive.                                                    *)

\* What HonestInv says of the entries and of the periods, as values.
EntriesHonest(l, nb) ==
  \A i \in DOMAIN l : /\ l[i].ref \in ActionRef
                      /\ IF nb THEN l[i].aseq \in Nat \ {0} ELSE l[i].aseq = 0

HasA(period) == \E i \in DOMAIN period : period[i].agent = "a"

PeriodsHonest(ss) ==
  \A p \in DOMAIN ss : /\ HasA(ss[p]) /\ p < Len(ss) => HasA(ss[p + 1])
                       /\ \A i \in DOMAIN ss[p] : ss[p][i].end = p

HonestFits ==
  HeadInv /\ numbered \in BOOLEAN /\ counter \in Nat /\ EntriesHonest(log, numbered) /\ PeriodsHonest(seals)

\* HonestInv in the words of the values.
LEMMA HonestInvIs == HonestInv <=> HonestFits
BY DEF HonestInv, HonestFits, EntriesHonest, PeriodsHonest, HasA, Continues

\* append_entry logs an action_ref, under the agent's number if it has one.
LEMMA AppendEntryHonest ==
  ASSUME HonestInv, NEW ref \in ActionRef, AppendEntry(ref)
  PROVE  HonestInv'
<1>1. HeadInv /\ numbered \in BOOLEAN /\ counter \in Nat /\ EntriesHonest(log, numbered) /\ PeriodsHonest(seals)
  BY HonestInvIs DEF HonestFits
<1>2. HeadInv'
  BY <1>1, AppendEntryInv
<1>3. PICK n, a, p, e : /\ n = Len(log) /\ a = (IF numbered THEN counter + 1 ELSE 0)
                        /\ p = (IF log = <<>> THEN Absent ELSE Last(log).head)
                        /\ e = Entry("a", n + 1, ref, p, a)
  OBVIOUS
<1>4. log' = Append(log, e) /\ seals' = seals /\ numbered' = numbered /\ counter' = counter + 1
  BY <1>3 DEF AppendEntry, Append1
<1>5. e.ref = ref /\ e.aseq = a
  BY <1>3 DEF Entry
<1>6. IF numbered THEN a \in Nat \ {0} ELSE a = 0
  BY <1>1, <1>3
<1>7. /\ DOMAIN log = 1..n /\ n \in Nat /\ DOMAIN log' = 1..(n + 1)
      /\ (\A i \in 1..n : log'[i] = log[i]) /\ log'[n + 1] = e
  <2>1. log \in Seq(Range(log))
    BY <1>1 DEF HeadInv
  <2> QED BY <1>3, <1>4, <2>1
<1>8. EntriesHonest(log', numbered)
  <2> SUFFICES ASSUME NEW i \in 1..(n + 1)
               PROVE  log'[i].ref \in ActionRef /\ IF numbered THEN log'[i].aseq \in Nat \ {0} ELSE log'[i].aseq = 0
    BY <1>7 DEF EntriesHonest
  <2>1. CASE i = n + 1
    BY <2>1, <1>5, <1>6, <1>7
  <2>2. CASE i # n + 1
    <3>1. i \in 1..n
      BY <2>2, <1>7
    <3> QED BY <3>1, <1>1, <1>7 DEF EntriesHonest
  <2> QED BY <2>1, <2>2
<1>9. HonestFits'
  BY <1>1, <1>2, <1>4, <1>8 DEF HonestFits
<1> QED BY <1>9, HonestInvIs, PTL

\* seal_period: an agent that had a checkpoint has entries, hence one more.
LEMMA SealPeriodHonest ==
  ASSUME HonestInv, SealPeriod
  PROVE  HonestInv'
<1>1. HeadInv /\ numbered \in BOOLEAN /\ counter \in Nat /\ EntriesHonest(log, numbered) /\ PeriodsHonest(seals)
  BY HonestInvIs DEF HonestFits
<1>2. HeadInv'
  BY <1>1, SealPeriodInv
<1>3. PICK present : present = IF log = <<>> THEN Tail(Agents) ELSE Agents
  OBVIOUS
<1>4. PICK period, m : period = [i \in DOMAIN present |-> MakeCheckpoint(present[i])] /\ m = Len(seals)
  OBVIOUS
<1>5. seals' = Append(seals, period) /\ log' = log /\ numbered' = numbered /\ counter' = counter
  BY <1>3, <1>4 DEF SealPeriod
<1>6. \A i \in DOMAIN period : period[i].end = m + 1
  BY <1>4 DEF MakeCheckpoint
<1>7. log # <<>> => HasA(period)
  <2> SUFFICES ASSUME log # <<>> PROVE HasA(period)
    OBVIOUS
  <2>1. 1 \in DOMAIN present /\ present[1] = "a"
    BY <1>3 DEF Agents
  <2>2. 1 \in DOMAIN period /\ period[1].agent = "a"
    BY <1>4, <2>1 DEF MakeCheckpoint
  <2> QED BY <2>2 DEF HasA
<1>8. SealsStand(log, seals)
  BY <1>1, HeadInvIs DEF HeadFits
<1>9. /\ DOMAIN seals = 1..m /\ m \in Nat /\ DOMAIN seals' = 1..(m + 1) /\ Len(seals') = m + 1
      /\ (\A p \in 1..m : seals'[p] = seals[p]) /\ seals'[m + 1] = period
  BY <1>4, <1>5, <1>8 DEF SealsStand
<1>10. ASSUME NEW p \in DOMAIN seals, HasA(seals[p]) PROVE log # <<>>
  <2>1. PICK i \in DOMAIN seals[p] : seals[p][i].agent = "a"
    BY <1>10 DEF HasA
  <2>2. StandsIn(log, seals[p][i])
    BY <1>8 DEF SealsStand
  <2>3. Len(log) # 0
    BY <2>1, <2>2 DEF StandsIn, LogIn
  <2> QED BY <2>3
<1>11. PeriodsHonest(seals')
  <2> SUFFICES ASSUME NEW p \in 1..(m + 1)
               PROVE  /\ HasA(seals'[p]) /\ p < m + 1 => HasA(seals'[p + 1])
                      /\ \A i \in DOMAIN seals'[p] : seals'[p][i].end = p
    BY <1>9 DEF PeriodsHonest
  <2>1. CASE p = m + 1
    BY <2>1, <1>6, <1>9
  <2>2. CASE p \in 1..m
    <3>1. seals'[p] = seals[p] /\ \A i \in DOMAIN seals[p] : seals[p][i].end = p
      BY <1>1, <1>9, <2>2 DEF PeriodsHonest
    <3>2. CASE p = m
      BY <3>1, <3>2, <2>2, <1>7, <1>9, <1>10
    <3>3. CASE p # m
      <4>1. p + 1 \in 1..m /\ p < m
        BY <1>9, <2>2, <3>3
      <4> QED BY <1>1, <1>4, <1>9, <2>2, <3>1, <4>1 DEF PeriodsHonest
    <3> QED BY <3>2, <3>3
  <2>3. p = m + 1 \/ p \in 1..m
    BY <1>9
  <2> QED BY <2>1, <2>2, <2>3
<1>12. HonestFits'
  BY <1>1, <1>2, <1>5, <1>11 DEF HonestFits
<1> QED BY <1>12, HonestInvIs, PTL

\* append_entry, an omitted one and seal_period keep the invariant.
LEMMA HonestNextInv == HonestInv /\ HeadNext => HonestInv'
<1> SUFFICES ASSUME HonestInv, HeadNext PROVE HonestInv'
  OBVIOUS
<1>1. CASE OmitEntry
  <2>1. log' = log /\ seals' = seals /\ numbered' = numbered /\ counter' = counter + 1
    BY <1>1 DEF OmitEntry
  <2>2. HeadInv'
    BY HeadNextInv DEF HonestInv
  <2>3. HonestFits
    BY HonestInvIs
  <2>4. HonestFits'
    BY <2>1, <2>2, <2>3 DEF HonestFits
  <2> QED BY <2>4, HonestInvIs, PTL
<1> QED BY <1>1, AppendEntryHonest, SealPeriodHonest DEF HeadNext

\* Nothing is logged yet, and nothing sealed.
LEMMA HonestInitInv == HeadInit => HonestInv
<1> SUFFICES ASSUME HeadInit PROVE HonestInv
  OBVIOUS
<1>1. HeadInv
  BY HeadInitInv
<1>2. log = <<>> /\ seals = <<>> /\ counter = 0 /\ numbered \in BOOLEAN
  BY DEF HeadInit
<1> QED BY <1>1, <1>2 DEF HonestInv

\* Steps of the other verifiers leave the log alone.
LEMMA HonestFrame == HonestInv /\ UNCHANGED headVars => HonestInv'
<1> SUFFICES ASSUME HonestInv, UNCHANGED headVars PROVE HonestInv'
  OBVIOUS
<1>1. log' = log /\ seals' = seals /\ numbered' = numbered /\ counter' = counter
  BY DEF headVars
<1>2. HeadInv'
  BY HeadFrame DEF HonestInv
<1>3. HonestFits'
  BY <1>1, <1>2, HonestInvIs DEF HonestFits
<1> QED BY <1>3, HonestInvIs, PTL

\* One checkpoint per period of an agent that has entries keeps the cadence.
LEMMA CadenceKept ==
  ASSUME HonestInv
  PROVE  CadenceOk({s.cp.end : s \in {t \in Sealed : t.cp.agent = "a"}}, 1)
<1>1. HeadInv /\ PeriodsHonest(seals)
  BY HonestInvIs DEF HonestFits
<1>2. PICK ends : ends = {s.cp.end : s \in {t \in Sealed : t.cp.agent = "a"}}
  OBVIOUS
<1>3. PICK m : m = Len(seals)
  OBVIOUS
<1>4. m \in Nat /\ DOMAIN seals = 1..m
  BY <1>1, <1>3 DEF HeadInv
<1>5. ASSUME NEW x \in ends
      PROVE  x \in 1..m /\ HasA(seals[x])
  <2>1. PICK s \in Sealed : s.cp.agent = "a" /\ s.cp.end = x
    BY <1>2
  <2>2. PICK p \in DOMAIN seals : \E i \in DOMAIN seals[p] : s.cp = seals[p][i]
    BY <1>1, <2>1, SealedProven
  <2>3. PICK i \in DOMAIN seals[p] : s.cp = seals[p][i]
    BY <2>2
  <2>4. x = p
    BY <1>1, <2>1, <2>3 DEF PeriodsHonest
  <2> QED BY <1>4, <2>1, <2>3, <2>4 DEF HasA
<1>6. ASSUME NEW p \in 1..m, HasA(seals[p])
      PROVE  p \in ends
  <2>1. PICK i \in DOMAIN seals[p] : seals[p][i].agent = "a"
    BY <1>6 DEF HasA
  <2>2. PICK s : s = Shown(p, i)
    OBVIOUS
  <2>3. s \in Sealed
    BY <1>4, <2>2 DEF Sealed
  <2>4. s.cp = seals[p][i]
    BY <2>2 DEF Shown
  <2>5. s.cp.agent = "a" /\ s.cp.end = p
    BY <1>1, <1>4, <2>1, <2>4 DEF PeriodsHonest
  <2> QED BY <1>2, <2>3, <2>5
<1>7. ASSUME NEW x \in ends, NEW y \in ends, y > x
      PROVE  \E z \in ends : z > x /\ z - x <= 1
  <2>1. x \in 1..m /\ y \in 1..m /\ HasA(seals[x])
    BY <1>5
  <2>2. x < m /\ x + 1 \in 1..m
    BY <1>4, <1>7, <2>1
  <2>3. HasA(seals[x + 1])
    BY <1>1, <1>3, <1>4, <2>1, <2>2 DEF PeriodsHonest
  <2>4. x + 1 \in ends
    BY <1>6, <2>2, <2>3
  <2>5. x + 1 > x /\ (x + 1) - x <= 1
    BY <2>1
  <2> QED BY <2>4, <2>5
<1> QED BY <1>2, <1>7 DEF CadenceOk

-----------------------------------------------------------------------------
(* The vectors of trail-head-window-ref.                                      *)

\* g lists the first n logs of rechain.
RechainTo(g, refs, from, prev, n) ==
  g = [k \in 0..n |-> IF k = 0 THEN <<>>
                      ELSE Append(g[k - 1], Entry("a", from + k - 1, refs[k],
                                                  IF k = 1 THEN prev ELSE Last(g[k - 1]).head, 0))]

\* There is such a list: otherwise take the shortest that is missing.
LEMMA RechainExists ==
  ASSUME NEW refs, NEW from, NEW prev, NEW k \in Nat
  PROVE  \E g : RechainTo(g, refs, from, prev, k)
<1> DEFINE Bad == {n \in Nat : ~ \E g : RechainTo(g, refs, from, prev, n)}
<1> SUFFICES ASSUME Bad # {} PROVE FALSE
  OBVIOUS
<1>1. PICK n \in Bad : \A m \in Bad : n <= m
  <2> HIDE DEF Bad
  <2>1. Bad \subseteq Nat
    BY DEF Bad
  <2> QED BY <2>1, LeastNatural
<1>2. n # 0
  <2>1. PICK z : z = [m \in 0..0 |-> <<>>]
    OBVIOUS
  <2>2. RechainTo(z, refs, from, prev, 0)
    BY <2>1 DEF RechainTo
  <2> QED BY <2>2
<1>3. PICK p : p = n - 1
  OBVIOUS
<1>4. p \in Nat /\ n = p + 1 /\ p \notin Bad /\ n \in Nat
  BY <1>1, <1>2, <1>3
<1>5. PICK g : RechainTo(g, refs, from, prev, p)
  BY <1>4
<1>6. g = [m \in 0..p |-> IF m = 0 THEN <<>>
                          ELSE Append(g[m - 1], Entry("a", from + m - 1, refs[m],
                                                      IF m = 1 THEN prev ELSE Last(g[m - 1]).head, 0))]
  BY <1>5 DEF RechainTo
<1> DEFINE final == Append(g[p], Entry("a", from + n - 1, refs[n], IF n = 1 THEN prev ELSE Last(g[p]).head, 0))
           h == [m \in 0..n |-> IF m = n THEN final ELSE g[m]]
<1>7. ASSUME NEW m \in 0..n
      PROVE  h[m] = IF m = 0 THEN <<>>
                    ELSE Append(h[m - 1], Entry("a", from + m - 1, refs[m],
                                                IF m = 1 THEN prev ELSE Last(h[m - 1]).head, 0))
  <2>1. CASE m = n
    <3>1. m - 1 = p /\ h[p] = g[p] /\ h[m] = final
      BY <2>1, <1>2, <1>4
    <3> QED BY <3>1, <2>1, <1>2
  <2>2. CASE m = 0
    BY <2>2, <1>2, <1>4, <1>6
  <2>3. CASE m # 0 /\ m # n
    <3>1. PICK q : q = m - 1
      OBVIOUS
    <3>2. q \in 0..p /\ q \in 0..n /\ q # n /\ m \in 0..p
      BY <3>1, <2>3, <1>4
    <3>3. g[m] = Append(g[q], Entry("a", from + m - 1, refs[m], IF m = 1 THEN prev ELSE Last(g[q]).head, 0))
      BY <3>1, <3>2, <2>3, <1>6
    <3>4. h[m] = g[m] /\ h[q] = g[q]
      BY <3>2, <2>3
    <3> QED BY <3>1, <3>3, <3>4, <2>3
  <2> QED BY <2>1, <2>2, <2>3
<1>8. h = [m \in 0..n |-> h[m]]
  OBVIOUS
<1> HIDE DEF h
<1>9. RechainTo(h, refs, from, prev, n)
  BY <1>7, <1>8 DEF RechainTo
<1> QED BY <1>1, <1>9

\* Entries chained from prev on.
Faked(es, refs, from, prev, n) ==
  /\ es = [i \in 1..n |-> es[i]]
  /\ \A i \in 1..n : es[i] = Entry("a", from + i - 1, refs[i], IF i = 1 THEN prev ELSE es[i - 1].head, 0)

\* rechain makes as many as it has action_refs.
LEMMA RechainedIs ==
  ASSUME NEW refs, NEW from \in Nat, NEW prev, NEW n \in Nat, Len(refs) = n
  PROVE  Faked(Rechained(refs, from, prev), refs, from, prev, n)
<1>1. PICK g : g = CHOOSE h : RechainTo(h, refs, from, prev, n)
  OBVIOUS
<1>2. Rechained(refs, from, prev) = g[n]
  BY <1>1 DEF Rechained, RechainTo
<1>3. RechainTo(g, refs, from, prev, n)
  BY <1>1, RechainExists
<1> DEFINE Bad == {k \in 0..n : ~Faked(g[k], refs, from, prev, k)}
<1>4. Bad = {}
  <2> SUFFICES ASSUME Bad # {} PROVE FALSE
    OBVIOUS
  <2>1. PICK k \in Bad : \A m \in Bad : k <= m
    <3> HIDE DEF Bad
    <3>1. Bad \subseteq Nat
      BY DEF Bad
    <3> QED BY <3>1, LeastNatural
  <2>2. k # 0
    <3>1. g[0] = <<>>
      BY <1>3 DEF RechainTo
    <3>2. Faked(g[0], refs, from, prev, 0)
      BY <3>1 DEF Faked
    <3> QED BY <2>1, <3>2
  <2>3. PICK p, es, fs : p = k - 1 /\ es = g[p] /\ fs = g[k]
    OBVIOUS
  <2>4. p \in Nat /\ p \in 0..n /\ k = p + 1 /\ p \notin Bad /\ k \in 0..n
    BY <2>1, <2>2, <2>3
  <2>5. Faked(es, refs, from, prev, p)
    BY <2>3, <2>4
  <2>6. es \in Seq({es[i] : i \in 1..p}) /\ Len(es) = p
    BY <2>4, <2>5, FunctionIsSeq DEF Faked
  <2>7. PICK e : e = Entry("a", from + k - 1, refs[k], IF k = 1 THEN prev ELSE Last(es).head, 0)
    OBVIOUS
  <2>8. fs = Append(es, e)
    BY <1>3, <2>2, <2>3, <2>4, <2>7 DEF RechainTo
  <2>9. fs = [i \in 1..k |-> fs[i]] /\ (\A i \in 1..p : fs[i] = es[i]) /\ fs[k] = e
    <3>1. PICK S : S = {es[i] : i \in 1..p} \cup {e}
      OBVIOUS
    <3>2. es \in Seq(S) /\ e \in S /\ Len(es) = p
      BY <2>6, <3>1
    <3>3. fs \in Seq(S) /\ Len(fs) = k /\ (\A i \in 1..p : fs[i] = es[i]) /\ fs[k] = e
      BY <2>4, <2>8, <3>2
    <3> QED BY <3>3
  <2>10. Last(es) = es[p]
    BY <2>6 DEF Last
  <2>11. ASSUME NEW i \in 1..k
         PROVE  fs[i] = Entry("a", from + i - 1, refs[i], IF i = 1 THEN prev ELSE fs[i - 1].head, 0)
    <3>1. CASE i = k
      <4>1. k # 1 => p \in 1..p /\ k - 1 = p
        BY <2>4
      <4>2. k # 1 => Last(es).head = fs[k - 1].head
        BY <2>9, <2>10, <4>1
      <4> QED BY <2>7, <2>9, <3>1, <4>2
    <3>2. CASE i # k
      <4>1. i \in 1..p /\ (i # 1 => i - 1 \in 1..p)
        BY <2>4, <3>2
      <4>2. es[i] = Entry("a", from + i - 1, refs[i], IF i = 1 THEN prev ELSE es[i - 1].head, 0)
        BY <2>5, <4>1 DEF Faked
      <4> QED BY <2>9, <4>1, <4>2
    <3> QED BY <3>1, <3>2
  <2>12. Faked(fs, refs, from, prev, k)
    BY <2>9, <2>11 DEF Faked
  <2> QED BY <2>1, <2>3, <2>12
<1>5. n \in 0..n /\ n \notin Bad
  BY <1>4
<1> QED BY <1>2, <1>5

\* The log chained afresh from a head of one's own choosing, at k > 1.
LEMMA FakeStraight ==
  ASSUME NEW refs, NEW k \in Nat, k > 1, NEW n \in Nat, n >= 1, Len(refs) = n, \A i \in 1..n : refs[i] = "fake",
         NEW es, es = Rechained(refs, k, <<"chosen">>)
  PROVE  Straight(es, n, k) /\ (\A i \in 1..n : es[i].aseq = 0) /\ es[1].prev = <<"chosen">>
<1>1. Faked(es, refs, k, <<"chosen">>, n)
  BY RechainedIs
<1>2. PICK chosen : chosen = <<"chosen">>
  OBVIOUS
<1>3. chosen # Absent
  BY <1>2 DEF Absent
<1>4. ASSUME NEW i \in 1..n
      PROVE  \E p : /\ es[i] = Entry("a", k + i - 1, "fake", p, 0)
                    /\ (i = 1 => p = chosen) /\ (i # 1 => p = es[i - 1].head)
  BY <1>1, <1>2 DEF Faked
<1>5. ASSUME NEW i \in 1..n
      PROVE  /\ es[i].agent = "a" /\ es[i].ref = "fake" /\ es[i].seq = k + i - 1 /\ es[i].aseq = 0
             /\ (i = 1 => es[i].prev = chosen) /\ (i # 1 => es[i].prev = es[i - 1].head)
             /\ es[i].head = ComputeHead("a", k + i - 1, "fake", es[i].prev, 0)
             /\ IsEntry(es[i]) /\ es[i].head # Absent
  <2>1. PICK p : es[i] = Entry("a", k + i - 1, "fake", p, 0) /\ (i = 1 => p = chosen) /\ (i # 1 => p = es[i - 1].head)
    BY <1>4
  <2>2. PICK l : l = k + i - 1
    OBVIOUS
  <2>3. es[i] = Entry("a", l, "fake", p, 0)
    BY <2>1, <2>2
  <2>4. /\ es[i].agent = "a" /\ es[i].ref = "fake" /\ es[i].seq = l /\ es[i].aseq = 0 /\ es[i].prev = p
        /\ es[i].head = ComputeHead("a", l, "fake", p, 0)
    BY <2>3 DEF Entry
  <2>5. IsEntry(es[i])
    BY <2>3, EntryIsEntry
  <2>6. es[i].head # Absent
    <3>1. <<"a", l, "fake", p, 0>> # <<>>
      OBVIOUS
    <3> QED BY <2>4, <3>1 DEF ComputeHead, Absent
  <2> QED BY <2>1, <2>2, <2>4, <2>5, <2>6
<1>6. ASSUME NEW i \in 1..n
      PROVE  EntryDefect(es, k, i) = "ok"
  <2>1. es[1].agent = "a"
    <3>1. 1 \in 1..n
      OBVIOUS
    <3> QED BY <1>5, <3>1
  <2>2. PICK e : e = es[i]
    OBVIOUS
  <2>3. e.seq = k + i - 1 /\ e.seq # 1
    BY <1>5, <2>2
  <2>4. e.prev # Absent
    <3>1. i # 1 => i - 1 \in 1..n
      OBVIOUS
    <3> QED BY <1>3, <1>5, <2>2, <3>1
  <2>5. e.head = ComputeHead("a", e.seq, e.ref, e.prev, e.aseq) /\ (i > 1 => e.prev = es[i - 1].head)
    BY <1>5, <2>2
  <2>6. (e.seq = 1) = (e.prev = Absent)
    BY <2>3, <2>4
  <2> QED BY <2>1, <2>2, <2>3, <2>5, <2>6 DEF EntryDefect
<1>7. EntryList(es, n)
  BY <1>1, <1>5 DEF EntryList, Faked
<1>8. "fake" # Junk
  BY DEF Junk
<1>9. Straight(es, n, k)
  BY <1>5, <1>6, <1>7, <1>8 DEF Straight
<1>10. es[1].prev = chosen
  <2>1. 1 \in 1..n
    OBVIOUS
  <2> QED BY <1>5, <2>1
<1> QED BY <1>2, <1>5, <1>9, <1>10

\* A log sealed with the entry of another agent.
LEMMA SealedAtIs ==
  ASSUME HonestInv, NEW j \in 1..Len(log), NEW L, Window(L, log, 1, j), NEW end, NEW s, s = SealedAt(L, end)
  PROVE  Certifies(s) /\ s.cp.seq = j /\ s.cp.end = end
<1>1. j \in Nat /\ j <= Len(log) /\ log \in Seq(Range(log)) /\ Len(log) \in Nat /\ 1 \in 1..j
  BY DEF HonestInv, HeadInv
<1>2. PICK m : m = j - 1 + 1
  OBVIOUS
<1>3. Straight(L, m, 1) /\ \A i \in 1..m : L[i] = log[1 + i - 1]
  BY ONLY HonestInv, j \in 1..Len(log), Window(L, log, 1, j), <1>1, <1>2, LogStraight
<1>4. m = j /\ Len(L) = j /\ j \in 1..j
  BY <1>1, <1>2, <1>3, FunctionIsSeq DEF Straight, EntryList
<1>5. L[j] = log[j] /\ L[j].agent = "a" /\ L[j].seq = j
  <2>1. 1 + j - 1 = j
    BY <1>1
  <2> QED BY <1>3, <1>4, <2>1 DEF Straight
<1>6. Last(L) = log[j]
  BY <1>4, <1>5 DEF Last
<1>7. PICK c, d, e : /\ c = [agent |-> "a", end |-> end, seq |-> j, head |-> log[j].head] /\ e = Last(OtherLog("b"))
                     /\ d = [agent |-> e.agent, end |-> end, seq |-> e.seq, head |-> e.head]
  OBVIOUS
<1>8. PICK leaves : leaves = <<c, d>>
  OBVIOUS
<1>9. s = [cp |-> leaves[1], proof |-> GetProof(leaves, 0), root |-> MerkleRoot(leaves)]
  <2>1. Last(L).agent = "a" /\ Last(L).seq = j /\ Last(L).head = log[j].head
    BY <1>5, <1>6
  <2> QED BY <1>7, <1>8, <2>1 DEF SealedAt
<1>10. leaves = [i \in 1..2 |-> leaves[i]] /\ leaves[1] = c
  BY <1>8
<1>11. Leaves(leaves, 0) /\ 0 + 1 = 1
  <2>1. 2 \in Nat /\ 0 \in 0..(2 - 1) /\ 0 + 1 = 1
    OBVIOUS
  <2> QED BY <1>10, <2>1 DEF Leaves
<1>12. VerifyInclusion(leaves[1], GetProof(leaves, 0), MerkleRoot(leaves))
  BY <1>11, EveryLeafProven
<1>13. s.cp = c /\ s.proof = GetProof(leaves, 0) /\ s.root = MerkleRoot(leaves)
  BY <1>9, <1>10
<1>14. Proven(s)
  BY <1>10, <1>12, <1>13 DEF Proven
<1>15. s # NoCheckpoint
  <2>1. "agent" \in DOMAIN c
    BY <1>7
  <2>2. "agent" \notin DOMAIN Absent
    BY DEF Absent
  <2>3. s.cp = c /\ NoCheckpoint.cp = Absent
    BY <1>13 DEF NoCheckpoint
  <2> QED BY <2>1, <2>2, <2>3
<1>16. c.agent = "a" /\ c.end = end /\ c.seq = j /\ c.head = log[j].head
  BY <1>7
<1> QED BY <1>13, <1>14, <1>15, <1>16 DEF Certifies

\* No numbers, no gap.
LEMMA Unnumbered ==
  ASSUME NEW es, NEW n, NEW from, Straight(es, n, from), \A i \in 1..n : es[i].aseq = 0,
         NEW anchor, NEW start, start = WindowStart(es, from, anchor), NEW shown, NEW clock,
         NEW rest, rest = Completeness(es, from, shown, clock)
  PROVE  VerifyTrail(es, from, anchor, shown, clock) = IF start = "ok" THEN rest ELSE start
<1>1. DOMAIN es = 1..n
  BY FunctionIsSeq DEF Straight, EntryList
<1>2. {i \in DOMAIN es : es[i].aseq # 0} = {}
  BY <1>1
<1>3. AgentSeq(es, from) = "ok"
  BY <1>2 DEF AgentSeq
<1> QED BY <1>3, StraightVerdict DEF Then

\* A window said to start at the genesis has a gap before it.
LEMMA WindowAtOne ==
  ASSUME HonestInv, NEW k \in 2..Len(log), NEW es, Window(es, log, k, Len(log)), NEW anchor, NEW shown, NEW clock
  PROVE  VerifyTrail(es, 1, anchor, shown, clock) = "seq_gap"
<1>1. PICK n, m : n = Len(log) /\ m = n - k + 1
  OBVIOUS
<1>2. n \in Nat /\ k \in 1..n /\ m \in Nat /\ m >= 1 /\ n \in 1..n /\ k > 1 /\ k \in Nat
  BY <1>1 DEF HonestInv, HeadInv
<1>3. Straight(es, m, k)
  <2>1. n \in 1..Len(log) /\ k \in 1..n /\ Window(es, log, k, n)
    BY <1>1, <1>2
  <2> QED BY ONLY HonestInv, <1>1, <2>1, LogStraight
<1>4. Shape(es) = "ok"
  BY <1>3, StraightPasses
<1>5. DOMAIN es = 1..m /\ Len(es) = m /\ \A i \in 1..m : es[i].seq = k + i - 1
  BY <1>3, FunctionIsSeq DEF Straight, EntryList
<1>6. \A i \in 1..m : es[i].seq # 1 /\ es[i].seq # 1 + i - 1
  BY <1>2, <1>5
<1>7. ~Reordered(es, 1)
  <2>1. 1 \in 1..(1 + m - 1)
    BY <1>2
  <2>2. 1 \notin {es[i].seq : i \in DOMAIN es}
    BY <1>5, <1>6
  <2> QED BY <1>5, <2>1, <2>2 DEF Reordered
<1>8. \A i \in 1..m : EntryDefect(es, 1, i) = "seq_gap"
  BY <1>6 DEF EntryDefect
<1>9. PICK bad : bad = {i \in DOMAIN es : EntryDefect(es, 1, i) # "ok"}
  OBVIOUS
<1>10. bad = 1..m /\ 1 \in bad /\ bad # {}
  BY <1>2, <1>5, <1>8, <1>9
<1>11. Min(bad) \in bad
  <2>1. 1 \in bad /\ \A y \in bad : 1 <= y
    BY <1>2, <1>10
  <2> QED BY <2>1 DEF Min
<1>12. Continuity(es, 1) = "seq_gap"
  BY <1>7, <1>8, <1>9, <1>10, <1>11 DEF Continuity
<1> QED BY <1>4, <1>12 DEF VerifyTrail, Then

\* The log chained afresh has not the heads of the log: they would be one log,
\* and start with one head.
LEMMA FakeDiffers ==
  ASSUME HonestInv, NEW k \in 2..Len(log), NEW m, m = Len(log) - k + 1, NEW es, Straight(es, m, k),
         es[1].prev = <<"chosen">>
  PROVE  es[m].head # log[Len(log)].head /\ log[k - 1].head # <<"chosen">>
<1>1. PICK n : n = Len(log)
  OBVIOUS
<1>2. log \in Seq(Range(log)) /\ Chained(log, "a") /\ EntryList(log, n)
  BY <1>1, ChainedIsList DEF HonestInv, HeadInv
<1>3. n \in Nat /\ k \in Nat /\ k > 1 /\ k - 1 \in 1..n /\ k \in 1..n /\ m \in Nat /\ m >= 1 /\ k + m - 1 = n
  BY <1>1, <1>2
<1>4. log[k - 1].head # <<"chosen">>
  <2>1. PICK j : j = k - 1
    OBVIOUS
  <2>2. j \in 1..Len(log)
    BY <1>1, <1>3, <2>1
  <2>3. PICK p, r, a : log[j] = Entry("a", j, r, p, a)
    BY <1>2, <2>2 DEF Chained
  <2>4. log[j].head = <<"a", j, r, p, a>>
    BY <2>3 DEF Entry, ComputeHead
  <2>5. <<"a", j, r, p, a>> # <<"chosen">>
    <3>1. PICK x, y : x = <<"a", j, r, p, a>> /\ y = <<"chosen">>
      OBVIOUS
    <3>2. Len(x) = 5 /\ Len(y) = 1
      BY <3>1
    <3> QED BY <3>1, <3>2
  <2> QED BY <2>1, <2>4, <2>5
<1>5. ASSUME es[m].head = log[n].head PROVE FALSE
  <2>1. m \in 1..m /\ 1 \in 1..m
    BY <1>3
  <2>2. /\ EntryList(es, m) /\ (\A i \in 1..m : EntryDefect(es, k, i) = "ok") /\ (\A i \in 1..m : es[i].agent = "a")
        /\ es[1].agent = "a"
    BY <2>1 DEF Straight
  <2>3. es[m].head = log[k + m - 1].head /\ k + m - 1 <= n /\ k >= 1
    BY <1>3, <1>5
  <2>4. \A i \in 1..m : es[i] = log[k + i - 1]
    <3>1. PICK L, g : L = log /\ g = "a"
      OBVIOUS
    <3>2. /\ EntryList(es, m) /\ EntryList(L, n) /\ Chained(L, g) /\ m \in 1..m /\ k + m - 1 <= n /\ k \in Nat /\ k >= 1
          /\ es[m].head = L[k + m - 1].head /\ es[1].agent = g
      BY <1>2, <1>3, <2>1, <2>2, <2>3, <3>1
    <3>3. (\A i \in 1..m : EntryDefect(es, k, i) = "ok") /\ (\A i \in 1..m : es[i].agent = g)
      BY <2>2, <3>1
    <3>4. \A i \in 1..m : es[i] = L[k + i - 1]
      BY ONLY <1>3, <3>2, <3>3, HashChain
    <3> QED BY <3>1, <3>4
  <2>5. k + 1 - 1 = k
    BY <1>3
  <2>6. es[1] = log[k]
    BY <2>1, <2>4, <2>5
  <2>7. log[k].prev = log[k - 1].head
    <3>1. PICK p, r, a : p = log[k - 1].head /\ r = log[k].ref /\ a = log[k].aseq
      OBVIOUS
    <3>2. log[k] = Entry("a", k, r, p, a)
      BY <1>1, <1>2, <1>3, <3>1 DEF Chained
    <3>3. log[k].prev = p
      BY <3>2 DEF Entry
    <3> QED BY <3>1, <3>3
  <2> QED BY <1>4, <2>6, <2>7
<1> QED BY <1>1, <1>4, <1>5

\* How a case scores.
LEMMA CaseScores ==
  ASSUME NEW es, NEW from, NEW anchor, NEW shown, NEW reason, NEW start,
         VerifyTrail(es, from, anchor, shown, 2) = reason,
         start # "none" => WindowAnchor(from, anchor) = start
  PROVE  Scored(Case(es, from, anchor, shown, reason, start), FALSE)
<1>1. PICK c : c = Case(es, from, anchor, shown, reason, start)
  OBVIOUS
<1>2. /\ c.es = es /\ c.from = from /\ c.anchor = anchor /\ c.shown = shown /\ c.reason = reason /\ c.start = start
  BY <1>1 DEF Case
<1> QED BY <1>1, <1>2 DEF Scored

\* Windows of the log, under an anchor of the entry before or none.
LEMMA LogCases ==
  ASSUME HonestInv, ~numbered, NEW k \in 1..Len(log), NEW es, Window(es, log, k, Len(log)),
         NEW anchor, anchor # NoCheckpoint => Certifies(anchor) /\ anchor.cp.seq = k - 1,
         NEW tail, Certifies(tail), tail.cp.end = 2, tail.cp.seq = Len(log)
  PROVE  /\ VerifyTrail(es, k, anchor, NoCheckpoint, 2) = "no_checkpoint"
         /\ VerifyTrail(es, k, anchor, tail, 2) = IF k = 1 THEN "complete" ELSE "window_complete"
<1>1. PICK n, m : n = Len(log) /\ m = n - k + 1
  OBVIOUS
<1>2. n \in Nat /\ n \in 1..n /\ k \in 1..n /\ DOMAIN log = 1..n
  BY <1>1 DEF HonestInv, HeadInv
<1>3. ~Gap(k)
  <2>1. \A i \in 1..n : log[i].aseq = 0
    BY <1>2 DEF HonestInv
  <2> QED BY <1>1, <1>2, <2>1 DEF Gap
<1>4. ~(2 - tail.cp.end > MaxAge)
  BY TrailHeadAssumption
<1>5. VerifyTrail(es, k, anchor, tail, 2) = IF k = 1 THEN "complete" ELSE "window_complete"
  <2>1. PICK c : c = tail.cp.seq
    OBVIOUS
  <2>2. VerifyTrail(es, k, anchor, tail, 2) =
          IF Gap(k) THEN "agent_seq_not_contiguous"
          ELSE IF c < k THEN "checkpoint_before_window"
          ELSE IF k = 1 THEN IF c = n THEN "complete" ELSE "complete_unsealed_tail"
          ELSE IF c = n THEN "window_complete" ELSE "window_complete_unsealed_tail"
    BY ONLY HonestInv, k \in 1..Len(log), Window(es, log, k, Len(log)),
            anchor # NoCheckpoint => Certifies(anchor) /\ anchor.cp.seq = k - 1,
            Certifies(tail), <1>1, <1>4, <2>1, HonestVerdict
  <2>3. c = n /\ ~(c < k)
    BY <1>1, <1>2, <2>1
  <2> QED BY <1>3, <2>2, <2>3
<1>6. VerifyTrail(es, k, anchor, NoCheckpoint, 2) = "no_checkpoint"
  <2>1. n \in 1..Len(log) /\ k \in 1..n /\ Window(es, log, k, n)
    BY <1>1, <1>2
  <2>2. /\ Straight(es, m, k)
        /\ \A i \in 1..m : IF numbered THEN es[i].aseq \in Nat \ {0} ELSE es[i].aseq = 0
    BY ONLY HonestInv, <1>1, <2>1, LogStraight
  <2>3. WindowStart(es, k, anchor) = "ok"
    BY <1>1, <1>2, WindowStarts
  <2>4. PICK start, rest : start = WindowStart(es, k, anchor) /\ rest = Completeness(es, k, NoCheckpoint, 2)
    OBVIOUS
  <2>5. VerifyTrail(es, k, anchor, NoCheckpoint, 2) = IF start = "ok" THEN rest ELSE start
    BY <2>2, <2>4, Unnumbered
  <2> QED BY <2>3, <2>4, <2>5, NoCheckpointIs
<1> QED BY <1>5, <1>6

\* The log chained afresh.
LEMMA FakeCases ==
  ASSUME HonestInv, NEW k \in 2..Len(log), NEW m, m = Len(log) - k + 1, NEW es, Straight(es, m, k),
         \A i \in 1..m : es[i].aseq = 0, es[1].prev = <<"chosen">>,
         NEW anchor, Certifies(anchor), anchor.cp.seq = k - 1,
         NEW tail, Certifies(tail), tail.cp.end = 2, tail.cp.seq = Len(log)
  PROVE  /\ VerifyTrail(es, k, NoCheckpoint, NoCheckpoint, 2) = "no_checkpoint"
         /\ VerifyTrail(es, k, anchor, NoCheckpoint, 2) = "prev_head_differs_from_anchor"
         /\ VerifyTrail(es, k, NoCheckpoint, tail, 2) = "head_differs_from_checkpoint"
<1>1. es[m].head # log[Len(log)].head /\ log[k - 1].head # es[1].prev
  BY FakeDiffers
<1>2. PICK n : n = Len(log)
  OBVIOUS
<1>3. n \in Nat /\ k \in Nat /\ k > 1 /\ m \in Nat /\ m >= 1 /\ k + m - 1 = n /\ n - k + 1 = m
  BY <1>2 DEF HonestInv, HeadInv
<1>4. es[1].agent = "a"
  <2>1. 1 \in 1..m
    BY <1>3
  <2> QED BY <2>1 DEF Straight
<1>5. WindowStart(es, k, NoCheckpoint) = "ok"
  BY DEF WindowStart
<1>6. WindowStart(es, k, anchor) = "prev_head_differs_from_anchor"
  BY <1>1, <1>3, <1>4 DEF WindowStart, Certifies
<1>7. Completeness(es, k, tail, 2) = "head_differs_from_checkpoint"
  <2>1. ~(2 - tail.cp.end > MaxAge)
    BY TrailHeadAssumption
  <2>2. PICK c, last, h : c = tail.cp.seq /\ last = k + m - 1 /\ h = tail.cp.head
    OBVIOUS
  <2>3. Completeness(es, k, tail, 2) =
           IF c < k THEN "checkpoint_before_window"
           ELSE IF last < c THEN "log_shorter_than_checkpoint"
           ELSE IF es[c - k + 1].head # h THEN "head_differs_from_checkpoint"
           ELSE IF last = c THEN IF k > 1 THEN "window_complete" ELSE "complete"
           ELSE IF k > 1 THEN "window_complete_unsealed_tail" ELSE "complete_unsealed_tail"
    <3>1. Straight(es, m, k) /\ tail # NoCheckpoint /\ Proven(tail) /\ tail.cp.agent = "a"
      BY DEF Certifies
    <3> QED BY ONLY <2>1, <2>2, <3>1, CompletenessIs
  <2>4. c = n /\ last = n /\ c - k + 1 = m /\ ~(c < k) /\ ~(last < c)
    BY <1>2, <1>3, <2>2
  <2>5. h = log[n].head
    BY <1>2, <2>2 DEF Certifies
  <2> QED BY <1>1, <1>2, <2>3, <2>4, <2>5
<1>8. PICK start, rest, sealed : /\ start = WindowStart(es, k, anchor) /\ rest = Completeness(es, k, NoCheckpoint, 2)
                                 /\ sealed = Completeness(es, k, tail, 2)
  OBVIOUS
<1>9. /\ VerifyTrail(es, k, anchor, NoCheckpoint, 2) = IF start = "ok" THEN rest ELSE start
      /\ VerifyTrail(es, k, NoCheckpoint, NoCheckpoint, 2) = rest
      /\ VerifyTrail(es, k, NoCheckpoint, tail, 2) = sealed
  BY <1>5, <1>8, Unnumbered
<1> QED BY <1>6, <1>7, <1>8, <1>9, NoCheckpointIs

\* The window without its last entry.
LEMMA CutCases ==
  ASSUME HonestInv, ~numbered, NEW k \in 2..(Len(log) - 1), NEW es, Window(es, log, k, Len(log) - 1),
         NEW tail, Certifies(tail), tail.cp.end = 2, tail.cp.seq = Len(log)
  PROVE  /\ VerifyTrail(es, k, NoCheckpoint, NoCheckpoint, 2) = "no_checkpoint"
         /\ VerifyTrail(es, k, NoCheckpoint, tail, 2) = "log_shorter_than_checkpoint"
<1>1. PICK n, j, m : n = Len(log) /\ j = n - 1 /\ m = j - k + 1
  OBVIOUS
<1>2. n \in Nat /\ j \in 1..Len(log) /\ k \in 1..j /\ m \in Nat /\ k + m - 1 = j /\ j < n /\ ~(n < k) /\ j \in Nat
  BY <1>1 DEF HonestInv, HeadInv
<1>3. Straight(es, m, k) /\ \A i \in 1..m : es[i].aseq = 0
  <2>1. Window(es, log, k, j) /\ m = j - k + 1
    BY <1>1
  <2>2. j \in 1..Len(log) /\ k \in 1..j
    BY <1>2
  <2>3. /\ Straight(es, m, k)
        /\ \A i \in 1..m : IF numbered THEN es[i].aseq \in Nat \ {0} ELSE es[i].aseq = 0
    BY ONLY HonestInv, <2>1, <2>2, LogStraight
  <2> QED BY ONLY ~numbered, <2>3
<1>4. WindowStart(es, k, NoCheckpoint) = "ok"
  BY DEF WindowStart
<1>5. Completeness(es, k, tail, 2) = "log_shorter_than_checkpoint"
  <2>1. ~(2 - tail.cp.end > MaxAge)
    BY TrailHeadAssumption
  <2>2. PICK c, last : c = tail.cp.seq /\ last = k + m - 1
    OBVIOUS
  <2>3. Completeness(es, k, tail, 2) =
           IF c < k THEN "checkpoint_before_window"
           ELSE IF last < c THEN "log_shorter_than_checkpoint"
           ELSE IF es[c - k + 1].head # tail.cp.head THEN "head_differs_from_checkpoint"
           ELSE IF last = c THEN IF k > 1 THEN "window_complete" ELSE "complete"
           ELSE IF k > 1 THEN "window_complete_unsealed_tail" ELSE "complete_unsealed_tail"
    <3>1. tail # NoCheckpoint /\ Proven(tail) /\ tail.cp.agent = "a"
      BY DEF Certifies
    <3> QED BY ONLY <1>3, <2>1, <2>2, <3>1, CompletenessIs
  <2> QED BY <1>1, <1>2, <2>2, <2>3
<1>6. PICK start, rest, sealed : /\ start = WindowStart(es, k, NoCheckpoint) /\ sealed = Completeness(es, k, tail, 2)
                                 /\ rest = Completeness(es, k, NoCheckpoint, 2)
  OBVIOUS
<1>7. /\ VerifyTrail(es, k, NoCheckpoint, NoCheckpoint, 2) = IF start = "ok" THEN rest ELSE start
      /\ VerifyTrail(es, k, NoCheckpoint, tail, 2) = IF start = "ok" THEN sealed ELSE start
  BY <1>3, <1>6, Unnumbered
<1> QED BY <1>4, <1>5, <1>6, <1>7, NoCheckpointIs

\* Where a window is said to start.
LEMMA AnchorKinds ==
  /\ WindowAnchor(1, NoCheckpoint) = "genesis"
  /\ \A k \in Nat : k # 1 => WindowAnchor(k, NoCheckpoint) = "uncertified"
  /\ \A k, anchor : anchor # NoCheckpoint => WindowAnchor(k, anchor) = "certified"
BY DEF WindowAnchor

\* The vectors score as they declare, and the one that is certified by its
\* anchor is missed by the verifier that drops it.
LEMMA WindowVectors ==
  ASSUME HonestInv, ~numbered, NEW k \in 2..(Len(log) - 1)
  PROVE  WindowVectorsHold(log, k)
<1>1. PICK n, m, none : n = Len(log) /\ m = n - k + 1 /\ none = NoCheckpoint
  OBVIOUS
<1>2. /\ n \in Nat /\ k \in Nat /\ k > 1 /\ k # 1 /\ k \in 1..n /\ k \in 2..n /\ n \in 1..n /\ m \in Nat /\ m >= 1
      /\ 1 \in 1..n /\ k - 1 \in 1..n /\ 1 \in 1..(k - 1)
      /\ log \in Seq(Range(log))
  BY <1>1 DEF HonestInv, HeadInv
<1>3. PICK win, cut, head : win = SubSeq(log, k, n) /\ cut = Front(win) /\ head = SubSeq(log, 1, k - 1)
  OBVIOUS
<1>4. Window(win, log, k, n) /\ Window(cut, log, k, n - 1)
  BY <1>1, <1>2, <1>3, WindowIs
<1>5. Window(head, log, 1, k - 1)
  <2>1. PICK j : j = k - 1
    OBVIOUS
  <2>2. j \in 1..Len(log) /\ 1 \in 1..j
    BY <1>1, <1>2, <2>1
  <2> QED BY <1>2, <1>3, <2>1, <2>2, WindowIs
<1>6. Window(log, log, 1, n)
  <2>1. log = [i \in 1..n |-> log[i]]
    BY <1>1, <1>2
  <2>2. n - 1 + 1 = n /\ \A i \in 1..n : 1 + i - 1 = i
    BY <1>2
  <2> QED BY <2>1, <2>2 DEF Window
<1>7. PICK tail : tail = SealedAt(log, 2)
  OBVIOUS
<1>8. Certifies(tail) /\ tail.cp.seq = n /\ tail.cp.end = 2
  BY <1>1, <1>2, <1>6, <1>7, SealedAtIs
<1>9. PICK anchor : anchor = SealedAt(head, 1)
  OBVIOUS
<1>10. Certifies(anchor) /\ anchor.cp.seq = k - 1
  <2>1. PICK j : j = k - 1
    OBVIOUS
  <2>2. j \in 1..Len(log) /\ Window(head, log, 1, j)
    BY <1>1, <1>2, <1>5, <2>1
  <2> QED BY <1>9, <2>1, <2>2, SealedAtIs
<1>11. PICK refs : refs = [i \in DOMAIN win |-> "fake"]
  OBVIOUS
<1>12. PICK fake : fake = Rechained(refs, k, <<"chosen">>)
  OBVIOUS
<1>13. Straight(fake, m, k) /\ (\A i \in 1..m : fake[i].aseq = 0) /\ fake[1].prev = <<"chosen">>
  <2>1. DOMAIN win = 1..m
    BY <1>1, <1>2, <1>4 DEF Window
  <2>2. Len(refs) = m /\ \A i \in 1..m : refs[i] = "fake"
    BY <1>2, <1>11, <2>1, FunctionIsSeq
  <2> QED BY <1>2, <1>12, <2>2, FakeStraight
<1> DEFINE AllCases ==
     {Case(log, 1, none, none, "no_checkpoint", "genesis"),
      Case(log, 1, none, tail, "complete", "genesis"),
      Case(win, k, anchor, none, "no_checkpoint", "certified"),
      Case(win, k, none, none, "no_checkpoint", "uncertified"),
      Case(win, k, none, tail, "window_complete", "uncertified"),
      Case(fake, k, none, none, "no_checkpoint", "uncertified"),
      Case(fake, k, anchor, none, "prev_head_differs_from_anchor", "none"),
      Case(fake, k, none, tail, "head_differs_from_checkpoint", "none"),
      Case(cut, k, none, none, "no_checkpoint", "uncertified"),
      Case(cut, k, none, tail, "log_shorter_than_checkpoint", "none"),
      Case(win, 1, none, none, "seq_gap", "none")}
<1>14. Cases(log, k) = AllCases
  BY <1>1, <1>3, <1>7, <1>9, <1>11, <1>12 DEF Cases
<1>15. /\ VerifyTrail(log, 1, none, none, 2) = "no_checkpoint"
       /\ VerifyTrail(log, 1, none, tail, 2) = "complete"
  <2>1. PICK one : one = 1
    OBVIOUS
  <2>2. one \in 1..Len(log) /\ Window(log, log, one, Len(log))
    BY <1>1, <1>2, <1>6, <2>1
  <2> QED BY <1>1, <1>8, <2>1, <2>2, LogCases
<1>16. /\ VerifyTrail(win, k, none, none, 2) = "no_checkpoint"
       /\ VerifyTrail(win, k, none, tail, 2) = "window_complete"
  BY <1>1, <1>2, <1>4, <1>8, LogCases
<1>17. VerifyTrail(win, k, anchor, none, 2) = "no_checkpoint"
  BY <1>1, <1>2, <1>4, <1>8, <1>10, LogCases
<1>18. /\ VerifyTrail(fake, k, none, none, 2) = "no_checkpoint"
       /\ VerifyTrail(fake, k, anchor, none, 2) = "prev_head_differs_from_anchor"
       /\ VerifyTrail(fake, k, none, tail, 2) = "head_differs_from_checkpoint"
  BY <1>1, <1>2, <1>8, <1>10, <1>13, FakeCases
<1>19. /\ VerifyTrail(cut, k, none, none, 2) = "no_checkpoint"
       /\ VerifyTrail(cut, k, none, tail, 2) = "log_shorter_than_checkpoint"
  BY <1>1, <1>4, <1>8, CutCases
<1>20. VerifyTrail(win, 1, none, none, 2) = "seq_gap"
  BY <1>1, <1>2, <1>4, WindowAtOne
<1>21. /\ WindowAnchor(1, none) = "genesis" /\ WindowAnchor(k, none) = "uncertified"
       /\ WindowAnchor(k, anchor) = "certified"
  BY <1>1, <1>2, <1>10, AnchorKinds DEF Certifies
<1>22. /\ Scored(Case(log, 1, none, none, "no_checkpoint", "genesis"), FALSE)
       /\ Scored(Case(log, 1, none, tail, "complete", "genesis"), FALSE)
       /\ Scored(Case(win, k, none, none, "no_checkpoint", "uncertified"), FALSE)
       /\ Scored(Case(win, k, none, tail, "window_complete", "uncertified"), FALSE)
  BY <1>15, <1>16, <1>21, CaseScores
<1>23. /\ Scored(Case(win, k, anchor, none, "no_checkpoint", "certified"), FALSE)
       /\ Scored(Case(win, 1, none, none, "seq_gap", "none"), FALSE)
  BY <1>17, <1>20, <1>21, CaseScores
<1>24. /\ Scored(Case(fake, k, none, none, "no_checkpoint", "uncertified"), FALSE)
       /\ Scored(Case(fake, k, anchor, none, "prev_head_differs_from_anchor", "none"), FALSE)
       /\ Scored(Case(fake, k, none, tail, "head_differs_from_checkpoint", "none"), FALSE)
  BY <1>18, <1>21, CaseScores
<1>25. /\ Scored(Case(cut, k, none, none, "no_checkpoint", "uncertified"), FALSE)
       /\ Scored(Case(cut, k, none, tail, "log_shorter_than_checkpoint", "none"), FALSE)
  BY <1>19, <1>21, CaseScores
<1>26. \A c \in AllCases : Scored(c, FALSE)
  BY <1>22, <1>23, <1>24, <1>25
<1>27. \E c \in AllCases : ~Scored(c, TRUE)
  <2>1. PICK c : c = Case(win, k, anchor, none, "no_checkpoint", "certified")
    OBVIOUS
  <2>2. c.from = k /\ c.start = "certified"
    BY <2>1 DEF Case
  <2>3. ~Scored(c, TRUE)
    BY <1>1, <1>21, <2>2 DEF Scored
  <2> QED BY <2>1, <2>3
<1> HIDE DEF AllCases
<1> QED BY <1>14, <1>26, <1>27 DEF WindowVectorsHold

\* A sealed checkpoint of agent "a" certifies the log up to its entry.
LEMMA SealedCertifies ==
  ASSUME HonestInv, NEW s \in Sealed, s.cp.agent = "a"
  PROVE  Certifies(s)
<1>1. HeadInv
  BY DEF HonestInv
<1>2. Proven(s) /\ s # NoCheckpoint /\ StandsIn(log, s.cp)
  BY <1>1, SealedProven
<1>3. PICK c, h : c = s.cp /\ h = log[c.seq].head
  OBVIOUS
<1>4. LogIn(log, c.agent) = log
  BY <1>3 DEF LogIn
<1>5. c.seq \in 1..Len(log) /\ c = [agent |-> c.agent, end |-> c.end, seq |-> c.seq, head |-> h]
  BY <1>2, <1>3, <1>4 DEF StandsIn
<1> QED BY <1>2, <1>3, <1>5 DEF Certifies

\* The invariant implies the property.
LEMMA HonestInvImplies == HonestInv => HonestLogAccepted
<1> SUFFICES ASSUME HonestInv PROVE HonestLogAccepted
  OBVIOUS
<1>1. HeadInv /\ numbered \in BOOLEAN
  BY DEF HonestInv
<1>2. \A s \in Sealed : Proven(s)
  BY <1>1, SealedProven
<1>3. CadenceOk({s.cp.end : s \in {t \in Sealed : t.cp.agent = "a"}}, 1)
  BY CadenceKept
<1>4. ~numbered => \A k \in 2..(Len(log) - 1) : WindowVectorsHold(log, k)
  BY WindowVectors
<1>5. ASSUME NEW s \in Sealed, s.cp.agent = "a", s.cp.end = Len(seals), NEW k \in DOMAIN log,
             NEW anchor \in {NoCheckpoint} \cup {t \in Sealed : t.cp.agent = "a"},
             anchor # NoCheckpoint => anchor.cp.seq = k - 1
      PROVE  VerifyTrail(SubSeq(log, k, Len(log)), k, anchor, s, Len(seals)) =
               IF Gap(k) THEN "agent_seq_not_contiguous"
               ELSE IF s.cp.seq < k THEN "checkpoint_before_window"
               ELSE IF k = 1 THEN IF s.cp.seq = Len(log) THEN "complete" ELSE "complete_unsealed_tail"
                    ELSE IF s.cp.seq = Len(log) THEN "window_complete" ELSE "window_complete_unsealed_tail"
  <2>1. PICK n, c, es, clock : n = Len(log) /\ c = s.cp.seq /\ es = SubSeq(log, k, n) /\ clock = Len(seals)
    OBVIOUS
  <2>2. log \in Seq(Range(log)) /\ n \in Nat /\ clock \in Nat /\ DOMAIN log = 1..n /\ k \in 1..n /\ n \in 1..n
    BY <1>1, <2>1 DEF HeadInv
  <2>3. Window(es, log, k, n)
    BY <2>1, <2>2, WindowIs
  <2>4. Certifies(s)
    BY <1>5, SealedCertifies
  <2>5. anchor # NoCheckpoint => Certifies(anchor)
    BY SealedCertifies
  <2>6. ~(clock - s.cp.end > MaxAge)
    BY <1>5, <2>1, <2>2, TrailHeadAssumption
  <2>7. VerifyTrail(es, k, anchor, s, clock) =
          IF Gap(k) THEN "agent_seq_not_contiguous"
          ELSE IF c < k THEN "checkpoint_before_window"
          ELSE IF k = 1 THEN IF c = n THEN "complete" ELSE "complete_unsealed_tail"
          ELSE IF c = n THEN "window_complete" ELSE "window_complete_unsealed_tail"
    <3>1. k \in 1..Len(log) /\ Window(es, log, k, Len(log))
      BY <2>1, <2>2, <2>3
    <3>2. anchor # NoCheckpoint => Certifies(anchor) /\ anchor.cp.seq = k - 1
      BY <1>5, <2>5
    <3>3. c = s.cp.seq /\ n = Len(log)
      BY <2>1
    <3> QED BY ONLY HonestInv, <2>4, <2>6, <3>1, <3>2, <3>3, HonestVerdict
  <2> QED BY <2>1, <2>7
<1> QED BY <1>2, <1>3, <1>4, <1>5 DEF HonestLogAccepted, Gap

-----------------------------------------------------------------------------
(* One attempt: either the guard answers from its records, or it makes one    *)
(* and the effect may run.                                                    *)

World(r, b, e, l) == [records |-> r, bound |-> b, effects |-> e, last |-> l]

IsWorld(w) == w = World(w.records, w.bound, w.effects, w.last)

\* The guard knew the call: it answers with nothing or with its record's effect.
Refused(t, w, v, call) ==
  LET ref == Ref(t, call) IN
  \E b, l :
    /\ v = World(w.records, b, w.effects, l)
    /\ DOMAIN b = DOMAIN w.bound /\ \A x \in DOMAIN b : b[x] = w.bound[x]
    /\ t = "bound" => ref \in DOMAIN w.bound
    /\ l.effect # NoEffect \/ t \in Modes => ref \in DOMAIN w.records
    /\ l.returned
    /\ l.effect # NoEffect =>
         /\ l.effect = w.records[ref].effect
         /\ t = "bound" => w.bound[ref] = call.args
         /\ t = "conformant" => w.records[ref].digest = call.args

\* It did not: it has a record now, and the effect may have run, once.
Ran(t, w, v, call) ==
  LET ref == Ref(t, call) IN
  \E rec, b, e, l :
    /\ v = World(With(w.records, ref, rec), b, e, l)
    /\ ref \notin DOMAIN w.records
    /\ b = IF t = "bound" THEN With(w.bound, ref, call.args) ELSE w.bound
    /\ t = "bound" /\ ref \in DOMAIN w.bound => w.bound[ref] = call.args
    /\ e \in {w.effects, Append(w.effects, call)}
    /\ l.returned => l.effect = Len(w.effects) + 1
    /\ l.returned \/ rec.effect # NoEffect => e = Append(w.effects, call)
    /\ rec.effect \in {NoEffect, Len(w.effects) + 1}
    /\ t \in Modes => rec.digest = call.args
    /\ t \notin Modes => rec = Pending \/ rec.status = "COMMITTED"

\* What With is.
LEMMA WithIs ==
  ASSUME NEW f, NEW x, NEW v
  PROVE  /\ DOMAIN With(f, x, v) = DOMAIN f \cup {x}
         /\ With(f, x, v)[x] = v
         /\ \A y \in DOMAIN f : y # x => With(f, x, v)[y] = f[y]
BY DEF With

\* Setting a value twice is setting it once.
LEMMA WithTwice == \A f, x, u, v : With(With(f, x, u), x, v) = With(f, x, v)
<1> SUFFICES ASSUME NEW f, NEW x, NEW u, NEW v
             PROVE  With(With(f, x, u), x, v) = With(f, x, v)
  OBVIOUS
<1>1. PICK g : g = With(f, x, u)
  OBVIOUS
<1>2. DOMAIN g = DOMAIN f \cup {x} /\ \A y \in DOMAIN f : y # x => g[y] = f[y]
  BY <1>1 DEF With
<1>3. (DOMAIN f \cup {x}) \cup {x} = DOMAIN f \cup {x}
  OBVIOUS
<1>4. [y \in (DOMAIN g) \cup {x} |-> IF y = x THEN v ELSE g[y]] = [y \in DOMAIN f \cup {x} |-> IF y = x THEN v ELSE f[y]]
  BY <1>2, <1>3
<1> QED BY <1>1, <1>4 DEF With

\* RunEffect of a world, field by field.
LEMMA RunEffectIs ==
  ASSUME NEW w, IsWorld(w), NEW call, NEW run, NEW outcome, NEW wr, NEW wx
  PROVE  LET e == IF run = "raises_before" THEN w.effects ELSE Append(w.effects, call)
         IN RunEffect(w, call, run, outcome, wr, wx) =
              World(IF run \in {"returns", "lost_ack"} THEN wr ELSE wx, w.bound, e,
                    IF run = "returns" THEN Returned(outcome, Len(w.effects) + 1) ELSE Raised)
BY DEF RunEffect, ApplyEffect, World

\* Guard, of a world whose bound digests have been looked at.
LEMMA GuardIs ==
  ASSUME NEW w, IsWorld(w), NEW call, NEW run \in {"returns", "raises_after", "raises_before"},
         LET r == IdempotencyRef(call) IN r \in DOMAIN w.records => w.records[r].status \in {"PENDING", "COMMITTED"}
  PROVE  LET r == IdempotencyRef(call)
         IN \/ /\ r \in DOMAIN w.records
               /\ \E l : /\ Guard(w, call, run) = World(w.records, w.bound, w.effects, l)
                         /\ l.returned /\ l.effect # NoEffect => l.effect = w.records[r].effect
                         /\ l.returned
            \/ /\ r \notin DOMAIN w.records
               /\ \E rec, e, l :
                    /\ Guard(w, call, run) = World(With(w.records, r, rec), w.bound, e, l)
                    /\ e \in {w.effects, Append(w.effects, call)}
                    /\ l.returned => l.effect = Len(w.effects) + 1
                    /\ l.returned \/ rec.effect # NoEffect => e = Append(w.effects, call)
                    /\ rec.effect \in {NoEffect, Len(w.effects) + 1}
                    /\ rec = Pending \/ rec.status = "COMMITTED"
<1> DEFINE r == IdempotencyRef(call)
           done == [status |-> "COMMITTED", effect |-> Len(w.effects) + 1]
<1>1. CASE r \in DOMAIN w.records
  <2>1. CASE w.records[r].status = "COMMITTED"
    <3>1. Guard(w, call, run) = World(w.records, w.bound, w.effects, Returned("RECONCILED_GUARD", w.records[r].effect))
      BY <1>1, <2>1 DEF Guard, Status, Refuse, IsWorld, World
    <3> QED BY <1>1, <3>1 DEF Returned
  <2>2. CASE w.records[r].status = "PENDING"
    <3>1. Guard(w, call, run) = World(w.records, w.bound, w.effects, Returned("PENDING_GUARD", NoEffect))
      BY <1>1, <2>2 DEF Guard, Status, Refuse, IsWorld, World
    <3> QED BY <1>1, <3>1 DEF Returned
  <2> QED BY <1>1, <2>1, <2>2
<1>2. CASE r \notin DOMAIN w.records
  <2>1. Guard(w, call, run) = RunEffect(w, call, run, "COMMITTED", With(w.records, r, done), With(w.records, r, Pending))
    BY <1>2 DEF Guard, Status
  <2>2. Guard(w, call, run) =
          World(IF run \in {"returns", "lost_ack"} THEN With(w.records, r, done) ELSE With(w.records, r, Pending), w.bound,
                IF run = "raises_before" THEN w.effects ELSE Append(w.effects, call),
                IF run = "returns" THEN Returned("COMMITTED", Len(w.effects) + 1) ELSE Raised)
    BY <2>1, RunEffectIs
  <2>3. CASE run = "returns"
    <3>1. PICK rec, e, l : rec = done /\ e = Append(w.effects, call) /\ l = Returned("COMMITTED", Len(w.effects) + 1)
      OBVIOUS
    <3>2. Guard(w, call, run) = World(With(w.records, r, rec), w.bound, e, l)
      BY <2>2, <2>3, <3>1
    <3>3. l.returned /\ l.effect = Len(w.effects) + 1 /\ rec.effect = Len(w.effects) + 1 /\ rec.status = "COMMITTED"
      BY <3>1 DEF Returned
    <3> HIDE DEF done
    <3> QED BY <1>2, <3>1, <3>2, <3>3
  <2>4. CASE run \in {"raises_after", "raises_before"}
    <3>1. PICK e \in {w.effects, Append(w.effects, call)} :
            Guard(w, call, run) = World(With(w.records, r, Pending), w.bound, e, Raised)
      BY <2>2, <2>4
    <3> QED BY <1>2, <3>1 DEF Raised, Pending
  <2> QED BY <2>3, <2>4
<1> QED BY <1>1, <1>2

\* DurableGuard reserves first, and is Guard but for that.
LEMMA DurableGuardIs ==
  ASSUME NEW w, IsWorld(w), NEW call, NEW run \in {"returns", "raises_after", "raises_before"},
         LET r == IdempotencyRef(call) IN r \in DOMAIN w.records => w.records[r].status \in {"PENDING", "COMMITTED"}
  PROVE  DurableGuard(w, call, run) = Guard(w, call, run)
<1>1. PICK r, done : r = IdempotencyRef(call) /\ done = [status |-> "COMMITTED", effect |-> Len(w.effects) + 1]
  OBVIOUS
<1>2. CASE r \in DOMAIN w.records
  BY <1>1, <1>2 DEF DurableGuard, Status
<1>3. CASE r \notin DOMAIN w.records
  <2>1. PICK v : v = [w EXCEPT !.records = With(@, r, Pending)]
    OBVIOUS
  <2>2. v = World(With(w.records, r, Pending), w.bound, w.effects, w.last)
    BY <2>1 DEF IsWorld, World
  <2>3. IsWorld(v) /\ v.records = With(w.records, r, Pending) /\ v.bound = w.bound /\ v.effects = w.effects
    BY <2>2 DEF IsWorld, World
  <2>4. DurableGuard(w, call, run) = RunEffect(v, call, run, "COMMITTED", With(v.records, r, done), v.records)
    BY <1>1, <1>3, <2>1 DEF DurableGuard, Status
  <2>5. Guard(w, call, run) = RunEffect(w, call, run, "COMMITTED", With(w.records, r, done), With(w.records, r, Pending))
    BY <1>1, <1>3 DEF Guard, Status
  <2>6. With(v.records, r, done) = With(w.records, r, done)
    BY <2>3, WithTwice
  <2> QED BY <2>3, <2>4, <2>5, <2>6 DEF RunEffect
<1> QED BY <1>2, <1>3

\* What an attempt does, whichever the guard.
LEMMA AttemptIs ==
  ASSUME NEW t \in Tools, t # "unguarded", NEW w, IsWorld(w), RecordsFit(t, w),
         NEW call \in Calls, NEW run \in Runs, run = "lost_ack" => t \in Modes
  PROVE  Refused(t, w, Attempt(t, w, call, run), call) \/ Ran(t, w, Attempt(t, w, call, run), call)
<1> DEFINE v == Attempt(t, w, call, run)
<1>1. PICK ref : ref = Ref(t, call)
  OBVIOUS
<1>2. CASE t \in {"guarded", "durable", "bound"}
  <2>1. ref = IdempotencyRef(call) /\ run \in {"returns", "raises_after", "raises_before"}
    BY <1>1, <1>2 DEF Ref, Modes, Runs
  <2>2. ref \in DOMAIN w.records => w.records[ref].status \in {"PENDING", "COMMITTED"}
    BY <1>2 DEF RecordsFit, Pending
  <2>3. CASE t \in {"guarded", "durable"}
    <3>1. v = Guard(w, call, run)
      BY <2>1, <2>2, <2>3, DurableGuardIs DEF Attempt
    <3>2. CASE ref \in DOMAIN w.records
      <4>1. PICK l : /\ v = World(w.records, w.bound, w.effects, l)
                     /\ l.returned /\ l.effect # NoEffect => l.effect = w.records[ref].effect
                     /\ l.returned
        BY <2>1, <2>2, <3>1, <3>2, GuardIs
      <4> HIDE DEF v
      <4>2. Refused(t, w, v, call)
        BY <4>1, <3>2, <1>1, <2>3 DEF Refused
      <4> QED BY <4>2 DEF v
    <3>3. CASE ref \notin DOMAIN w.records
      <4>1. PICK rec, e, l :
              /\ v = World(With(w.records, ref, rec), w.bound, e, l)
              /\ e \in {w.effects, Append(w.effects, call)}
              /\ l.returned => l.effect = Len(w.effects) + 1
              /\ l.returned \/ rec.effect # NoEffect => e = Append(w.effects, call)
              /\ rec.effect \in {NoEffect, Len(w.effects) + 1}
              /\ rec = Pending \/ rec.status = "COMMITTED"
        BY <2>1, <2>2, <3>1, <3>3, GuardIs
      <4> HIDE DEF v
      <4>2. t \notin Modes /\ t # "bound"
        BY <2>3 DEF Modes
      <4>3. Ran(t, w, v, call)
        BY <4>1, <4>2, <3>3, <1>1 DEF Ran
      <4> QED BY <4>3 DEF v
    <3> QED BY <3>2, <3>3
  <2>4. CASE t = "bound"
    <3>1. v = BoundGuard(w, call, run)
      BY <2>4 DEF Attempt
    <3>2. CASE ref \in DOMAIN w.bound /\ w.bound[ref] # call.args
      <4>1. PICK l : l = Returned("ARGUMENT_MISMATCH_REQUIRES_NEW_DECISION", NoEffect)
        OBVIOUS
      <4>2. l.returned /\ l.effect = NoEffect
        BY <4>1 DEF Returned
      <4>3. v = World(w.records, w.bound, w.effects, l)
        BY <2>1, <3>1, <3>2, <4>1 DEF BoundGuard, Refuse, IsWorld, World
      <4>4. t \notin Modes
        BY <2>4 DEF Modes
      <4> HIDE DEF v
      <4>5. Refused(t, w, v, call)
        BY <4>2, <4>3, <4>4, <3>2, <1>1 DEF Refused
      <4> QED BY <4>5 DEF v
    <3>3. CASE ~(ref \in DOMAIN w.bound /\ w.bound[ref] # call.args)
      <4>1. PICK u : u = [w EXCEPT !.bound = With(@, ref, call.args)]
        OBVIOUS
      <4>2. u = World(w.records, With(w.bound, ref, call.args), w.effects, w.last)
        BY <4>1 DEF IsWorld, World
      <4>3. IsWorld(u) /\ u.records = w.records /\ u.bound = With(w.bound, ref, call.args) /\ u.effects = w.effects
        BY <4>2 DEF IsWorld, World
      <4>4. v = Guard(u, call, run)
        BY <2>1, <3>1, <3>3, <4>1 DEF BoundGuard
      <4> HIDE DEF v
      <4>5. CASE ref \in DOMAIN w.records
        <5>1. PICK l : /\ v = World(w.records, With(w.bound, ref, call.args), w.effects, l)
                       /\ l.returned /\ l.effect # NoEffect => l.effect = w.records[ref].effect
                       /\ l.returned
          BY <2>1, <2>2, <4>3, <4>4, <4>5, GuardIs
        <5>2. ref \in DOMAIN w.bound /\ w.bound[ref] = call.args
          BY <2>4, <3>3, <4>5 DEF RecordsFit
        <5>3. PICK b : b = With(w.bound, ref, call.args)
          OBVIOUS
        <5>4. DOMAIN b = DOMAIN w.bound /\ \A x \in DOMAIN b : b[x] = w.bound[x]
          BY <5>2, <5>3 DEF With
        <5>5. t \notin Modes /\ t # "conformant"
          BY <2>4 DEF Modes
        <5>6. Refused(t, w, v, call)
          BY <5>1, <5>2, <5>3, <5>4, <5>5, <4>5, <1>1 DEF Refused
        <5> QED BY <5>6 DEF v
      <4>6. CASE ref \notin DOMAIN w.records
        <5>1. PICK rec, e, l :
                /\ v = World(With(w.records, ref, rec), With(w.bound, ref, call.args), e, l)
                /\ e \in {w.effects, Append(w.effects, call)}
                /\ l.returned => l.effect = Len(w.effects) + 1
                /\ l.returned \/ rec.effect # NoEffect => e = Append(w.effects, call)
                /\ rec.effect \in {NoEffect, Len(w.effects) + 1}
                /\ rec = Pending \/ rec.status = "COMMITTED"
          BY <2>1, <2>2, <4>3, <4>4, <4>6, GuardIs
        <5>2. t \notin Modes
          BY <2>4 DEF Modes
        <5>3. PICK b : b = With(w.bound, ref, call.args)
          OBVIOUS
        <5>4. Ran(t, w, v, call)
          BY <5>1, <5>2, <5>3, <2>4, <3>3, <4>6, <1>1 DEF Ran
        <5> QED BY <5>4 DEF v
      <4> QED BY <4>5, <4>6
    <3> QED BY <3>2, <3>3
  <2> QED BY <1>2, <2>3, <2>4
<1>3. CASE t \in Modes
  <2>1. v = LogicalDispatch(t, w, call, run) /\ ref = Artifact(t, call) /\ t # "bound"
    BY <1>1, <1>3 DEF Attempt, Ref, Modes
  <2>2. CASE ref \in DOMAIN w.records
    <3>1. PICK l : /\ v = World(w.records, w.bound, w.effects, l)
                   /\ \/ /\ t = "no_digest_check" \/ w.records[ref].digest = call.args
                         /\ l = Returned("DUPLICATE", w.records[ref].effect)
                      \/ l = Returned("CONFLICT", NoEffect)
      BY <2>1, <2>2 DEF LogicalDispatch, Refuse, IsWorld, World
    <3>2. /\ l.returned
          /\ l.effect # NoEffect => l.effect = w.records[ref].effect /\ (t = "conformant" => w.records[ref].digest = call.args)
      BY <3>1 DEF Returned
    <3> HIDE DEF v
    <3>3. Refused(t, w, v, call)
      BY <3>1, <3>2, <2>1, <2>2, <1>1 DEF Refused
    <3> QED BY <3>3 DEF v
  <2>3. CASE ref \notin DOMAIN w.records
    <3>1. PICK here, later : /\ here = [digest |-> call.args, effect |-> Len(w.effects) + 1]
                             /\ later = [digest |-> call.args, effect |-> NoEffect]
      OBVIOUS
    <3>2. /\ here.effect = Len(w.effects) + 1 /\ here.digest = call.args
          /\ later.effect = NoEffect /\ later.digest = call.args
      BY <3>1
    <3>3. v = RunEffect(w, call, run, "EXECUTE", With(w.records, ref, here), With(w.records, ref, later))
      BY <2>1, <2>3, <3>1 DEF LogicalDispatch
    <3>4. v = World(IF run \in {"returns", "lost_ack"} THEN With(w.records, ref, here) ELSE With(w.records, ref, later), w.bound,
                    IF run = "raises_before" THEN w.effects ELSE Append(w.effects, call),
                    IF run = "returns" THEN Returned("EXECUTE", Len(w.effects) + 1) ELSE Raised)
      BY <3>3, RunEffectIs
    <3>5. PICK rec, e, l :
            /\ rec = IF run \in {"returns", "lost_ack"} THEN here ELSE later
            /\ e = IF run = "raises_before" THEN w.effects ELSE Append(w.effects, call)
            /\ l = IF run = "returns" THEN Returned("EXECUTE", Len(w.effects) + 1) ELSE Raised
      OBVIOUS
    <3> HIDE DEF v
    <3>6. v = World(With(w.records, ref, rec), w.bound, e, l)
      BY <3>4, <3>5
    <3>7. /\ l.returned => run = "returns" /\ l.effect = Len(w.effects) + 1
          /\ rec.effect \in {NoEffect, Len(w.effects) + 1} /\ rec.digest = call.args
          /\ rec.effect # NoEffect => run \in {"returns", "lost_ack"}
      BY <3>2, <3>5 DEF Returned, Raised
    <3>8. l.returned \/ rec.effect # NoEffect => e = Append(w.effects, call)
      BY <3>5, <3>7
    <3>9. Ran(t, w, v, call)
      BY <3>5, <3>6, <3>7, <3>8, <2>1, <2>3, <1>1, <1>3 DEF Ran
    <3> QED BY <3>9 DEF v
  <2> QED BY <2>2, <2>3
<1> QED BY <1>2, <1>3 DEF Tools

\* What Append is.
LEMMA AppendIs ==
  ASSUME NEW S, NEW s \in Seq(S), NEW c \in S, NEW e, e = Append(s, c)
  PROVE  /\ e \in Seq(S) /\ Len(s) \in Nat /\ Len(e) = Len(s) + 1
         /\ DOMAIN s = 1..Len(s) /\ DOMAIN e = 1..(Len(s) + 1)
         /\ e[Len(s) + 1] = c
         /\ \A i \in DOMAIN s : i \in DOMAIN e /\ e[i] = s[i]
OBVIOUS

\* A guard that answered from its records fits as it did.
LEMMA RefusedFits ==
  ASSUME NEW t, NEW w, w.effects \in Seq(Calls), NEW v, NEW call \in Calls, RecordsFit(t, w), Refused(t, w, v, call)
  PROVE  IsWorld(v) /\ v.effects = w.effects /\ v.records = w.records /\ RecordsFit(t, v)
<1>1. PICK b, l : v = World(w.records, b, w.effects, l) /\ DOMAIN b = DOMAIN w.bound /\ \A x \in DOMAIN b : b[x] = w.bound[x]
  BY DEF Refused
<1>2. IsWorld(v) /\ v.effects = w.effects /\ v.records = w.records /\ v.bound = b
  BY <1>1 DEF World, IsWorld
<1>3. ASSUME NEW ref \in DOMAIN v.records
      PROVE  /\ v.records[ref].effect # NoEffect => EffectFits(t, v, ref, v.records[ref].effect)
             /\ t \in {"guarded", "durable", "bound"} =>
                  ref \in Actions /\ (v.records[ref] = Pending \/ v.records[ref].status = "COMMITTED")
             /\ t = "bound" => ref \in DOMAIN v.bound
  <2>1. ref \in DOMAIN w.records /\ v.records[ref] = w.records[ref]
    BY <1>2, <1>3
  <2>2. /\ w.records[ref].effect # NoEffect => EffectFits(t, w, ref, w.records[ref].effect)
        /\ t \in {"guarded", "durable", "bound"} =>
             ref \in Actions /\ (w.records[ref] = Pending \/ w.records[ref].status = "COMMITTED")
        /\ t = "bound" => ref \in DOMAIN w.bound
    BY <2>1 DEF RecordsFit
  <2>3. w.records[ref].effect # NoEffect => EffectFits(t, v, ref, w.records[ref].effect)
    BY <1>1, <1>2, <2>2 DEF EffectFits
  <2> QED BY <1>1, <1>2, <2>1, <2>2, <2>3
<1> QED BY <1>2, <1>3 DEF RecordsFit

\* So does one that made a record.
LEMMA RanFits ==
  ASSUME NEW t, NEW w, w.effects \in Seq(Calls), NEW v, NEW call \in Calls, RecordsFit(t, w), Ran(t, w, v, call)
  PROVE  /\ IsWorld(v) /\ v.effects \in {w.effects, Append(w.effects, call)}
         /\ DOMAIN v.records = DOMAIN w.records \cup {Ref(t, call)}
         /\ RecordsFit(t, v)
<1>1. PICK ref : ref = Ref(t, call)
  OBVIOUS
<1>2. PICK rec, b, e, l :
        /\ v = World(With(w.records, ref, rec), b, e, l)
        /\ ref \notin DOMAIN w.records
        /\ b = IF t = "bound" THEN With(w.bound, ref, call.args) ELSE w.bound
        /\ e \in {w.effects, Append(w.effects, call)}
        /\ l.returned => l.effect = Len(w.effects) + 1
        /\ l.returned \/ rec.effect # NoEffect => e = Append(w.effects, call)
        /\ rec.effect \in {NoEffect, Len(w.effects) + 1}
        /\ t \in Modes => rec.digest = call.args
        /\ t \notin Modes => rec = Pending \/ rec.status = "COMMITTED"
  BY <1>1 DEF Ran
<1>3. IsWorld(v) /\ v.effects = e /\ v.records = With(w.records, ref, rec) /\ v.bound = b
  BY <1>2 DEF World, IsWorld
<1>4. /\ DOMAIN v.records = DOMAIN w.records \cup {ref}
      /\ v.records[ref] = rec
      /\ \A r \in DOMAIN w.records : r # ref /\ v.records[r] = w.records[r]
  <2>1. PICK f : f = With(w.records, ref, rec)
    OBVIOUS
  <2> QED BY <2>1, <1>2, <1>3 DEF With
<1>5. \A i \in DOMAIN w.effects : i \in DOMAIN e /\ e[i] = w.effects[i]
  BY <1>2, AppendIs
<1>6. e = Append(w.effects, call) => Len(w.effects) + 1 \in DOMAIN e /\ e[Len(w.effects) + 1] = call
  BY AppendIs
<1>7. t = "bound" => b[ref] = call.args /\ ref \in DOMAIN b /\ \A r \in DOMAIN w.bound : r # ref => r \in DOMAIN b /\ b[r] = w.bound[r]
  BY <1>2 DEF With
<1>8. call.action \in Actions /\ (t \notin Modes => ref = call.action)
  BY <1>1 DEF Calls, Call, Actions, Ref, IdempotencyRef
<1>9. ASSUME NEW r \in DOMAIN v.records
      PROVE  /\ v.records[r].effect # NoEffect => EffectFits(t, v, r, v.records[r].effect)
             /\ t \in {"guarded", "durable", "bound"} =>
                  r \in Actions /\ (v.records[r] = Pending \/ v.records[r].status = "COMMITTED")
             /\ t = "bound" => r \in DOMAIN v.bound
  <2>1. CASE r = ref
    <3>1. rec.effect # NoEffect => EffectFits(t, v, ref, rec.effect)
      BY <1>1, <1>2, <1>3, <1>4, <1>6, <1>7 DEF EffectFits
    <3>2. t \in {"guarded", "durable", "bound"} => t \notin Modes
      BY DEF Modes
    <3> QED BY <2>1, <3>1, <3>2, <1>2, <1>3, <1>4, <1>7, <1>8
  <2>2. CASE r # ref
    <3>1. r \in DOMAIN w.records /\ v.records[r] = w.records[r]
      BY <2>2, <1>4, <1>9
    <3>2. /\ w.records[r].effect # NoEffect => EffectFits(t, w, r, w.records[r].effect)
          /\ t \in {"guarded", "durable", "bound"} =>
               r \in Actions /\ (w.records[r] = Pending \/ w.records[r].status = "COMMITTED")
          /\ t = "bound" => r \in DOMAIN w.bound
      BY <3>1 DEF RecordsFit
    <3>3. w.records[r].effect # NoEffect => EffectFits(t, v, r, w.records[r].effect)
      BY <3>1, <3>2, <1>3, <1>5, <1>7, <2>2 DEF EffectFits
    <3> QED BY <3>1, <3>2, <3>3, <1>3, <1>7, <2>2
  <2> QED BY <2>1, <2>2
<1> QED BY <1>1, <1>2, <1>3, <1>4, <1>9 DEF RecordsFit

\* The effects a key had.
Of(t, e, ref) == {i \in DOMAIN e : Ref(t, e[i]) = ref}

\* There are finitely many, and one call more is one more at most.
LEMMA OfAppend ==
  ASSUME NEW t, NEW s \in Seq(Calls), NEW c \in Calls, NEW ref
  PROVE  /\ IsFiniteSet(Of(t, s, ref)) /\ Cardinality(Of(t, s, ref)) \in Nat
         /\ Cardinality(Of(t, Append(s, c), ref)) = Cardinality(Of(t, s, ref)) + (IF Ref(t, c) = ref THEN 1 ELSE 0)
<1>1. PICK e : e = Append(s, c)
  OBVIOUS
<1>2. /\ Len(s) \in Nat /\ DOMAIN s = 1..Len(s) /\ DOMAIN e = 1..(Len(s) + 1) /\ e[Len(s) + 1] = c
      /\ \A i \in DOMAIN s : i \in DOMAIN e /\ e[i] = s[i]
  BY <1>1, AppendIs
<1>3. IsFiniteSet(1..Len(s)) /\ Of(t, s, ref) \subseteq 1..Len(s)
  BY <1>2, FS_Interval DEF Of
<1>4. IsFiniteSet(Of(t, s, ref)) /\ Cardinality(Of(t, s, ref)) \in Nat
  BY <1>3, FS_Subset, FS_CardinalityType
<1>5. Len(s) + 1 \notin Of(t, s, ref)
  BY <1>2, <1>3
<1>6. Of(t, e, ref) = IF Ref(t, c) = ref THEN Of(t, s, ref) \cup {Len(s) + 1} ELSE Of(t, s, ref)
  <2>1. 1..(Len(s) + 1) = (1..Len(s)) \cup {Len(s) + 1}
    BY <1>2
  <2>2. ASSUME NEW i PROVE i \in Of(t, e, ref) <=> i \in Of(t, s, ref) \/ (i = Len(s) + 1 /\ Ref(t, c) = ref)
    BY <1>2, <2>1 DEF Of
  <2> QED BY <2>2
<1>7. CASE Ref(t, c) = ref
  <2>1. Cardinality(Of(t, s, ref) \cup {Len(s) + 1}) = Cardinality(Of(t, s, ref)) + 1
    BY <1>4, <1>5, FS_AddElement
  <2> QED BY <1>1, <1>4, <1>6, <1>7, <2>1
<1>8. CASE Ref(t, c) # ref
  BY <1>1, <1>4, <1>6, <1>8
<1> QED BY <1>7, <1>8

\* A step of the guard leaves one effect per key and life.
LEMMA StepOnce ==
  ASSUME NEW t, NEW w, w.effects \in Seq(Calls), NEW v, NEW call \in Calls, NEW lives \in Nat,
         RecordsFit(t, w), OncePerKey(t, w, lives), Refused(t, w, v, call) \/ Ran(t, w, v, call)
  PROVE  OncePerKey(t, v, lives)
<1>1. CASE Refused(t, w, v, call)
  <2>1. v.effects = w.effects /\ v.records = w.records
    BY <1>1, RefusedFits
  <2> QED BY <2>1 DEF OncePerKey
<1>2. CASE Ran(t, w, v, call)
  <2>1. /\ v.effects \in {w.effects, Append(w.effects, call)}
        /\ DOMAIN v.records = DOMAIN w.records \cup {Ref(t, call)}
    BY <1>2, RanFits
  <2>2. Ref(t, call) \notin DOMAIN w.records
    BY <1>2 DEF Ran
  <2>3. ASSUME NEW ref \in {Ref(t, c) : c \in Calls}
        PROVE  Cardinality(Of(t, v.effects, ref)) <= lives + (IF ref \in DOMAIN v.records THEN 1 ELSE 0)
    <3>1. Cardinality(Of(t, w.effects, ref)) <= lives + (IF ref \in DOMAIN w.records THEN 1 ELSE 0)
      BY DEF OncePerKey, Of
    <3>2. /\ Cardinality(Of(t, w.effects, ref)) \in Nat
          /\ Cardinality(Of(t, Append(w.effects, call), ref)) =
               Cardinality(Of(t, w.effects, ref)) + (IF Ref(t, call) = ref THEN 1 ELSE 0)
      BY OfAppend
    <3>3. PICK n \in Nat : n = Cardinality(Of(t, w.effects, ref))
      BY <3>2
    <3>4. PICK m : m = Cardinality(Of(t, v.effects, ref))
      OBVIOUS
    <3>5. CASE ref = Ref(t, call)
      <4>1. n <= lives /\ ref \in DOMAIN v.records
        BY <3>1, <3>3, <3>5, <2>1, <2>2
      <4>2. m = n \/ m = n + 1
        BY <2>1, <3>2, <3>3, <3>4, <3>5
      <4> QED BY <3>4, <4>1, <4>2
    <3>6. CASE ref # Ref(t, call)
      <4>1. m = n
        <5>1. Cardinality(Of(t, Append(w.effects, call), ref)) = n + 0
          BY <3>2, <3>3, <3>6
        <5>2. n + 0 = n
          OBVIOUS
        <5>3. CASE v.effects = w.effects
          BY <3>3, <3>4, <5>3
        <5>4. CASE v.effects = Append(w.effects, call)
          BY <3>4, <5>1, <5>2, <5>4
        <5> QED BY <2>1, <5>3, <5>4
      <4>2. ref \in DOMAIN v.records <=> ref \in DOMAIN w.records
        BY <2>1, <3>6
      <4> QED BY <3>1, <3>3, <3>4, <4>1, <4>2
    <3> QED BY <3>5, <3>6
  <2> QED BY <2>3 DEF OncePerKey, Of
<1> QED BY <1>1, <1>2

-----------------------------------------------------------------------------
(* The recursions of the module, Replay and Use, as one, given by a record.   *)

\* Replay's calls under a mode, and Use's attempts from a world.
Replaying(mode, calls) == [is |-> "replay", mode |-> mode, calls |-> calls]
Using(t, w, call, run) == [is |-> "use", t |-> t, w |-> w, call |-> call, run |-> run]

StartOf(d) == IF d.is = "replay" THEN NoReplay ELSE d.w

StepOf(d, s, n) ==
  IF d.is = "replay" THEN Entered(d.mode, s, d.calls[n])
  ELSE IF n > 1 /\ s.last.returned THEN s ELSE Attempt(d.t, s, d.call, d.run)

\* g lists the first k results of d.
Along(g, d, k) == g = [n \in 0..k |-> IF n = 0 THEN StartOf(d) ELSE StepOf(d, g[n - 1], n)]

After(d, k) == (CHOOSE g : Along(g, d, k))[k]

\* Replay and Use are what is come to after the last.
LEMMA ReplayIsAfter == \A mode, calls : Replay(mode, calls) = After(Replaying(mode, calls), Len(calls))
<1> SUFFICES ASSUME NEW mode, NEW calls
             PROVE  Replay(mode, calls) = After(Replaying(mode, calls), Len(calls))
  OBVIOUS
<1>1. PICK d, k : d = Replaying(mode, calls) /\ k = Len(calls)
  OBVIOUS
<1>2. d.is = "replay" /\ d.mode = mode /\ d.calls = calls
  BY <1>1 DEF Replaying
<1>3. ASSUME NEW g
      PROVE  Along(g, d, k) <=> g = [n \in 0..Len(calls) |-> IF n = 0 THEN NoReplay ELSE Entered(mode, g[n - 1], calls[n])]
  BY <1>1, <1>2 DEF Along, StartOf, StepOf
<1>4. (CHOOSE g : Along(g, d, k)) =
      CHOOSE g : g = [n \in 0..Len(calls) |-> IF n = 0 THEN NoReplay ELSE Entered(mode, g[n - 1], calls[n])]
  BY <1>3
<1> QED BY <1>1, <1>4 DEF Replay, After

\* The same of Use.
LEMMA UseIsAfter ==
  \A t, w, call, attempts, run : Use(t, w, call, attempts, run) = After(Using(t, w, call, run), attempts)
<1> SUFFICES ASSUME NEW t, NEW w, NEW call, NEW attempts, NEW run
             PROVE  Use(t, w, call, attempts, run) = After(Using(t, w, call, run), attempts)
  OBVIOUS
<1>1. PICK d : d = Using(t, w, call, run)
  OBVIOUS
<1>2. d.is # "replay" /\ d.t = t /\ d.w = w /\ d.call = call /\ d.run = run
  BY <1>1 DEF Using
<1>3. ASSUME NEW g
      PROVE  Along(g, d, attempts) <=>
               g = [n \in 0..attempts |-> IF n = 0 THEN w
                                          ELSE IF n > 1 /\ g[n - 1].last.returned THEN g[n - 1]
                                          ELSE Attempt(t, g[n - 1], call, run)]
  BY <1>2 DEF Along, StartOf, StepOf
<1>4. (CHOOSE g : Along(g, d, attempts)) =
      CHOOSE g : g = [n \in 0..attempts |-> IF n = 0 THEN w
                                            ELSE IF n > 1 /\ g[n - 1].last.returned THEN g[n - 1]
                                            ELSE Attempt(t, g[n - 1], call, run)]
  BY <1>3
<1> QED BY <1>1, <1>4 DEF Use, After

\* There is such a list: otherwise take the shortest that is missing.
LEMMA AlongExists ==
  ASSUME NEW d, NEW k \in Nat
  PROVE  \E g : Along(g, d, k)
<1> DEFINE Bad == {n \in Nat : ~ \E g : Along(g, d, n)}
<1> SUFFICES ASSUME Bad # {} PROVE FALSE
  OBVIOUS
<1>1. PICK n \in Bad : \A m \in Bad : n <= m
  <2> HIDE DEF Bad
  <2>1. Bad \subseteq Nat
    BY DEF Bad
  <2> QED BY <2>1, LeastNatural
<1>2. n # 0
  <2>1. Along([m \in 0..0 |-> StartOf(d)], d, 0)
    BY DEF Along
  <2> QED BY <2>1
<1>3. PICK p : p = n - 1
  OBVIOUS
<1>4. p \in Nat /\ n = p + 1 /\ p \notin Bad
  BY <1>1, <1>2, <1>3
<1>5. PICK g : Along(g, d, p)
  BY <1>4
<1> DEFINE h == [m \in 0..n |-> IF m = n THEN StepOf(d, g[p], n) ELSE g[m]]
<1>6. Along(h, d, n)
  <2>1. ASSUME NEW m \in 0..n
        PROVE  h[m] = IF m = 0 THEN StartOf(d) ELSE StepOf(d, h[m - 1], m)
    <3>1. CASE m = n
      <4>1. h[m - 1] = g[p] /\ h[m] = StepOf(d, g[p], n)
        BY <3>1, <1>2, <1>4
      <4> QED BY <4>1, <3>1, <1>2
    <3>2. CASE m = 0
      BY <3>2, <1>2, <1>4, <1>5 DEF Along
    <3>3. CASE m # 0 /\ m # n
      <4>1. PICK q : q = m - 1
        OBVIOUS
      <4>2. q \in 0..p /\ q \in 0..n /\ q # n /\ m \in 0..p
        BY <4>1, <3>3, <1>4
      <4>3. g[m] = StepOf(d, g[q], m)
        BY <4>1, <4>2, <3>3, <1>5 DEF Along
      <4>4. h[m] = g[m] /\ h[q] = g[q]
        BY <4>2, <3>3
      <4> QED BY <4>1, <4>3, <4>4, <3>3
    <3> QED BY <3>1, <3>2, <3>3
  <2>2. h = [m \in 0..n |-> h[m]]
    OBVIOUS
  <2> HIDE DEF h
  <2> QED BY <2>1, <2>2 DEF Along
<1> QED BY <1>6

\* Two lists that start and step alike are alike as far as both go.
LEMMA AlongAgrees ==
  ASSUME NEW d, NEW e, NEW k \in Nat, NEW l \in Nat, k <= l, StartOf(d) = StartOf(e),
         \A s : \A n \in 1..k : StepOf(d, s, n) = StepOf(e, s, n),
         NEW g, Along(g, d, k), NEW h, Along(h, e, l)
  PROVE  \A n \in 0..k : g[n] = h[n]
<1> DEFINE Bad == {n \in 0..k : g[n] # h[n]}
<1> SUFFICES ASSUME Bad # {} PROVE FALSE
  OBVIOUS
<1>1. PICK n \in Bad : \A m \in Bad : n <= m
  <2> HIDE DEF Bad
  <2>1. Bad \subseteq Nat
    BY DEF Bad
  <2> QED BY <2>1, LeastNatural
<1>2. g[0] = StartOf(d) /\ h[0] = StartOf(e)
  BY DEF Along
<1>3. PICK p : p = n - 1
  OBVIOUS
<1>4. p \in 0..k /\ p \in 0..l /\ p \notin Bad /\ n # 0 /\ n \in 1..k
  BY <1>1, <1>2, <1>3
<1>5. g[n] = StepOf(d, g[p], n) /\ h[n] = StepOf(e, h[p], n)
  BY <1>1, <1>3, <1>4 DEF Along
<1> QED BY <1>1, <1>4, <1>5

\* What comes after, one step at a time, of what steps alike.
LEMMA AfterUnfolds ==
  ASSUME NEW d, NEW k \in Nat, NEW e, StartOf(d) = StartOf(e),
         \A s : \A n \in 1..k : StepOf(d, s, n) = StepOf(e, s, n)
  PROVE  /\ After(d, 0) = StartOf(d)
         /\ After(e, k + 1) = StepOf(e, After(d, k), k + 1)
<1>1. PICK g : g = CHOOSE x : Along(x, d, k)
  OBVIOUS
<1>2. PICK l : l = k + 1
  OBVIOUS
<1>3. PICK h : h = CHOOSE x : Along(x, e, l)
  OBVIOUS
<1>4. l \in Nat /\ k <= l /\ k \in 0..k /\ l \in 0..l /\ l # 0 /\ l - 1 = k
  BY <1>2
<1>5. Along(g, d, k) /\ Along(h, e, l)
  BY <1>1, <1>3, <1>4, AlongExists
<1>6. After(d, k) = g[k] /\ After(e, l) = h[l]
  BY <1>1, <1>3 DEF After
<1>7. g[k] = h[k]
  BY <1>4, <1>5, AlongAgrees
<1>8. h[l] = StepOf(e, h[k], l)
  BY <1>4, <1>5 DEF Along
<1>9. After(d, 0) = StartOf(d)
  <2>1. PICK f : f = CHOOSE x : Along(x, d, 0)
    OBVIOUS
  <2>2. Along(f, d, 0) /\ After(d, 0) = f[0]
    BY <2>1, AlongExists DEF After
  <2> QED BY <2>2 DEF Along
<1> QED BY <1>2, <1>6, <1>7, <1>8, <1>9

\* A replay of no calls, and of one call more.
LEMMA ReplayAppend ==
  ASSUME NEW mode, NEW calls \in Seq(Calls), NEW c \in Calls
  PROVE  Replay(mode, Append(calls, c)) = Entered(mode, Replay(mode, calls), c)
<1>1. PICK k, more : k = Len(calls) /\ more = Append(calls, c)
  OBVIOUS
<1>2. k \in Nat /\ Len(more) = k + 1 /\ more[k + 1] = c /\ \A n \in 1..k : more[n] = calls[n]
  BY <1>1, AppendIs
<1>3. PICK d, e : d = Replaying(mode, calls) /\ e = Replaying(mode, more)
  OBVIOUS
<1>4. d.is = "replay" /\ d.mode = mode /\ d.calls = calls /\ e.is = "replay" /\ e.mode = mode /\ e.calls = more
  BY <1>3 DEF Replaying
<1>5. StartOf(d) = StartOf(e) /\ \A s : \A n \in 1..k : StepOf(d, s, n) = StepOf(e, s, n)
  BY <1>2, <1>4 DEF StartOf, StepOf
<1>6. After(e, k + 1) = StepOf(e, After(d, k), k + 1)
  BY <1>2, <1>5, AfterUnfolds
<1>7. StepOf(e, After(d, k), k + 1) = Entered(mode, After(d, k), c)
  BY <1>2, <1>4 DEF StepOf
<1> QED BY <1>1, <1>2, <1>3, <1>6, <1>7, ReplayIsAfter

\* The same of none.
LEMMA ReplayNone == ASSUME NEW mode PROVE Replay(mode, <<>>) = NoReplay
<1>1. PICK d : d = Replaying(mode, <<>>)
  OBVIOUS
<1>2. d.is = "replay" /\ Len(<<>>) = 0
  BY <1>1 DEF Replaying
<1>3. After(d, 0) = StartOf(d)
  BY AfterUnfolds
<1> QED BY <1>1, <1>2, <1>3, ReplayIsAfter DEF StartOf

\* What one attempt of use makes of the ones before.
LEMMA UseSteps ==
  ASSUME NEW t, NEW w, NEW call, NEW run, NEW n \in Nat
  PROVE  /\ Use(t, w, call, 0, run) = w
         /\ Use(t, w, call, n + 1, run) =
              IF n + 1 > 1 /\ Use(t, w, call, n, run).last.returned THEN Use(t, w, call, n, run)
              ELSE Attempt(t, Use(t, w, call, n, run), call, run)
<1>1. PICK d : d = Using(t, w, call, run)
  OBVIOUS
<1>2. d.is # "replay" /\ d.t = t /\ d.w = w /\ d.call = call /\ d.run = run
  BY <1>1 DEF Using
<1>3. After(d, 0) = StartOf(d) /\ After(d, n + 1) = StepOf(d, After(d, n), n + 1)
  BY AfterUnfolds
<1>4. \A k : Use(t, w, call, k, run) = After(d, k)
  BY <1>1, UseIsAfter
<1> QED BY <1>2, <1>3, <1>4 DEF StartOf, StepOf

\* What an attempt keeps, and what it answers with.
LEMMA StepAnswers ==
  ASSUME NEW t, NEW w, w.effects \in Seq(Calls), NEW v, NEW call \in Calls, RecordsFit(t, w),
         Refused(t, w, v, call) \/ Ran(t, w, v, call)
  PROVE  /\ IsWorld(v) /\ v.effects \in Seq(Calls) /\ RecordsFit(t, v)
         /\ \A i \in DOMAIN w.effects : i \in DOMAIN v.effects /\ v.effects[i] = w.effects[i]
         /\ v.last.returned /\ v.last.effect # NoEffect =>
              /\ v.last.effect \in DOMAIN v.effects /\ Ref(t, v.effects[v.last.effect]) = Ref(t, call)
              /\ t \in {"bound", "conformant"} => v.effects[v.last.effect].args = call.args
<1>1. PICK ref : ref = Ref(t, call)
  OBVIOUS
<1>2. CASE Refused(t, w, v, call)
  <2>1. PICK b, l :
          /\ v = World(w.records, b, w.effects, l)
          /\ l.effect # NoEffect \/ t \in Modes => ref \in DOMAIN w.records
          /\ l.effect # NoEffect =>
               /\ l.effect = w.records[ref].effect
               /\ t = "bound" => w.bound[ref] = call.args
               /\ t = "conformant" => w.records[ref].digest = call.args
    BY <1>1, <1>2 DEF Refused
  <2>2. v.last = l /\ v.effects = w.effects
    BY <2>1 DEF World
  <2>3. l.effect # NoEffect => EffectFits(t, w, ref, l.effect)
    BY <2>1 DEF RecordsFit
  <2>4. l.effect # NoEffect =>
          /\ l.effect \in DOMAIN w.effects /\ Ref(t, w.effects[l.effect]) = ref
          /\ t \in {"bound", "conformant"} => w.effects[l.effect].args = call.args
    BY <2>1, <2>3 DEF EffectFits, Modes
  <2> QED BY <1>1, <1>2, <2>2, <2>4, RefusedFits
<1>3. CASE Ran(t, w, v, call)
  <2>1. PICK rec, b, e, l :
          /\ v = World(With(w.records, ref, rec), b, e, l)
          /\ e \in {w.effects, Append(w.effects, call)}
          /\ l.returned => l.effect = Len(w.effects) + 1
          /\ l.returned \/ rec.effect # NoEffect => e = Append(w.effects, call)
    BY <1>1, <1>3 DEF Ran
  <2>2. v.last = l /\ v.effects = e
    BY <2>1 DEF World
  <2>3. e = Append(w.effects, call) =>
          /\ e \in Seq(Calls) /\ Len(w.effects) + 1 \in DOMAIN e /\ e[Len(w.effects) + 1] = call
          /\ \A i \in DOMAIN w.effects : i \in DOMAIN e /\ e[i] = w.effects[i]
    BY AppendIs
  <2>4. e \in Seq(Calls) /\ \A i \in DOMAIN w.effects : i \in DOMAIN e /\ e[i] = w.effects[i]
    BY <2>1, <2>3
  <2>5. l.returned => l.effect \in DOMAIN e /\ e[l.effect] = call
    BY <2>1, <2>3
  <2> QED BY <1>1, <1>3, <2>2, <2>4, <2>5, RanFits
<1> QED BY <1>2, <1>3

\* A call is its action and its arguments.
LEMMA CallIs ==
  /\ \A c \in Calls : c = Call(c.action, c.args) /\ c.action \in Actions
  /\ \A a, x, b, y : Call(a, x) = Call(b, y) => a = b /\ x = y
  /\ \A a, x : Call(a, x).action = a /\ Call(a, x).args = x
BY DEF Calls, Call, Actions

\* What it is to be held.
LEMMA HeldIs ==
  ASSUME NEW w, NEW h
  PROVE  /\ h \in HeldArgs("bound", w) <=> \E a \in Actions : a \in DOMAIN w.bound /\ h = Call(a, w.bound[a])
         /\ h \in HeldArgs("conformant", w) <=>
              \E a \in Actions : <<a>> \in DOMAIN w.records /\ h = Call(a, w.records[<<a>>].digest)
BY DEF HeldArgs

\* An attempt holds its action to what it was held to, or to its arguments.
LEMMA StepHolds ==
  ASSUME NEW t \in {"bound", "conformant"}, NEW w, NEW v, NEW call \in Calls,
         w.effects \in Seq(Calls), Refused(t, w, v, call) \/ Ran(t, w, v, call)
  PROVE  /\ HeldArgs(t, w) \subseteq HeldArgs(t, v)
         /\ \A h \in HeldArgs(t, v) :
              h \in HeldArgs(t, w) \/ (h = call /\ \A k \in HeldArgs(t, w) : k.action # call.action)
         /\ \E h \in HeldArgs(t, v) : h.action = call.action
         /\ \A i \in DOMAIN v.effects : v.effects[i] \in HeldArgs(t, v) \/ (i \in DOMAIN w.effects /\ v.effects[i] = w.effects[i])
<1> DEFINE a == call.action
<1>1. call = Call(a, call.args) /\ a \in Actions
  BY CallIs
<1>2. PICK ref : ref = Ref(t, call)
  OBVIOUS
<1>3. (t = "bound" /\ ref = a) \/ (t = "conformant" /\ ref = <<a>>)
  BY <1>2 DEF Ref, Modes, Artifact, IdempotencyRef
<1>4. t = "conformant" => t \in Modes
  BY DEF Modes
<1>5. CASE Refused(t, w, v, call)
  <2>1. PICK b, l :
          /\ v = World(w.records, b, w.effects, l)
          /\ DOMAIN b = DOMAIN w.bound /\ \A x \in DOMAIN b : b[x] = w.bound[x]
          /\ t = "bound" => ref \in DOMAIN w.bound
          /\ t \in Modes => ref \in DOMAIN w.records
    BY <1>2, <1>5 DEF Refused
  <2>2. v.records = w.records /\ v.bound = b /\ v.effects = w.effects
    BY <2>1 DEF World
  <2>3. CASE t = "bound"
    <3>1. HeldArgs(t, w) = HeldArgs(t, v)
      <4>1. ASSUME NEW h PROVE h \in HeldArgs(t, w) <=> h \in HeldArgs(t, v)
        BY <2>1, <2>2, <2>3, HeldIs
      <4> QED BY <4>1
    <3>2. Call(a, w.bound[a]) \in HeldArgs(t, w)
      BY <1>1, <1>3, <2>1, <2>3, HeldIs
    <3> QED BY <2>2, <3>1, <3>2, CallIs
  <2>4. CASE t = "conformant"
    <3>1. HeldArgs(t, w) = HeldArgs(t, v)
      BY <2>2, <2>4 DEF HeldArgs
    <3>2. Call(a, w.records[<<a>>].digest) \in HeldArgs(t, w)
      BY <1>1, <1>3, <1>4, <2>1, <2>4, HeldIs
    <3> QED BY <2>2, <3>1, <3>2, CallIs
  <2> QED BY <2>3, <2>4
<1>6. CASE Ran(t, w, v, call)
  <2>1. PICK rec, b, e, l :
          /\ v = World(With(w.records, ref, rec), b, e, l)
          /\ ref \notin DOMAIN w.records
          /\ b = IF t = "bound" THEN With(w.bound, ref, call.args) ELSE w.bound
          /\ t = "bound" /\ ref \in DOMAIN w.bound => w.bound[ref] = call.args
          /\ e \in {w.effects, Append(w.effects, call)}
          /\ t \in Modes => rec.digest = call.args
    BY <1>2, <1>6 DEF Ran
  <2>2. PICK r : r = With(w.records, ref, rec)
    OBVIOUS
  <2>3. v.records = r /\ v.bound = b
    BY <2>1, <2>2 DEF World
  <2>6. \A i \in DOMAIN v.effects : v.effects[i] = call \/ (i \in DOMAIN w.effects /\ v.effects[i] = w.effects[i])
    <3>1. v.effects = e
      BY <2>1 DEF World
    <3>2. CASE e = w.effects
      BY <3>1, <3>2
    <3>3. CASE e = Append(w.effects, call)
      BY <3>1, <3>3, AppendIs
    <3> QED BY <2>1, <3>2, <3>3
  <2>4. CASE t = "bound"
    <3>1. DOMAIN b = DOMAIN w.bound \cup {a} /\ b[a] = call.args /\ \A x \in DOMAIN w.bound : b[x] = w.bound[x]
      BY <1>3, <2>1, <2>4 DEF With
    <3>2. call \in HeldArgs(t, v)
      BY <1>1, <2>3, <2>4, <3>1, HeldIs
    <3>3. HeldArgs(t, w) \subseteq HeldArgs(t, v)
      BY <2>3, <2>4, <3>1, HeldIs
    <3>4. ASSUME NEW h \in HeldArgs(t, v), h \notin HeldArgs(t, w)
          PROVE  h = call /\ \A k \in HeldArgs(t, w) : k.action # a
      <4>1. PICK c \in Actions : c \in DOMAIN b /\ h = Call(c, b[c])
        BY <2>3, <2>4, <3>4, HeldIs
      <4>2. c = a /\ a \notin DOMAIN w.bound
        BY <2>4, <3>1, <3>4, <4>1, HeldIs
      <4>3. \A k \in HeldArgs(t, w) : k.action # a
        BY <2>4, <4>2, HeldIs, CallIs
      <4> QED BY <1>1, <3>1, <4>1, <4>2, <4>3
    <3> QED BY <2>6, <3>2, <3>3, <3>4
  <2>5. CASE t = "conformant"
    <3>5. PICK p : p = w.records
      OBVIOUS
    <3>6. ASSUME NEW h
          PROVE  /\ h \in HeldArgs(t, w) <=> \E c \in Actions : <<c>> \in DOMAIN p /\ h = Call(c, p[<<c>>].digest)
                 /\ h \in HeldArgs(t, v) <=> \E c \in Actions : <<c>> \in DOMAIN r /\ h = Call(c, r[<<c>>].digest)
      BY <2>3, <2>5, <3>5 DEF HeldArgs
    <3>1. DOMAIN r = DOMAIN p \cup {<<a>>} /\ r[<<a>>] = rec /\ \A x \in DOMAIN p : r[x] = p[x]
      BY <1>3, <2>1, <2>2, <2>5, <3>5 DEF With
    <3>2. call \in HeldArgs(t, v)
      BY <1>1, <1>4, <2>1, <2>3, <2>5, <3>1, <3>6
    <3>3. HeldArgs(t, w) \subseteq HeldArgs(t, v)
      BY <3>1, <3>6
    <3>4. ASSUME NEW h \in HeldArgs(t, v), h \notin HeldArgs(t, w)
          PROVE  h = call /\ \A k \in HeldArgs(t, w) : k.action # a
      <4>1. PICK c \in Actions : <<c>> \in DOMAIN r /\ h = Call(c, r[<<c>>].digest)
        BY <3>4, <3>6
      <4>2. <<c>> = <<a>>
        BY <2>5, <3>1, <3>4, <3>6, <4>1
      <4>3. c = a
        BY <4>2
      <4>4. \A k \in HeldArgs(t, w) : k.action # a
        <5>1. <<a>> \notin DOMAIN p
          BY <1>3, <2>1, <2>5, <3>5
        <5>2. ASSUME NEW k \in HeldArgs(t, w) PROVE k.action # a
          <6>1. PICK d \in Actions : <<d>> \in DOMAIN p /\ k = Call(d, p[<<d>>].digest)
            BY <3>6
          <6>2. k.action = d
            BY <6>1, CallIs
          <6> QED BY <5>1, <6>1, <6>2
        <5> QED BY <5>2
      <4> QED BY <1>1, <1>4, <2>1, <2>5, <3>1, <4>1, <4>3, <4>4
    <3> QED BY <2>6, <3>2, <3>3, <3>4
  <2> QED BY <2>4, <2>5
<1> QED BY <1>5, <1>6

-----------------------------------------------------------------------------
(* Each action keeps ToolInv.                                                 *)

\* What the unguarded tool does with a world.
LEMMA UnguardedIs ==
  ASSUME NEW w, IsWorld(w), w.effects \in Seq(Calls), RecordsFit("unguarded", w), NEW call \in Calls, NEW run
  PROVE  LET v == Attempt("unguarded", w, call, run)
         IN /\ IsWorld(v) /\ v.effects \in Seq(Calls) /\ RecordsFit("unguarded", v)
            /\ \A i \in DOMAIN w.effects : i \in DOMAIN v.effects /\ v.effects[i] = w.effects[i]
            /\ v.last.returned /\ v.last.effect # NoEffect =>
                 v.last.effect \in DOMAIN v.effects /\ v.effects[v.last.effect] = call
<1>1. PICK v : v = Attempt("unguarded", w, call, run)
  OBVIOUS
<1>2. PICK e, l :
        /\ e = IF run = "raises_before" THEN w.effects ELSE Append(w.effects, call)
        /\ l = IF run = "returns" THEN Returned("COMMITTED", Len(w.effects) + 1) ELSE Raised
  OBVIOUS
<1>3. v = World(w.records, w.bound, e, l)
  <2>1. v = RunEffect(w, call, run, "COMMITTED", w.records, w.records)
    BY <1>1 DEF Attempt, Unguarded
  <2>2. v = World(IF run \in {"returns", "lost_ack"} THEN w.records ELSE w.records, w.bound, e, l)
    BY <1>2, <2>1, RunEffectIs
  <2>3. (IF run \in {"returns", "lost_ack"} THEN w.records ELSE w.records) = w.records
    OBVIOUS
  <2> QED BY <2>2, <2>3
<1>4. IsWorld(v) /\ v.effects = e /\ v.records = w.records /\ v.bound = w.bound /\ v.last = l
  BY <1>3 DEF IsWorld, World
<1>5. e = Append(w.effects, call) =>
        /\ e \in Seq(Calls) /\ Len(w.effects) + 1 \in DOMAIN e /\ e[Len(w.effects) + 1] = call
        /\ \A i \in DOMAIN w.effects : i \in DOMAIN e /\ e[i] = w.effects[i]
  BY AppendIs
<1>6. e \in Seq(Calls) /\ \A i \in DOMAIN w.effects : i \in DOMAIN e /\ e[i] = w.effects[i]
  BY <1>2, <1>5
<1>7. l.returned => l.effect = Len(w.effects) + 1 /\ e = Append(w.effects, call)
  BY <1>2 DEF Returned, Raised
<1>8. RecordsFit("unguarded", v)
  <2>1. ASSUME NEW ref \in DOMAIN v.records, v.records[ref].effect # NoEffect
        PROVE  EffectFits("unguarded", v, ref, v.records[ref].effect)
    <3>1. EffectFits("unguarded", w, ref, w.records[ref].effect)
      BY <1>4, <2>1 DEF RecordsFit
    <3> QED BY <1>4, <1>6, <3>1 DEF EffectFits, Modes
  <2> QED BY <2>1 DEF RecordsFit
<1> QED BY <1>1, <1>4, <1>5, <1>6, <1>7, <1>8

\* What every attempt of ToolUse does.
LEMMA UseIs ==
  ASSUME ToolInv, NEW run \in Runs, ToolUse(run)
  PROVE  /\ calling \in [left : Nat \ {0}, call : Calls] /\ calling.call \in Calls
         /\ calling.call = proposals[Len(proposals)] /\ Len(proposals) \in DOMAIN proposals
         /\ tool' = tool /\ tool \in Tools
         /\ tool # "unguarded" => Refused(tool, world, world', calling.call) \/ Ran(tool, world, world', calling.call)
         /\ IsWorld(world') /\ world'.effects \in Seq(Calls) /\ RecordsFit(tool, world')
         /\ \A i \in DOMAIN world.effects : i \in DOMAIN world'.effects /\ world'.effects[i] = world.effects[i]
         /\ world'.last.returned /\ world'.last.effect # NoEffect =>
              /\ world'.last.effect \in DOMAIN world'.effects
              /\ Ref(tool, world'.effects[world'.last.effect]) = Ref(tool, calling.call)
              /\ tool \in {"bound", "conformant"} => world'.effects[world'.last.effect].args = calling.call.args
<1>1. /\ tool \in Tools /\ IsWorld(world) /\ world.effects \in Seq(Calls) /\ RecordsFit(tool, world)
      /\ calling \in [left : Nat \ {0}, call : Calls] /\ calling.call \in Calls
      /\ proposals \in Seq(Calls) /\ proposals # <<>> /\ calling.call = proposals[Len(proposals)]
  BY DEF ToolInv, ToolTypeOK, IsWorld, World, ToolUse
<1>2. Len(proposals) \in DOMAIN proposals
  BY <1>1
<1>3. tool' = tool /\ world' = Attempt(tool, world, calling.call, run) /\ (run = "lost_ack" => tool \in Modes)
  BY DEF ToolUse
<1>4. PICK t, w, v, c : t = tool /\ w = world /\ v = world' /\ c = calling.call
  OBVIOUS
<1>5. CASE tool = "unguarded"
  BY <1>1, <1>2, <1>3, <1>5, UnguardedIs
<1>6. CASE tool # "unguarded"
  <2>1. Refused(t, w, v, c) \/ Ran(t, w, v, c)
    BY <1>1, <1>3, <1>4, <1>6, AttemptIs
  <2>2. /\ IsWorld(v) /\ v.effects \in Seq(Calls) /\ RecordsFit(t, v)
        /\ \A i \in DOMAIN w.effects : i \in DOMAIN v.effects /\ v.effects[i] = w.effects[i]
        /\ v.last.returned /\ v.last.effect # NoEffect =>
             /\ v.last.effect \in DOMAIN v.effects /\ Ref(t, v.effects[v.last.effect]) = Ref(t, c)
             /\ t \in {"bound", "conformant"} => v.effects[v.last.effect].args = c.args
    BY <1>1, <1>4, <2>1, StepAnswers
  <2> QED BY <1>1, <1>2, <1>3, <1>4, <2>1, <2>2
<1> QED BY <1>5, <1>6

\* An attempt keeps the arguments each action is held to those first proposed.
LEMMA UseKeepsHeld ==
  ASSUME ToolInv, NEW run \in Runs, ToolUse(run), tool \in {"bound", "conformant"}, restarts = 0
  PROVE  FirstHeld(tool, world)'
<1>1. PICK t, w, v, c : t = tool /\ w = world /\ v = world' /\ c = calling.call
  OBVIOUS
<1>2. /\ t \in {"bound", "conformant"} /\ t # "unguarded" /\ c \in Calls /\ FirstHeld(t, w)
      /\ proposals \in Seq(Calls) /\ c = proposals[Len(proposals)] /\ Len(proposals) \in DOMAIN proposals
      /\ Refused(t, w, v, c) \/ Ran(t, w, v, c)
      /\ w.effects \in Seq(Calls)
      /\ proposals' = proposals /\ tool' = t /\ world' = v /\ restarts' = restarts
  BY <1>1, UseIs DEF ToolInv, ToolTypeOK, ToolUse
<1>3. /\ HeldArgs(t, w) \subseteq HeldArgs(t, v)
      /\ \A h \in HeldArgs(t, v) :
           h \in HeldArgs(t, w) \/ (h = c /\ \A k \in HeldArgs(t, w) : k.action # c.action)
      /\ \E h \in HeldArgs(t, v) : h.action = c.action
      /\ \A i \in DOMAIN v.effects : v.effects[i] \in HeldArgs(t, v) \/ (i \in DOMAIN w.effects /\ v.effects[i] = w.effects[i])
  BY <1>2, StepHolds
<1>4. /\ \A i \in DOMAIN w.effects : w.effects[i] \in HeldArgs(t, w)
      /\ \A held \in HeldArgs(t, w) : FirstArgs(proposals, held.action, held.args)
      /\ \A i \in DOMAIN proposals : i = Len(proposals) \/ \E held \in HeldArgs(t, w) : held.action = proposals[i].action
  BY <1>2 DEF FirstHeld
<1>5. \A i \in DOMAIN v.effects : v.effects[i] \in HeldArgs(t, v)
  BY <1>3, <1>4
<1>6. ASSUME NEW held \in HeldArgs(t, v) PROVE FirstArgs(proposals, held.action, held.args)
  <2>1. CASE held \in HeldArgs(t, w)
    BY <1>4, <2>1
  <2>2. CASE held = c /\ \A k \in HeldArgs(t, w) : k.action # c.action
    <3>1. \A j \in 1..(Len(proposals) - 1) : j \in DOMAIN proposals /\ j # Len(proposals)
      BY <1>2
    <3>2. \A j \in 1..(Len(proposals) - 1) : proposals[j].action # c.action
      BY <1>4, <2>2, <3>1
    <3>3. proposals[Len(proposals)] = Call(c.action, c.args)
      BY <1>2, CallIs
    <3> QED BY <1>2, <2>2, <3>2, <3>3 DEF FirstArgs
  <2> QED BY <1>3, <2>1, <2>2
<1>7. \A i \in DOMAIN proposals : \E held \in HeldArgs(t, v) : held.action = proposals[i].action
  BY <1>2, <1>3, <1>4
<1> QED BY <1>2, <1>5, <1>6, <1>7 DEF FirstHeld

\* An attempt gives the calls it admits the record the ledger has of them.
LEMMA UseKeepsLedger ==
  ASSUME ToolInv, NEW run \in Runs, ToolUse(run), tool \in Modes, restarts = 0
  PROVE  InLedger(tool, world)'
<1>1. PICK t, w, v, c, s : t = tool /\ w = world /\ v = world' /\ c = calling.call /\ s = Replay(tool, proposals)
  OBVIOUS
<1>2. PICK ref : ref = Artifact(t, c)
  OBVIOUS
<1>3. /\ t \in Modes /\ t # "unguarded" /\ ref = Ref(t, c)
      /\ InLedger(t, w) /\ RecordsFit(t, w)
      /\ Refused(t, w, v, c) \/ Ran(t, w, v, c)
      /\ w.effects \in Seq(Calls) /\ v.effects \in Seq(Calls) /\ calling # NoCall /\ c \in Calls
      /\ proposals' = proposals /\ tool' = t /\ world' = v
      /\ calling' = NoCall \/ calling'.call = c
  BY <1>1, <1>2, UseIs DEF ToolInv, ToolTypeOK, ToolUse, Modes, Ref
<1>4. PICK due : due = {ref} \ DOMAIN w.records
  OBVIOUS
<1>5. /\ DOMAIN s.ledger = DOMAIN w.records \cup due
      /\ \A r \in DOMAIN w.records : w.records[r].digest = s.ledger[r]
      /\ \A r \in due : c.args = s.ledger[r]
      /\ s.effects \in Nat /\ Len(w.effects) + Cardinality(due) <= s.effects
  BY <1>1, <1>2, <1>3, <1>4 DEF InLedger
<1>6. /\ DOMAIN v.records = DOMAIN w.records \cup {ref}
      /\ \A r \in DOMAIN v.records : v.records[r].digest = s.ledger[r]
      /\ Len(v.effects) + 0 <= s.effects /\ s.effects \in Nat
  <2>1. CASE Refused(t, w, v, c)
    <3>1. ref \in DOMAIN w.records
      BY <1>3, <2>1 DEF Refused
    <3>2. v.records = w.records /\ v.effects = w.effects
      BY <2>1, <1>3, RefusedFits
    <3>3. due = {} /\ Cardinality(due) = 0
      BY <1>4, <3>1, FS_EmptySet
    <3> QED BY <1>3, <1>5, <3>1, <3>2, <3>3
  <2>2. CASE Ran(t, w, v, c)
    <3>1. PICK rec, b, e, l :
            /\ v = World(With(w.records, ref, rec), b, e, l)
            /\ ref \notin DOMAIN w.records
            /\ e \in {w.effects, Append(w.effects, c)}
            /\ rec.digest = c.args
      BY <1>3, <2>2 DEF Ran
    <3>2. PICK q : q = With(w.records, ref, rec)
      OBVIOUS
    <3>3. v.records = q /\ v.effects = e
      BY <3>1, <3>2 DEF World
    <3>4. DOMAIN q = DOMAIN w.records \cup {ref} /\ q[ref] = rec /\ \A r \in DOMAIN w.records : q[r] = w.records[r]
      BY <3>1, <3>2 DEF With
    <3>5. due = {ref} /\ Cardinality(due) = 1 /\ Cardinality(due) \in Nat
      <4>1. due = {ref}
        BY <1>4, <3>1
      <4>2. Cardinality({ref}) = 1
        BY FS_Singleton
      <4> QED BY <4>1, <4>2
    <3>6. Len(e) <= Len(w.effects) + 1 /\ Len(w.effects) \in Nat
      BY <1>3, <3>1, AppendIs
    <3>7. Len(e) <= s.effects
      BY <1>5, <3>5, <3>6
    <3>8. Len(e) + 0 <= s.effects
      <4>1. Len(e) \in Nat
        BY <1>3, <3>3
      <4> QED BY <3>7, <4>1
    <3>9. \A r \in DOMAIN q : q[r].digest = s.ledger[r]
      BY <1>5, <3>1, <3>4, <3>5
    <3> QED BY <1>5, <3>3, <3>4, <3>8, <3>9
  <2> QED BY <1>3, <2>1, <2>2
<1>7. (IF calling' = NoCall THEN {} ELSE {Artifact(t, calling'.call)}) \ DOMAIN v.records = {}
  BY <1>2, <1>3, <1>6
<1>8. DOMAIN v.records \cup {} = DOMAIN s.ledger
  BY <1>4, <1>5, <1>6
<1>9. Cardinality({}) = 0 /\ s = Replay(t, proposals)
  BY <1>1, FS_EmptySet
<1> QED BY <1>3, <1>6, <1>7, <1>8, <1>9 DEF InLedger

\* An attempt keeps ToolInv.
LEMMA UseInv ==
  ASSUME ToolInv, NEW run \in Runs, ToolUse(run)
  PROVE  ToolInv'
<1>1. PICK t, w, v, c, lives :
        t = tool /\ w = world /\ v = world' /\ c = calling.call /\ lives = IF tool = "durable" THEN 0 ELSE restarts
  OBVIOUS
<1>2. /\ calling \in [left : Nat \ {0}, call : Calls] /\ c \in Calls
      /\ c = proposals[Len(proposals)] /\ Len(proposals) \in DOMAIN proposals
      /\ t \in Tools
      /\ t # "unguarded" => Refused(t, w, v, c) \/ Ran(t, w, v, c)
      /\ IsWorld(v) /\ v.effects \in Seq(Calls) /\ RecordsFit(t, v)
      /\ \A i \in DOMAIN w.effects : i \in DOMAIN v.effects /\ v.effects[i] = w.effects[i]
      /\ v.last.returned /\ v.last.effect # NoEffect =>
           /\ v.last.effect \in DOMAIN v.effects /\ Ref(t, v.effects[v.last.effect]) = Ref(t, c)
           /\ t \in {"bound", "conformant"} => v.effects[v.last.effect].args = c.args
  BY <1>1, UseIs
<1>3. /\ tool' = t /\ world' = v /\ proposals' = proposals /\ restarts' = restarts
      /\ calling' = IF v.last.returned \/ calling.left = 1 THEN NoCall ELSE [calling EXCEPT !.left = @ - 1]
      /\ answers' = IF v.last.returned
                    THEN answers \cup {[call |-> c, outcome |-> v.last.outcome, effect |-> v.last.effect]}
                    ELSE answers
      /\ calling # NoCall
  BY <1>1 DEF ToolUse
<1>4. ToolTypeOK'
  <2>1. proposals \in Seq(Calls) /\ proposals # <<>> /\ restarts \in Nat
    BY <1>3 DEF ToolInv, ToolTypeOK
  <2>2. calling' = NoCall \/ (calling' \in [left : Nat \ {0}, call : Calls] /\ calling'.call = c)
    <3>1. CASE v.last.returned \/ calling.left = 1
      BY <1>3, <3>1
    <3>2. CASE ~(v.last.returned \/ calling.left = 1)
      <4>1. calling' = [calling EXCEPT !.left = calling.left - 1]
        BY <1>3, <3>2
      <4>2. calling.left \in Nat \ {0} /\ calling.left # 1 /\ calling.left - 1 \in Nat \ {0}
        BY <1>2, <3>2
      <4>3. calling = [left |-> calling.left, call |-> calling.call]
        BY <1>2
      <4>4. calling' = [left |-> calling.left - 1, call |-> calling.call]
        BY <4>1, <4>3
      <4> QED BY <1>1, <1>2, <4>2, <4>4
    <3> QED BY <3>1, <3>2
  <2>3. v = [records |-> v.records, bound |-> v.bound, effects |-> v.effects, last |-> v.last]
    BY <1>2 DEF IsWorld, World
  <2> QED BY <1>2, <1>3, <2>1, <2>2, <2>3 DEF ToolTypeOK
<1>5. AnswersFit(tool, world)'
  <2>1. ASSUME NEW x \in answers'
        PROVE  /\ x.call \in Calls
               /\ x.effect # NoEffect =>
                    /\ x.effect \in DOMAIN v.effects /\ Ref(t, v.effects[x.effect]) = Ref(t, x.call)
                    /\ t \in {"bound", "conformant"} => v.effects[x.effect].args = x.call.args
    <3>1. CASE x \in answers
      <4>1. /\ x.call \in Calls
            /\ x.effect # NoEffect =>
                 /\ x.effect \in DOMAIN w.effects /\ Ref(t, w.effects[x.effect]) = Ref(t, x.call)
                 /\ t \in {"bound", "conformant"} => w.effects[x.effect].args = x.call.args
        BY <1>1, <3>1 DEF ToolInv, AnswersFit
      <4> QED BY <1>2, <4>1
    <3>2. CASE x \notin answers
      <4>1. v.last.returned /\ x = [call |-> c, outcome |-> v.last.outcome, effect |-> v.last.effect]
        BY <1>3, <2>1, <3>2
      <4>2. x.call = c /\ x.effect = v.last.effect
        BY <4>1
      <4> QED BY <1>2, <4>1, <4>2
    <3> QED BY <3>1, <3>2
  <2> QED BY <1>3, <2>1 DEF AnswersFit
<1>6. t # "unguarded" => OncePerKey(t, v, lives)
  <2> SUFFICES ASSUME t # "unguarded" PROVE OncePerKey(t, v, lives)
    OBVIOUS
  <2>1. w.effects \in Seq(Calls) /\ RecordsFit(t, w) /\ OncePerKey(t, w, lives) /\ lives \in Nat
    BY <1>1 DEF ToolInv, ToolTypeOK
  <2> QED BY <1>2, <2>1, StepOnce
<1>7. tool' \in {"bound", "conformant"} /\ restarts' = 0 => FirstHeld(tool, world)'
  BY <1>1, <1>3, UseKeepsHeld
<1>8. tool' \in Modes /\ restarts' = 0 => InLedger(tool, world)'
  BY <1>1, <1>3, UseKeepsLedger
<1>9. /\ RecordsFit(tool, world)'
      /\ tool' # "unguarded" => OncePerKey(tool', world', IF tool' = "durable" THEN 0 ELSE restarts')
  BY <1>1, <1>2, <1>3, <1>6
<1> QED BY <1>4, <1>5, <1>7, <1>8, <1>9 DEF ToolInv

\* What is proposed is due: no record, no effect, but an entry in the ledger.
LEMMA ProposeKeepsLedger ==
  ASSUME ToolInv, NEW c \in Calls, NEW attempts \in {1, MAX_ATTEMPTS}, Propose(c, attempts), tool \in Modes, restarts = 0
  PROVE  InLedger(tool, world)'
<1>1. PICK t, w, s, ref : t = tool /\ w = world /\ s = Replay(tool, proposals) /\ ref = Artifact(tool, c)
  OBVIOUS
<1>2. /\ t \in Modes /\ InLedger(t, w) /\ proposals \in Seq(Calls) /\ w.effects \in Seq(Calls)
      /\ tool' = t /\ world' = w /\ proposals' = Append(proposals, c)
      /\ calling = NoCall /\ calling' = [left |-> attempts, call |-> c]
  BY <1>1 DEF ToolInv, ToolTypeOK, Propose
<1>3. calling' # NoCall /\ calling'.call = c
  <2>1. calling'.left # 0
    BY <1>2, ToolRetryAssumption
  <2> QED BY <1>2, <2>1 DEF NoCall
<1>4. /\ DOMAIN s.ledger = DOMAIN w.records
      /\ \A r \in DOMAIN w.records : w.records[r].digest = s.ledger[r]
      /\ s.effects \in Nat /\ Len(w.effects) \in Nat /\ Len(w.effects) <= s.effects
  <2>1. Cardinality({} \ DOMAIN w.records) = 0 /\ {} \ DOMAIN w.records = {}
    BY FS_EmptySet
  <2>2. /\ DOMAIN s.ledger = DOMAIN w.records \cup ({} \ DOMAIN w.records)
        /\ \A r \in DOMAIN w.records : w.records[r].digest = s.ledger[r]
        /\ s.effects \in Nat /\ Len(w.effects) + Cardinality({} \ DOMAIN w.records) <= s.effects
    BY <1>1, <1>2 DEF InLedger
  <2>3. Len(w.effects) \in Nat
    BY <1>2
  <2> QED BY <2>1, <2>2, <2>3
<1>5. PICK z : z = Replay(t, proposals')
  OBVIOUS
<1>6. z = Entered(t, s, c)
  BY <1>1, <1>2, <1>5, ReplayAppend
<1>7. PICK due : due = {ref} \ DOMAIN w.records
  OBVIOUS
<1>8. /\ DOMAIN z.ledger = DOMAIN w.records \cup due
      /\ \A r \in DOMAIN w.records : w.records[r].digest = z.ledger[r]
      /\ \A r \in due : c.args = z.ledger[r]
      /\ z.effects \in Nat /\ Len(w.effects) + Cardinality(due) <= z.effects
  <2>1. CASE ref \in DOMAIN w.records
    <3>1. due = {} /\ Cardinality(due) = 0
      <4>1. due = {}
        BY <1>7, <2>1
      <4> QED BY <4>1, FS_EmptySet
    <3>2. Decide(s.ledger, ref, c.args, t # "no_digest_check") # "EXECUTE"
      BY <1>4, <2>1 DEF Decide
    <3>3. z.ledger = s.ledger /\ z.effects = s.effects + 0
      BY <1>1, <1>6, <3>2 DEF Entered
    <3> QED BY <1>4, <3>1, <3>3
  <2>2. CASE ref \notin DOMAIN w.records
    <3>1. due = {ref} /\ Cardinality(due) = 1
      <4>1. due = {ref} /\ Cardinality({ref}) = 1
        BY <1>7, <2>2, FS_Singleton
      <4> QED BY <4>1
    <3>2. Decide(s.ledger, ref, c.args, t # "no_digest_check") = "EXECUTE"
      BY <1>4, <2>2 DEF Decide
    <3>3. z.ledger = With(s.ledger, ref, c.args) /\ z.effects = s.effects + 1
      BY <1>1, <1>6, <3>2 DEF Entered
    <3>4. PICK q : q = With(s.ledger, ref, c.args)
      OBVIOUS
    <3>5. DOMAIN q = DOMAIN s.ledger \cup {ref} /\ q[ref] = c.args /\ \A r \in DOMAIN s.ledger : r # ref => q[r] = s.ledger[r]
      BY <3>4 DEF With
    <3> QED BY <1>4, <2>2, <3>1, <3>3, <3>4, <3>5
  <2> QED BY <2>1, <2>2
<1>9. due = (IF calling' = NoCall THEN {} ELSE {Artifact(t, calling'.call)}) \ DOMAIN w.records
  BY <1>1, <1>3, <1>7
<1> QED BY <1>2, <1>3, <1>5, <1>8, <1>9 DEF InLedger

\* What is proposed later is not what comes first.
LEMMA ProposeKeepsHeld ==
  ASSUME ToolInv, NEW c \in Calls, NEW attempts \in {1, MAX_ATTEMPTS}, Propose(c, attempts),
         tool \in {"bound", "conformant"}, restarts = 0
  PROVE  FirstHeld(tool, world)'
<1>1. PICK t, w, p : t = tool /\ w = world /\ p = Append(proposals, c)
  OBVIOUS
<1>2. /\ FirstHeld(t, w) /\ proposals \in Seq(Calls)
      /\ tool' = t /\ world' = w /\ proposals' = p
      /\ calling = NoCall /\ calling' = [left |-> attempts, call |-> c]
  BY <1>1 DEF ToolInv, ToolTypeOK, Propose
<1>3. calling' # NoCall
  <2>1. calling'.left # 0
    BY <1>2, ToolRetryAssumption
  <2> QED BY <1>2, <2>1 DEF NoCall
<1>4. /\ Len(proposals) \in Nat /\ Len(p) = Len(proposals) + 1
      /\ DOMAIN proposals = 1..Len(proposals) /\ DOMAIN p = 1..(Len(proposals) + 1)
      /\ \A i \in DOMAIN proposals : i \in DOMAIN p /\ p[i] = proposals[i]
  BY <1>1, <1>2, AppendIs
<1>5. ASSUME NEW a, NEW x, FirstArgs(proposals, a, x)
      PROVE  FirstArgs(p, a, x)
  <2>1. PICK i \in DOMAIN proposals : proposals[i] = Call(a, x) /\ \A j \in 1..(i - 1) : proposals[j].action # a
    BY <1>5 DEF FirstArgs
  <2>2. \A j \in 1..(i - 1) : j \in DOMAIN proposals
    BY <1>4
  <2> QED BY <1>4, <2>1, <2>2 DEF FirstArgs
<1>6. /\ \A i \in DOMAIN w.effects : w.effects[i] \in HeldArgs(t, w)
      /\ \A held \in HeldArgs(t, w) : FirstArgs(proposals, held.action, held.args)
      /\ \A i \in DOMAIN proposals : \E held \in HeldArgs(t, w) : held.action = proposals[i].action
  BY <1>2 DEF FirstHeld
<1>7. \A i \in DOMAIN p : i = Len(p) \/ \E held \in HeldArgs(t, w) : held.action = p[i].action
  BY <1>4, <1>6
<1> QED BY <1>2, <1>3, <1>5, <1>6, <1>7 DEF FirstHeld

\* A proposal keeps ToolInv.
LEMMA ProposeInv ==
  ASSUME ToolInv, NEW c \in Calls, NEW attempts \in {1, MAX_ATTEMPTS}, Propose(c, attempts)
  PROVE  ToolInv'
<1>1. /\ UNCHANGED <<tool, world, restarts, answers>>
      /\ proposals' = Append(proposals, c) /\ calling' = [left |-> attempts, call |-> c]
  BY DEF Propose
<1>2. ToolTypeOK'
  <2>1. /\ proposals \in Seq(Calls) /\ restarts \in Nat /\ tool \in Tools /\ world.effects \in Seq(Calls)
        /\ world = [records |-> world.records, bound |-> world.bound, effects |-> world.effects, last |-> world.last]
    BY DEF ToolInv, ToolTypeOK
  <2>2. proposals' \in Seq(Calls) /\ proposals' # <<>> /\ proposals'[Len(proposals')] = c
    <3>1. PICK p : p = Append(proposals, c)
      OBVIOUS
    <3>2. p \in Seq(Calls) /\ Len(p) = Len(proposals) + 1 /\ p[Len(proposals) + 1] = c /\ Len(proposals) \in Nat
      BY <2>1, <3>1, AppendIs
    <3>3. p # <<>>
      BY <3>2
    <3> QED BY <1>1, <3>1, <3>2, <3>3
  <2>3. calling' \in [left : Nat \ {0}, call : Calls] /\ calling'.call = c
    BY <1>1, ToolRetryAssumption
  <2> QED BY <1>1, <2>1, <2>2, <2>3 DEF ToolTypeOK
<1>3. /\ RecordsFit(tool, world)' /\ AnswersFit(tool, world)'
      /\ tool' # "unguarded" => OncePerKey(tool', world', IF tool' = "durable" THEN 0 ELSE restarts')
  BY <1>1 DEF ToolInv, RecordsFit, AnswersFit
<1>4. tool' \in {"bound", "conformant"} /\ restarts' = 0 => FirstHeld(tool, world)'
  BY <1>1, ProposeKeepsHeld
<1>5. tool' \in Modes /\ restarts' = 0 => InLedger(tool, world)'
  BY <1>1, ProposeKeepsLedger
<1> QED BY <1>2, <1>3, <1>4, <1>5 DEF ToolInv

\* Reconciling a record keeps ToolInv.
LEMMA ReconcileInv ==
  ASSUME ToolInv, NEW action \in Actions, ReconcileRecord(action)
  PROVE  ToolInv'
<1>1. PICK t, w, v, seen : t = tool /\ w = world /\ v = world' /\ seen = EffectsIn(world, action)
  OBVIOUS
<1>2. /\ t \in {"guarded", "durable"} /\ tool' = t /\ v = Reconcile(w, action) /\ v # w
      /\ UNCHANGED <<calling, proposals, restarts, answers>>
  BY <1>1 DEF ReconcileRecord
<1>3. ToolTypeOK /\ RecordsFit(t, w) /\ AnswersFit(t, w) /\ w.effects \in Seq(Calls) /\ IsWorld(w)
      /\ OncePerKey(t, w, IF t = "durable" THEN 0 ELSE restarts)
  BY <1>1, <1>2 DEF ToolInv, ToolTypeOK, IsWorld, World
<1>4. PICK i : i = CHOOSE n \in seen : \A j \in seen : n <= j
  OBVIOUS
<1>5. Status(w, action) = "PENDING" /\ seen # {}
      /\ v = [w EXCEPT !.records = With(@, action, [status |-> "COMMITTED", effect |-> i])]
  BY <1>1, <1>2, <1>4 DEF Reconcile
<1>6. i \in seen
  <2>1. seen \subseteq Nat
    BY <1>1, <1>3 DEF EffectsIn
  <2>2. \E n \in seen : \A j \in seen : n <= j
    BY <1>5, <2>1, LeastNatural
  <2> QED BY <1>4, <2>2
<1>7. i \in DOMAIN w.effects /\ Ref(t, w.effects[i]) = action /\ action \in DOMAIN w.records
      /\ t # "bound" /\ t \notin Modes
  BY <1>1, <1>2, <1>5, <1>6 DEF EffectsIn, Ref, IdempotencyRef, Modes, Status
<1>8. PICK q, rec : q = With(w.records, action, rec) /\ rec = [status |-> "COMMITTED", effect |-> i]
  OBVIOUS
<1>9. DOMAIN q = DOMAIN w.records /\ q[action] = rec /\ \A r \in DOMAIN w.records : r # action => q[r] = w.records[r]
  BY <1>7, <1>8 DEF With
<1>10. v = World(q, w.bound, w.effects, w.last)
  BY <1>3, <1>5, <1>8 DEF IsWorld, World
<1>11. v.records = q /\ v.bound = w.bound /\ v.effects = w.effects /\ v.last = w.last
  BY <1>10 DEF World
<1>12. ToolTypeOK'
  BY <1>1, <1>2, <1>3, <1>10, <1>11 DEF ToolTypeOK, World
<1>13. RecordsFit(t, v)
  <2>1. ASSUME NEW r \in DOMAIN q
        PROVE  /\ q[r].effect # NoEffect => EffectFits(t, v, r, q[r].effect)
               /\ r \in Actions /\ (q[r] = Pending \/ q[r].status = "COMMITTED")
    <3>1. CASE r = action
      <4>1. q[r].effect = i /\ q[r].status = "COMMITTED"
        BY <1>8, <1>9, <3>1
      <4>2. EffectFits(t, v, r, i)
        BY <1>7, <1>11, <3>1 DEF EffectFits
      <4> QED BY <3>1, <4>1, <4>2
    <3>2. CASE r # action
      <4>1. r \in DOMAIN w.records /\ q[r] = w.records[r]
        BY <1>9, <3>2, <2>1
      <4>2. /\ q[r].effect # NoEffect => EffectFits(t, w, r, q[r].effect)
            /\ r \in Actions /\ (q[r] = Pending \/ q[r].status = "COMMITTED")
        BY <1>2, <1>3, <4>1 DEF RecordsFit
      <4> QED BY <1>7, <1>11, <4>2 DEF EffectFits
    <3> QED BY <3>1, <3>2
  <2> QED BY <1>2, <1>7, <1>11, <2>1 DEF RecordsFit
<1>14. OncePerKey(t, v, IF t = "durable" THEN 0 ELSE restarts)
  BY <1>3, <1>9, <1>11 DEF OncePerKey
<1>15. AnswersFit(tool, world)'
  BY <1>1, <1>2, <1>3, <1>11 DEF AnswersFit
<1>16. t \notin {"unguarded", "bound", "conformant"}
  BY <1>2
<1> QED BY <1>1, <1>2, <1>7, <1>12, <1>13, <1>14, <1>15, <1>16 DEF ToolInv

\* A new process keeps ToolInv: it has no records, and a life of its own.
LEMMA NewProcessInv ==
  ASSUME ToolInv, NewProcess
  PROVE  ToolInv'
<1>1. PICK t, w, v : t = tool /\ w = world /\ v = world'
  OBVIOUS
<1>2. /\ t # "unguarded" /\ tool' = t /\ v = Restarted(t, w) /\ calling' = NoCall /\ restarts' = restarts + 1
      /\ UNCHANGED <<proposals, answers>>
  BY <1>1 DEF NewProcess
<1>3. /\ ToolTypeOK /\ RecordsFit(t, w) /\ AnswersFit(t, w) /\ w.effects \in Seq(Calls) /\ IsWorld(w)
      /\ OncePerKey(t, w, IF t = "durable" THEN 0 ELSE restarts) /\ restarts \in Nat
  BY <1>1, <1>2 DEF ToolInv, ToolTypeOK, IsWorld, World
<1>4. /\ v.records = IF t = "durable" THEN w.records ELSE <<>>
      /\ v.effects = w.effects /\ IsWorld(v)
  BY <1>2 DEF Restarted, IsWorld, World
<1>5. ToolTypeOK'
  BY <1>1, <1>2, <1>3, <1>4 DEF ToolTypeOK, IsWorld, World
<1>6. RecordsFit(t, v)
  <2>1. CASE t = "durable"
    <3>1. t \notin Modes /\ t # "bound"
      BY <2>1 DEF Modes
    <3>2. v.records = w.records
      BY <1>4, <2>1
    <3>3. ASSUME NEW r \in DOMAIN w.records, w.records[r].effect # NoEffect
          PROVE  EffectFits(t, v, r, w.records[r].effect)
      <4>1. EffectFits(t, w, r, w.records[r].effect)
        BY <1>3, <3>3 DEF RecordsFit
      <4> QED BY <1>4, <3>1, <4>1 DEF EffectFits
    <3> QED BY <1>3, <3>1, <3>2, <3>3 DEF RecordsFit
  <2>2. CASE t # "durable"
    <3>1. v.records = <<>>
      BY <1>4, <2>2
    <3> QED BY <3>1 DEF RecordsFit
  <2> QED BY <2>1, <2>2
<1>7. OncePerKey(t, v, IF t = "durable" THEN 0 ELSE restarts + 1)
  <2>1. CASE t = "durable"
    BY <1>3, <1>4, <2>1 DEF OncePerKey
  <2>2. CASE t # "durable"
    <3>1. ASSUME NEW ref \in {Ref(t, c) : c \in Calls}
          PROVE  Cardinality(Of(t, v.effects, ref)) <= restarts + 1
      <4>1. Cardinality(Of(t, w.effects, ref)) <= restarts + (IF ref \in DOMAIN w.records THEN 1 ELSE 0)
        BY <1>3, <2>2 DEF OncePerKey, Of
      <4>2. Cardinality(Of(t, w.effects, ref)) \in Nat
        <5>1. Call("A", 100) \in Calls
          BY DEF Calls
        <5> QED BY <1>3, <5>1, OfAppend
      <4>3. PICK n \in Nat : n = Cardinality(Of(t, w.effects, ref))
        BY <4>2
      <4>4. n <= restarts + 1
        BY <1>3, <4>1, <4>3
      <4> QED BY <1>4, <4>3, <4>4
    <3>2. restarts + 1 + 0 = restarts + 1 /\ v.records = <<>>
      BY <1>3, <1>4, <2>2
    <3>3. \A ref : ref \notin DOMAIN v.records
      BY <3>2
    <3> QED BY <2>2, <3>1, <3>2, <3>3 DEF OncePerKey, Of
  <2> QED BY <2>1, <2>2
<1>8. AnswersFit(tool, world)'
  BY <1>1, <1>2, <1>3, <1>4 DEF AnswersFit
<1>9. restarts' # 0
  BY <1>2, <1>3
<1> QED BY <1>1, <1>2, <1>5, <1>6, <1>7, <1>8, <1>9 DEF ToolInv

\* Every step keeps ToolInv.
LEMMA ToolNextInv == ToolInv /\ ToolNext => ToolInv'
BY ProposeInv, UseInv, ReconcileInv, NewProcessInv DEF ToolNext

\* So does a step of another part.
LEMMA ToolFrame == ToolInv /\ UNCHANGED toolVars => ToolInv'
<1> SUFFICES ASSUME ToolInv, UNCHANGED toolVars PROVE ToolInv'
  OBVIOUS
<1>1. /\ tool' = tool /\ world' = world /\ calling' = calling /\ proposals' = proposals
      /\ restarts' = restarts /\ answers' = answers
  BY DEF toolVars
<1>2. ToolTypeOK' /\ AnswersFit(tool, world)' /\ RecordsFit(tool, world)'
  BY <1>1 DEF ToolInv, ToolTypeOK, AnswersFit, RecordsFit
<1>3. tool' \in {"bound", "conformant"} /\ restarts' = 0 => FirstHeld(tool, world)'
  BY <1>1 DEF ToolInv, FirstHeld
<1>4. tool' \in Modes /\ restarts' = 0 => InLedger(tool, world)'
  BY <1>1 DEF ToolInv, InLedger
<1>5. tool' # "unguarded" => OncePerKey(tool', world', IF tool' = "durable" THEN 0 ELSE restarts')
  BY <1>1 DEF ToolInv
<1> QED BY <1>2, <1>3, <1>4, <1>5 DEF ToolInv

\* The first state has it.
LEMMA ToolInitInv == ToolInit => ToolInv
<1> SUFFICES ASSUME ToolInit PROVE ToolInv
  OBVIOUS
<1>1. /\ tool \in Tools /\ calling = NoCall /\ proposals = <<>> /\ restarts = 0 /\ answers = {}
      /\ world.records = <<>> /\ world.bound = <<>> /\ world.effects = <<>>
      /\ world = [records |-> world.records, bound |-> world.bound, effects |-> world.effects, last |-> world.last]
  BY DEF ToolInit, NewGuard
<1>2. ToolTypeOK
  BY <1>1 DEF ToolTypeOK
<1>3. RecordsFit(tool, world) /\ AnswersFit(tool, world)
  BY <1>1 DEF RecordsFit, AnswersFit
<1>4. OncePerKey(tool, world, 0)
  <2>1. ASSUME NEW ref
        PROVE  Cardinality({i \in DOMAIN world.effects : Ref(tool, world.effects[i]) = ref}) = 0
    <3>1. {i \in DOMAIN world.effects : Ref(tool, world.effects[i]) = ref} = {}
      BY <1>1
    <3> QED BY <3>1, FS_EmptySet
  <2> QED BY <1>1, <2>1 DEF OncePerKey
<1>5. \A t : HeldArgs(t, world) = {}
  BY <1>1 DEF HeldArgs
<1>6. FirstHeld(tool, world)
  BY <1>1, <1>5 DEF FirstHeld
<1>7. InLedger(tool, world)
  <2>1. PICK s : s = Replay(tool, proposals)
    OBVIOUS
  <2>2. s.ledger = <<>> /\ s.effects = 0
    BY <1>1, <2>1, ReplayNone DEF NoReplay
  <2>3. (IF calling = NoCall THEN {} ELSE {Artifact(tool, calling.call)}) \ DOMAIN world.records = {}
    BY <1>1
  <2>4. Cardinality({}) = 0
    BY FS_EmptySet
  <2> QED BY <1>1, <2>1, <2>2, <2>3, <2>4 DEF InLedger
<1> QED BY <1>1, <1>2, <1>3, <1>4, <1>6, <1>7 DEF ToolInv

-----------------------------------------------------------------------------
(* What ToolInv says of the effects and of the answers.                       *)

\* The tools that key their records on the action.
ByAction == {"guarded", "durable", "bound", "conformant", "no_digest_check"}

\* They see the calls of an action alike, and no others.
LEMMA ByActionRef ==
  ASSUME NEW t \in ByAction, NEW c \in Calls, NEW d \in Calls
  PROVE  Ref(t, c) = Ref(t, d) <=> c.action = d.action
<1>1. CASE t \in {"guarded", "durable", "bound"}
  BY <1>1 DEF Ref, Modes, IdempotencyRef
<1>2. CASE t \in {"conformant", "no_digest_check"}
  <2>1. Ref(t, c) = <<c.action>> /\ Ref(t, d) = <<d.action>>
    BY <1>2 DEF Ref, Modes, Artifact
  <2> QED BY <2>1
<1> QED BY <1>1, <1>2 DEF ByAction

\* One effect per action and life.
LEMMA ActionOnce ==
  ASSUME ToolInv, tool \in ByAction, NEW a \in Actions
  PROVE  Cardinality(EffectsOf(a)) <= 1 + (IF tool = "durable" THEN 0 ELSE restarts)
<1>1. PICK t, e, lives : t = tool /\ e = world.effects /\ lives = IF tool = "durable" THEN 0 ELSE restarts
  OBVIOUS
<1>2. t \in ByAction /\ t # "unguarded" /\ e \in Seq(Calls) /\ lives \in Nat /\ OncePerKey(t, world, lives)
  BY <1>1 DEF ToolInv, ToolTypeOK, ByAction
<1>3. PICK c \in Calls : c.action = a
  BY CallIs DEF Actions, Calls
<1>4. EffectsOf(a) = Of(t, e, Ref(t, c))
  <2>1. \A i \in DOMAIN e : e[i] \in Calls
    BY <1>2
  <2>2. \A i \in DOMAIN e : e[i].action = a <=> Ref(t, e[i]) = Ref(t, c)
    BY <1>2, <1>3, <2>1, ByActionRef
  <2> QED BY <1>1, <2>2 DEF EffectsOf, EffectsIn, Of
<1>5. PICK n : n = Cardinality(Of(t, e, Ref(t, c)))
  OBVIOUS
<1>6. n \in Nat
  BY <1>2, <1>5, OfAppend
<1>7. n <= lives + (IF Ref(t, c) \in DOMAIN world.records THEN 1 ELSE 0)
  BY <1>1, <1>2, <1>5 DEF OncePerKey, Of
<1>8. n <= 1 + lives
  BY <1>2, <1>6, <1>7
<1> QED BY <1>1, <1>4, <1>5, <1>8

\* Two calls that share a content key share the arguments.
LEMMA ContentRef ==
  ASSUME NEW t \in {"content_key", "digest_inside"}, NEW c \in Calls, NEW d \in Calls, Ref(t, c) = Ref(t, d)
  PROVE  c.args = d.args
<1>1. CASE t = "content_key"
  <2>1. Ref(t, c) = <<"payload", c.args>> /\ Ref(t, d) = <<"payload", d.args>>
    BY <1>1 DEF Ref, Modes, Artifact
  <2>2. PICK p, q : p = <<"payload", c.args>> /\ q = <<"payload", d.args>>
    OBVIOUS
  <2>3. p[2] = c.args /\ q[2] = d.args
    BY <2>2
  <2> QED BY <2>1, <2>2, <2>3
<1>2. CASE t = "digest_inside"
  <2>1. Ref(t, c) = <<c.action, c.args>> /\ Ref(t, d) = <<d.action, d.args>>
    BY <1>2 DEF Ref, Modes, Artifact
  <2>2. PICK p, q : p = <<c.action, c.args>> /\ q = <<d.action, d.args>>
    OBVIOUS
  <2>3. p[2] = c.args /\ q[2] = d.args
    BY <2>2
  <2> QED BY <2>1, <2>2, <2>3
<1> QED BY <1>1, <1>2

\* No answer gives the effect of another call, as far as its guard can tell.
LEMMA AnswerIsOfItsCall ==
  ASSUME ToolInv, NEW x \in answers, x.effect # NoEffect
  PROVE  /\ tool \in {"bound", "conformant"} => world.effects[x.effect] = x.call
         /\ tool \in ByAction => world.effects[x.effect].action = x.call.action
         /\ tool \in {"content_key", "digest_inside"} => world.effects[x.effect].args = x.call.args
<1>1. PICK t, e, c : t = tool /\ e = world.effects[x.effect] /\ c = x.call
  OBVIOUS
<1>2. /\ c \in Calls /\ e \in Calls /\ Ref(t, e) = Ref(t, c)
      /\ t \in {"bound", "conformant"} => e.args = c.args
  BY <1>1 DEF ToolInv, ToolTypeOK, AnswersFit
<1>3. t \in ByAction => e.action = c.action
  BY <1>2, ByActionRef
<1>4. t \in {"content_key", "digest_inside"} => e.args = c.args
  BY <1>2, ContentRef
<1>5. t \in {"bound", "conformant"} => e = c
  <2>1. t \in {"bound", "conformant"} => t \in ByAction
    BY DEF ByAction
  <2>2. e = Call(e.action, e.args) /\ c = Call(c.action, c.args)
    BY <1>2, CallIs
  <2> QED BY <1>2, <1>3, <2>1, <2>2
<1> QED BY <1>1, <1>3, <1>4, <1>5

\* The first process runs what an action was first proposed with.
LEMMA EffectIsFirst ==
  ASSUME ToolInv, tool \in {"bound", "conformant"}, restarts = 0, NEW i \in DOMAIN world.effects
  PROVE  world.effects[i].args = FirstProposed(world.effects[i].action)
<1>1. PICK a, x : a = world.effects[i].action /\ x = world.effects[i].args
  OBVIOUS
<1>2. FirstArgs(proposals, a, x) /\ proposals \in Seq(Calls)
  BY <1>1 DEF ToolInv, ToolTypeOK, FirstHeld
<1>3. PICK k \in DOMAIN proposals : proposals[k] = Call(a, x) /\ \A j \in 1..(k - 1) : proposals[j].action # a
  BY <1>2 DEF FirstArgs
<1>4. proposals[k].action = a /\ proposals[k].args = x
  BY <1>3, CallIs
<1>5. PICK n : n = CHOOSE m \in DOMAIN proposals : proposals[m].action = a /\ \A j \in 1..(m - 1) : proposals[j].action # a
  OBVIOUS
<1>6. n \in DOMAIN proposals /\ proposals[n].action = a /\ \A j \in 1..(n - 1) : proposals[j].action # a
  BY <1>3, <1>4, <1>5
<1>7. n = k
  <2>1. k \in Nat /\ n \in Nat /\ k >= 1 /\ n >= 1
    BY <1>2, <1>3, <1>6
  <2>2. ~(n < k)
    BY <1>3, <1>6, <2>1
  <2>3. ~(k < n)
    BY <1>4, <1>6, <2>1
  <2> QED BY <2>1, <2>2, <2>3
<1> QED BY <1>1, <1>4, <1>5, <1>7 DEF FirstProposed

\* A guard keyed on the arguments runs each of them once in a life.
LEMMA ContentOnce ==
  ASSUME ToolInv, tool = "content_key"
  PROVE  Len(world.effects) <= Cardinality(Arguments) * (1 + restarts)
<1>1. PICK e, t : e = world.effects /\ t = "content_key"
  OBVIOUS
<1>2. e \in Seq(Calls) /\ restarts \in Nat /\ OncePerKey(t, world, restarts)
  BY <1>1 DEF ToolInv, ToolTypeOK
<1>3. PICK c, d, S, T : /\ c = Call("A", 100) /\ d = Call("A", 250)
                        /\ S = Of(t, e, Ref(t, c)) /\ T = Of(t, e, Ref(t, d))
  OBVIOUS
<1>4. c \in Calls /\ d \in Calls
  BY <1>3 DEF Calls
<1>5. IsFiniteSet(S) /\ IsFiniteSet(T) /\ Cardinality(S) \in Nat /\ Cardinality(T) \in Nat
  <2>1. ASSUME NEW ref PROVE IsFiniteSet(Of(t, e, ref)) /\ Cardinality(Of(t, e, ref)) \in Nat
    BY <1>2, <1>4, OfAppend
  <2> QED BY <1>3, <2>1
<1>6. Cardinality(S) <= 1 + restarts /\ Cardinality(T) <= 1 + restarts
  <2>1. /\ Cardinality(S) <= restarts + (IF Ref(t, c) \in DOMAIN world.records THEN 1 ELSE 0)
        /\ Cardinality(T) <= restarts + (IF Ref(t, d) \in DOMAIN world.records THEN 1 ELSE 0)
    BY <1>1, <1>2, <1>3, <1>4 DEF OncePerKey, Of
  <2> QED BY <1>2, <1>5, <2>1
<1>7. \A k \in Calls : Ref(t, k) = <<"payload", k.args>>
  BY <1>1 DEF Ref, Modes, Artifact
<1>8. \A k \in Calls : Ref(t, k) = Ref(t, c) \/ Ref(t, k) = Ref(t, d)
  <2>1. \A k \in Calls : k.args = c.args \/ k.args = d.args
    BY <1>3 DEF Calls, Call
  <2> QED BY <1>4, <1>7, <2>1
<1>9. 1..Len(e) \subseteq S \cup T
  <2>1. DOMAIN e = 1..Len(e) /\ \A i \in DOMAIN e : e[i] \in Calls
    BY <1>2
  <2> QED BY <1>3, <1>8, <2>1 DEF Of
<1>10. Cardinality(1..Len(e)) = Len(e) /\ Len(e) \in Nat
  BY <1>2, FS_Interval
<1>11. /\ IsFiniteSet(S \cup T)
       /\ Cardinality(S \cup T) = Cardinality(S) + Cardinality(T) - Cardinality(S \cap T)
       /\ Cardinality(S \cap T) \in Nat /\ Cardinality(S \cup T) \in Nat
  BY <1>5, FS_Union, FS_Intersection, FS_CardinalityType
<1>12. Len(e) <= Cardinality(S \cup T)
  BY <1>9, <1>10, <1>11, FS_Subset
<1>13. Cardinality(Arguments) = 2
  <2>1. Cardinality({100}) = 1 /\ IsFiniteSet({100})
    BY FS_Singleton
  <2>2. Cardinality({100} \cup {250}) = Cardinality({100}) + 1
    BY <2>1, FS_AddElement
  <2>3. {100} \cup {250} = Arguments
    BY DEF Arguments
  <2> QED BY <2>1, <2>2, <2>3
<1>14. Len(e) <= 2 * (1 + restarts)
  <2>1. PICK x \in Nat, y \in Nat, z \in Nat, u \in Nat, l \in Nat :
          /\ x = Cardinality(S) /\ y = Cardinality(T) /\ z = Cardinality(S \cap T)
          /\ u = Cardinality(S \cup T) /\ l = Len(e)
    BY <1>5, <1>10, <1>11
  <2>2. l <= u /\ u = x + y - z /\ x <= 1 + restarts /\ y <= 1 + restarts
    BY <1>6, <1>11, <1>12, <2>1
  <2>3. l <= 2 * (1 + restarts)
    BY <1>2, <2>2
  <2> QED BY <2>1, <2>3
<1> QED BY <1>1, <1>13, <1>14

-----------------------------------------------------------------------------
(* The events of idempotency-ref-v1.1, against the ledger and the guard.      *)

\* An outcome, and the effects so far.
Got(outcome, n) == <<outcome, n>>

\* What an event does that is admitted, and one that is not.
Admitted(z, s, ref, c) ==
  /\ DOMAIN z.ledger = DOMAIN s.ledger \cup {ref} /\ z.ledger[ref] = c.args
  /\ \A r \in DOMAIN s.ledger : z.ledger[r] = s.ledger[r]
  /\ z.effects = s.effects + 1 /\ z.out = Append(s.out, Got("EXECUTE", s.effects + 1))

NotAdmitted(z, s, outcome) ==
  z.ledger = s.ledger /\ z.effects = s.effects + 0 /\ z.out = Append(s.out, Got(outcome, s.effects + 0))

\* What Decide says of a reference the ledger has.
Known(mode, ledger, ref, c) == IF mode = "no_digest_check" \/ ledger[ref] = c.args THEN "DUPLICATE" ELSE "CONFLICT"

\* An event whose reference the ledger has not is admitted.
LEMMA EnteredNew ==
  ASSUME NEW mode, NEW s, NEW c, NEW ref, ref = Artifact(mode, c), NEW z, z = Entered(mode, s, c), ref \notin DOMAIN s.ledger
  PROVE  Admitted(z, s, ref, c)
<1>1. Decide(s.ledger, ref, c.args, mode # "no_digest_check") = "EXECUTE"
  BY DEF Decide
<1>2. PICK q : q = With(s.ledger, ref, c.args)
  OBVIOUS
<1>3. z = [ledger |-> q, effects |-> s.effects + 1, out |-> Append(s.out, <<"EXECUTE", s.effects + 1>>)]
  BY <1>1, <1>2 DEF Entered
<1>4. DOMAIN q = DOMAIN s.ledger \cup {ref} /\ q[ref] = c.args /\ \A r \in DOMAIN s.ledger : q[r] = s.ledger[r]
  BY <1>2 DEF With
<1>5. z.ledger = q /\ z.effects = s.effects + 1 /\ z.out = Append(s.out, <<"EXECUTE", s.effects + 1>>)
  BY <1>3
<1> QED BY <1>4, <1>5 DEF Admitted, Got

\* One whose reference it has is not.
LEMMA EnteredKnown ==
  ASSUME NEW mode, NEW s, NEW c, NEW ref, ref = Artifact(mode, c), NEW z, z = Entered(mode, s, c), ref \in DOMAIN s.ledger
  PROVE  NotAdmitted(z, s, Known(mode, s.ledger, ref, c))
<1>1. PICK outcome : outcome = Known(mode, s.ledger, ref, c)
  OBVIOUS
<1>2. Decide(s.ledger, ref, c.args, mode # "no_digest_check") = outcome /\ outcome # "EXECUTE"
  BY <1>1 DEF Decide, Known
<1>3. z = [ledger |-> s.ledger, effects |-> s.effects + 0, out |-> Append(s.out, <<outcome, s.effects + 0>>)]
  BY <1>2 DEF Entered
<1>4. z.ledger = s.ledger /\ z.effects = s.effects + 0 /\ z.out = Append(s.out, <<outcome, s.effects + 0>>)
  BY <1>3
<1> QED BY <1>1, <1>4 DEF NotAdmitted, Got

\* The events are calls.
LEMMA EventsAre ==
  LET a == Call("A", 100)  b == Call("B", 100)  c == Call("A", 250)
  IN /\ Events = Append(Append(Append(Append(<<>>, a), a), b), c)
     /\ a \in Calls /\ b \in Calls /\ c \in Calls
     /\ Append(<<>>, a) \in Seq(Calls) /\ Append(Append(<<>>, a), a) \in Seq(Calls)
     /\ Append(Append(Append(<<>>, a), a), b) \in Seq(Calls)
<1>1. PICK a, b, c : a = Call("A", 100) /\ b = Call("B", 100) /\ c = Call("A", 250)
  OBVIOUS
<1>2. a \in Calls /\ b \in Calls /\ c \in Calls
  BY <1>1 DEF Calls
<1>3. Events = <<a, a, b, c>>
  BY <1>1 DEF Events, PayOf
<1>4. <<a, a, b, c>> = Append(Append(Append(Append(<<>>, a), a), b), c)
  OBVIOUS
<1>5. /\ Append(<<>>, a) \in Seq(Calls) /\ Append(Append(<<>>, a), a) \in Seq(Calls)
      /\ Append(Append(Append(<<>>, a), a), b) \in Seq(Calls)
  BY <1>2
<1> QED BY <1>1, <1>2, <1>3, <1>4, <1>5

\* A replay of them, event by event.
LEMMA ReplayOfEvents ==
  ASSUME NEW mode
  PROVE  \E s1, s2, s3, s4 :
           /\ s1 = Entered(mode, NoReplay, Call("A", 100)) /\ s2 = Entered(mode, s1, Call("A", 100))
           /\ s3 = Entered(mode, s2, Call("B", 100)) /\ s4 = Entered(mode, s3, Call("A", 250))
           /\ Replay(mode, Events) = s4
<1>1. PICK a, b, c : a = Call("A", 100) /\ b = Call("B", 100) /\ c = Call("A", 250)
  OBVIOUS
<1>2. PICK e1, e2, e3 : e1 = Append(<<>>, a) /\ e2 = Append(e1, a) /\ e3 = Append(e2, b)
  OBVIOUS
<1>3. /\ Events = Append(e3, c) /\ a \in Calls /\ b \in Calls /\ c \in Calls
      /\ e1 \in Seq(Calls) /\ e2 \in Seq(Calls) /\ e3 \in Seq(Calls) /\ <<>> \in Seq(Calls)
  BY <1>1, <1>2, EventsAre
<1>4. Replay(mode, <<>>) = NoReplay
  BY ReplayNone
<1>5. Replay(mode, e1) = Entered(mode, NoReplay, a)
  BY <1>2, <1>3, <1>4, ReplayAppend
<1>6. Replay(mode, e2) = Entered(mode, Replay(mode, e1), a)
  BY <1>2, <1>3, ReplayAppend
<1>7. Replay(mode, e3) = Entered(mode, Replay(mode, e2), b)
  BY <1>2, <1>3, ReplayAppend
<1>8. Replay(mode, Append(e3, c)) = Entered(mode, Replay(mode, e3), c)
  BY <1>3, ReplayAppend
<1> QED BY <1>1, <1>3, <1>5, <1>6, <1>7, <1>8

\* What the events have for references.
LEMMA EventRefs ==
  /\ \A mode \in {"conformant", "no_digest_check"} : \A x, n : Artifact(mode, Call(x, n)) = <<x>>
  /\ \A x, n : Artifact("content_key", Call(x, n)) = <<"payload", n>>
  /\ \A x, n : Artifact("digest_inside", Call(x, n)) = <<x, n>>
  /\ <<"A">> # <<"B">> /\ <<"payload", 100>> # <<"payload", 250>>
  /\ <<"A", 100>> # <<"B", 100>> /\ <<"A", 100>> # <<"A", 250>> /\ <<"B", 100>> # <<"A", 250>>
<1>1. /\ \A mode \in {"conformant", "no_digest_check"} : \A x, n : Artifact(mode, Call(x, n)) = <<x>>
      /\ \A x, n : Artifact("content_key", Call(x, n)) = <<"payload", n>>
      /\ \A x, n : Artifact("digest_inside", Call(x, n)) = <<x, n>>
  BY DEF Artifact, Call
<1>2. <<"A">>[1] # <<"B">>[1] /\ <<"payload", 100>>[2] # <<"payload", 250>>[2]
  OBVIOUS
<1>3. <<"A", 100>>[1] # <<"B", 100>>[1] /\ <<"A", 100>>[2] # <<"A", 250>>[2] /\ <<"B", 100>>[2] # <<"A", 250>>[2]
  OBVIOUS
<1> QED BY <1>1, <1>2, <1>3

\* The outcomes of the four events, for each mode.
Outcomes ==
  [conformant |-> Declared,
   content_key |-> <<<<"EXECUTE", 1>>, <<"DUPLICATE", 1>>, <<"DUPLICATE", 1>>, <<"EXECUTE", 2>>>>,
   no_digest_check |-> <<<<"EXECUTE", 1>>, <<"DUPLICATE", 1>>, <<"EXECUTE", 2>>, <<"DUPLICATE", 2>>>>,
   digest_inside |-> <<<<"EXECUTE", 1>>, <<"DUPLICATE", 1>>, <<"EXECUTE", 2>>, <<"EXECUTE", 3>>>>]

\* They are what a replay comes to.
LEMMA ReplayOutcomes ==
  ASSUME NEW mode \in Modes
  PROVE  Replay(mode, Events).out = Outcomes[mode]
<1>1. PICK a, b, c : a = Call("A", 100) /\ b = Call("B", 100) /\ c = Call("A", 250)
  OBVIOUS
<1>2. PICK s1, s2, s3, s4 :
        /\ s1 = Entered(mode, NoReplay, a) /\ s2 = Entered(mode, s1, a)
        /\ s3 = Entered(mode, s2, b) /\ s4 = Entered(mode, s3, c)
        /\ Replay(mode, Events) = s4
  BY <1>1, ReplayOfEvents
<1>3. PICK q, r, t : q = Artifact(mode, a) /\ r = Artifact(mode, b) /\ t = Artifact(mode, c)
  OBVIOUS
<1>4. a.args = 100 /\ b.args = 100 /\ c.args = 250
  BY <1>1 DEF Call
<1>5. PICK s0 : s0 = NoReplay
  OBVIOUS
<1>6. DOMAIN s0.ledger = {} /\ s0.effects = 0 /\ s0.out = <<>>
  BY <1>5 DEF NoReplay
<1>7. s1.effects = 1 /\ s1.out = <<Got("EXECUTE", 1)>> /\ Admitted(s1, s0, q, a)
  <2>1. s1 = Entered(mode, s0, a) /\ q = Artifact(mode, a)
    BY <1>2, <1>3, <1>5
  <2>2. q \notin DOMAIN s0.ledger /\ s0.effects = 0 /\ s0.out = <<>>
    BY <1>6
  <2>3. Admitted(s1, s0, q, a)
    BY <2>1, <2>2, EnteredNew
  <2>4. s1.effects = s0.effects + 1 /\ s1.out = Append(s0.out, Got("EXECUTE", s0.effects + 1))
    BY <2>3 DEF Admitted
  <2>5. s0.effects + 1 = 1
    BY <2>2
  <2>6. <<Got("EXECUTE", 1)>> = Append(<<>>, Got("EXECUTE", 1))
    OBVIOUS
  <2> QED BY <2>2, <2>3, <2>4, <2>5, <2>6
<1>8. DOMAIN s1.ledger = {q} /\ s1.ledger[q] = 100
  BY <1>4, <1>6, <1>7 DEF Admitted
<1>9. s2.effects = 1 /\ s2.out = <<Got("EXECUTE", 1), Got("DUPLICATE", 1)>> /\ NotAdmitted(s2, s1, "DUPLICATE")
  <2>1. s2 = Entered(mode, s1, a) /\ q = Artifact(mode, a)
    BY <1>2, <1>3
  <2>2. q \in DOMAIN s1.ledger /\ s1.effects = 1 /\ s1.out = <<Got("EXECUTE", 1)>>
    BY <1>7, <1>8
  <2>3. NotAdmitted(s2, s1, "DUPLICATE")
    <3>1. Known(mode, s1.ledger, q, a) = "DUPLICATE"
      BY <1>4, <1>8 DEF Known
    <3>2. NotAdmitted(s2, s1, Known(mode, s1.ledger, q, a))
      BY <2>1, <2>2, EnteredKnown
    <3> QED BY <3>1, <3>2
  <2>4. s2.effects = s1.effects + 0 /\ s2.out = Append(s1.out, Got("DUPLICATE", s1.effects + 0))
    BY <2>3 DEF NotAdmitted
  <2>5. s1.effects + 0 = 1
    BY <2>2
  <2>6. <<Got("EXECUTE", 1), Got("DUPLICATE", 1)>> = Append(<<Got("EXECUTE", 1)>>, Got("DUPLICATE", 1))
    OBVIOUS
  <2> QED BY <2>2, <2>3, <2>4, <2>5, <2>6
<1>10. s2.ledger = s1.ledger
  BY <1>9 DEF NotAdmitted
<1>11. s4 = Replay(mode, Events)
  BY <1>2
<1>12. CASE mode \in {"conformant", "no_digest_check"}
  <2>1. t = q /\ q # r
    BY <1>1, <1>3, <1>12, EventRefs
  <2>2. s3.effects = 2 /\ s3.out = <<Got("EXECUTE", 1), Got("DUPLICATE", 1), Got("EXECUTE", 2)>> /\ Admitted(s3, s2, r, b)
    <3>1. s3 = Entered(mode, s2, b) /\ r = Artifact(mode, b)
      BY <1>2, <1>3
    <3>2. r \notin DOMAIN s2.ledger /\ s2.effects = 1 /\ s2.out = <<Got("EXECUTE", 1), Got("DUPLICATE", 1)>>
      BY <1>8, <1>9, <1>10, <2>1
    <3>3. Admitted(s3, s2, r, b)
      BY <3>1, <3>2, EnteredNew
    <3>4. s3.effects = s2.effects + 1 /\ s3.out = Append(s2.out, Got("EXECUTE", s2.effects + 1))
      BY <3>3 DEF Admitted
    <3>5. s2.effects + 1 = 2
      BY <3>2
    <3>6. <<Got("EXECUTE", 1), Got("DUPLICATE", 1), Got("EXECUTE", 2)>> = Append(<<Got("EXECUTE", 1), Got("DUPLICATE", 1)>>, Got("EXECUTE", 2))
      OBVIOUS
    <3> QED BY <3>2, <3>3, <3>4, <3>5, <3>6
  <2>3. DOMAIN s3.ledger = {q, r} /\ s3.ledger[q] = 100
    BY <1>8, <1>10, <2>1, <2>2 DEF Admitted
  <2>4. CASE mode = "conformant"
    <3>1. s4.effects = 2 /\ s4.out = <<Got("EXECUTE", 1), Got("DUPLICATE", 1), Got("EXECUTE", 2), Got("CONFLICT", 2)>> /\ NotAdmitted(s4, s3, "CONFLICT")
      <4>1. s4 = Entered(mode, s3, c) /\ q = Artifact(mode, c)
        BY <1>2, <1>3, <2>1
      <4>2. q \in DOMAIN s3.ledger /\ s3.effects = 2 /\ s3.out = <<Got("EXECUTE", 1), Got("DUPLICATE", 1), Got("EXECUTE", 2)>>
        BY <2>2, <2>3
      <4>3. NotAdmitted(s4, s3, "CONFLICT")
        <5>1. Known(mode, s3.ledger, q, c) = "CONFLICT"
          BY <1>4, <2>3, <2>4 DEF Known
        <5>2. NotAdmitted(s4, s3, Known(mode, s3.ledger, q, c))
          BY <4>1, <4>2, EnteredKnown
        <5> QED BY <5>1, <5>2
      <4>4. s4.effects = s3.effects + 0 /\ s4.out = Append(s3.out, Got("CONFLICT", s3.effects + 0))
        BY <4>3 DEF NotAdmitted
      <4>5. s3.effects + 0 = 2
        BY <4>2
      <4>6. <<Got("EXECUTE", 1), Got("DUPLICATE", 1), Got("EXECUTE", 2), Got("CONFLICT", 2)>> = Append(<<Got("EXECUTE", 1), Got("DUPLICATE", 1), Got("EXECUTE", 2)>>, Got("CONFLICT", 2))
        OBVIOUS
      <4> QED BY <4>2, <4>3, <4>4, <4>5, <4>6
    <3> QED BY <1>11, <2>4, <3>1 DEF Outcomes, Declared, Got
  <2>5. CASE mode = "no_digest_check"
    <3>1. s4.effects = 2 /\ s4.out = <<Got("EXECUTE", 1), Got("DUPLICATE", 1), Got("EXECUTE", 2), Got("DUPLICATE", 2)>> /\ NotAdmitted(s4, s3, "DUPLICATE")
      <4>1. s4 = Entered(mode, s3, c) /\ q = Artifact(mode, c)
        BY <1>2, <1>3, <2>1
      <4>2. q \in DOMAIN s3.ledger /\ s3.effects = 2 /\ s3.out = <<Got("EXECUTE", 1), Got("DUPLICATE", 1), Got("EXECUTE", 2)>>
        BY <2>2, <2>3
      <4>3. NotAdmitted(s4, s3, "DUPLICATE")
        <5>1. Known(mode, s3.ledger, q, c) = "DUPLICATE"
          BY <2>5 DEF Known
        <5>2. NotAdmitted(s4, s3, Known(mode, s3.ledger, q, c))
          BY <4>1, <4>2, EnteredKnown
        <5> QED BY <5>1, <5>2
      <4>4. s4.effects = s3.effects + 0 /\ s4.out = Append(s3.out, Got("DUPLICATE", s3.effects + 0))
        BY <4>3 DEF NotAdmitted
      <4>5. s3.effects + 0 = 2
        BY <4>2
      <4>6. <<Got("EXECUTE", 1), Got("DUPLICATE", 1), Got("EXECUTE", 2), Got("DUPLICATE", 2)>> = Append(<<Got("EXECUTE", 1), Got("DUPLICATE", 1), Got("EXECUTE", 2)>>, Got("DUPLICATE", 2))
        OBVIOUS
      <4> QED BY <4>2, <4>3, <4>4, <4>5, <4>6
    <3> QED BY <1>11, <2>5, <3>1 DEF Outcomes, Got
  <2> QED BY <1>12, <2>4, <2>5
<1>13. CASE mode = "content_key"
  <2>1. r = q /\ q # t
    BY <1>1, <1>3, <1>13, EventRefs
  <2>2. s3.effects = 1 /\ s3.out = <<Got("EXECUTE", 1), Got("DUPLICATE", 1), Got("DUPLICATE", 1)>> /\ NotAdmitted(s3, s2, "DUPLICATE")
    <3>1. s3 = Entered(mode, s2, b) /\ q = Artifact(mode, b)
      BY <1>2, <1>3, <2>1
    <3>2. q \in DOMAIN s2.ledger /\ s2.effects = 1 /\ s2.out = <<Got("EXECUTE", 1), Got("DUPLICATE", 1)>>
      BY <1>8, <1>9, <1>10
    <3>3. NotAdmitted(s3, s2, "DUPLICATE")
      <4>1. Known(mode, s2.ledger, q, b) = "DUPLICATE"
        BY <1>4, <1>8, <1>10 DEF Known
      <4>2. NotAdmitted(s3, s2, Known(mode, s2.ledger, q, b))
        BY <3>1, <3>2, EnteredKnown
      <4> QED BY <4>1, <4>2
    <3>4. s3.effects = s2.effects + 0 /\ s3.out = Append(s2.out, Got("DUPLICATE", s2.effects + 0))
      BY <3>3 DEF NotAdmitted
    <3>5. s2.effects + 0 = 1
      BY <3>2
    <3>6. <<Got("EXECUTE", 1), Got("DUPLICATE", 1), Got("DUPLICATE", 1)>> = Append(<<Got("EXECUTE", 1), Got("DUPLICATE", 1)>>, Got("DUPLICATE", 1))
      OBVIOUS
    <3> QED BY <3>2, <3>3, <3>4, <3>5, <3>6
  <2>3. DOMAIN s3.ledger = {q}
    BY <1>8, <1>10, <2>2 DEF NotAdmitted
  <2>4. s4.effects = 2 /\ s4.out = <<Got("EXECUTE", 1), Got("DUPLICATE", 1), Got("DUPLICATE", 1), Got("EXECUTE", 2)>> /\ Admitted(s4, s3, t, c)
    <3>1. s4 = Entered(mode, s3, c) /\ t = Artifact(mode, c)
      BY <1>2, <1>3
    <3>2. t \notin DOMAIN s3.ledger /\ s3.effects = 1 /\ s3.out = <<Got("EXECUTE", 1), Got("DUPLICATE", 1), Got("DUPLICATE", 1)>>
      BY <2>1, <2>2, <2>3
    <3>3. Admitted(s4, s3, t, c)
      BY <3>1, <3>2, EnteredNew
    <3>4. s4.effects = s3.effects + 1 /\ s4.out = Append(s3.out, Got("EXECUTE", s3.effects + 1))
      BY <3>3 DEF Admitted
    <3>5. s3.effects + 1 = 2
      BY <3>2
    <3>6. <<Got("EXECUTE", 1), Got("DUPLICATE", 1), Got("DUPLICATE", 1), Got("EXECUTE", 2)>> = Append(<<Got("EXECUTE", 1), Got("DUPLICATE", 1), Got("DUPLICATE", 1)>>, Got("EXECUTE", 2))
      OBVIOUS
    <3> QED BY <3>2, <3>3, <3>4, <3>5, <3>6
  <2> QED BY <1>11, <1>13, <2>4 DEF Outcomes, Got
<1>14. CASE mode = "digest_inside"
  <2>1. q # r /\ q # t /\ r # t
    BY <1>1, <1>3, <1>14, EventRefs
  <2>2. s3.effects = 2 /\ s3.out = <<Got("EXECUTE", 1), Got("DUPLICATE", 1), Got("EXECUTE", 2)>> /\ Admitted(s3, s2, r, b)
    <3>1. s3 = Entered(mode, s2, b) /\ r = Artifact(mode, b)
      BY <1>2, <1>3
    <3>2. r \notin DOMAIN s2.ledger /\ s2.effects = 1 /\ s2.out = <<Got("EXECUTE", 1), Got("DUPLICATE", 1)>>
      BY <1>8, <1>9, <1>10, <2>1
    <3>3. Admitted(s3, s2, r, b)
      BY <3>1, <3>2, EnteredNew
    <3>4. s3.effects = s2.effects + 1 /\ s3.out = Append(s2.out, Got("EXECUTE", s2.effects + 1))
      BY <3>3 DEF Admitted
    <3>5. s2.effects + 1 = 2
      BY <3>2
    <3>6. <<Got("EXECUTE", 1), Got("DUPLICATE", 1), Got("EXECUTE", 2)>> = Append(<<Got("EXECUTE", 1), Got("DUPLICATE", 1)>>, Got("EXECUTE", 2))
      OBVIOUS
    <3> QED BY <3>2, <3>3, <3>4, <3>5, <3>6
  <2>3. DOMAIN s3.ledger = {q, r}
    BY <1>8, <1>10, <2>2 DEF Admitted
  <2>4. s4.effects = 3 /\ s4.out = <<Got("EXECUTE", 1), Got("DUPLICATE", 1), Got("EXECUTE", 2), Got("EXECUTE", 3)>> /\ Admitted(s4, s3, t, c)
    <3>1. s4 = Entered(mode, s3, c) /\ t = Artifact(mode, c)
      BY <1>2, <1>3
    <3>2. t \notin DOMAIN s3.ledger /\ s3.effects = 2 /\ s3.out = <<Got("EXECUTE", 1), Got("DUPLICATE", 1), Got("EXECUTE", 2)>>
      BY <2>1, <2>2, <2>3
    <3>3. Admitted(s4, s3, t, c)
      BY <3>1, <3>2, EnteredNew
    <3>4. s4.effects = s3.effects + 1 /\ s4.out = Append(s3.out, Got("EXECUTE", s3.effects + 1))
      BY <3>3 DEF Admitted
    <3>5. s3.effects + 1 = 3
      BY <3>2
    <3>6. <<Got("EXECUTE", 1), Got("DUPLICATE", 1), Got("EXECUTE", 2), Got("EXECUTE", 3)>> = Append(<<Got("EXECUTE", 1), Got("DUPLICATE", 1), Got("EXECUTE", 2)>>, Got("EXECUTE", 3))
      OBVIOUS
    <3> QED BY <3>2, <3>3, <3>4, <3>5, <3>6
  <2> QED BY <1>11, <1>14, <2>4 DEF Outcomes, Got
<1> QED BY <1>12, <1>13, <1>14 DEF Modes

\* Where the outcomes of a mode part from those declared.
LEMMA DivergesAsExpected ==
  ASSUME NEW mode \in Modes
  PROVE  FirstDivergence(Outcomes[mode]) = ExpectedDivergence[mode]
<1>1. PICK x : x = Outcomes[mode]
  OBVIOUS
<1>2. PICK apart : apart = {i \in DOMAIN x : x[i] # Declared[i]}
  OBVIOUS
<1>3. FirstDivergence(x) = IF apart = {} THEN <<>>
                           ELSE LET first == CHOOSE i \in apart : \A j \in apart : i <= j IN <<first, x[first]>>
  BY <1>2 DEF FirstDivergence
<1>4. /\ Declared[1] = <<"EXECUTE", 1>> /\ Declared[2] = <<"DUPLICATE", 1>>
      /\ Declared[3] = <<"EXECUTE", 2>> /\ Declared[4] = <<"CONFLICT", 2>>
  BY DEF Declared
<1>5. ASSUME NEW k \in Nat, apart = {k}
      PROVE  FirstDivergence(x) = <<k, x[k]>>
  <2>1. PICK first : first = CHOOSE i \in apart : \A j \in apart : i <= j
    OBVIOUS
  <2>2. k \in apart /\ \A j \in apart : k <= j
    BY <1>5
  <2>3. first \in apart
    BY <2>1, <2>2
  <2>4. first = k
    BY <1>5, <2>3
  <2>5. apart # {}
    BY <2>2
  <2> QED BY <1>3, <2>1, <2>4, <2>5
<1>6. /\ \A u, v, m, n : <<u, m>> = <<v, n>> => u = v /\ m = n
  <2>1. ASSUME NEW u, NEW v, NEW m, NEW n, <<u, m>> = <<v, n>> PROVE u = v /\ m = n
    <3>1. <<u, m>>[1] = u /\ <<v, n>>[1] = v /\ <<u, m>>[2] = m /\ <<v, n>>[2] = n
      OBVIOUS
    <3> QED BY <2>1, <3>1
  <2> QED BY <2>1
<1>7. CASE mode = "conformant"
  <2>1. x = Declared
    BY <1>1, <1>7 DEF Outcomes
  <2>2. apart = {}
    BY <1>2, <2>1
  <2> QED BY <1>1, <1>3, <1>7, <2>2 DEF ExpectedDivergence
<1>8. CASE mode = "content_key"
  <2>1. x = <<<<"EXECUTE", 1>>, <<"DUPLICATE", 1>>, <<"DUPLICATE", 1>>, <<"EXECUTE", 2>>>>
    BY <1>1, <1>8 DEF Outcomes
  <2>2. /\ DOMAIN x = 1..4 /\ x[1] = Declared[1] /\ x[2] = Declared[2]
        /\ x[3] = <<"DUPLICATE", 1>> /\ x[4] = <<"EXECUTE", 2>>
    BY <1>4, <2>1
  <2>3. x[3] # Declared[3] /\ x[4] # Declared[4]
    BY <1>4, <1>6, <2>2
  <2>4. apart = {3, 4}
    BY <1>2, <2>2, <2>3
  <2>5. PICK first : first = CHOOSE i \in apart : \A j \in apart : i <= j
    OBVIOUS
  <2>6. first \in apart /\ \A j \in apart : first <= j
    <3>1. 3 \in apart /\ \A j \in apart : 3 <= j
      BY <2>4
    <3> QED BY <2>5, <3>1
  <2>7. first = 3 /\ apart # {}
    BY <2>4, <2>6
  <2>8. FirstDivergence(x) = <<3, <<"DUPLICATE", 1>>>>
    BY <1>3, <2>2, <2>5, <2>7
  <2> QED BY <1>1, <1>8, <2>8 DEF ExpectedDivergence
<1>9. CASE mode = "no_digest_check"
  <2>1. x = <<<<"EXECUTE", 1>>, <<"DUPLICATE", 1>>, <<"EXECUTE", 2>>, <<"DUPLICATE", 2>>>>
    BY <1>1, <1>9 DEF Outcomes
  <2>2. /\ DOMAIN x = 1..4 /\ x[1] = Declared[1] /\ x[2] = Declared[2] /\ x[3] = Declared[3]
        /\ x[4] = <<"DUPLICATE", 2>>
    BY <1>4, <2>1
  <2>3. x[4] # Declared[4]
    BY <1>4, <1>6, <2>2
  <2>4. apart = {4}
    BY <1>2, <2>2, <2>3
  <2>5. FirstDivergence(x) = <<4, <<"DUPLICATE", 2>>>>
    BY <1>5, <2>2, <2>4
  <2> QED BY <1>1, <1>9, <2>5 DEF ExpectedDivergence
<1>10. CASE mode = "digest_inside"
  <2>1. x = <<<<"EXECUTE", 1>>, <<"DUPLICATE", 1>>, <<"EXECUTE", 2>>, <<"EXECUTE", 3>>>>
    BY <1>1, <1>10 DEF Outcomes
  <2>2. /\ DOMAIN x = 1..4 /\ x[1] = Declared[1] /\ x[2] = Declared[2] /\ x[3] = Declared[3]
        /\ x[4] = <<"EXECUTE", 3>>
    BY <1>4, <2>1
  <2>3. x[4] # Declared[4]
    BY <1>4, <1>6, <2>2
  <2>4. apart = {4}
    BY <1>2, <2>2, <2>3
  <2>5. FirstDivergence(x) = <<4, <<"EXECUTE", 3>>>>
    BY <1>5, <2>2, <2>4
  <2> QED BY <1>1, <1>10, <2>5 DEF ExpectedDivergence
<1> QED BY <1>7, <1>8, <1>9, <1>10 DEF Modes

\* A guard of the mode whose records are the ledger.
Mirrors(w, s) ==
  /\ IsWorld(w) /\ w.effects \in Seq(Calls) /\ s.effects = Len(w.effects)
  /\ DOMAIN w.records = DOMAIN s.ledger
  /\ \A r \in DOMAIN w.records : w.records[r].digest = s.ledger[r]

\* What the guard answers is what the ledger notes.
Notes(run, v, z, s) ==
  \E outcome : /\ z.out = Append(s.out, Got(outcome, Len(v.effects)))
               /\ run = "returns" => v.last.outcome = outcome
               /\ DOMAIN s.ledger = {} => outcome = "EXECUTE"

\* It takes a call as the ledger takes the event.
LEMMA DispatchIsEntry ==
  ASSUME NEW mode \in Modes, NEW w, NEW s, Mirrors(w, s), NEW c \in Calls, NEW run \in {"returns", "lost_ack"},
         NEW v, v = Attempt(mode, w, c, run), NEW z, z = Entered(mode, s, c)
  PROVE  Mirrors(v, z) /\ Notes(run, v, z, s)
<1>1. PICK ref : ref = Artifact(mode, c)
  OBVIOUS
<1>2. v = LogicalDispatch(mode, w, c, run)
  BY DEF Attempt, Modes
<1>3. /\ IsWorld(w) /\ w.effects \in Seq(Calls) /\ s.effects = Len(w.effects)
      /\ DOMAIN w.records = DOMAIN s.ledger /\ \A r \in DOMAIN w.records : w.records[r].digest = s.ledger[r]
  BY DEF Mirrors
<1>4. CASE ref \in DOMAIN s.ledger
  <2>1. PICK outcome : outcome = Known(mode, s.ledger, ref, c)
    OBVIOUS
  <2>2. NotAdmitted(z, s, outcome)
    BY <1>1, <1>4, <2>1, EnteredKnown
  <2>3. \E x : v = [w EXCEPT !.last = Returned(outcome, x)]
    <3>1. CASE mode = "no_digest_check" \/ w.records[ref].digest = c.args
      <4>1. outcome = "DUPLICATE"
        BY <1>3, <1>4, <2>1, <3>1 DEF Known
      <4>2. v = [w EXCEPT !.last = Returned("DUPLICATE", w.records[ref].effect)]
        BY <1>1, <1>2, <1>3, <1>4, <3>1 DEF LogicalDispatch, Refuse
      <4> QED BY <4>1, <4>2
    <3>2. CASE ~(mode = "no_digest_check" \/ w.records[ref].digest = c.args)
      <4>1. outcome = "CONFLICT"
        BY <1>3, <1>4, <2>1, <3>2 DEF Known
      <4>2. v = [w EXCEPT !.last = Returned("CONFLICT", NoEffect)]
        BY <1>1, <1>2, <1>3, <1>4, <3>2 DEF LogicalDispatch, Refuse
      <4> QED BY <4>1, <4>2
    <3> QED BY <3>1, <3>2
  <2>4. PICK l : v = World(w.records, w.bound, w.effects, l) /\ l.outcome = outcome
    BY <1>3, <2>3 DEF IsWorld, World, Returned
  <2>5. IsWorld(v) /\ v.records = w.records /\ v.effects = w.effects /\ v.last = l
    BY <2>4 DEF IsWorld, World
  <2>6. Len(w.effects) \in Nat
    BY <1>3
  <2>7. /\ z.ledger = s.ledger /\ z.effects = s.effects + 0
        /\ z.out = Append(s.out, Got(outcome, s.effects + 0)) /\ s.effects + 0 = Len(v.effects)
    BY <1>3, <2>2, <2>5, <2>6 DEF NotAdmitted
  <2>8. Mirrors(v, z)
    BY <1>3, <2>5, <2>7 DEF Mirrors
  <2> QED BY <1>4, <2>4, <2>5, <2>7, <2>8 DEF Notes
<1>5. CASE ref \notin DOMAIN s.ledger
  <2>1. Admitted(z, s, ref, c)
    BY <1>1, <1>5, EnteredNew
  <2>2. PICK rec : rec = [digest |-> c.args, effect |-> Len(w.effects) + 1]
    OBVIOUS
  <2>3. rec.digest = c.args
    BY <2>2
  <2>4. v = RunEffect(w, c, run, "EXECUTE", With(w.records, ref, rec),
                      With(w.records, ref, [digest |-> c.args, effect |-> NoEffect]))
    BY <1>1, <1>2, <1>3, <1>5, <2>2 DEF LogicalDispatch
  <2>5. PICK q, e, l :
          /\ q = With(w.records, ref, rec) /\ e = Append(w.effects, c)
          /\ l = IF run = "returns" THEN Returned("EXECUTE", Len(w.effects) + 1) ELSE Raised
    OBVIOUS
  <2>6. v = World(q, w.bound, e, l)
    BY <2>4, <2>5 DEF RunEffect, ApplyEffect, World
  <2>7. IsWorld(v) /\ v.records = q /\ v.effects = e /\ v.last = l
    BY <2>6 DEF IsWorld, World
  <2>8. DOMAIN q = DOMAIN w.records \cup {ref} /\ q[ref] = rec /\ \A r \in DOMAIN w.records : r # ref => q[r] = w.records[r]
    BY <2>5 DEF With
  <2>9. e \in Seq(Calls) /\ Len(e) = Len(w.effects) + 1
    BY <1>3, <2>5, AppendIs
  <2>10. /\ DOMAIN z.ledger = DOMAIN s.ledger \cup {ref} /\ z.ledger[ref] = c.args
         /\ \A r \in DOMAIN s.ledger : z.ledger[r] = s.ledger[r]
         /\ z.effects = s.effects + 1 /\ z.out = Append(s.out, Got("EXECUTE", s.effects + 1))
    BY <2>1 DEF Admitted
  <2>11. z.effects = Len(v.effects) /\ z.out = Append(s.out, Got("EXECUTE", Len(v.effects)))
    BY <1>3, <2>7, <2>9, <2>10
  <2>12. Mirrors(v, z)
    <3>1. \A r \in DOMAIN q : q[r].digest = z.ledger[r]
      BY <1>3, <1>5, <2>3, <2>8, <2>10
    <3>2. DOMAIN q = DOMAIN z.ledger
      BY <1>3, <2>8, <2>10
    <3> QED BY <2>7, <2>9, <2>11, <3>1, <3>2 DEF Mirrors
  <2>13. run = "returns" => v.last.outcome = "EXECUTE"
    BY <2>5, <2>7 DEF Returned
  <2> QED BY <2>11, <2>12, <2>13 DEF Notes
<1> QED BY <1>4, <1>5

\* So the guards have the outcomes of the ledgers.
LEMMA CaseIsReplay ==
  ASSUME NEW mode \in Modes
  PROVE  LogicalIdentityCase(mode) = Replay(mode, Events).out
<1>1. PICK a, b, c : a = Call("A", 100) /\ b = Call("B", 100) /\ c = Call("A", 250)
  OBVIOUS
<1>2. a \in Calls /\ b \in Calls /\ c \in Calls
  BY <1>1 DEF Calls
<1>3. PICK s1, s2, s3, s4 :
        /\ s1 = Entered(mode, NoReplay, a) /\ s2 = Entered(mode, s1, a)
        /\ s3 = Entered(mode, s2, b) /\ s4 = Entered(mode, s3, c)
        /\ Replay(mode, Events) = s4
  BY <1>1, ReplayOfEvents
<1>4. PICK w1, w2, w3, w4 :
        /\ w1 = Attempt(mode, NewGuard, a, "lost_ack") /\ w2 = Attempt(mode, w1, a, "returns")
        /\ w3 = Attempt(mode, w2, b, "returns") /\ w4 = Attempt(mode, w3, c, "returns")
  OBVIOUS
<1>5. LogicalIdentityCase(mode) =
        <<Got("EXECUTE", Len(w1.effects)), Got(w2.last.outcome, Len(w2.effects)),
          Got(w3.last.outcome, Len(w3.effects)), Got(w4.last.outcome, Len(w4.effects))>>
  <2>1. Events[1] = a /\ Events[2] = a /\ Events[3] = b /\ Events[4] = c
    BY <1>1 DEF Events, PayOf
  <2> QED BY <1>4, <2>1 DEF LogicalIdentityCase, Got
<1>6. PICK w, s : w = NewGuard /\ s = NoReplay
  OBVIOUS
<1>7. DOMAIN s.ledger = {} /\ s.out = <<>> /\ Mirrors(w, s)
  BY <1>6 DEF NewGuard, NoReplay, Mirrors, IsWorld, World
<1>8. Mirrors(w1, s1) /\ s1.out = Append(<<>>, Got("EXECUTE", Len(w1.effects)))
  <2>1. w1 = Attempt(mode, w, a, "lost_ack") /\ s1 = Entered(mode, s, a)
    BY <1>3, <1>4, <1>6
  <2>2. Mirrors(w1, s1) /\ Notes("lost_ack", w1, s1, s)
    BY <1>2, <1>7, <2>1, DispatchIsEntry
  <2> QED BY <1>7, <2>2 DEF Notes
<1>9. Mirrors(w2, s2) /\ s2.out = Append(s1.out, Got(w2.last.outcome, Len(w2.effects)))
  <2>1. w2 = Attempt(mode, w1, a, "returns") /\ s2 = Entered(mode, s1, a)
    BY <1>3, <1>4
  <2>2. Mirrors(w2, s2) /\ Notes("returns", w2, s2, s1)
    BY <1>2, <1>8, <2>1, DispatchIsEntry
  <2> QED BY <2>2 DEF Notes
<1>10. Mirrors(w3, s3) /\ s3.out = Append(s2.out, Got(w3.last.outcome, Len(w3.effects)))
  <2>1. w3 = Attempt(mode, w2, b, "returns") /\ s3 = Entered(mode, s2, b)
    BY <1>3, <1>4
  <2>2. Mirrors(w3, s3) /\ Notes("returns", w3, s3, s2)
    BY <1>2, <1>9, <2>1, DispatchIsEntry
  <2> QED BY <2>2 DEF Notes
<1>11. s4.out = Append(s3.out, Got(w4.last.outcome, Len(w4.effects)))
  <2>1. w4 = Attempt(mode, w3, c, "returns") /\ s4 = Entered(mode, s3, c)
    BY <1>3, <1>4
  <2>2. Mirrors(w4, s4) /\ Notes("returns", w4, s4, s3)
    BY <1>2, <1>10, <2>1, DispatchIsEntry
  <2> QED BY <2>2 DEF Notes
<1>12. PICK o1, o2, o3, o4 :
         /\ o1 = Got("EXECUTE", Len(w1.effects)) /\ o2 = Got(w2.last.outcome, Len(w2.effects))
         /\ o3 = Got(w3.last.outcome, Len(w3.effects)) /\ o4 = Got(w4.last.outcome, Len(w4.effects))
  OBVIOUS
<1>13. <<o1, o2, o3, o4>> = Append(Append(Append(Append(<<>>, o1), o2), o3), o4)
  OBVIOUS
<1>14. s4.out = Append(Append(Append(Append(<<>>, o1), o2), o3), o4)
  BY <1>8, <1>9, <1>10, <1>11, <1>12
<1>15. LogicalIdentityCase(mode) = <<o1, o2, o3, o4>>
  BY <1>5, <1>12
<1> QED BY <1>3, <1>13, <1>14, <1>15

\* The vectors come out as their verifiers require, over the ledger and through the guards.
LEMMA VectorsVerify == \A mode \in Modes : LedgerVerifies(mode) /\ GuardVerifies(mode)
BY ReplayOutcomes, DivergesAsExpected, CaseIsReplay DEF LedgerVerifies, GuardVerifies

-----------------------------------------------------------------------------
(* The cases of the worked example.                                           *)

\* A single call of use is one attempt.
LEMMA UseOnce ==
  ASSUME NEW t, NEW w, NEW call, NEW run
  PROVE  Use(t, w, call, 1, run) = Attempt(t, w, call, run)
<1>1. /\ Use(t, w, call, 0, run) = w
      /\ Use(t, w, call, 0 + 1, run) =
           IF 0 + 1 > 1 /\ Use(t, w, call, 0, run).last.returned THEN Use(t, w, call, 0, run)
           ELSE Attempt(t, Use(t, w, call, 0, run), call, run)
  BY UseSteps
<1>2. 0 + 1 = 1 /\ ~(1 > 1)
  OBVIOUS
<1> QED BY <1>1, <1>2

\* The worlds use goes through, as a function.
LEMMA UseGoes ==
  ASSUME NEW t, NEW w, NEW call, NEW run
  PROVE  \E V : /\ \A k \in Nat : V[k] = Use(t, w, call, k, run)
               /\ V[0] = w
               /\ \A m \in Nat : V[m + 1] = IF m + 1 > 1 /\ V[m].last.returned THEN V[m]
                                            ELSE Attempt(t, V[m], call, run)
<1>1. PICK V : V = [k \in Nat |-> Use(t, w, call, k, run)]
  OBVIOUS
<1>2. \A k \in Nat : V[k] = Use(t, w, call, k, run)
  BY <1>1
<1>3. V[0] = w
  <2>1. Use(t, w, call, 0, run) = w
    BY UseSteps
  <2> QED BY <1>2, <2>1
<1>4. ASSUME NEW m \in Nat
      PROVE  V[m + 1] = IF m + 1 > 1 /\ V[m].last.returned THEN V[m] ELSE Attempt(t, V[m], call, run)
  <2>1. PICK k : k = m + 1
    OBVIOUS
  <2>2. V[m] = Use(t, w, call, m, run) /\ V[k] = Use(t, w, call, m + 1, run)
    BY <1>2, <2>1
  <2>3. Use(t, w, call, m + 1, run) =
          IF m + 1 > 1 /\ Use(t, w, call, m, run).last.returned THEN Use(t, w, call, m, run)
          ELSE Attempt(t, Use(t, w, call, m, run), call, run)
    BY UseSteps
  <2> QED BY <2>1, <2>2, <2>3
<1> QED BY <1>2, <1>3, <1>4

\* Unguarded, each attempt of a tool that raises has its effect.
LEMMA UnguardedRepeats ==
  ASSUME NEW n \in Nat
  PROVE  LET v == Use("unguarded", NewGuard, PayOf(100), n, "raises_after")
         IN /\ v.effects \in Seq(Calls) /\ Len(v.effects) = n /\ IsWorld(v)
            /\ v.last = Raised
<1>2. PICK V : /\ \A k \in Nat : V[k] = Use("unguarded", NewGuard, PayOf(100), k, "raises_after")
               /\ V[0] = NewGuard
               /\ \A m \in Nat : V[m + 1] = IF m + 1 > 1 /\ V[m].last.returned THEN V[m]
                                            ELSE Attempt("unguarded", V[m], PayOf(100), "raises_after")
  BY UseGoes
<1> DEFINE Good(k) == V[k].effects \in Seq(Calls) /\ Len(V[k].effects) = k /\ IsWorld(V[k]) /\ V[k].last = Raised
           Bad == {k \in Nat : ~Good(k)}
<1> SUFFICES ASSUME Bad # {} PROVE FALSE
  <2>1. Bad = {} => Good(n)
    OBVIOUS
  <2> QED BY <2>1, <1>2
<1>1. PICK k \in Bad : \A m \in Bad : k <= m
  <2> HIDE DEF Bad
  <2>1. Bad \subseteq Nat
    BY DEF Bad
  <2> QED BY <2>1, LeastNatural
<1>3. Good(0)
  <2>1. NewGuard.effects = <<>> /\ NewGuard.last = Raised /\ IsWorld(NewGuard)
    BY DEF NewGuard, IsWorld, World
  <2>2. <<>> \in Seq(Calls) /\ Len(<<>>) = 0
    OBVIOUS
  <2> QED BY <1>2, <2>1, <2>2
<1>4. k # 0
  BY <1>1, <1>3
<1>5. PICK m : m = k - 1
  OBVIOUS
<1>6. m \in Nat /\ k = m + 1 /\ Good(m)
  BY <1>1, <1>4, <1>5
<1>7. PICK w, v : w = V[m] /\ v = V[k]
  OBVIOUS
<1>8. w.effects \in Seq(Calls) /\ Len(w.effects) = m /\ IsWorld(w) /\ ~w.last.returned
  BY <1>6, <1>7 DEF Raised
<1>9. v = Attempt("unguarded", w, PayOf(100), "raises_after")
  BY <1>2, <1>6, <1>7, <1>8
<1>10. v = World(w.records, w.bound, Append(w.effects, PayOf(100)), Raised)
  BY <1>9 DEF Attempt, Unguarded, RunEffect, ApplyEffect, World
<1>11. v.effects = Append(w.effects, PayOf(100)) /\ v.last = Raised /\ IsWorld(v)
  BY <1>10 DEF World, IsWorld
<1>12. PayOf(100) \in Calls
  BY DEF PayOf, Calls
<1>13. v.effects \in Seq(Calls) /\ Len(v.effects) = m + 1
  BY <1>8, <1>11, <1>12, AppendIs
<1>14. Good(k)
  BY <1>6, <1>7, <1>11, <1>13
<1> QED BY <1>1, <1>14

\* What Guard does of an action it has no record of, and of one it has.
LEMMA GuardComesTo ==
  ASSUME NEW w, IsWorld(w), NEW n
  PROVE  LET c == PayOf(n)
             done == [status |-> "COMMITTED", effect |-> Len(w.effects) + 1]
         IN /\ "A" \notin DOMAIN w.records =>
                 /\ Guard(w, c, "returns") = World(With(w.records, "A", done), w.bound, Append(w.effects, c),
                                                   Returned("COMMITTED", Len(w.effects) + 1))
                 /\ Guard(w, c, "raises_after") = World(With(w.records, "A", Pending), w.bound, Append(w.effects, c), Raised)
            /\ \A run : Status(w, "A") = "PENDING" =>
                 Guard(w, c, run) = World(w.records, w.bound, w.effects, Returned("PENDING_GUARD", NoEffect))
            /\ \A run : Status(w, "A") = "COMMITTED" =>
                 Guard(w, c, run) = World(w.records, w.bound, w.effects, Returned("RECONCILED_GUARD", w.records["A"].effect))
<1>1. PICK c, done : c = PayOf(n) /\ done = [status |-> "COMMITTED", effect |-> Len(w.effects) + 1]
  OBVIOUS
<1>2. IdempotencyRef(c) = "A"
  BY <1>1 DEF IdempotencyRef, PayOf, Call
<1>3. ASSUME "A" \notin DOMAIN w.records, NEW run
      PROVE  Guard(w, c, run) = RunEffect(w, c, run, "COMMITTED", With(w.records, "A", done), With(w.records, "A", Pending))
  BY <1>1, <1>2, <1>3 DEF Guard, Status
<1>4. ASSUME "A" \notin DOMAIN w.records
      PROVE  /\ Guard(w, c, "returns") = World(With(w.records, "A", done), w.bound, Append(w.effects, c),
                                               Returned("COMMITTED", Len(w.effects) + 1))
             /\ Guard(w, c, "raises_after") = World(With(w.records, "A", Pending), w.bound, Append(w.effects, c), Raised)
  BY <1>3, <1>4 DEF RunEffect, ApplyEffect, World
<1>5. ASSUME NEW run, Status(w, "A") = "PENDING"
      PROVE  Guard(w, c, run) = World(w.records, w.bound, w.effects, Returned("PENDING_GUARD", NoEffect))
  BY <1>2, <1>5 DEF Guard, Refuse, IsWorld, World
<1>6. ASSUME NEW run, Status(w, "A") = "COMMITTED"
      PROVE  Guard(w, c, run) = World(w.records, w.bound, w.effects, Returned("RECONCILED_GUARD", w.records["A"].effect))
  BY <1>2, <1>6 DEF Guard, Refuse, IsWorld, World
<1> QED BY <1>1, <1>4, <1>5, <1>6

\* The first process of a case has nothing.
LEMMA NewGuardIs ==
  /\ NewGuard = World(<<>>, <<>>, <<>>, Raised) /\ IsWorld(NewGuard)
  /\ NewGuard.records = <<>> /\ NewGuard.bound = <<>> /\ NewGuard.effects = <<>>
  /\ "A" \notin DOMAIN <<>> /\ \A x : Append(<<>>, x) = <<x>>
<1>1. \A x : Append(<<>>, x) = <<x>>
  OBVIOUS
<1>2. "A" \notin DOMAIN <<>>
  OBVIOUS
<1> QED BY <1>1, <1>2 DEF NewGuard, World, IsWorld

\* What Guard does of the first call: with an effect that returns, or raises.
LEMMA GuardOfNew ==
  /\ Guard(NewGuard, PayOf(100), "returns") =
       World(With(<<>>, "A", [status |-> "COMMITTED", effect |-> 1]), <<>>, <<PayOf(100)>>, Returned("COMMITTED", 1))
  /\ Guard(NewGuard, PayOf(100), "raises_after") = World(With(<<>>, "A", Pending), <<>>, <<PayOf(100)>>, Raised)
<1>1. PICK w, c : w = NewGuard /\ c = PayOf(100)
  OBVIOUS
<1>2. IsWorld(w) /\ w.records = <<>> /\ w.bound = <<>> /\ w.effects = <<>> /\ "A" \notin DOMAIN w.records
  BY <1>1, NewGuardIs
<1>3. Len(w.effects) = 0 /\ Append(w.effects, c) = <<c>>
  BY <1>2, NewGuardIs
<1>4. 0 + 1 = 1
  OBVIOUS
<1>5. /\ Guard(w, c, "returns") = World(With(w.records, "A", [status |-> "COMMITTED", effect |-> Len(w.effects) + 1]),
                                       w.bound, Append(w.effects, c), Returned("COMMITTED", Len(w.effects) + 1))
      /\ Guard(w, c, "raises_after") = World(With(w.records, "A", Pending), w.bound, Append(w.effects, c), Raised)
  BY <1>1, <1>2, GuardComesTo
<1> QED BY <1>1, <1>2, <1>3, <1>4, <1>5

\* Reconciling a pending record against the one effect there is.
LEMMA ReconcileComesTo ==
  ASSUME NEW w, IsWorld(w), w.records = With(<<>>, "A", Pending), w.effects = <<PayOf(100)>>
  PROVE  LET v == Reconcile(w, "A")
         IN /\ v.effects = w.effects /\ v.last = w.last
            /\ v.records["A"] = [status |-> "COMMITTED", effect |-> 1]
<1>1. PICK r, rec : r = w.records /\ rec = [status |-> "COMMITTED", effect |-> 1]
  OBVIOUS
<1>2. DOMAIN r = DOMAIN <<>> \cup {"A"} /\ r["A"] = Pending
  BY <1>1 DEF With
<1>3. Status(w, "A") = "PENDING"
  BY <1>1, <1>2 DEF Status, Pending
<1>4. EffectsIn(w, "A") = {1}
  <2>1. DOMAIN w.effects = {1} /\ w.effects[1] = PayOf(100)
    OBVIOUS
  <2>2. w.effects[1].action = "A"
    BY <2>1 DEF PayOf, Call
  <2> QED BY <2>1, <2>2 DEF EffectsIn
<1>5. (CHOOSE i \in EffectsIn(w, "A") : \A j \in EffectsIn(w, "A") : i <= j) = 1
  <2>1. PICK seen : seen = EffectsIn(w, "A")
    OBVIOUS
  <2>2. seen = {1}
    BY <1>4, <2>1
  <2>3. PICK k : k = CHOOSE i \in seen : \A j \in seen : i <= j
    OBVIOUS
  <2>4. k \in seen
    BY <2>2, <2>3
  <2> QED BY <2>1, <2>2, <2>3, <2>4
<1>6. Reconcile(w, "A") = [w EXCEPT !.records = With(@, "A", rec)]
  BY <1>1, <1>3, <1>4, <1>5 DEF Reconcile
<1>7. PICK q : q = With(r, "A", rec)
  OBVIOUS
<1>8. Reconcile(w, "A") = World(q, w.bound, w.effects, w.last)
  BY <1>1, <1>6, <1>7 DEF IsWorld, World
<1>9. q["A"] = rec
  BY <1>7 DEF With
<1> QED BY <1>1, <1>8, <1>9 DEF World

\* After one attempt that raises, the guard refuses the rest.
LEMMA GuardedStays ==
  ASSUME NEW n \in Nat, n # 0
  PROVE  LET v == Use("guarded", NewGuard, PayOf(100), n, "raises_after")
         IN IsWorld(v) /\ v.records = With(<<>>, "A", Pending) /\ v.effects = <<PayOf(100)>>
<1>2. PICK V : /\ \A k \in Nat : V[k] = Use("guarded", NewGuard, PayOf(100), k, "raises_after")
               /\ V[0] = NewGuard
               /\ \A m \in Nat : V[m + 1] = IF m + 1 > 1 /\ V[m].last.returned THEN V[m]
                                            ELSE Attempt("guarded", V[m], PayOf(100), "raises_after")
  BY UseGoes
<1>3. PICK first : first = With(<<>>, "A", Pending)
  OBVIOUS
<1> DEFINE Good(k) == IsWorld(V[k]) /\ V[k].records = first /\ V[k].effects = <<PayOf(100)>>
           Bad == {k \in Nat : k # 0 /\ ~Good(k)}
<1> SUFFICES ASSUME Bad # {} PROVE FALSE
  <2>1. Bad = {} => Good(n)
    OBVIOUS
  <2> QED BY <2>1, <1>2, <1>3
<1>1. PICK k \in Bad : \A m \in Bad : k <= m
  <2> HIDE DEF Bad
  <2>1. Bad \subseteq Nat
    BY DEF Bad
  <2> QED BY <2>1, LeastNatural
<1>4. \A w : Attempt("guarded", w, PayOf(100), "raises_after") = Guard(w, PayOf(100), "raises_after")
  BY DEF Attempt
<1>5. Good(1)
  <2>1. V[1] = Use("guarded", NewGuard, PayOf(100), 1, "raises_after")
    BY <1>2
  <2>2. V[1] = Guard(NewGuard, PayOf(100), "raises_after")
    BY <1>4, <2>1, UseOnce
  <2>3. PICK v : v = World(first, <<>>, <<PayOf(100)>>, Raised)
    OBVIOUS
  <2>4. V[1] = v
    BY <1>3, <2>2, <2>3, GuardOfNew
  <2>5. IsWorld(v) /\ v.records = first /\ v.effects = <<PayOf(100)>>
    BY <2>3 DEF World, IsWorld
  <2> QED BY <2>4, <2>5
<1>6. k # 0 /\ k # 1 /\ k \in Nat
  BY <1>1, <1>5
<1>7. PICK m : m = k - 1
  OBVIOUS
<1>8. m \in Nat /\ m # 0 /\ k = m + 1 /\ Good(m)
  BY <1>1, <1>6, <1>7
<1>9. PICK w, v : w = V[m] /\ v = V[k]
  OBVIOUS
<1>10. IsWorld(w) /\ w.records = first /\ w.effects = <<PayOf(100)>>
  BY <1>8, <1>9
<1>11. v = w \/ v = Guard(w, PayOf(100), "raises_after")
  BY <1>2, <1>4, <1>8, <1>9
<1>12. Status(w, "A") = "PENDING"
  <2>1. PICK r : r = With(<<>>, "A", Pending)
    OBVIOUS
  <2>2. "A" \in DOMAIN r /\ r["A"] = Pending
    BY <2>1 DEF With
  <2> QED BY <1>3, <1>10, <2>1, <2>2 DEF Status, Pending
<1>13. v = w \/ v = World(w.records, w.bound, w.effects, Returned("PENDING_GUARD", NoEffect))
  BY <1>10, <1>11, <1>12, GuardComesTo
<1>14. IsWorld(v) /\ v.records = w.records /\ v.effects = w.effects
  BY <1>10, <1>13 DEF World, IsWorld
<1>15. Good(k)
  BY <1>9, <1>10, <1>14
<1> QED BY <1>1, <1>15

\* Unguarded, one logical payment is executed as often as it is attempted.
LEMMA UnguardedComesOut == Len(UnguardedCase.effects) > 1
<1>1. MAX_ATTEMPTS \in Nat /\ MAX_ATTEMPTS > 1
  BY ToolRetryAssumption
<1>2. Len(UnguardedCase.effects) = MAX_ATTEMPTS
  BY <1>1, UnguardedRepeats DEF UnguardedCase
<1> QED BY <1>1, <1>2

\* Guarded, once, and the record is reconciled to it.
LEMMA GuardedComesOut ==
  Len(GuardedCase.effects) = 1 /\ GuardedCase.records["A"].status = "COMMITTED"
<1>1. PICK w : w = Use("guarded", NewGuard, PayOf(100), MAX_ATTEMPTS, "raises_after")
  OBVIOUS
<1>2. MAX_ATTEMPTS \in Nat /\ MAX_ATTEMPTS # 0
  BY ToolRetryAssumption
<1>3. IsWorld(w) /\ w.records = With(<<>>, "A", Pending) /\ w.effects = <<PayOf(100)>>
  BY <1>1, <1>2, GuardedStays
<1>4. PICK v : v = Reconcile(w, "A")
  OBVIOUS
<1>5. v.effects = w.effects /\ v.records["A"] = [status |-> "COMMITTED", effect |-> 1]
  BY <1>3, <1>4, ReconcileComesTo
<1>6. GuardedCase = v
  BY <1>1, <1>4 DEF GuardedCase
<1>7. Len(v.effects) = 1
  BY <1>3, <1>5
<1> QED BY <1>5, <1>6, <1>7

\* The guard that does not look at the arguments calls the other amount paid.
LEMMA MismatchNaiveComesOut ==
  /\ ArgumentMismatchNaive.effects = <<PayOf(100)>>
  /\ ArgumentMismatchNaive.last.outcome = "RECONCILED_GUARD"
<1>1. PICK done, r : done = [status |-> "COMMITTED", effect |-> 1] /\ r = With(<<>>, "A", done)
  OBVIOUS
<1>2. "A" \in DOMAIN r /\ r["A"] = done /\ done.status = "COMMITTED"
  BY <1>1 DEF With
<1>3. PICK w : w = Use("guarded", NewGuard, PayOf(100), 1, "returns")
  OBVIOUS
<1>4. w = World(r, <<>>, <<PayOf(100)>>, Returned("COMMITTED", 1))
  BY <1>1, <1>3, UseOnce, GuardOfNew DEF Attempt
<1>5. IsWorld(w) /\ w.records = r /\ w.effects = <<PayOf(100)>>
  BY <1>4 DEF World, IsWorld
<1>6. Status(w, "A") = "COMMITTED"
  BY <1>2, <1>5 DEF Status
<1>7. PICK l : l = Returned("RECONCILED_GUARD", w.records["A"].effect)
  OBVIOUS
<1>8. Guard(w, PayOf(250), "returns") = World(w.records, w.bound, w.effects, l)
  <2>1. IdempotencyRef(PayOf(250)) = "A"
    BY DEF IdempotencyRef, PayOf, Call
  <2> QED BY <1>5, <1>6, <1>7, <2>1 DEF Guard, Refuse, IsWorld, World
<1>9. ArgumentMismatchNaive = Use("guarded", w, PayOf(250), 1, "returns")
  BY <1>3 DEF ArgumentMismatchNaive, MismatchCase
<1>10. ArgumentMismatchNaive = World(w.records, w.bound, w.effects, l)
  BY <1>8, <1>9, UseOnce DEF Attempt
<1>11. l.outcome = "RECONCILED_GUARD"
  BY <1>7 DEF Returned
<1> QED BY <1>5, <1>10, <1>11 DEF World

\* The guard that binds them asks for a new decision.
LEMMA MismatchGuardedComesOut ==
  /\ ArgumentMismatchGuarded.effects = <<PayOf(100)>>
  /\ ArgumentMismatchGuarded.last.outcome = "ARGUMENT_MISMATCH_REQUIRES_NEW_DECISION"
<1>1. PICK n, w : n = NewGuard /\ w = Use("bound", n, PayOf(100), 1, "returns")
  OBVIOUS
<1>2. IsWorld(n) /\ n.records = <<>> /\ n.bound = <<>> /\ n.effects = <<>> /\ "A" \notin DOMAIN n.bound
  BY <1>1, NewGuardIs
<1>3. /\ IdempotencyRef(PayOf(100)) = "A" /\ IdempotencyRef(PayOf(250)) = "A"
      /\ PayOf(100).args = 100 /\ PayOf(250).args = 250
  BY DEF IdempotencyRef, PayOf, Call
<1>4. PICK b, u : b = With(n.bound, "A", 100) /\ u = [n EXCEPT !.bound = With(@, "A", 100)]
  OBVIOUS
<1>5. "A" \in DOMAIN b /\ b["A"] = 100
  BY <1>4 DEF With
<1>6. u = World(n.records, b, n.effects, n.last)
  BY <1>2, <1>4 DEF World, IsWorld
<1>7. IsWorld(u) /\ u.records = <<>> /\ u.bound = b /\ u.effects = <<>>
  BY <1>2, <1>6 DEF World, IsWorld
<1>8. w = Guard(u, PayOf(100), "returns")
  <2>1. w = BoundGuard(n, PayOf(100), "returns")
    BY <1>1, UseOnce DEF Attempt
  <2> QED BY <2>1, <1>2, <1>3, <1>4 DEF BoundGuard
<1>9. "A" \notin DOMAIN u.records /\ Append(u.effects, PayOf(100)) = <<PayOf(100)>>
  BY <1>7, NewGuardIs
<1>10. PICK r, l : w = World(r, b, <<PayOf(100)>>, l)
  <2>1. Status(u, "A") = "none"
    BY <1>9 DEF Status
  <2>2. PICK wr, wx : w = RunEffect(u, PayOf(100), "returns", "COMMITTED", wr, wx)
    BY <1>3, <1>8, <2>1 DEF Guard
  <2> QED BY <1>7, <1>9, <2>2 DEF RunEffect, ApplyEffect, World
<1>11. IsWorld(w) /\ w.bound = b /\ w.effects = <<PayOf(100)>>
  BY <1>10 DEF World, IsWorld
<1>12. ArgumentMismatchGuarded = Use("bound", w, PayOf(250), 1, "returns")
  BY <1>1 DEF ArgumentMismatchGuarded, MismatchCase
<1>13. ArgumentMismatchGuarded = BoundGuard(w, PayOf(250), "returns")
  BY <1>12, UseOnce DEF Attempt
<1>14. PICK m : m = Returned("ARGUMENT_MISMATCH_REQUIRES_NEW_DECISION", NoEffect)
  OBVIOUS
<1>15. ArgumentMismatchGuarded = Refuse(w, "ARGUMENT_MISMATCH_REQUIRES_NEW_DECISION", NoEffect)
  <2>1. b["A"] # 250
    BY <1>5
  <2> QED BY <2>1, <1>3, <1>5, <1>11, <1>13 DEF BoundGuard
<1>16. ArgumentMismatchGuarded = World(w.records, w.bound, w.effects, m)
  BY <1>11, <1>14, <1>15 DEF Refuse, World, IsWorld
<1>17. m.outcome = "ARGUMENT_MISMATCH_REQUIRES_NEW_DECISION"
  BY <1>14 DEF Returned
<1> QED BY <1>11, <1>16, <1>17 DEF World

\* A restart between the effect and the retry: records in memory are lost.
LEMMA RestartNaiveComesOut ==
  Len(RestartNaive.effects) = 2 /\ RestartNaive.last.outcome = "COMMITTED"
<1>1. PICK p, w : p = PayOf(100) /\ w = Use("guarded", NewGuard, p, 1, "raises_after")
  OBVIOUS
<1>2. w = World(With(<<>>, "A", Pending), <<>>, <<p>>, Raised)
  BY <1>1, UseOnce, GuardOfNew DEF Attempt
<1>3. w.effects = <<p>>
  BY <1>2 DEF World
<1>4. PICK v : v = Restarted("guarded", w)
  OBVIOUS
<1>5. v = World(<<>>, <<>>, <<p>>, Raised)
  BY <1>3, <1>4 DEF Restarted, World
<1>6. IsWorld(v) /\ v.records = <<>> /\ v.effects = <<p>>
  BY <1>5 DEF World, IsWorld
<1>7. "A" \notin DOMAIN v.records
  BY <1>6, NewGuardIs
<1>8. RestartNaive = Guard(v, p, "returns")
  BY <1>1, <1>4, UseOnce DEF RestartNaive, RestartCase, Attempt
<1>9. PICK r, e, l : e = Append(v.effects, p) /\ l = Returned("COMMITTED", Len(v.effects) + 1)
                      /\ r = With(v.records, "A", [status |-> "COMMITTED", effect |-> Len(v.effects) + 1])
  OBVIOUS
<1>10. RestartNaive = World(r, v.bound, e, l)
  BY <1>1, <1>6, <1>7, <1>8, <1>9, GuardComesTo
<1>11. Len(e) = 2
  BY <1>6, <1>9
<1>12. l.outcome = "COMMITTED"
  BY <1>9 DEF Returned
<1> QED BY <1>10, <1>11, <1>12 DEF World

\* Durable ones are not, and are reconciled to the effect there is.
LEMMA RestartGuardedComesOut ==
  /\ Len(RestartGuarded.effects) = 1 /\ RestartGuarded.last.outcome = "PENDING_GUARD"
  /\ RestartGuarded.records["A"] = [status |-> "COMMITTED", effect |-> 1]
<1>1. PICK p, w : p = PayOf(100) /\ w = Use("durable", NewGuard, p, 1, "raises_after")
  OBVIOUS
<1>2. IdempotencyRef(p) = "A"
  BY <1>1 DEF IdempotencyRef, PayOf, Call
<1>3. w = Guard(NewGuard, p, "raises_after")
  <2>1. w = DurableGuard(NewGuard, p, "raises_after")
    BY <1>1, UseOnce DEF Attempt
  <2> QED BY <1>2, <2>1, NewGuardIs, DurableGuardIs
<1>4. PICK r : r = With(<<>>, "A", Pending)
  OBVIOUS
<1>5. w = World(r, <<>>, <<p>>, Raised)
  BY <1>1, <1>3, <1>4, GuardOfNew
<1>6. w.records = r /\ w.effects = <<p>>
  BY <1>5 DEF World
<1>7. PICK v : v = Restarted("durable", w)
  OBVIOUS
<1>8. v = World(r, <<>>, <<p>>, Raised)
  BY <1>6, <1>7 DEF Restarted, World
<1>9. IsWorld(v) /\ v.records = r /\ v.effects = <<p>>
  BY <1>8 DEF World, IsWorld
<1>10. "A" \in DOMAIN v.records /\ v.records["A"] = Pending /\ Pending.status = "PENDING"
  BY <1>4, <1>9 DEF With, Pending
<1>11. Status(v, "A") = "PENDING"
  BY <1>10 DEF Status
<1>12. PICK l : l = Returned("PENDING_GUARD", NoEffect)
  OBVIOUS
<1>13. Guard(v, p, "returns") = World(v.records, v.bound, v.effects, l)
  BY <1>1, <1>9, <1>11, <1>12, GuardComesTo
<1>14. PICK u : u = Use("durable", v, p, 1, "returns")
  OBVIOUS
<1>15. u = World(v.records, v.bound, v.effects, l)
  <2>1. u = DurableGuard(v, p, "returns")
    BY <1>14, UseOnce DEF Attempt
  <2>2. DurableGuard(v, p, "returns") = Guard(v, p, "returns")
    BY <1>2, <1>9, <1>10, DurableGuardIs
  <2> QED BY <2>1, <2>2, <1>13
<1>16. IsWorld(u) /\ u.records = r /\ u.effects = <<p>> /\ u.last = l
  BY <1>9, <1>15 DEF World, IsWorld
<1>17. PICK z : z = Reconcile(u, "A")
  OBVIOUS
<1>18. z.effects = u.effects /\ z.last = u.last /\ z.records["A"] = [status |-> "COMMITTED", effect |-> 1]
  BY <1>1, <1>4, <1>16, <1>17, ReconcileComesTo
<1>19. RestartGuarded = z
  BY <1>1, <1>7, <1>14, <1>17 DEF RestartGuarded, RestartCase
<1>20. l.outcome = "PENDING_GUARD"
  BY <1>12 DEF Returned
<1>21. Len(u.effects) = 1
  BY <1>16
<1> QED BY <1>16, <1>18, <1>19, <1>20, <1>21

\* The cases come out as the runners require.
LEMMA CasesHold == CasesComeOut
<1> QED BY UnguardedComesOut, GuardedComesOut, MismatchNaiveComesOut, MismatchGuardedComesOut,
           RestartNaiveComesOut, RestartGuardedComesOut DEF CasesComeOut

-----------------------------------------------------------------------------
(* The inductive invariant and the property.                                  *)

\* A v1.1 guard has run no more than the replay of what was proposed, under the
\* digests of its ledger.
LEMMA LedgerCovers ==
  ASSUME ToolInv, tool \in Modes, restarts = 0, NEW replayed, replayed = Replay(tool, proposals)
  PROVE  /\ Len(world.effects) <= replayed.effects
         /\ \A ref \in DOMAIN world.records :
              ref \in DOMAIN replayed.ledger /\ world.records[ref].digest = replayed.ledger[ref]
<1>1. PICK due : due = (IF calling = NoCall THEN {} ELSE {Artifact(tool, calling.call)}) \ DOMAIN world.records
  OBVIOUS
<1>2. /\ DOMAIN replayed.ledger = DOMAIN world.records \cup due
      /\ \A ref \in DOMAIN world.records : world.records[ref].digest = replayed.ledger[ref]
      /\ replayed.effects \in Nat /\ Len(world.effects) + Cardinality(due) <= replayed.effects
  BY <1>1 DEF ToolInv, InLedger
<1>3. Len(world.effects) \in Nat
  BY DEF ToolInv, ToolTypeOK
<1>4. Cardinality(due) \in Nat
  <2>1. PICK x : due \subseteq {x}
    BY <1>1
  <2>2. IsFiniteSet({x})
    BY FS_Singleton
  <2> QED BY <2>1, <2>2, FS_Subset, FS_CardinalityType
<1>5. Len(world.effects) <= replayed.effects
  <2>1. PICK n : n = Cardinality(due)
    OBVIOUS
  <2>2. n \in Nat /\ Len(world.effects) + n <= replayed.effects
    BY <1>2, <1>4, <2>1
  <2> QED BY <1>2, <1>3, <2>2
<1> QED BY <1>2, <1>5

\* The inductive invariant is what it is for.
LEMMA ToolInvImplies == ToolInv => OneEffectPerLogicalAction
<1> SUFFICES ASSUME ToolInv PROVE OneEffectPerLogicalAction
  OBVIOUS
<1>0. restarts \in Nat
  BY DEF ToolInv, ToolTypeOK
<1>1. tool \in {"guarded", "bound", "conformant", "no_digest_check"} =>
        \A a \in Actions : Cardinality(EffectsOf(a)) <= 1 + restarts
  BY ActionOnce DEF ByAction
<1>2. tool = "durable" => \A a \in Actions : Cardinality(EffectsOf(a)) <= 1
  <2>1. 1 + 0 = 1
    OBVIOUS
  <2> QED BY <2>1, ActionOnce DEF ByAction
<1>3. /\ tool \in {"bound", "conformant"} => \A x \in answers : x.effect # NoEffect => world.effects[x.effect] = x.call
      /\ tool \in {"guarded", "durable", "no_digest_check"} =>
           \A x \in answers : x.effect # NoEffect => world.effects[x.effect].action = x.call.action
      /\ tool \in {"content_key", "digest_inside"} =>
           \A x \in answers : x.effect # NoEffect => world.effects[x.effect].args = x.call.args
  BY AnswerIsOfItsCall DEF ByAction
<1>4. tool \in {"bound", "conformant"} /\ restarts = 0 =>
        \A i \in DOMAIN world.effects : world.effects[i].args = FirstProposed(world.effects[i].action)
  BY EffectIsFirst
<1>5. tool = "content_key" => Len(world.effects) <= Cardinality(Arguments) * (1 + restarts)
  BY ContentOnce
<1>6. tool \in Modes /\ restarts = 0 =>
        LET replayed == Replay(tool, proposals)
        IN /\ Len(world.effects) <= replayed.effects
           /\ \A ref \in DOMAIN world.records :
                ref \in DOMAIN replayed.ledger /\ world.records[ref].digest = replayed.ledger[ref]
  BY LedgerCovers
<1>7. tool \in Modes => LedgerVerifies(tool) /\ GuardVerifies(tool)
  BY VectorsVerify
<1> QED BY <1>1, <1>2, <1>3, <1>4, <1>5, <1>6, <1>7, CasesHold DEF OneEffectPerLogicalAction
=============================================================================
