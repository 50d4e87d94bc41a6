------------------------------- MODULE Merkle -------------------------------
(***************************************************************************)
(* merkle.py: Merkle trees over digests and proofs of inclusion.            *)
(*                                                                          *)
(* A digest is the term it hashes, so that two digests are equal exactly    *)
(* when their preimages are (the collision resistance of SHA-256). The      *)
(* prefix bytes 0x00 and 0x01 are the tags "leaf" and "node"; a node hashes *)
(* its children in sorted order, hence the set of them.                     *)
(***************************************************************************)
EXTENDS Naturals, Sequences, SequencesExt, FiniteSets, FiniteSetsExt

LeafHash(ref) == <<"leaf", ref>>

NodeHash(left, right) == <<"node", {left, right}>>

\* Mutant of NextLevel: an odd last node is dropped.
NextLevelDropsOdd(level) ==
  IF Len(level) = 1 THEN level
  ELSE [i \in 1..(Len(level) \div 2) |-> NodeHash(level[2 * i - 1], level[2 * i])]

\* One round of build_merkle_tree: neighbours are paired, an odd last node is
\* carried up as it is.
NextLevel(level) ==
  [i \in 1..((Len(level) + 1) \div 2) |->
     IF 2 * i <= Len(level) THEN NodeHash(level[2 * i - 1], level[2 * i]) ELSE level[2 * i - 1]]

\* MerkleTree.levels, as many as there could be.
Levels(refs) ==
  LET level[k \in 0..Len(refs)] ==
        IF k = 0 THEN [i \in DOMAIN refs |-> LeafHash(refs[i])] ELSE NextLevel(level[k - 1])
  IN level

Height(refs) == Min({k \in 0..Len(refs) : Len(Levels(refs)[k]) = 1})

MerkleRoot(refs) == Levels(refs)[Height(refs)][1]

\* get_proof for the leaf at position p (counted from 0): level by level, the
\* sibling idx ^ 1, if there is one. An odd node carried up has none.
GetProof(refs, p) ==
  LET loop[k \in 0..Height(refs)] ==
        IF k = 0 THEN [idx |-> p, proof |-> <<>>]
        ELSE LET level == Levels(refs)[k - 1]
                 idx == loop[k - 1].idx
                 sibling == IF idx % 2 = 0 THEN idx + 1 ELSE idx - 1
             IN [idx |-> idx \div 2,
                 proof |-> loop[k - 1].proof \o
                             (IF sibling < Len(level) THEN <<level[sibling + 1]>> ELSE <<>>)]
  IN loop[Height(refs)].proof

\* The root that a proof leads to, and verify_inclusion's comparison.
Recomputed(ref, proof) ==
  LET current[k \in 0..Len(proof)] ==
        IF k = 0 THEN LeafHash(ref) ELSE NodeHash(current[k - 1], proof[k])
  IN current[Len(proof)]

VerifyInclusion(ref, proof, root) == Recomputed(ref, proof) = root
=============================================================================
