------------------------------ MODULE MerkleLog -----------------------------
(***************************************************************************)
(* The tree arithmetic of the transparency log                             *)
(* (crates/hide-transparency/src/lib.rs): roots, audit paths and           *)
(* consistency paths, and the checks a verifier makes of them without the  *)
(* log.  A hash is the term it was computed from: SHA-256 is taken as free *)
(* of collisions, and the one-byte prefixes keep the kinds apart.          *)
(***************************************************************************)
EXTENDS Naturals, Sequences, FiniteSets, SequencesExt

CONSTANT MAX_PROOF_LEN      \* the longest path a verifier looks at

ASSUME ProofBound == MAX_PROOF_LEN \in Nat

(* The two kinds of entry, each under its own label.                       *)
identity_leaf(root, recovery_id, head, entries) ==
  <<"identity leaf", root, recovery_id, head, entries>>

epoch_leaf(root, chain_head, epochs) == <<"epoch leaf", root, chain_head, epochs>>

EmptyRoot == <<"empty">>
leaf_hash(data) == <<"leaf", data>>
node_hash(left, right) == <<"node", left, right>>

(* 1 << m.ilog2(): the highest bit of m.                                   *)
high_bit[m \in Nat] == IF m <= 1 THEN 1 ELSE 2 * high_bit[m \div 2]

largest_power_of_two_below(n) == high_bit[n - 1]

(* root_of: the root over n leaves, the first of them after the a-th.      *)
root_of(leaves) ==
  LET R[n \in 0..Len(leaves)] == [a \in Nat |->
        IF n <= 1 THEN leaves[a + 1]
        ELSE LET split == largest_power_of_two_below(n)
             IN node_hash(R[split][a], R[n - split][a + split])]
  IN IF leaves = <<>> THEN EmptyRoot ELSE R[Len(leaves)][0]

(* collect_inclusion: the siblings from the leaf up.                       *)
collect_inclusion(leaves, index) ==
  LET C[n \in 0..Len(leaves)] == [a \in Nat |->
        IF n <= 1 THEN <<>>
        ELSE LET split == largest_power_of_two_below(n) IN
             IF index < a + split
             THEN Append(C[split][a], root_of(SubSeq(leaves, a + split + 1, a + n)))
             ELSE Append(C[n - split][a + split], root_of(SubSeq(leaves, a + 1, a + split)))]
  IN C[Len(leaves)][0]

(* collect_consistency: the root of the old part is sent unless the old    *)
(* log is exactly the subtree reached.                                     *)
collect_consistency(leaves, old) ==
  LET C[n \in 0..Len(leaves)] == [a \in Nat |-> [complete \in BOOLEAN |->
        IF n <= 1 \/ old = a + n
        THEN IF complete THEN <<>> ELSE <<root_of(SubSeq(leaves, a + 1, a + n))>>
        ELSE LET split == largest_power_of_two_below(n) IN
             IF old <= a + split
             THEN Append(C[split][a][complete], root_of(SubSeq(leaves, a + split + 1, a + n)))
             ELSE Append(C[n - split][a + split][FALSE],
                         root_of(SubSeq(leaves, a + 1, a + split)))]]
  IN C[Len(leaves)][0][TRUE]

-----------------------------------------------------------------------------
(* TransparencyLog, over the leaf hashes of a log.                         *)

append(leaves, data) == Append(leaves, leaf_hash(data))

root_at(leaves, size) == root_of(SubSeq(leaves, 1, size))

(* A proof names its index and size, or its old and its new size.          *)
prove_inclusion(leaves, index, size) ==
  [first |-> index, second |-> size,
   path |-> collect_inclusion(SubSeq(leaves, 1, size), index)]

prove_consistency(leaves, old, new) ==
  [first |-> old, second |-> new,
   path |-> collect_consistency(SubSeq(leaves, 1, new), old)]

(* The encodings: the tag keeps the two kinds of proof apart, and a path   *)
(* above MAX_PROOF_LEN is refused by the writer and by the reader.         *)
Refused == [refused |-> TRUE]

encode_proof(tag, proof) ==
  IF Len(proof.path) > MAX_PROOF_LEN THEN Refused ELSE [tag |-> tag, body |-> proof]

decode_proof(tag, wire) ==
  IF wire # Refused /\ wire.tag = tag /\ Len(wire.body.path) <= MAX_PROOF_LEN
  THEN wire.body ELSE Refused

-----------------------------------------------------------------------------
(* The sides taken on the way to entry i of n, deepest first: TRUE is      *)
(* left.                                                                   *)
turns[n \in Nat] == [i \in Nat |->
  IF n <= 1 THEN <<>>
  ELSE LET split == largest_power_of_two_below(n) IN
       IF i < split THEN Append(turns[split][i], TRUE)
       ELSE Append(turns[n - split][i - split], FALSE)]

(* Both verifiers climb by those sides, a sibling at each level.  The tree *)
(* that has not grown yet lacks the siblings on the right.                 *)
climb(seed, sides, siblings, grown) ==
  LET H[k \in 0..Len(sides)] ==
        IF k = 0 THEN seed
        ELSE IF ~sides[k] THEN node_hash(siblings[k], H[k - 1])
        ELSE IF grown THEN node_hash(H[k - 1], siblings[k]) ELSE H[k - 1]
  IN H[Len(sides)]

(* Mutant of verify_inclusion: the length of the path is not compared with *)
(* the depth of the entry, and the shorter of the two ends the climb.      *)
verify_inclusion_loose(proof, leaf, root) ==
  LET sides == turns[proof.second][proof.first]
      both == IF Len(sides) < Len(proof.path) THEN Len(sides) ELSE Len(proof.path)
  IN /\ Len(proof.path) <= MAX_PROOF_LEN
     /\ proof.first < proof.second
     /\ climb(leaf, SubSeq(sides, 1, both), proof.path, TRUE) = root

verify_inclusion(proof, leaf, root) ==
  LET sides == turns[proof.second][proof.first]
  IN /\ Len(proof.path) <= MAX_PROOF_LEN
     /\ proof.first < proof.second
     /\ Len(sides) = Len(proof.path)
     /\ climb(leaf, sides, proof.path, TRUE) = root

(* The same descent for two sizes, until they meet.                        *)
descent[new \in Nat] == [old \in Nat |->
  IF new <= 1 \/ old = new THEN [sides |-> <<>>, complete |-> TRUE]
  ELSE LET split == largest_power_of_two_below(new) IN
       IF old <= split
       THEN LET d == descent[split][old]
            IN [sides |-> Append(d.sides, TRUE), complete |-> d.complete]
       ELSE LET d == descent[new - split][old - split]
            IN [sides |-> Append(d.sides, FALSE), complete |-> FALSE]]

(* Mutant of verify_consistency: only the new root is compared.            *)
verify_consistency_new(proof, old_root, new_root) ==
  /\ Len(proof.path) <= MAX_PROOF_LEN
  /\ proof.first # 0 /\ proof.first <= proof.second
  /\ IF proof.first = proof.second THEN proof.path = <<>> /\ old_root = new_root
     ELSE LET d == descent[proof.second][proof.first]
              seed == IF d.complete THEN old_root ELSE proof.path[1]
              rest == IF d.complete THEN proof.path ELSE Tail(proof.path)
          IN /\ Len(proof.path) = Len(d.sides) + (IF d.complete THEN 0 ELSE 1)
             /\ climb(seed, d.sides, rest, TRUE) = new_root

(* verify_consistency: both roots are rebuilt from the part they share.    *)
verify_consistency(proof, old_root, new_root) ==
  /\ Len(proof.path) <= MAX_PROOF_LEN
  /\ proof.first # 0 /\ proof.first <= proof.second
  /\ IF proof.first = proof.second THEN proof.path = <<>> /\ old_root = new_root
     ELSE LET d == descent[proof.second][proof.first]
              seed == IF d.complete THEN old_root ELSE proof.path[1]
              rest == IF d.complete THEN proof.path ELSE Tail(proof.path)
          IN /\ Len(proof.path) = Len(d.sides) + (IF d.complete THEN 0 ELSE 1)
             /\ climb(seed, d.sides, rest, FALSE) = old_root
             /\ climb(seed, d.sides, rest, TRUE) = new_root

=============================================================================
