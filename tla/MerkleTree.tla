----------------------------- MODULE MerkleTree -----------------------------
(***************************************************************************)
(* The RFC 6962 tree of sm_bridge/tlog.py: roots, inclusion and consistency *)
(* proofs, and the two walks that check an inclusion proof, the one of      *)
(* tlog.py and the one of trust/ans_scitt.py, which were written apart.     *)
(*                                                                         *)
(* A hash is the term it was computed from: <<e>> for the leaf of entry e,  *)
(* <<l, r>> for an interior node, <<>> for the empty tree.  Two hashes are   *)
(* equal when the terms are: SHA-256 is taken to have no collisions, and    *)
(* the prefixes 0x00 and 0x01 keep leaves and interior nodes apart.         *)
(***************************************************************************)
EXTENDS Integers, Sequences, SequencesExt, FiniteSetsExt

CONSTANT Entry  \* what can be logged

LeafHash(e) == <<e>>
NodeHash(l, r) == <<l, r>>

Hashes == {LeafHash(e) : e \in Entry}

\* What a walk answers when it raises ValueError.
Error == <<"error", "error", "error">>

Odd(n) == n % 2 = 1

Power[d \in Nat] == IF d = 0 THEN 1 ELSE 2 * Power[d - 1]

PowerOfTwo(n) == \E d \in 0..n : n = Power[d]

\* The largest power of two below n, for n > 1: where a tree of n leaves splits.
Split(n) == Max({k \in 1..(n - 1) : PowerOfTwo(k)})

Left(s) == SubSeq(s, 1, Split(Len(s)))
Right(s) == SubSeq(s, Split(Len(s)) + 1, Len(s))

MerkleRoot[leaves \in Seq(Hashes)] ==
    IF leaves = <<>> THEN <<>>
    ELSE IF Len(leaves) = 1 THEN leaves[1]
    ELSE NodeHash(MerkleRoot[Left(leaves)], MerkleRoot[Right(leaves)])

\* _inclusion_proof, for the leaf with index m, counted from 0.
InclusionPath[leaves \in Seq(Hashes)] ==
    [m \in Nat |->
        IF Len(leaves) <= 1 THEN <<>>
        ELSE LET k == Split(Len(leaves)) IN
             IF m < k
             THEN Append(InclusionPath[Left(leaves)][m], MerkleRoot[Right(leaves)])
             ELSE Append(InclusionPath[Right(leaves)][m - k], MerkleRoot[Left(leaves)])]

-----------------------------------------------------------------------------
(* Checking an inclusion proof.  fn is the index of the node reached and sn *)
(* the index of the last node of its level.                                 *)

Position == [fn : Nat, sn : Nat]

Halved(at) == [fn |-> at.fn \div 2, sn |-> at.sn \div 2]

\* while fn and not (fn & 1): fn >>= 1; sn >>= 1
SkipLevels[at \in Position] ==
    IF at.fn = 0 \/ Odd(at.fn) THEN at ELSE SkipLevels[Halved(at)]

OnRight(at) == at.fn = at.sn \/ Odd(at.fn)

\* The position that one element of the path leads to.
Above(at) ==
    LET here == [fn |-> at.fn, sn |-> at.sn]
    IN Halved(IF OnRight(at) THEN SkipLevels[here] ELSE here)

\* One element p of the path.
Climb(at, p) ==
    [fn |-> Above(at).fn, sn |-> Above(at).sn,
     root |-> IF OnRight(at) THEN NodeHash(p, at.root) ELSE NodeHash(at.root, p)]

Walk(leaf, index, size, path) ==
    FoldLeft(Climb, [fn |-> index, sn |-> size - 1, root |-> leaf], path)

\* Mutant of RootFromInclusion: a path that ends too early is accepted.
RootFromInclusionOfAnyLength(leaf, index, size, path) ==
    IF size <= 0 \/ index < 0 \/ index >= size THEN Error
    ELSE Walk(leaf, index, size, path).root

\* root_from_inclusion of tlog.py
RootFromInclusion(leaf, index, size, path) ==
    LET end == Walk(leaf, index, size, path) IN
    IF size <= 0 \/ index < 0 \/ index >= size THEN Error
    ELSE IF end.sn # 0 THEN Error
    ELSE end.root

MaxProofPath == 64

\* rfc9162_root_from_proof of trust/ans_scitt.py: its last test is of fn, not sn.
RootFromProof(leaf, index, size, path) ==
    LET end == Walk(leaf, index, size, path) IN
    IF size = 0 \/ index >= size \/ index < 0 THEN Error
    ELSE IF Len(path) > MaxProofPath THEN Error
    ELSE IF end.fn # 0 THEN Error
    ELSE end.root

-----------------------------------------------------------------------------
\* _subproof: b says that the old tree is still a node the verifier knows.
SubProof[leaves \in Seq(Hashes)] ==
    [m \in 1..Len(leaves) |-> [b \in BOOLEAN |->
        IF m = Len(leaves) THEN IF b THEN <<>> ELSE <<MerkleRoot[leaves]>>
        ELSE LET k == Split(Len(leaves)) IN
             IF m <= k
             THEN Append(SubProof[Left(leaves)][m][b], MerkleRoot[Right(leaves)])
             ELSE Append(SubProof[Right(leaves)][m - k][FALSE], MerkleRoot[Left(leaves)])]]

\* Mutant of ConsistencyPath: the proof is always given from the old root up.
ConsistencyPathWithoutRoot(leaves, m, n) ==
    IF m <= 0 \/ m > n THEN <<>> ELSE SubProof[SubSeq(leaves, 1, n)][m][FALSE]

\* _consistency_proof, from size m to size n.
ConsistencyPath(leaves, m, n) ==
    IF m <= 0 \/ m > n THEN <<>> ELSE SubProof[SubSeq(leaves, 1, n)][m][TRUE]

\* How a client of the log checks a consistency proof: the algorithm of RFC 9162,
\* 2.1.4.2.  Both roots are rebuilt from one path.
ShiftOdd[at \in Position] ==
    IF Odd(at.fn) THEN ShiftOdd[Halved(at)] ELSE at

ClimbBoth(at, c) ==
    [fn |-> Above(at).fn, sn |-> Above(at).sn,
     old |-> IF OnRight(at) THEN NodeHash(c, at.old) ELSE at.old,
     new |-> IF OnRight(at) THEN NodeHash(c, at.new) ELSE NodeHash(at.new, c)]

Consistent(m, n, oldRoot, newRoot, path) ==
    IF m = n THEN path = <<>> /\ oldRoot = newRoot
    ELSE LET full == IF PowerOfTwo(m) THEN <<oldRoot>> \o path ELSE path IN
         /\ full # <<>>
         /\ LET start == ShiftOdd[[fn |-> m - 1, sn |-> n - 1]]
                end == FoldLeft(ClimbBoth,
                                [fn |-> start.fn, sn |-> start.sn, old |-> full[1], new |-> full[1]],
                                Tail(full))
            IN end.sn = 0 /\ end.old = oldRoot /\ end.new = newRoot
=============================================================================
