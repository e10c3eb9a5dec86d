--------------------------- MODULE MCMerkleAudit ---------------------------
(***************************************************************************)
(* Bounded instance of MerkleAudit: logs of up to MaxSize leaves for the     *)
(* proofs, and of up to MaxAudited leaves once a checkpoint is being signed. *)
(***************************************************************************)
EXTENDS MerkleAudit, TLC

CONSTANT MaxAudited

AppendWithin(e) ==
    /\ (signing = -1 /\ checkpoints = {}) \/ Len(leaves) < MaxAudited
    /\ AppendEntry(e)

SignWithin == Len(leaves) <= MaxAudited /\ SignSize
FabricateWithin == Len(leaves) <= MaxAudited /\ Fabricate
TamperWithin == Len(leaves) <= MaxAudited /\ ~tampered /\ Tamper

MCNext ==
    \/ \E e \in Entry : AppendWithin(e)
    \/ TamperWithin
    \/ SignWithin
    \/ SignRoot
    \/ FabricateWithin
    \/ StartAudit
    \/ ReadRoot
    \/ ReadSize
    \/ ReadPrefix
    \/ ReadGrew
    \/ EndAudit

MCSpec == Init /\ [][MCNext]_vars

Symmetry == Permutations(Entry)
=============================================================================
