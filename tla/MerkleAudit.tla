---------------------------- MODULE MerkleAudit ----------------------------
(***************************************************************************)
(* A growing transparency log (class MerkleLog of sm_bridge/tlog.py), the   *)
(* checkpoints signed over it, and the conformance audit of                 *)
(* sm_bridge/conformance.py that a client runs against it.                  *)
(*                                                                         *)
(* The log has no lock: the signer reads the size and then the root, the    *)
(* auditor the root, the size, the pinned prefix and the size again, and    *)
(* entries are appended between any two reads.  What an append during the   *)
(* computation of one root does is the subject of module BindingWrite; here *)
(* a root is read in one step.  The operator of the log may replace a leaf, *)
(* which is what the audit is for.                                          *)
(***************************************************************************)
EXTENDS MerkleTree

CONSTANTS
    MinProofSize,   \* min_proof_size
    MaxSize,        \* bound: leaves
    MaxCheckpoints  \* bound: checkpoints handed out

ASSUME BoundAssumption == {MinProofSize, MaxSize, MaxCheckpoints} \subseteq Nat

VARIABLES
    leaves,         \* _leaves
    signing,        \* the size the signer has read, -1 when it is idle
    checkpoints,    \* the checkpoints that clients hold
    audit,          \* the audit in progress
    tampered        \* history: a leaf was replaced

vars == <<leaves, signing, checkpoints, audit, tampered>>

\* A checkpoint carries the root of the leaves it was computed over; they are kept
\* so that properties can speak of them.
Checkpoint == [size : 0..MaxSize, over : Seq(Hashes), signed : BOOLEAN]

RootOf(cp) == MerkleRoot[cp.over]

NoCheckpoint == [size |-> 0, over |-> <<>>, signed |-> FALSE]

Stage == {"off", "root", "size", "prefix", "grew", "done"}

\* undisturbed is history: no leaf was replaced since the audit began.
Audit ==
    [at : Stage, cp : Checkpoint, pinned : Checkpoint, signature : BOOLEAN,
     recomputed : BOOLEAN, appendOnly : BOOLEAN, undisturbed : BOOLEAN]

TypeOK ==
    /\ leaves \in Seq(Hashes) /\ Len(leaves) <= MaxSize
    /\ signing \in -1..MaxSize
    /\ checkpoints \subseteq Checkpoint
    /\ audit \in Audit
    /\ tampered \in BOOLEAN

Init ==
    /\ leaves = <<>>
    /\ signing = -1
    /\ checkpoints = {}
    /\ audit = [at |-> "off", cp |-> NoCheckpoint, pinned |-> NoCheckpoint, signature |-> FALSE,
                recomputed |-> FALSE, appendOnly |-> TRUE, undisturbed |-> TRUE]
    /\ tampered = FALSE

-----------------------------------------------------------------------------
(* The log, its operator and its signer. *)

\* append(entry)
AppendEntry(e) ==
    /\ Len(leaves) < MaxSize
    /\ leaves' = Append(leaves, LeafHash(e))
    /\ UNCHANGED <<signing, checkpoints, audit, tampered>>

Tamper ==
    /\ \E i \in DOMAIN leaves, e \in Entry :
          /\ leaves[i] # LeafHash(e)
          /\ leaves' = [leaves EXCEPT ![i] = LeafHash(e)]
    /\ tampered' = TRUE
    /\ audit' = [audit EXCEPT !.undisturbed = FALSE]
    /\ UNCHANGED <<signing, checkpoints>>

Hand(size, signed) ==
    /\ Cardinality(checkpoints) < MaxCheckpoints
    /\ checkpoints' = checkpoints \cup {[size |-> size, over |-> leaves, signed |-> signed]}

\* sign_checkpoint: size=self.size
SignSize ==
    /\ signing = -1
    /\ signing' = Len(leaves)
    /\ UNCHANGED <<leaves, checkpoints, audit, tampered>>

\* sign_checkpoint: root_b64=self.root_b64(), then the signature over size and root.
SignRoot ==
    /\ signing >= 0
    /\ Hand(signing, TRUE)
    /\ signing' = -1
    /\ UNCHANGED <<leaves, audit, tampered>>

\* Somebody without the key hands out a checkpoint that fits the log.
Fabricate ==
    /\ Hand(Len(leaves), FALSE)
    /\ UNCHANGED <<leaves, signing, audit, tampered>>

-----------------------------------------------------------------------------
(* The proofs that the log serves. *)

InclusionProof(m) ==
    IF Len(leaves) < MinProofSize \/ m \notin 0..(Len(leaves) - 1) THEN Error
    ELSE InclusionPath[leaves][m]

ConsistencyProof(old) ==
    IF Len(leaves) < MinProofSize THEN Error
    ELSE ConsistencyPath(leaves, old, Len(leaves))

-----------------------------------------------------------------------------
(* audit(log, checkpoint, public_key, pinned), read by read. *)

\* verify_checkpoint(checkpoint, public_key)
StartAudit ==
    /\ audit.at = "off"
    /\ \E c \in checkpoints, p \in checkpoints \cup {NoCheckpoint} :
          audit' = [at |-> "root", cp |-> c, pinned |-> p, signature |-> c.signed,
                    recomputed |-> FALSE, appendOnly |-> TRUE, undisturbed |-> TRUE]
    /\ UNCHANGED <<leaves, signing, checkpoints, tampered>>

AuditStep(stage, next) ==
    /\ audit.at = stage
    /\ audit' = next
    /\ UNCHANGED <<leaves, signing, checkpoints, tampered>>

AfterRecomputation == IF audit.pinned = NoCheckpoint THEN "done" ELSE "prefix"

\* live_root_b64 == checkpoint.root_b64: the size is read only if the roots agree.
ReadRoot ==
    LET same == MerkleRoot[leaves] = RootOf(audit.cp) IN
    AuditStep("root", [audit EXCEPT !.at = IF same THEN "size" ELSE AfterRecomputation])

\* Mutant of ReadSize: the root alone decides.
ReadSizeIgnored ==
    AuditStep("size", [audit EXCEPT !.at = AfterRecomputation, !.recomputed = TRUE])

\* ... and log.size == checkpoint.size
ReadSize ==
    AuditStep("size", [audit EXCEPT !.at = AfterRecomputation,
                                    !.recomputed = Len(leaves) = audit.cp.size])

\* Mutant of ReadPrefix: the pinned root is compared with the live root.
ReadPrefixWhole ==
    AuditStep("prefix", [audit EXCEPT !.at = "grew",
                                      !.appendOnly = MerkleRoot[leaves] = RootOf(audit.pinned)])

\* recomputed = _merkle_root(log._leaves[: pinned.size])
ReadPrefix ==
    LET prefix == SubSeq(leaves, 1, Min({audit.pinned.size, Len(leaves)})) IN
    AuditStep("prefix", [audit EXCEPT !.at = "grew",
                                      !.appendOnly = MerkleRoot[prefix] = RootOf(audit.pinned)])

\* pinned.size <= log.size
ReadGrew ==
    AuditStep("grew", [audit EXCEPT !.at = "done",
                                    !.appendOnly = @ /\ audit.pinned.size <= Len(leaves)])

\* The client has read the report and may audit again.
EndAudit ==
    /\ audit.at = "done"
    /\ audit' = [at |-> "off", cp |-> NoCheckpoint, pinned |-> NoCheckpoint, signature |-> FALSE,
                 recomputed |-> FALSE, appendOnly |-> TRUE, undisturbed |-> TRUE]
    /\ UNCHANGED <<leaves, signing, checkpoints, tampered>>

\* ConformanceReport.passed
Passed == audit.signature /\ audit.recomputed /\ audit.appendOnly

Next ==
    \/ \E e \in Entry : AppendEntry(e)
    \/ Tamper
    \/ SignSize
    \/ SignRoot
    \/ Fabricate
    \/ StartAudit
    \/ ReadRoot
    \/ ReadSize
    \/ ReadPrefix
    \/ ReadGrew
    \/ EndAudit

Spec == Init /\ [][Next]_vars

-----------------------------------------------------------------------------
(* Properties of the audit. *)

Torn(cp) == cp.size # Len(cp.over)

\* A report that passes is about one moment of the log: the checkpoint was signed,
\* its size is that of the tree its root commits to, and, unless a leaf was replaced
\* under the auditor's eyes, the pinned tree is a prefix of it.  A report fails only
\* for a cause, of which growth since the signature is the harmless one.
ReportIsTrue ==
    audit.at = "done" =>
        IF Passed
        THEN /\ audit.cp.signed
             /\ ~Torn(audit.cp)
             /\ audit.undisturbed => IsPrefix(audit.pinned.over, audit.cp.over)
        ELSE \/ ~audit.cp.signed
             \/ tampered
             \/ Len(leaves) > audit.cp.size
             \/ Torn(audit.pinned)

\* Growth never looks like tampering: while the log only grows, before, between and
\* after the auditor's reads, the append-only check holds against any checkpoint
\* that was not signed across an append.
GrowthIsNotTampering ==
    ~audit.appendOnly => tampered \/ Torn(audit.pinned)

-----------------------------------------------------------------------------
(* Properties of the proofs. *)

Indexes == 0..(Len(leaves) - 1)

\* What the log has served, at this size or an earlier one, whole or cut short.
ServedPaths ==
    UNION {Prefixes(InclusionPath[SubSeq(leaves, 1, at[1])][at[2]]) :
        at \in {x \in (MinProofSize..Len(leaves)) \X Indexes : x[2] < x[1]}}

\* Every leaf of every tree has a path that tlog.py accepts, and no path the log ever
\* served, whole or cut short, stale or current, proves an entry at a position where
\* the log holds another one; the walk of tlog.py accepts nothing that the walk of
\* ans_scitt.py does not, and the latter accepts more only where the path has the
\* wrong length for the position.
InclusionExact ==
    LET root == MerkleRoot[leaves] IN
    /\ \A m \in Indexes :
          LET path == IF Len(leaves) < MinProofSize THEN InclusionPath[leaves][m]
                      ELSE InclusionProof(m)
          IN RootFromInclusion(leaves[m+1], m, Len(leaves), path) = root
    /\ \A path \in ServedPaths : \A j \in Indexes, h \in Hashes :
          LET tlog == RootFromInclusion(h, j, Len(leaves), path) = root
              scitt == RootFromProof(h, j, Len(leaves), path) = root
          IN /\ tlog => leaves[j+1] = h /\ scitt
             /\ scitt /\ Len(path) = Len(InclusionPath[leaves][j]) => tlog

\* A consistency proof links every earlier size with the current one, and links no
\* tree with one leaf changed to it.
ConsistencyHolds ==
    ConsistencyProof(1) # Error =>
        \A m \in 1..Len(leaves) :
            LET old == SubSeq(leaves, 1, m)
                path == ConsistencyProof(m)
                root == MerkleRoot[leaves]
                Links(s) == Consistent(m, Len(leaves), MerkleRoot[s], root, path)
            IN /\ Links(old)
               /\ \A i \in 1..m : \A h \in Hashes \ {leaves[i]} : ~Links([old EXCEPT ![i] = h])
=============================================================================
