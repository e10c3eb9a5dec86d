---------------------------- MODULE BindingWrite ----------------------------
(***************************************************************************)
(* Delegated writes to bindings: POST /bindings/write of                    *)
(* sm_bridge/binding_write.py with the MerkleLog of sm_bridge/tlog.py that  *)
(* it commits to, and sign_checkpoint on the same log.                      *)
(*                                                                         *)
(* The endpoint is a plain def, so every request runs in a thread of its    *)
(* own.  The nonce set and the binding records have a lock each; the log    *)
(* has none, so each of its list operations is a step.  The injected        *)
(* authenticator and authorizer may answer anything.  A body is abstracted  *)
(* to its store, nonce, subject, op and the names of its fields; leaf_hash  *)
(* is taken to be injective.                                                *)
(***************************************************************************)
EXTENDS Integers, Sequences, FiniteSets, FiniteSetsExt

CONSTANTS
    Handler,    \* the threads that serve write requests
    Signer,     \* the threads that sign checkpoints of the log
    Subject,    \* the subjects of bindings
    Store,      \* the DIDs of the delegates
    Nonce,
    Field,      \* the names of binding fields
    Body        \* the request bodies that clients send

Op == {"binding.create", "binding.update_target", "binding.suspend", "binding.revoke"}

BodyType == [store : Store, nonce : Nonce, subject : Subject, op : Op, fields : SUBSET Field]

ASSUME BodyAssumption == Body \subseteq BodyType

ASSUME ThreadAssumption == Handler \cap Signer = {}

Actor == Handler \cup Signer

VARIABLES
    records,    \* _records of the BindingStore
    seen,       \* seen_nonces: the (store, nonce) pairs used so far
    entries,    \* _entries of the log
    leaves,     \* _leaves of the log
    pc,         \* where each thread is
    body,       \* the body a handler works on
    version,    \* record["version"] as the handler's apply returned it
    size,       \* the log size a thread read
    rootLen,    \* n = len(leaves) at the start of the root computation
    answer      \* the last answer of a handler, the last checkpoint of a signer

logVars == <<entries, leaves>>
vars == <<records, seen, entries, leaves, pc, body, version, size, rootLen, answer>>

Entry == [store : Store, nonce : Nonce, subject : Subject, op : Op, fields : SUBSET Field,
          version : Nat \ {0}]

Record == [version : Nat, lifecycle : {"active", "suspended", "revoked"}, fields : SUBSET Field]

\* A root is the hash of a left subtree, the first Split(len) leaves, and of a
\* right subtree, the leaves after those up to total.
Root == [len : Nat, total : Nat]

\* "rejected": 401 store_signature_invalid or 409 nonce_replayed, answered before
\* the handler took a nonce.  "refused": 403, 409 or 500 after a verdict other than
\* SATISFIED.
Refusal == {"rejected", "refused"}

NoAnswer == [status |-> "none"]

Answer == {NoAnswer} \cup [status : Refusal]
          \cup [status : {"applied", "signed"}, size : Nat, root : Root]

HandlerPc == {"idle", "guard", "authorize", "apply", "entry", "leaf", "size", "root", "right"}

TypeOK ==
    /\ records \in [Subject -> Record]
    /\ seen \subseteq Store \X Nonce
    /\ entries \in Seq(Entry)
    /\ leaves \in Seq(Entry)
    /\ pc \in [Actor -> HandlerPc]
    /\ body \in [Handler -> BodyType]
    /\ version \in [Handler -> Nat]
    /\ size \in [Actor -> Nat]
    /\ rootLen \in [Actor -> Nat]
    /\ answer \in [Actor -> Answer]

-----------------------------------------------------------------------------
Init ==
    /\ records = [s \in Subject |-> [version |-> 0, lifecycle |-> "active", fields |-> {}]]
    /\ seen = {}
    /\ entries = <<>>
    /\ leaves = <<>>
    /\ pc = [a \in Actor |-> "idle"]
    /\ body \in {[h \in Handler |-> b] : b \in Body}
    /\ version = [h \in Handler |-> 0]
    /\ size = [a \in Actor |-> 0]
    /\ rootLen = [a \in Actor |-> 0]
    /\ answer = [a \in Actor |-> NoAnswer]

Key(b) == <<b.store, b.nonce>>

\* raise HTTPException: the handler answers and changes nothing else.
Refuse(h, status) ==
    /\ pc' = [pc EXCEPT ![h] = "idle"]
    /\ answer' = [answer EXCEPT ![h] = [status |-> status]]

\* The request arrives; the delegate's signature over it is checked.
Receive(h) ==
    /\ pc[h] = "idle"
    /\ \E b \in Body : body' = [body EXCEPT ![h] = b]
    /\ version' = [version EXCEPT ![h] = 0]
    /\ \/ /\ pc' = [pc EXCEPT ![h] = "guard"]
          /\ answer' = [answer EXCEPT ![h] = NoAnswer]
       \/ Refuse(h, "rejected")
    /\ UNCHANGED <<records, seen, logVars, size, rootLen>>

\* Mutant of NonceGuard: the pair is recorded only once the write is applied.
NonceGuardWithoutAdd(h) ==
    /\ pc[h] = "guard"
    /\ IF Key(body[h]) \in seen
       THEN Refuse(h, "rejected") /\ UNCHANGED seen
       ELSE /\ pc' = [pc EXCEPT ![h] = "authorize"]
            /\ UNCHANGED <<seen, answer>>
    /\ UNCHANGED <<records, logVars, body, version, size, rootLen>>

\* `with lock:` the pair is looked up and recorded.
NonceGuard(h) ==
    /\ pc[h] = "guard"
    /\ IF Key(body[h]) \in seen
       THEN Refuse(h, "rejected") /\ UNCHANGED seen
       ELSE /\ seen' = seen \cup {Key(body[h])}
            /\ pc' = [pc EXCEPT ![h] = "authorize"]
            /\ UNCHANGED answer
    /\ UNCHANGED <<records, logVars, body, version, size, rootLen>>

\* Mutant of Authorize: an INDETERMINATE verdict gives the nonce back.
AuthorizeReleasesNonce(h) ==
    /\ pc[h] = "authorize"
    /\ \/ pc' = [pc EXCEPT ![h] = "apply"] /\ UNCHANGED <<answer, seen>>
       \/ Refuse(h, "refused") /\ seen' = seen \ {Key(body[h])}
    /\ UNCHANGED <<records, logVars, body, version, size, rootLen>>

\* authorizer.authorize(...): only SATISFIED goes on.
Authorize(h) ==
    /\ pc[h] = "authorize"
    /\ \/ pc' = [pc EXCEPT ![h] = "apply"] /\ UNCHANGED answer
       \/ Refuse(h, "refused")
    /\ UNCHANGED <<records, seen, logVars, body, version, size, rootLen>>

Lifecycle(op) ==
    CASE op = "binding.suspend" -> "suspended"
      [] op = "binding.revoke"  -> "revoked"
      [] OTHER                  -> "active"

\* Mutant of Applied: the fields of the write replace those of the record.
AppliedOver(rec, b) ==
    [version |-> rec.version + 1, lifecycle |-> Lifecycle(b.op), fields |-> b.fields]

\* The record after a write: fields merged, version counted, lifecycle set.
Applied(rec, b) ==
    [version |-> rec.version + 1, lifecycle |-> Lifecycle(b.op), fields |-> rec.fields \cup b.fields]

\* Mutant of ApplyRecord: a revoked binding is left as it is, and its write still logged.
ApplyRecordUnlessRevoked(h) ==
    LET b == body[h] IN
    /\ pc[h] = "apply"
    /\ records' = IF records[b.subject].lifecycle = "revoked" THEN records
                  ELSE [records EXCEPT ![b.subject] = Applied(@, b)]
    /\ version' = [version EXCEPT ![h] = records'[b.subject].version]
    /\ pc' = [pc EXCEPT ![h] = "entry"]
    /\ UNCHANGED <<seen, logVars, body, size, rootLen, answer>>

\* store.apply(...), under the store's lock; a copy of the record is returned.
ApplyRecord(h) ==
    LET b == body[h] IN
    /\ pc[h] = "apply"
    /\ records' = [records EXCEPT ![b.subject] = Applied(@, b)]
    /\ version' = [version EXCEPT ![h] = records'[b.subject].version]
    /\ pc' = [pc EXCEPT ![h] = "entry"]
    /\ UNCHANGED <<seen, logVars, body, size, rootLen, answer>>

\* canonical_log_entry: the leaf of a handler's write.
EntryOf(h) ==
    LET b == body[h] IN
    [store |-> b.store, nonce |-> b.nonce, subject |-> b.subject, op |-> b.op,
     fields |-> b.fields, version |-> version[h]]

\* MerkleLog.append, first statement.
AppendEntry(h) ==
    /\ pc[h] = "entry"
    /\ entries' = Append(entries, EntryOf(h))
    /\ pc' = [pc EXCEPT ![h] = "leaf"]
    /\ UNCHANGED <<records, seen, leaves, body, version, size, rootLen, answer>>

\* MerkleLog.append, second statement.
AppendLeaf(h) ==
    /\ pc[h] = "leaf"
    /\ leaves' = Append(leaves, EntryOf(h))
    /\ pc' = [pc EXCEPT ![h] = "size"]
    /\ UNCHANGED <<records, seen, entries, body, version, size, rootLen, answer>>

\* Mutant of ReadSize: the index of the last leaf is returned as the size.
ReadSizeZeroBased(a) ==
    /\ \/ a \in Handler /\ pc[a] = "size"
       \/ a \in Signer /\ pc[a] = "idle"
    /\ size' = [size EXCEPT ![a] = IF leaves = <<>> THEN 0 ELSE Len(leaves) - 1]
    /\ pc' = [pc EXCEPT ![a] = "root"]
    /\ UNCHANGED <<records, seen, logVars, body, version, rootLen, answer>>

\* Mutant of ReadSize: the size of the log is the number of its entries.
ReadSizeOfEntries(a) ==
    /\ \/ a \in Handler /\ pc[a] = "size"
       \/ a \in Signer /\ pc[a] = "idle"
    /\ size' = [size EXCEPT ![a] = Len(entries)]
    /\ pc' = [pc EXCEPT ![a] = "root"]
    /\ UNCHANGED <<records, seen, logVars, body, version, rootLen, answer>>

\* `return self.size`; a signer begins sign_checkpoint by reading the size.
ReadSize(a) ==
    /\ \/ a \in Handler /\ pc[a] = "size"
       \/ a \in Signer /\ pc[a] = "idle"
    /\ size' = [size EXCEPT ![a] = Len(leaves)]
    /\ pc' = [pc EXCEPT ![a] = "root"]
    /\ UNCHANGED <<records, seen, logVars, body, version, rootLen, answer>>

\* The size of the left subtree: the largest power of two below n (0: no split).
Split(n) == IF n < 2 THEN 0 ELSE Max({k \in {2^i : i \in 0..n} : k < n})

\* r is the root of the tree of the first n leaves.
IsRootOf(r, n) == Split(r.len) = Split(n) /\ r.total = n

\* _merkle_root(self._leaves): n = len(leaves), and the hash of leaves[:k].
ReadLeft(a) ==
    /\ pc[a] = "root"
    /\ rootLen' = [rootLen EXCEPT ![a] = Len(leaves)]
    /\ pc' = [pc EXCEPT ![a] = "right"]
    /\ UNCHANGED <<records, seen, logVars, body, version, size, answer>>

\* leaves[k:] is sliced from the live list once the left subtree is hashed.
RootRead(a) ==
    [len   |-> rootLen[a],
     total |-> IF rootLen[a] < 2 THEN rootLen[a] ELSE Len(leaves)]

\* The right subtree is hashed and the thread answers.
Respond(a) ==
    /\ pc[a] = "right"
    /\ pc' = [pc EXCEPT ![a] = "idle"]
    /\ answer' = [answer EXCEPT ![a] =
                    [status |-> IF a \in Handler THEN "applied" ELSE "signed",
                     size |-> size[a], root |-> RootRead(a)]]
    /\ size' = [size EXCEPT ![a] = 0]
    /\ rootLen' = [rootLen EXCEPT ![a] = 0]
    /\ UNCHANGED <<records, seen, logVars, body, version>>

Handle(h) ==
    \/ Receive(h)
    \/ NonceGuard(h)
    \/ Authorize(h)
    \/ ApplyRecord(h)
    \/ AppendEntry(h)
    \/ AppendLeaf(h)

Publish(a) ==
    \/ ReadSize(a)
    \/ ReadLeft(a)
    \/ Respond(a)

Next ==
    \/ \E h \in Handler : Handle(h)
    \/ \E a \in Actor : Publish(a)

Spec == Init /\ [][Next]_vars

-----------------------------------------------------------------------------
(* Properties. *)

\* A handler owns its (store, nonce) pair from the guard until it logs.
Owns(h) == pc[h] \in {"authorize", "apply", "entry", "leaf"}

\* A write is under way between the record and its leaf.
InFlight(h) == pc[h] \in {"entry", "leaf"}

\* A (store, nonce) pair is single-use (binding_write.py:175): whatever op,
\* subject or fields come with it, and however requests overlap, at most one
\* leaf carries it.
NonceLoggedOnce ==
    \A i, j \in DOMAIN leaves : Key(leaves[i]) = Key(leaves[j]) => i = j

\* Every write that changed a record is accounted for: the versions 1..n of a
\* subject each belong to exactly one leaf or to one handler that has still to
\* log its write, and no leaf claims a version that the record never had.
VersionsAccounted ==
    \A s \in Subject :
        LET logged(v) == {i \in DOMAIN leaves : leaves[i].subject = s /\ leaves[i].version = v}
            flying(v) == {h \in Handler : InFlight(h) /\ body[h].subject = s /\ version[h] = v}
        IN  /\ \A v \in 1..records[s].version : Cardinality(logged(v)) + Cardinality(flying(v)) = 1
            /\ \A i \in DOMAIN leaves :
                   leaves[i].subject = s => leaves[i].version \in 1..records[s].version

\* What the log says of a record is so: once no write is under way, its lifecycle is
\* that of the highest version logged and its field names are all the names logged,
\* although leaves of one subject may be out of order. (The values are on no leaf.)
RecordIsReplayOfLog ==
    (\A h \in Handler : ~InFlight(h)) =>
        \A s \in Subject :
            LET own == {i \in DOMAIN leaves : leaves[i].subject = s} IN
            /\ records[s].fields = UNION {leaves[i].fields : i \in own}
            /\ \A i \in own : leaves[i].version = records[s].version =>
                   records[s].lifecycle = Lifecycle(leaves[i].op)

\* A write that the authorizer refused is never applied later, not even by a
\* replay of the same request after an INDETERMINATE verdict.
RefusedStaysRefused ==
    \A h \in Handler :
        answer[h].status = "refused" =>
            \A i \in DOMAIN leaves : Key(leaves[i]) # Key(body[h])

\* An answer "applied" is true: the tree of the size it names holds the write.
AnsweredTreeHoldsWrite ==
    \A h \in Handler :
        answer[h].status = "applied" =>
            /\ answer[h].size \in 1..Len(leaves)
            /\ \E i \in 1..answer[h].size : leaves[i] = EntryOf(h)

\* An answer or a checkpoint is exact as long as nothing was appended since it
\* read the size: its root is that of the tree of its size.
CurrentTreeIsExact ==
    \A a \in Actor :
        answer[a].status \in {"applied", "signed"} /\ answer[a].size = Len(leaves) =>
            IsRootOf(answer[a].root, answer[a].size)

=============================================================================
