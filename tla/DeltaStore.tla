----------------------------- MODULE DeltaStore -----------------------------
(***************************************************************************)
(* The in-memory change log of a registry: class DeltaStore of             *)
(* sm_bridge/store.py, with the catalog that gateway.py rebuilds from it.   *)
(*                                                                         *)
(* Every method of the class holds self._lock from its first statement to  *)
(* its last, so each one is a single step.  An agent record (SmAgentFacts) *)
(* is a member of Facts: a record with at least the fields id (the DID)    *)
(* and slug (what slug_of(facts) returns for it).  Signatures and          *)
(* timestamps are left out: no reader of the log depends on them.          *)
(***************************************************************************)
EXTENDS Naturals, Sequences, SequencesExt

CONSTANTS
    Agent,      \* the agent ids (DIDs)
    SlugName,   \* the catalog slugs
    Facts       \* the agent records that callers pass to add

ASSUME FactsAssumption ==
    \A f \in Facts : f.id \in Agent /\ f.slug \in SlugName

VARIABLES
    seq,        \* _seq: the last sequence number handed out
    deltas,     \* _deltas: the whole log, oldest first
    latest      \* _latest: agent id -> the most recent delta of that agent

vars == <<seq, deltas, latest>>

DeltaAction == {"upsert", "delete", "revoke"}

Delta == [seq : Nat \ {0}, action : DeltaAction, agent : Facts]

TypeOK ==
    /\ seq \in Nat
    /\ deltas \in Seq(Delta)
    /\ DOMAIN latest \subseteq Agent
    /\ \A a \in DOMAIN latest : latest[a] \in Delta

-----------------------------------------------------------------------------
Init ==
    /\ seq = 0
    /\ deltas = <<>>
    /\ latest = [a \in {} |-> 0]

NewDelta(action, f) == [seq |-> seq + 1, action |-> action, agent |-> f]

\* Mutant of Index: a removal is dropped from the index instead of kept in it.
IndexWithoutRemovals(d) ==
    [a \in {b \in DOMAIN latest \cup {d.agent.id} : b # d.agent.id \/ d.action = "upsert"} |->
        IF a = d.agent.id THEN d ELSE latest[a]]

\* self._latest[agent.id] = delta
Index(d) ==
    [a \in DOMAIN latest \cup {d.agent.id} |->
        IF a = d.agent.id THEN d ELSE latest[a]]

Add(action, f) ==
    /\ seq' = seq + 1
    /\ deltas' = Append(deltas, NewDelta(action, f))
    /\ latest' = Index(NewDelta(action, f))

\* Mutant of Clear: the per-agent index survives.
ClearKeepsIndex ==
    /\ seq' = 0
    /\ deltas' = <<>>
    /\ latest' = latest

Clear ==
    /\ seq' = 0
    /\ deltas' = <<>>
    /\ latest' = [a \in {} |-> 0]

Next ==
    \/ \E action \in DeltaAction, f \in Facts : Add(action, f)
    \/ Clear

Spec == Init /\ [][Next]_vars

-----------------------------------------------------------------------------
(* The readers. *)

Logged == {deltas[i] : i \in DOMAIN deltas}

Latest == {latest[a] : a \in DOMAIN latest}

Since(n) == FoldLeft(LAMBDA ds, d : IF d.seq > n THEN Append(ds, d) ELSE ds, <<>>, deltas)

\* The members of D in the order of their sequence numbers, no two of which are equal.
InOrder(D) ==
    CHOOSE ds \in [1..Cardinality(D) -> D] :
        /\ Range(ds) = D
        /\ \A i, j \in DOMAIN ds : i < j => ds[i].seq < ds[j].seq

Snapshot == InOrder(Latest)

NextSeq == seq + 1

\* Mutant of ApplyDelta: a removal is ignored.
ApplyDeltaKeepsRemoved(state, d) ==
    IF d.action = "upsert"
    THEN [s \in DOMAIN state \cup {d.agent.slug} |->
            IF s = d.agent.slug THEN d.agent ELSE state[s]]
    ELSE state

(* current_facts of gateway.py: a fold over a sequence of deltas that yields *)
(* the slug -> facts map the AI-Catalog is served from.                      *)
ApplyDelta(state, d) ==
    IF d.action = "upsert"
    THEN [s \in DOMAIN state \cup {d.agent.slug} |->
            IF s = d.agent.slug THEN d.agent ELSE state[s]]
    ELSE [s \in DOMAIN state \ {d.agent.slug} |-> state[s]]

Replay(ds) == FoldLeft(ApplyDelta, <<>>, ds)

CurrentFacts == Replay(Snapshot)

(* The same catalog without the fold: the deltas of D that no later delta of *)
(* D supersedes under the same slug, and that are upserts.                   *)
Listed(D) ==
    {d \in D : /\ d.action = "upsert"
               /\ \A e \in D : e.agent.slug = d.agent.slug => e.seq <= d.seq}

\* Every record of an agent has the same slug, as when the slug comes from the
\* DID or from a handle that the agent never changes.
SlugsAreStable == \A f, g \in Facts : f.id = g.id => f.slug = g.slug

-----------------------------------------------------------------------------
(* Properties. *)

\* Sequence numbers have no gap and no repetition, and _seq is the last one:
\* what lets a follower of since(n) treat its cursor as "everything up to n".
LogIsContiguous ==
    /\ seq = Len(deltas)
    /\ \A i \in DOMAIN deltas : deltas[i].seq = i

\* The per-agent index that the snapshot is served from holds, for every agent
\* in the log and no other, the newest delta of that agent.
IndexIsNewest ==
    /\ DOMAIN latest = {d.agent.id : d \in Logged}
    /\ \A a \in DOMAIN latest :
          /\ latest[a] \in Logged
          /\ latest[a].agent.id = a
          /\ \A d \in Logged : d.agent.id = a => d.seq <= latest[a].seq

\* The optimised catalog (one delta per agent) lists exactly what the whole log
\* would list, even when two agents claim one slug and when removals interleave.
SnapshotListsSame == Listed(Latest) = Listed(Logged)

\* "Equivalent to replaying `since(0)`" (store.py, snapshot): folding the
\* snapshot and folding the whole log give the same catalog.
SnapshotIsReplay == CurrentFacts = Replay(Since(0))

\* The catalog a reader of the store sees implements the abstract catalog, when
\* slugs are stable: every add publishes or withdraws the record it was given and
\* changes nothing else that is listed; clear empties it.
Abstract ==
    INSTANCE Catalog WITH
        listed <- {d.agent : d \in Listed(Latest)},
        last <- IF deltas = <<>> THEN <<>>
                ELSE <<deltas[Len(deltas)].action, deltas[Len(deltas)].agent>>

ImplementsCatalog == Abstract!Spec
=============================================================================
