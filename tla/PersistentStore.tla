-------------------------- MODULE PersistentStore --------------------------
(***************************************************************************)
(* A store that keeps its deltas in a database: class PersistentDeltaStore  *)
(* of sm_bridge/store.py, under concurrent writers, a follower that polls   *)
(* with an exclusive cursor, failing inserts and restarts of the process.   *)
(*                                                                         *)
(* add() is two steps: the inherited add numbers the delta in memory under  *)
(* the lock, and _persist inserts the row after the lock is released.       *)
(* since() is two steps as well, when no row answers: the query, then the   *)
(* read of the in-memory log.  The database is the subclass's: rows are     *)
(* keyed by number, and the constructor's _load_seq resumes from the        *)
(* greatest one.  clear(), which the code keeps for tests, is left out.     *)
(***************************************************************************)
EXTENDS DeltaStore

CONSTANTS
    Writer,     \* the threads that call add
    NoDelta     \* a writer with no insert outstanding

VARIABLES
    rows,       \* the table: the deltas that were inserted
    pending,    \* the delta each writer has numbered and not yet inserted
    polling,    \* whether the follower's since() found no row and reads memory next
    cursor,     \* the greatest sequence number the follower was served
    received,   \* the deltas the follower was served
    answered,   \* history: the deltas whose add() returned
    late,       \* history: the deltas inserted after one with a greater number
    ghosts      \* history: numbers served from memory that a restart gave up

memory == <<seq, deltas, latest>>   \* inherited
follower == <<polling, cursor, received>>
history == <<answered, late, ghosts>>
persistentVars == <<memory, rows, pending, follower, history>>

PersistentTypeOK ==
    /\ TypeOK
    /\ rows \subseteq Delta
    /\ pending \in [Writer -> Delta \cup {NoDelta}]
    /\ polling \in BOOLEAN
    /\ cursor \in Nat
    /\ received \subseteq Delta
    /\ answered \subseteq Delta
    /\ late \subseteq Delta
    /\ ghosts \subseteq Nat

PersistentInit ==
    /\ Init
    /\ rows = {}
    /\ pending = [w \in Writer |-> NoDelta]
    /\ polling = FALSE
    /\ cursor = 0
    /\ received = {}
    /\ answered = {}
    /\ late = {}
    /\ ghosts = {}

-----------------------------------------------------------------------------
(* Writers. *)

\* delta = super().add(action, agent)
Number(w) ==
    /\ pending[w] = NoDelta
    /\ \E action \in DeltaAction, f \in Facts :
          /\ Add(action, f)
          /\ pending' = [pending EXCEPT ![w] = NewDelta(action, f)]
    /\ UNCHANGED <<rows, follower, history>>

\* The row of writer w's delta is in the table.
Insert(w) ==
    /\ rows' = rows \cup {pending[w]}
    /\ late' = IF \E d \in rows : d.seq > pending[w].seq
               THEN late \cup {pending[w]} ELSE late

\* self._persist(delta) returns, and so does add().
Persist(w) ==
    /\ pending[w] # NoDelta
    /\ Insert(w)
    /\ answered' = answered \cup {pending[w]}
    /\ pending' = [pending EXCEPT ![w] = NoDelta]
    /\ UNCHANGED <<memory, follower, ghosts>>

\* self._persist(delta) raises, before or after the row was committed: add()
\* raises, and the delta stays in memory under its number.
PersistFails(w) ==
    /\ pending[w] # NoDelta
    /\ Insert(w) \/ UNCHANGED <<rows, late>>
    /\ pending' = [pending EXCEPT ![w] = NoDelta]
    /\ UNCHANGED <<memory, follower, answered, ghosts>>

-----------------------------------------------------------------------------
(* The follower: router.sm_deltas calls since(cursor). *)

\* Mutant of LoadSince: the query leaves out the row after the cursor.
LoadSinceOffByOne(n) == {d \in rows : d.seq > n + 1}

\* SELECT ... WHERE seq > n
LoadSince(n) == {d \in rows : d.seq > n}

Receive(page) ==
    /\ received' = received \cup page
    /\ IF page = {} THEN cursor' = cursor
       ELSE \E d \in page : cursor' = d.seq /\ \A e \in page : e.seq <= d.seq

\* persisted = self._load_since(seq); if persisted: return persisted
Load ==
    /\ ~polling
    /\ IF LoadSince(cursor) = {}
       THEN polling' = TRUE /\ UNCHANGED <<cursor, received>>
       ELSE Receive(LoadSince(cursor)) /\ UNCHANGED polling
    /\ UNCHANGED <<memory, rows, pending, history>>

\* return super().since(seq)
Fallback ==
    /\ polling
    /\ Receive({d \in Logged : d.seq > cursor})
    /\ polling' = FALSE
    /\ UNCHANGED <<memory, rows, pending, history>>

-----------------------------------------------------------------------------
\* Mutant of LoadSeq: the counter starts from zero.
LoadSeqForgotten == seq' = 0

\* self._load_seq() of the subclass: resume after the greatest number in the table.
LoadSeq ==
    \E n \in {d.seq : d \in rows} \cup {0} :
        /\ \A d \in rows : d.seq <= n
        /\ seq' = n

\* The process stops, with its memory and the calls in progress, and starts again.
Restart ==
    /\ LoadSeq
    /\ deltas' = <<>>
    /\ latest' = [a \in {} |-> 0]
    /\ pending' = [w \in Writer |-> NoDelta]
    /\ polling' = FALSE
    /\ ghosts' = ghosts \cup {d.seq : d \in received \ rows}
    /\ UNCHANGED <<rows, cursor, received, answered, late>>

PersistentNext ==
    \/ \E w \in Writer : Number(w)
    \/ \E w \in Writer : Persist(w)
    \/ \E w \in Writer : PersistFails(w)
    \/ Load
    \/ Fallback
    \/ Restart

PersistentSpec == PersistentInit /\ [][PersistentNext]_persistentVars

-----------------------------------------------------------------------------
(* Properties. *)

\* What add() returned survives: a delta whose caller saw no exception is in the
\* table, whatever inserts fail around it and however often the process restarts.
AnsweredIsDurable == answered \subseteq rows

\* A number is a key of the table: inserts made out of order, numbers given up by
\* failed inserts and counters resumed by a restart never put two deltas under one.
RowsAreKeyed == \A d, e \in rows : d.seq = e.seq => d = e

\* The counter never falls behind the table nor behind a call in progress, and no
\* two calls in progress hold one number: the next delta takes a free one.
NumbersAreFree ==
    /\ \A d \in rows : d.seq <= seq
    /\ \A w \in Writer : pending[w] # NoDelta =>
          /\ pending[w].seq <= seq
          /\ \A d \in rows : d.seq # pending[w].seq
          /\ \A v \in Writer \ {w} :
                pending[v] # NoDelta => pending[v].seq # pending[w].seq

\* The only rows a follower's cursor passes without having been served them are
\* those inserted after a row with a greater number, and those that reuse a number
\* which was served from memory and then lost in a restart.
SkipsOnlyLateOrReused ==
    \A d \in rows : d.seq <= cursor => d \in received \cup late \/ d.seq \in ghosts

\* A poll that moves the cursor serves every delta between the old cursor and the
\* new one whose add() had returned before, whether rows or memory answered it.
PollServesAnswered ==
    [][cursor' # cursor =>
        \A d \in answered : d.seq > cursor /\ d.seq <= cursor' => d \in received']_persistentVars
=============================================================================
