----------------------------- MODULE Federation -----------------------------
(***************************************************************************)
(* One registry follows another: pull_deltas and FederationPoller of        *)
(* sm_bridge/federation.py against the /deltas endpoint of router.py.       *)
(*                                                                         *)
(* Both registries keep a DeltaStore (module DeltaStore): the peer's is     *)
(* written by its owner, the local one only by the poll threads.  A poll is *)
(* split where another thread or registry can act: the check of the stop    *)
(* flag, the read of the cursor, the peer's two reads of its own store      *)
(* (since, then next_seq), each store.add, and the write of the cursor.     *)
(* The controller is the thread that calls start() and stop().              *)
(*                                                                         *)
(* The proof block that ingestion replaces in a record is left out: nothing *)
(* here depends on it.  The peer's store is never cleared.                  *)
(***************************************************************************)
EXTENDS Naturals, Sequences, SequencesExt

CONSTANTS
    Agent, SlugName, Facts,     \* as in DeltaStore
    Thread,                     \* the threads a poller may create
    NoThread,                   \* the None of self._thread
    PeerFilter,                 \* what the peer's since means
    CursorMode,                 \* what the poller takes it to mean
    JoinMayTimeout,             \* stop() has a timeout (5.0 by default), not None
    MaxPeerSeq,                 \* bound: deltas the peer ever writes
    MaxFaults                   \* bound: failed fetches, bad pages, failed writes

CursorModes == {"exclusive", "inclusive"}

ASSUME FactsAssumption ==
    \A f \in Facts : f.id \in Agent /\ f.slug \in SlugName
ASSUME ModeAssumption == PeerFilter \in CursorModes /\ CursorMode \in CursorModes
ASSUME ThreadAssumption == NoThread \notin Thread
ASSUME JoinAssumption == JoinMayTimeout \in BOOLEAN
ASSUME BoundAssumption == MaxPeerSeq \in Nat /\ MaxFaults \in Nat

VARIABLES
    pSeq, pDeltas, pLatest,     \* the peer's store
    lSeq, lDeltas, lLatest,     \* the local store
    origin,     \* history: the peer's sequence number of each local delta
    since,      \* self.since: the cursor
    stopSet,    \* self._stop
    current,    \* self._thread
    ctl,        \* the controller: idle, or waiting in join
    pc,         \* where each thread is
    from,       \* the since each thread asked with
    page,       \* the rows each thread received
    done,       \* how many of them it has written
    faults      \* how many faults have happened

peerVars == <<pSeq, pDeltas, pLatest>>
localVars == <<lSeq, lDeltas, lLatest, origin>>
pollerVars == <<stopSet, current, ctl>>
threadVars == <<pc, from, page, done>>
vars == <<peerVars, localVars, pollerVars, threadVars, since, faults>>

Peer == INSTANCE DeltaStore WITH seq <- pSeq, deltas <- pDeltas, latest <- pLatest
Local == INSTANCE DeltaStore WITH seq <- lSeq, deltas <- lDeltas, latest <- lLatest

Stage == {"off", "loop", "begin", "request", "served", "apply", "wait"}

TypeOK ==
    /\ Peer!TypeOK
    /\ Local!TypeOK
    /\ origin \in Seq(Nat)
    /\ since \in Nat
    /\ stopSet \in BOOLEAN
    /\ current \in Thread \cup {NoThread}
    /\ ctl \in {"idle", "joining"}
    /\ pc \in [Thread -> Stage]
    /\ from \in [Thread -> Nat]
    /\ page \in [Thread -> Seq(Peer!Delta)]
    /\ done \in [Thread -> Nat]
    /\ faults \in 0..MaxFaults

Init ==
    /\ Peer!Init
    /\ Local!Init
    /\ origin = <<>>
    /\ since = 0
    /\ stopSet = FALSE
    /\ current = NoThread
    /\ ctl = "idle"
    /\ pc = [t \in Thread |-> "off"]
    /\ from = [t \in Thread |-> 0]
    /\ page = [t \in Thread |-> <<>>]
    /\ done = [t \in Thread |-> 0]
    /\ faults = 0

-----------------------------------------------------------------------------
(* The cursor contract. *)

\* Whether a cursor says that delta n of the peer has been received.
Covers(cursor, n) == IF CursorMode = "exclusive" THEN n <= cursor ELSE n < cursor

\* Mutant of CursorAfter: an empty page moves the cursor.
CursorAfterEmptyPage(rows, n) ==
    IF rows = <<>> THEN n + 1
    ELSE IF CursorMode = "inclusive" THEN rows[Len(rows)].seq + 1
    ELSE rows[Len(rows)].seq

\* The cursor after a page that was asked for with since = n.
CursorAfter(rows, n) ==
    IF rows = <<>> THEN n
    ELSE IF CursorMode = "inclusive" THEN rows[Len(rows)].seq + 1
    ELSE rows[Len(rows)].seq

\* Mutant of Acceptable: the order and range of sequences are not checked.
AcceptableInAnyOrder(rows, n, next) ==
    CursorMode = "inclusive" => next = CursorAfter(rows, n)

\* The checks of pull_deltas on a page: sequences increase within the requested
\* range and, in inclusive mode, next_seq is the derived cursor.
Acceptable(rows, n, next) ==
    /\ \A i \in DOMAIN rows :
          IF i = 1 THEN ~Covers(n, rows[i].seq) ELSE rows[i-1].seq < rows[i].seq
    /\ CursorMode = "inclusive" => next = CursorAfter(rows, n)

-----------------------------------------------------------------------------
(* The peer. *)

PeerAdd ==
    /\ pSeq < MaxPeerSeq
    /\ \E action \in Peer!DeltaAction, f \in Facts : Peer!Add(action, f)
    /\ UNCHANGED <<localVars, pollerVars, threadVars, since, faults>>

\* What a well-behaved peer may answer to since = n.  The repository's own
\* router filters seq > n, which on a log without gaps is the suffix after n;
\* an inclusive peer filters seq >= n and may cut its page short.
Rows(n) ==
    IF PeerFilter = "exclusive"
    THEN {SubSeq(pDeltas, n + 1, pSeq)}
    ELSE LET first == IF n = 0 THEN 1 ELSE n IN
         IF first > pSeq THEN {<<>>}
         ELSE {SubSeq(pDeltas, first, k) : k \in first..pSeq}

\* What may arrive instead: the first two rows exchanged, or the whole log from
\* a peer that ignored since.
Swapped(rows) == [i \in DOMAIN rows |->
    IF Len(rows) < 2 THEN rows[i]
    ELSE IF i = 1 THEN rows[2] ELSE IF i = 2 THEN rows[1] ELSE rows[i]]

ServeRows(t) ==
    /\ pc[t] = "request"
    /\ \E rows \in Rows(from[t]) :
          \/ page' = [page EXCEPT ![t] = rows] /\ UNCHANGED faults
          \/ /\ faults < MaxFaults
             /\ faults' = faults + 1
             /\ page' = [page EXCEPT ![t] = Swapped(rows)] \/ page' = [page EXCEPT ![t] = pDeltas]
    /\ pc' = [pc EXCEPT ![t] = "served"]
    /\ UNCHANGED <<peerVars, localVars, pollerVars, since, from, done>>

-----------------------------------------------------------------------------
(* A poll thread: one turn of the loop in FederationPoller._run. *)

\* pull_deltas returns or raises: its local variables are gone.
EndPull(t) ==
    /\ pc' = [pc EXCEPT ![t] = "wait"]
    /\ from' = [from EXCEPT ![t] = 0]
    /\ page' = [page EXCEPT ![t] = <<>>]
    /\ done' = [done EXCEPT ![t] = 0]

\* Mutant of CheckStop: the loop does not look at the stop flag.
CheckStopIgnored(t) ==
    /\ pc[t] = "loop"
    /\ pc' = [pc EXCEPT ![t] = "begin"]
    /\ UNCHANGED <<peerVars, localVars, pollerVars, since, from, page, done, faults>>

CheckStop(t) ==
    /\ pc[t] = "loop"
    /\ pc' = [pc EXCEPT ![t] = IF stopSet THEN "off" ELSE "begin"]
    /\ UNCHANGED <<peerVars, localVars, pollerVars, since, from, page, done, faults>>

ReadCursor(t) ==
    /\ pc[t] = "begin"
    /\ from' = [from EXCEPT ![t] = since]
    /\ pc' = [pc EXCEPT ![t] = "request"]
    /\ UNCHANGED <<peerVars, localVars, pollerVars, since, page, done, faults>>

\* The peer reads its next_seq in a second critical section, after the rows; the
\* poller then validates the whole page before it writes anything.
Validate(t) ==
    /\ pc[t] = "served"
    /\ LET next == IF PeerFilter = "exclusive" THEN Peer!NextSeq
                   ELSE CursorAfter(page[t], from[t])
       IN  IF Acceptable(page[t], from[t], next)
           THEN pc' = [pc EXCEPT ![t] = "apply"] /\ UNCHANGED <<from, page, done>>
           ELSE EndPull(t)
    /\ UNCHANGED <<peerVars, localVars, pollerVars, since, faults>>

Apply(t) ==
    /\ pc[t] = "apply"
    /\ done[t] < Len(page[t])
    /\ LET row == page[t][done[t] + 1] IN
          /\ Local!Add(row.action, row.agent)
          /\ origin' = Append(origin, row.seq)
    /\ done' = [done EXCEPT ![t] = @ + 1]
    /\ UNCHANGED <<peerVars, pollerVars, since, pc, from, page, faults>>

\* Mutant of Advance: the cursor moves before the page is written.
AdvanceEarly(t) ==
    /\ pc[t] = "apply"
    /\ since' = CursorAfter(page[t], from[t])
    /\ EndPull(t)
    /\ UNCHANGED <<peerVars, localVars, pollerVars, faults>>

Advance(t) ==
    /\ pc[t] = "apply"
    /\ done[t] = Len(page[t])
    /\ since' = CursorAfter(page[t], from[t])
    /\ EndPull(t)
    /\ UNCHANGED <<peerVars, localVars, pollerVars, faults>>

\* An exception in sync_once, swallowed by the loop: an unreachable peer, a row
\* that does not validate, a re-verifier that raises, a store.add that fails.
Fail(t) ==
    /\ \/ pc[t] \in {"request", "served"}
       \/ pc[t] = "apply" /\ done[t] < Len(page[t])
    /\ faults < MaxFaults
    /\ faults' = faults + 1
    /\ EndPull(t)
    /\ UNCHANGED <<peerVars, localVars, pollerVars, since>>

Wait(t) ==
    /\ pc[t] = "wait"
    /\ pc' = [pc EXCEPT ![t] = "loop"]
    /\ UNCHANGED <<peerVars, localVars, pollerVars, since, from, page, done, faults>>

Poll(t) ==
    \/ CheckStop(t) \/ ReadCursor(t) \/ ServeRows(t) \/ Validate(t)
    \/ Apply(t) \/ Advance(t) \/ Wait(t)

-----------------------------------------------------------------------------
(* The controller. *)

\* Mutant of Start: the stop flag of an earlier stop() is not cleared.
StartWithoutClear ==
    /\ ctl = "idle"
    /\ current = NoThread
    /\ \E t \in Thread :
          /\ pc[t] = "off"
          /\ current' = t
          /\ pc' = [pc EXCEPT ![t] = "loop"]
    /\ UNCHANGED <<peerVars, localVars, stopSet, ctl, since, from, page, done, faults>>

Start ==
    /\ ctl = "idle"
    /\ current = NoThread
    /\ stopSet' = FALSE
    /\ \E t \in Thread :
          /\ pc[t] = "off"
          /\ current' = t
          /\ pc' = [pc EXCEPT ![t] = "loop"]
    /\ UNCHANGED <<peerVars, localVars, ctl, since, from, page, done, faults>>

Stop ==
    /\ ctl = "idle"
    /\ stopSet' = TRUE
    /\ ctl' = IF current = NoThread THEN "idle" ELSE "joining"
    /\ UNCHANGED <<peerVars, localVars, current, since, threadVars, faults>>

\* join returns when the thread has ended or, with a timeout, at any time.
Joined ==
    /\ ctl = "joining"
    /\ pc[current] = "off" \/ JoinMayTimeout
    /\ current' = NoThread
    /\ ctl' = "idle"
    /\ UNCHANGED <<peerVars, localVars, stopSet, since, threadVars, faults>>

Next ==
    \/ PeerAdd
    \/ \E t \in Thread : Poll(t) \/ Fail(t)
    \/ Start \/ Stop \/ Joined

Spec == Init /\ [][Next]_vars

\* Threads are scheduled and every fetch returns or raises (the transport has a
\* timeout); join returns once it can.  Nobody has to call start or stop.
Fairness == /\ \A t \in Thread : WF_vars(Poll(t))
            /\ WF_vars(Joined)

FairSpec == Spec /\ Fairness
-----------------------------------------------------------------------------
(* Properties. *)

SameChange(d, e) == d.action = e.action /\ d.agent = e.agent

\* Everything the cursor claims to have received has been written to the local
\* store: no failed fetch, bad page, failed write, concurrent peer write or
\* restart of the poller makes the follower skip a change of its peer.
NothingSkipped ==
    \A n \in 1..pSeq : Covers(since, n) =>
        \E i \in DOMAIN lDeltas : origin[i] = n /\ SameChange(lDeltas[i], pDeltas[n])

\* When the cursor covers all of the peer's log, the two logs list the same
\* records: a partly written page that is retried leaves no trace.
CaughtUpAgrees ==
    (\A n \in 1..pSeq : Covers(since, n)) =>
        {d.agent : d \in Local!Listed(Local!Logged)}
            = {d.agent : d \in Peer!Listed(Peer!Logged)}

\* "The cursor advances across iterations" (federation.py, FederationPoller): no
\* step moves it back.
CursorNeverRegresses == [][since' >= since]_since

\* A change that the cursor already covers is never written again, so a peer's
\* old state never overwrites its newer one after the newer was acknowledged.
NothingReapplied ==
    [][\A i \in DOMAIN origin' \ DOMAIN origin : ~Covers(since, origin'[i])]_origin

\* stop() returns, and every change of the peer is received unless the poller is
\* stopped, once the faults are over.
StopReturns == (ctl = "joining") ~> (ctl = "idle")

CatchesUp ==
    \A n \in 1..MaxPeerSeq :
        (pSeq >= n /\ current # NoThread) ~> (Covers(since, n) \/ ctl = "joining")
=============================================================================
