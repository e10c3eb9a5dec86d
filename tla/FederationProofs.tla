-------------------------- MODULE FederationProofs --------------------------
(***************************************************************************)
(* Proofs about Federation for every number of poll threads, every log of   *)
(* the peer and every number of faults.                                    *)
(*                                                                         *)
(* NothingSkipped needs no assumption on stop(): it holds when two poll     *)
(* loops run at once.  CursorNeverRegresses and NothingReapplied need a     *)
(* join that waits for the thread.                                         *)
(***************************************************************************)
EXTENDS Federation, TLAPS

\* A pull of thread t is in progress, and has its rows.
Asked(t) == pc[t] \in {"request", "served", "apply"}
HasRows(t) == pc[t] \in {"served", "apply"}

\* The change n of the peer is in the local log.
Applied(n) ==
    \E i \in DOMAIN lDeltas : origin[i] = n /\ SameChange(lDeltas[i], pDeltas[n])

\* A cursor claims no more than what the peer has, and all of it was applied.
Honest(cursor) ==
    \A n \in 1..cursor : Covers(cursor, n) => n <= pSeq /\ Applied(n)

\* Rows are deltas of the peer, and leave no gap after what cursor n covers.
PeersRows(rows) ==
    \A i \in DOMAIN rows :
        rows[i].seq \in 1..pSeq /\ rows[i] = pDeltas[rows[i].seq]

NoGapAfter(rows, n) ==
    \A i \in DOMAIN rows : \A m \in 1..rows[i].seq :
        Covers(n, m) \/ \E j \in DOMAIN rows : rows[j].seq = m

Written(t) ==
    /\ done[t] <= Len(page[t])
    /\ \A i \in 1..done[t] : Applied(page[t][i].seq)

PeerLog == pSeq = Len(pDeltas) /\ \A i \in 1..pSeq : pDeltas[i].seq = i

SoundPull(t) ==
    /\ Asked(t) => Honest(from[t])
    /\ HasRows(t) => PeersRows(page[t]) /\ NoGapAfter(page[t], from[t])
    /\ pc[t] = "apply" => Written(t)
    /\ pc[t] # "apply" => done[t] = 0

SkipInv ==
    /\ Len(origin) = Len(lDeltas)
    /\ Honest(since)
    /\ \A t \in Thread : SoundPull(t)

\* Only the current thread runs, so a pull in progress started from the cursor.
\* The rows it accepts are consecutive and beyond that cursor.
Consecutive(rows) == \A i \in DOMAIN rows : rows[i].seq = rows[1].seq + i - 1

OneLoop ==
    \A t \in Thread :
        /\ pc[t] # "off" => t = current
        /\ Asked(t) => from[t] = since
        /\ pc[t] = "served" =>
              Consecutive(page[t]) \/ (Len(page[t]) >= 2 /\ page[t][2].seq < page[t][1].seq)
        /\ pc[t] = "apply" =>
              /\ Consecutive(page[t])
              /\ \A i \in DOMAIN page[t] : ~Covers(since, page[t][i].seq)

-----------------------------------------------------------------------------
(* Types. *)

\* A change at the peer keeps the types of its store.
LEMMA PeerAddType ==
    ASSUME Peer!TypeOK, NEW action \in Peer!DeltaAction, NEW f \in Facts,
           Peer!Add(action, f)
    PROVE  Peer!TypeOK'
<1> DEFINE d == Peer!NewDelta(action, f)
<1>1. d \in Peer!Delta /\ d.agent = f /\ f.id \in Agent
  BY FactsAssumption DEF Peer!TypeOK, Peer!NewDelta, Peer!Delta
<1> HIDE DEF d
<1>2. pSeq' \in Nat /\ pDeltas' \in Seq(Peer!Delta)
  BY <1>1 DEF Peer!Add, Peer!TypeOK, d
<1>3. pLatest' = [a \in DOMAIN pLatest \cup {f.id} |-> IF a = f.id THEN d ELSE pLatest[a]]
  BY <1>1 DEF Peer!Add, Peer!Index, d
<1>4. DOMAIN pLatest' \subseteq Agent /\ \A a \in DOMAIN pLatest' : pLatest'[a] \in Peer!Delta
  BY <1>1, <1>3 DEF Peer!TypeOK
<1>5. QED
  BY <1>2, <1>4 DEF Peer!TypeOK

\* A delta applied locally keeps the types of the local store.
LEMMA LocalAddType ==
    ASSUME Local!TypeOK, NEW action \in Local!DeltaAction, NEW f \in Facts,
           Local!Add(action, f)
    PROVE  Local!TypeOK'
<1> DEFINE d == Local!NewDelta(action, f)
<1>1. d \in Local!Delta /\ d.agent = f /\ f.id \in Agent
  BY FactsAssumption DEF Local!TypeOK, Local!NewDelta, Local!Delta
<1> HIDE DEF d
<1>2. lSeq' \in Nat /\ lDeltas' \in Seq(Local!Delta)
  BY <1>1 DEF Local!Add, Local!TypeOK, d
<1>3. lLatest' = [a \in DOMAIN lLatest \cup {f.id} |-> IF a = f.id THEN d ELSE lLatest[a]]
  BY <1>1 DEF Local!Add, Local!Index, d
<1>4. DOMAIN lLatest' \subseteq Agent /\ \A a \in DOMAIN lLatest' : lLatest'[a] \in Local!Delta
  BY <1>1, <1>3 DEF Local!TypeOK
<1>5. QED
  BY <1>2, <1>4 DEF Local!TypeOK

\* The row that a thread writes next is a delta of the peer.
LEMMA NextRowType ==
    ASSUME TypeOK, NEW t \in Thread, done[t] < Len(page[t])
    PROVE  /\ done[t] + 1 \in DOMAIN page[t]
           /\ page[t][done[t] + 1] \in Peer!Delta
BY DEF TypeOK

\* What a thread may receive is a sequence of deltas of the peer.
LEMMA RowsType ==
    ASSUME TypeOK, PeerLog, NEW n \in Nat, NEW rows \in Rows(n)
    PROVE  rows \in Seq(Peer!Delta) /\ Swapped(rows) \in Seq(Peer!Delta)
<1>1. rows \in Seq(Peer!Delta)
  <2>1. pDeltas \in Seq(Peer!Delta) /\ pSeq = Len(pDeltas)
    BY DEF TypeOK, Peer!TypeOK, PeerLog
  <2>2. ASSUME NEW first \in Nat \ {0}, NEW k \in Nat, k <= pSeq
        PROVE  SubSeq(pDeltas, first, k) \in Seq(Peer!Delta)
    BY <2>1, <2>2
  <2>3. CASE PeerFilter = "exclusive"
    <3>1. rows = SubSeq(pDeltas, n + 1, pSeq)
      BY <2>3 DEF Rows
    <3>2. n + 1 \in Nat \ {0} /\ pSeq \in Nat /\ pSeq <= pSeq
      BY <2>1
    <3>3. QED
      BY <2>2, <3>1, <3>2
  <2>4. CASE PeerFilter # "exclusive"
    <3> DEFINE first == IF n = 0 THEN 1 ELSE n
    <3>1. rows = <<>> \/ \E k \in first..pSeq : rows = SubSeq(pDeltas, first, k)
      BY <2>4 DEF Rows
    <3>2. first \in Nat \ {0} /\ \A k \in first..pSeq : k \in Nat /\ k <= pSeq
      BY <2>1
    <3> HIDE DEF first
    <3>3. <<>> \in Seq(Peer!Delta)
      OBVIOUS
    <3>4. QED
      BY <2>2, <3>1, <3>2, <3>3
  <2>5. QED
    BY <2>3, <2>4
<1>2. Swapped(rows) \in Seq(Peer!Delta)
  BY <1>1 DEF Swapped
<1>3. QED
  BY <1>1, <1>2

\* The cursor after a page is a number.
LEMMA CursorType ==
    ASSUME NEW n \in Nat, NEW rows \in Seq(Peer!Delta)
    PROVE  CursorAfter(rows, n) \in Nat
<1>1. CASE rows = <<>>
  BY <1>1 DEF CursorAfter
<1>2. CASE rows # <<>>
  <2>1. Len(rows) \in DOMAIN rows
    BY <1>2
  <2>2. rows[Len(rows)] \in Peer!Delta
    BY <2>1
  <2>3. rows[Len(rows)].seq \in Nat
    BY <2>2 DEF Peer!Delta
  <2>4. QED
    BY <1>2, <2>3 DEF CursorAfter
<1>3. QED
  BY <1>1, <1>2

\* A change at the peer extends its log without a gap and keeps what was there.
LEMMA PeerLogAfterAdd ==
    ASSUME Peer!TypeOK, PeerLog, NEW action \in Peer!DeltaAction, NEW f \in Facts,
           Peer!Add(action, f)
    PROVE  /\ PeerLog'
           /\ pSeq' = pSeq + 1
           /\ \A n \in 1..pSeq : pDeltas'[n] = pDeltas[n]
<1> DEFINE d == Peer!NewDelta(action, f)
<1>1. d.seq = pSeq + 1
  BY DEF Peer!NewDelta
<1>2. d \in Peer!Delta
  BY DEF Peer!TypeOK, Peer!NewDelta, Peer!Delta
<1>3. pSeq' = pSeq + 1 /\ pDeltas' = Append(pDeltas, d)
  BY DEF Peer!Add
<1> HIDE DEF d
<1>4. Len(pDeltas') = Len(pDeltas) + 1 /\ pDeltas'[Len(pDeltas) + 1] = d
  BY <1>2, <1>3 DEF Peer!TypeOK
<1>5. \A n \in 1..pSeq : pDeltas'[n] = pDeltas[n]
  BY <1>2, <1>3 DEF Peer!TypeOK, PeerLog
<1>6. QED
  BY <1>1, <1>3, <1>4, <1>5 DEF Peer!TypeOK, PeerLog

\* The bookkeeping of a pull is typed after it ends.
LEMMA EndPullType ==
    ASSUME TypeOK, NEW t \in Thread, EndPull(t)
    PROVE  /\ pc' \in [Thread -> Stage]
           /\ from' \in [Thread -> Nat]
           /\ page' \in [Thread -> Seq(Peer!Delta)]
           /\ done' \in [Thread -> Nat]
BY DEF TypeOK, EndPull, Stage

\* A step that leaves both stores alone keeps their types.
LEMMA SameStoresType ==
    ASSUME TypeOK, UNCHANGED <<peerVars, localVars>>
    PROVE  Peer!TypeOK' /\ Local!TypeOK' /\ origin' \in Seq(Nat)
BY DEF TypeOK, peerVars, localVars, Peer!TypeOK, Local!TypeOK

\* Every step keeps the types and the peer's log without gaps.
LEMMA TypeStep ==
    ASSUME TypeOK, PeerLog, [Next]_vars
    PROVE  TypeOK' /\ PeerLog'
<1>1. CASE PeerAdd
  <2>1. PICK action \in Peer!DeltaAction, f \in Facts : Peer!Add(action, f)
    BY <1>1 DEF PeerAdd
  <2>2. Peer!TypeOK' /\ PeerLog'
    BY <2>1, PeerAddType, PeerLogAfterAdd DEF TypeOK
  <2>3. Local!TypeOK'
    BY <1>1 DEF PeerAdd, localVars, TypeOK, Local!TypeOK
  <2>4. QED
    BY <1>1, <2>2, <2>3 DEF PeerAdd, TypeOK, localVars, pollerVars, threadVars
<1>2. ASSUME UNCHANGED peerVars PROVE PeerLog'
  BY <1>2 DEF PeerLog, peerVars
<1>3. ASSUME NEW t \in Thread, CheckStop(t) PROVE TypeOK'
  <2>1. Peer!TypeOK' /\ Local!TypeOK' /\ origin' \in Seq(Nat)
    BY <1>3, SameStoresType DEF CheckStop
  <2>2. pc' \in [Thread -> Stage]
    BY <1>3 DEF CheckStop, TypeOK, Stage
  <2>3. QED
    BY <1>3, <2>1, <2>2 DEF CheckStop, TypeOK, pollerVars
<1>4. ASSUME NEW t \in Thread, ReadCursor(t) PROVE TypeOK'
  <2>1. Peer!TypeOK' /\ Local!TypeOK' /\ origin' \in Seq(Nat)
    BY <1>4, SameStoresType DEF ReadCursor
  <2>2. pc' \in [Thread -> Stage] /\ from' \in [Thread -> Nat]
    BY <1>4 DEF ReadCursor, TypeOK, Stage
  <2>3. QED
    BY <1>4, <2>1, <2>2 DEF ReadCursor, TypeOK, pollerVars
<1>5. ASSUME NEW t \in Thread, ServeRows(t) PROVE TypeOK'
  <2>1. Peer!TypeOK' /\ Local!TypeOK' /\ origin' \in Seq(Nat)
    BY <1>5, SameStoresType DEF ServeRows
  <2>2. pc' \in [Thread -> Stage]
    BY <1>5 DEF ServeRows, TypeOK, Stage
  <2>3. page' \in [Thread -> Seq(Peer!Delta)] /\ faults' \in 0..MaxFaults
    <3>1. from[t] \in Nat /\ pDeltas \in Seq(Peer!Delta)
      BY DEF TypeOK, Peer!TypeOK
    <3>2. \A rows \in Rows(from[t]) :
             rows \in Seq(Peer!Delta) /\ Swapped(rows) \in Seq(Peer!Delta)
      BY <3>1, RowsType
    <3>3. \E rows \in Seq(Peer!Delta) : page' = [page EXCEPT ![t] = rows]
      BY <1>5, <3>1, <3>2 DEF ServeRows
    <3>4. faults' \in 0..MaxFaults
      BY <1>5, BoundAssumption DEF ServeRows, TypeOK
    <3>5. QED
      BY <3>3, <3>4 DEF TypeOK
  <2>4. QED
    BY <1>5, <2>1, <2>2, <2>3 DEF ServeRows, TypeOK, pollerVars
<1>6. ASSUME NEW t \in Thread, Validate(t) PROVE TypeOK'
  <2>1. Peer!TypeOK' /\ Local!TypeOK' /\ origin' \in Seq(Nat)
    BY <1>6, SameStoresType DEF Validate
  <2>2. CASE EndPull(t)
    BY <1>6, <2>1, <2>2, EndPullType DEF Validate, TypeOK, pollerVars
  <2>3. CASE pc' = [pc EXCEPT ![t] = "apply"] /\ UNCHANGED <<from, page, done>>
    BY <1>6, <2>1, <2>3 DEF Validate, TypeOK, pollerVars, Stage
  <2>4. QED
    BY <1>6, <2>2, <2>3 DEF Validate
<1>7. ASSUME NEW t \in Thread, Apply(t) PROVE TypeOK'
  <2> DEFINE row == page[t][done[t] + 1]
  <2>1. row \in Peer!Delta
    BY <1>7, NextRowType DEF Apply
  <2>2. row.action \in Local!DeltaAction /\ row.agent \in Facts /\ row.seq \in Nat
    BY <2>1 DEF Peer!Delta, Peer!DeltaAction, Local!DeltaAction
  <2>3. Local!Add(row.action, row.agent) /\ origin' = Append(origin, row.seq)
    BY <1>7 DEF Apply
  <2> HIDE DEF row
  <2>4. Local!TypeOK'
    BY <2>2, <2>3, LocalAddType DEF TypeOK
  <2>5. Peer!TypeOK'
    BY <1>7 DEF Apply, peerVars, TypeOK, Peer!TypeOK
  <2>6. origin' \in Seq(Nat) /\ done' \in [Thread -> Nat]
    BY <1>7, <2>2, <2>3 DEF Apply, TypeOK
  <2>7. QED
    BY <1>7, <2>4, <2>5, <2>6 DEF Apply, TypeOK, pollerVars
<1>8. ASSUME NEW t \in Thread, Advance(t) PROVE TypeOK'
  <2>1. Peer!TypeOK' /\ Local!TypeOK' /\ origin' \in Seq(Nat)
    BY <1>8, SameStoresType DEF Advance
  <2>2. since' \in Nat
    BY <1>8, CursorType DEF Advance, TypeOK
  <2>3. QED
    BY <1>8, <2>1, <2>2, EndPullType DEF Advance, TypeOK, pollerVars
<1>9. ASSUME NEW t \in Thread, Fail(t) PROVE TypeOK'
  <2>1. Peer!TypeOK' /\ Local!TypeOK' /\ origin' \in Seq(Nat)
    BY <1>9, SameStoresType DEF Fail
  <2>2. faults' \in 0..MaxFaults
    BY <1>9, BoundAssumption DEF Fail, TypeOK
  <2>3. EndPull(t)
    BY <1>9 DEF Fail
  <2>4. QED
    BY <1>9, <2>1, <2>2, <2>3, EndPullType DEF Fail, TypeOK, pollerVars
<1>10. ASSUME NEW t \in Thread, Wait(t) PROVE TypeOK'
  <2>1. Peer!TypeOK' /\ Local!TypeOK' /\ origin' \in Seq(Nat)
    BY <1>10, SameStoresType DEF Wait
  <2>2. pc' \in [Thread -> Stage]
    BY <1>10 DEF Wait, TypeOK, Stage
  <2>3. QED
    BY <1>10, <2>1, <2>2 DEF Wait, TypeOK, pollerVars
<1>11. ASSUME Start PROVE TypeOK'
  <2>1. Peer!TypeOK' /\ Local!TypeOK' /\ origin' \in Seq(Nat)
    BY <1>11, SameStoresType DEF Start
  <2>2. pc' \in [Thread -> Stage] /\ current' \in Thread
    BY <1>11 DEF Start, TypeOK, Stage
  <2>3. QED
    BY <1>11, <2>1, <2>2 DEF Start, TypeOK
<1>12. ASSUME Stop \/ Joined PROVE TypeOK'
  <2>1. Peer!TypeOK' /\ Local!TypeOK' /\ origin' \in Seq(Nat)
    BY <1>12, SameStoresType DEF Stop, Joined
  <2>2. QED
    BY <1>12, <2>1 DEF Stop, Joined, TypeOK, threadVars
<1>13. CASE UNCHANGED vars
  <2>1. Peer!TypeOK' /\ Local!TypeOK' /\ origin' \in Seq(Nat)
    BY <1>13, SameStoresType DEF vars
  <2>2. PeerLog'
    BY <1>2, <1>13 DEF vars
  <2>3. QED
    BY <1>13, <2>1, <2>2 DEF vars, pollerVars, threadVars, TypeOK
<1>14. ASSUME ~PeerAdd, Next PROVE UNCHANGED peerVars
  BY <1>14 DEF Next, Poll, CheckStop, ReadCursor, ServeRows, Validate, Apply, Advance,
               Fail, Wait, Start, Stop, Joined
<1>15. ASSUME Next, ~PeerAdd PROVE TypeOK'
  BY <1>3, <1>4, <1>5, <1>6, <1>7, <1>8, <1>9, <1>10, <1>11, <1>12, <1>15 DEF Next, Poll
<1>16. QED
  BY <1>1, <1>2, <1>13, <1>14, <1>15

\* Types are preserved by polls, faults, and by starting and stopping the poller.
THEOREM FederationTypeCorrect == Spec => [](TypeOK /\ PeerLog)
<1>1. Init => TypeOK /\ PeerLog
  <2> SUFFICES ASSUME Init PROVE TypeOK /\ PeerLog
    OBVIOUS
  <2>1. Peer!TypeOK /\ PeerLog
    BY DEF Init, Peer!Init, Peer!TypeOK, PeerLog
  <2>2. Local!TypeOK
    BY DEF Init, Local!Init, Local!TypeOK
  <2>3. <<>> \in Seq(Peer!Delta) /\ <<>> \in Seq(Nat)
    OBVIOUS
  <2>4. /\ pc \in [Thread -> Stage]
        /\ from \in [Thread -> Nat]
        /\ page \in [Thread -> Seq(Peer!Delta)]
        /\ done \in [Thread -> Nat]
    BY <2>3 DEF Init, Stage
  <2>5. origin \in Seq(Nat)
    BY <2>3 DEF Init
  <2>6. faults \in 0..MaxFaults
    BY BoundAssumption DEF Init
  <2>7. /\ since \in Nat
        /\ stopSet \in BOOLEAN
        /\ current \in Thread \cup {NoThread}
        /\ ctl \in {"idle", "joining"}
    BY DEF Init
  <2>8. QED
    BY <2>1, <2>2, <2>4, <2>5, <2>6, <2>7 DEF TypeOK
<1>2. QED
  BY <1>1, TypeStep, PTL DEF Spec

-----------------------------------------------------------------------------
(* Nothing is skipped. *)

ModesAgree == PeerFilter = CursorMode

\* Both logs keep what they have.
Keeps ==
    /\ pSeq' \in Nat /\ pSeq <= pSeq'
    /\ \A n \in 1..pSeq : pDeltas'[n] = pDeltas[n]
    /\ \A i \in DOMAIN lDeltas :
          i \in DOMAIN lDeltas' /\ lDeltas'[i] = lDeltas[i] /\ origin'[i] = origin[i]

\* A step that leaves both stores alone keeps every applied change applied.
LEMMA SameKeeps ==
    ASSUME TypeOK, UNCHANGED <<peerVars, localVars>>
    PROVE  Keeps
BY DEF Keeps, peerVars, localVars, TypeOK, Peer!TypeOK

\* What was applied stays applied.
LEMMA KeepsApplied ==
    ASSUME TypeOK, Keeps
    PROVE  \A n \in 1..pSeq : Applied(n) => Applied(n)'
BY DEF Keeps, Applied, SameChange

\* An honest cursor stays honest.
LEMMA KeepsHonest ==
    ASSUME TypeOK, Keeps, NEW c \in Nat, Honest(c)
    PROVE  \A n \in 1..c : Covers(c, n) => n <= pSeq' /\ Applied(n)'
<1> SUFFICES ASSUME NEW n \in 1..c, Covers(c, n)
             PROVE  n <= pSeq' /\ Applied(n)'
  OBVIOUS
<1>1. n \in 1..pSeq /\ Applied(n)
  BY DEF Honest
<1>2. Applied(n)'
  BY <1>1, KeepsApplied
<1>3. QED
  BY <1>1, <1>2 DEF Keeps, TypeOK, Peer!TypeOK

\* A thread that does not move keeps its part of the invariant.
LEMMA SameThread ==
    ASSUME TypeOK, Keeps, NEW u \in Thread, SoundPull(u),
           pc'[u] = pc[u], from'[u] = from[u], page'[u] = page[u], done'[u] = done[u]
    PROVE  SoundPull(u)'
<1>1. from[u] \in Nat /\ pSeq \in Nat /\ page[u] \in Seq(Peer!Delta) /\ done[u] \in Nat
  BY DEF TypeOK, Peer!TypeOK
<1>2. Asked(u)' => Honest(from[u])'
  <2>1. ASSUME Asked(u) PROVE \A n \in 1..from[u] : Covers(from[u], n) => n <= pSeq' /\ Applied(n)'
    BY <1>1, <2>1, KeepsHonest DEF SoundPull
  <2>2. QED
    BY <2>1 DEF Asked, Honest
<1>3. HasRows(u)' => PeersRows(page[u])' /\ NoGapAfter(page[u], from[u])'
  BY <1>1 DEF HasRows, PeersRows, NoGapAfter, SoundPull, Keeps
<1>4. pc'[u] = "apply" => Written(u)'
  <2> SUFFICES ASSUME pc[u] = "apply" PROVE Written(u)'
    OBVIOUS
  <2>1. Written(u) /\ PeersRows(page[u])
    BY DEF SoundPull, HasRows
  <2>2. \A i \in 1..done[u] : page[u][i].seq \in 1..pSeq
    BY <1>1, <2>1 DEF Written, PeersRows
  <2>3. \A i \in 1..done[u] : Applied(page[u][i].seq)'
    BY <2>1, <2>2, KeepsApplied DEF Written, Applied
  <2>4. QED
    BY <1>1, <2>1, <2>3 DEF Written, Applied
<1>5. QED
  BY <1>2, <1>3, <1>4 DEF SoundPull

\* What the peer answers, in whatever order it arrives, leaves no gap.
LEMMA ServedRows ==
    ASSUME ModesAgree, TypeOK, PeerLog, NEW n \in Nat, NEW rows \in Rows(n)
    PROVE  /\ PeersRows(rows) /\ NoGapAfter(rows, n)
           /\ PeersRows(Swapped(rows)) /\ NoGapAfter(Swapped(rows), n)
           /\ PeersRows(pDeltas) /\ NoGapAfter(pDeltas, n)
<1> DEFINE first == IF CursorMode = "exclusive" THEN n + 1 ELSE IF n = 0 THEN 1 ELSE n
<1>1. pDeltas \in Seq(Peer!Delta) /\ pSeq \in Nat /\ pSeq = Len(pDeltas)
  BY DEF TypeOK, Peer!TypeOK, PeerLog
<1>2. first \in Nat \ {0} /\ \A m \in 1..(first - 1) : Covers(n, m)
  BY ModeAssumption DEF Covers, CursorModes
<1>3. rows = <<>> \/ \E k \in first..pSeq : rows = SubSeq(pDeltas, first, k)
  <2>1. CASE CursorMode = "exclusive"
    <3>1. rows = SubSeq(pDeltas, n + 1, pSeq) /\ first = n + 1
      BY <2>1 DEF Rows, ModesAgree
    <3>2. CASE first <= pSeq
      <4>1. pSeq \in first..pSeq
        BY <1>1, <1>2, <3>2
      <4>2. QED
        BY <3>1, <4>1
    <3>3. CASE ~(first <= pSeq)
      <4>1. rows = <<>>
        BY <1>1, <3>1, <3>3
      <4>2. QED
        BY <4>1
    <3>4. QED
      BY <3>2, <3>3
  <2>2. CASE CursorMode # "exclusive"
    BY <2>2 DEF Rows, ModesAgree
  <2>3. QED
    BY <2>1, <2>2
<1> HIDE DEF first
<1>4. /\ rows \in Seq(Peer!Delta)
      /\ \A i \in DOMAIN rows : rows[i] = pDeltas[first + i - 1] /\ first + i - 1 \in 1..pSeq
  <2>1. CASE rows = <<>>
    BY <2>1
  <2>2. ASSUME NEW k \in first..pSeq, rows = SubSeq(pDeltas, first, k)
        PROVE  /\ rows \in Seq(Peer!Delta)
               /\ \A i \in DOMAIN rows :
                     rows[i] = pDeltas[first + i - 1] /\ first + i - 1 \in 1..pSeq
    <3>1. k \in Nat /\ first \in Nat /\ first >= 1 /\ first <= k /\ k <= Len(pDeltas)
      BY <1>1, <1>2
    <3>2. SubSeq(pDeltas, first, k) \in Seq(Peer!Delta)
      BY <1>1, <3>1
    <3>3. DOMAIN SubSeq(pDeltas, first, k) = 1..(k - first + 1)
      BY <1>1, <3>1
    <3>4. \A i \in 1..(k - first + 1) : SubSeq(pDeltas, first, k)[i] = pDeltas[first + i - 1]
      BY <1>1, <3>1
    <3>5. QED
      BY <1>1, <2>2, <3>1, <3>2, <3>3, <3>4
  <2>3. QED
    BY <1>3, <2>1, <2>2
<1>5. \A i \in DOMAIN rows : rows[i].seq = first + i - 1
  BY <1>4 DEF PeerLog
<1>6. PeersRows(rows)
  BY <1>4, <1>5 DEF PeersRows
<1>7. NoGapAfter(rows, n)
  <2> SUFFICES ASSUME NEW i \in DOMAIN rows, NEW m \in 1..rows[i].seq, ~Covers(n, m)
               PROVE  \E j \in DOMAIN rows : rows[j].seq = m
    BY DEF NoGapAfter
  <2>1. i \in 1..Len(rows) /\ Len(rows) \in Nat /\ DOMAIN rows = 1..Len(rows)
    BY <1>4
  <2>2. m >= first /\ m <= first + i - 1
    BY <1>2, <1>5, <2>1
  <2>3. m - first + 1 \in DOMAIN rows
    BY <1>2, <2>1, <2>2
  <2>4. rows[m - first + 1].seq = m
    BY <1>2, <1>5, <2>1, <2>2, <2>3
  <2>5. QED
    BY <2>3, <2>4
<1>8. /\ \A i \in DOMAIN rows : \E j \in DOMAIN rows : Swapped(rows)[i] = rows[j]
      /\ \A j \in DOMAIN rows : \E i \in DOMAIN rows : Swapped(rows)[i] = rows[j]
      /\ DOMAIN Swapped(rows) = DOMAIN rows
  BY <1>4 DEF Swapped
<1>9. PeersRows(Swapped(rows))
  <2> DEFINE sw == Swapped(rows)
  <2>1. \A i \in DOMAIN sw : \E j \in DOMAIN rows : sw[i] = rows[j]
    BY <1>8
  <2> HIDE DEF sw
  <2>2. PeersRows(sw)
    BY <1>6, <2>1 DEF PeersRows
  <2>3. QED
    BY <2>2 DEF sw
<1>10. NoGapAfter(Swapped(rows), n)
  <2> DEFINE sw == Swapped(rows)
  <2>1. /\ \A i \in DOMAIN sw : \E j \in DOMAIN rows : sw[i] = rows[j]
        /\ \A j \in DOMAIN rows : \E i \in DOMAIN sw : sw[i] = rows[j]
    BY <1>8
  <2> HIDE DEF sw
  <2>2. NoGapAfter(sw, n)
    BY <1>7, <2>1 DEF NoGapAfter
  <2>3. QED
    BY <2>2 DEF sw
<1>11. PeersRows(pDeltas) /\ NoGapAfter(pDeltas, n)
  BY <1>1 DEF PeersRows, NoGapAfter, PeerLog
<1>12. QED
  BY <1>6, <1>7, <1>9, <1>10, <1>11

\* A thread outside a pull satisfies its part trivially.
LEMMA RestingThread ==
    ASSUME NEW u \in Thread, ~Asked(u)', done'[u] = 0
    PROVE  SoundPull(u)'
BY DEF SoundPull, Asked, HasRows

\* The end of a pull leaves every pull in progress sound.
LEMMA EndPullSound ==
    ASSUME TypeOK, Keeps, NEW t \in Thread, EndPull(t), \A u \in Thread : SoundPull(u)
    PROVE  \A u \in Thread : SoundPull(u)'
<1> SUFFICES ASSUME NEW u \in Thread PROVE SoundPull(u)'
  OBVIOUS
<1>1. CASE u = t
  <2>1. pc'[u] = "wait" /\ done'[u] = 0
    BY <1>1 DEF EndPull, TypeOK
  <2>2. ~Asked(u)'
    BY <2>1 DEF Asked
  <2>3. QED
    BY <2>1, <2>2, RestingThread
<1>2. CASE u # t
  <2>1. pc'[u] = pc[u] /\ from'[u] = from[u] /\ page'[u] = page[u] /\ done'[u] = done[u]
    BY <1>2 DEF EndPull, TypeOK
  <2>2. QED
    BY <2>1, SameThread
<1>3. QED
  BY <1>1, <1>2

\* The cursor that a finished pull hands over is honest.
LEMMA HonestAdvance ==
    ASSUME TypeOK, NEW t \in Thread, SoundPull(t), pc[t] = "apply", done[t] = Len(page[t])
    PROVE  Honest(CursorAfter(page[t], from[t]))
<1> DEFINE rows == page[t]
           n == from[t]
<1>1. rows \in Seq(Peer!Delta) /\ n \in Nat
  BY DEF TypeOK
<1>2. Honest(n) /\ PeersRows(rows) /\ NoGapAfter(rows, n)
      /\ \A i \in 1..Len(rows) : Applied(rows[i].seq)
  BY DEF SoundPull, Asked, HasRows, Written
<1> HIDE DEF rows, n
<1>3. CASE rows = <<>>
  BY <1>2, <1>3 DEF CursorAfter, rows, n
<1>4. CASE rows # <<>>
  <2> DEFINE top == rows[Len(rows)].seq
  <2>1. Len(rows) \in DOMAIN rows /\ DOMAIN rows = 1..Len(rows)
    BY <1>1, <1>4
  <2>2. top \in 1..pSeq /\ pSeq \in Nat
    BY <1>2, <2>1 DEF PeersRows, TypeOK, Peer!TypeOK
  <2>3. CursorAfter(rows, n) = IF CursorMode = "inclusive" THEN top + 1 ELSE top
    BY <1>4 DEF CursorAfter
  <2>4. ASSUME NEW m \in 1..CursorAfter(rows, n), Covers(CursorAfter(rows, n), m)
        PROVE  m <= pSeq /\ Applied(m)
    <3>1. m \in 1..top
      BY <2>2, <2>3, <2>4, ModeAssumption DEF Covers, CursorModes
    <3>2. CASE Covers(n, m)
      <4>1. m \in 1..n
        BY <1>1, <3>1, <3>2, <2>2 DEF Covers
      <4>2. QED
        BY <1>2, <3>2, <4>1 DEF Honest
    <3>3. CASE ~Covers(n, m)
      <4>1. PICK j \in DOMAIN rows : rows[j].seq = m
        BY <1>2, <2>1, <3>1, <3>3 DEF NoGapAfter
      <4>2. Applied(m)
        BY <1>2, <2>1, <4>1
      <4>3. QED
        BY <2>2, <3>1, <4>2
    <3>4. QED
      BY <3>2, <3>3
  <2>5. QED
    BY <2>4 DEF Honest, rows, n
<1>5. QED
  BY <1>3, <1>4

\* Writing a row applies its change and keeps all earlier ones.
LEMMA ApplyKeeps ==
    ASSUME TypeOK, PeerLog, SkipInv, NEW t \in Thread, Apply(t)
    PROVE  /\ Keeps
           /\ Len(origin') = Len(lDeltas')
           /\ \A n \in Nat : n = page[t][done[t] + 1].seq => Applied(n)'
<1> DEFINE row == page[t][done[t] + 1]
           d == Local!NewDelta(row.action, row.agent)
<1>1. row \in Peer!Delta /\ row.seq \in 1..pSeq /\ row = pDeltas[row.seq]
  <2>1. done[t] + 1 \in DOMAIN page[t] /\ row \in Peer!Delta
    BY NextRowType DEF Apply
  <2>2. PeersRows(page[t])
    BY DEF SkipInv, SoundPull, HasRows, Apply
  <2>3. QED
    BY <2>1, <2>2 DEF PeersRows
<1>2. d \in Local!Delta /\ d.action = row.action /\ d.agent = row.agent
  BY <1>1 DEF Local!Delta, Peer!Delta, Local!DeltaAction, Peer!DeltaAction,
              Local!NewDelta, TypeOK, Local!TypeOK
<1>3. lDeltas' = Append(lDeltas, d) /\ origin' = Append(origin, row.seq) /\ UNCHANGED peerVars
  BY DEF Apply, Local!Add
<1> HIDE DEF row, d
<1>4. /\ lDeltas \in Seq(Local!Delta) /\ origin \in Seq(Nat) /\ row.seq \in Nat
      /\ Len(origin) = Len(lDeltas)
  BY <1>1 DEF TypeOK, Local!TypeOK, Peer!Delta, SkipInv
<1>5. /\ Len(lDeltas') = Len(lDeltas) + 1 /\ Len(origin') = Len(lDeltas) + 1
      /\ DOMAIN lDeltas' = 1..(Len(lDeltas) + 1)
      /\ lDeltas'[Len(lDeltas) + 1] = d /\ origin'[Len(lDeltas) + 1] = row.seq
      /\ \A i \in 1..Len(lDeltas) : lDeltas'[i] = lDeltas[i] /\ origin'[i] = origin[i]
  BY <1>2, <1>3, <1>4
<1>6. Keeps
  BY <1>3, <1>4, <1>5 DEF Keeps, peerVars, TypeOK, Peer!TypeOK
<1>7. pDeltas' = pDeltas
  BY <1>3 DEF peerVars
<1>8. Len(lDeltas) + 1 \in DOMAIN lDeltas'
  BY <1>4, <1>5
<1>9. \E i \in DOMAIN lDeltas' : origin'[i] = row.seq /\ SameChange(lDeltas'[i], pDeltas'[row.seq])
  BY <1>1, <1>2, <1>5, <1>7, <1>8 DEF SameChange
<1>10. \A n \in Nat : n = row.seq => Applied(n)'
  BY <1>9 DEF Applied
<1>11. QED
  BY <1>5, <1>6, <1>10 DEF row

\* Every step keeps the cursor honest and every pull in progress sound.
LEMMA SkipStep ==
    ASSUME ModesAgree, TypeOK, PeerLog, SkipInv, [Next]_vars
    PROVE  SkipInv'
<1> USE DEF Asked, HasRows
<1>1. \A u \in Thread : SoundPull(u)
  BY DEF SkipInv
<1>2. ASSUME Keeps, UNCHANGED since PROVE Honest(since)'
  <2>1. \A n \in 1..since : Covers(since, n) => n <= pSeq' /\ Applied(n)'
    BY <1>2, KeepsHonest DEF SkipInv, TypeOK
  <2>2. QED
    BY <1>2, <2>1 DEF Honest
<1>3. ASSUME UNCHANGED localVars PROVE Len(origin') = Len(lDeltas')
  BY <1>3 DEF localVars, SkipInv
<1>4. ASSUME PeerAdd PROVE SkipInv'
  <2>1. PICK action \in Peer!DeltaAction, f \in Facts : Peer!Add(action, f)
    BY <1>4 DEF PeerAdd
  <2>2. Keeps
    BY <1>4, <2>1, PeerLogAfterAdd DEF Keeps, PeerAdd, localVars, TypeOK, Peer!TypeOK
  <2>3. \A u \in Thread : SoundPull(u)'
    BY <1>1, <1>4, <2>2, SameThread DEF PeerAdd, threadVars
  <2>4. QED
    BY <1>2, <1>3, <1>4, <2>2, <2>3 DEF PeerAdd, SkipInv
<1>5. ASSUME UNCHANGED <<peerVars, localVars, since>>, \A u \in Thread : SoundPull(u)'
      PROVE  SkipInv'
  BY <1>2, <1>3, <1>5, SameKeeps DEF SkipInv
<1>6. ASSUME UNCHANGED <<peerVars, localVars>>, NEW t \in Thread, SoundPull(t)',
             \A u \in Thread \ {t} :
                pc'[u] = pc[u] /\ from'[u] = from[u] /\ page'[u] = page[u] /\ done'[u] = done[u]
      PROVE  \A u \in Thread : SoundPull(u)'
  <2>1. \A u \in Thread \ {t} : SoundPull(u)'
    BY <1>1, <1>6, SameKeeps, SameThread
  <2>2. QED
    BY <1>6, <2>1
<1>7. ASSUME NEW t \in Thread, CheckStop(t) \/ Wait(t) PROVE SkipInv'
  <2>1. pc'[t] \in {"off", "begin", "loop"} /\ done'[t] = 0
    BY <1>1, <1>7 DEF CheckStop, Wait, SoundPull, TypeOK
  <2>2. SoundPull(t)'
    BY <2>1, RestingThread
  <2>3. \A u \in Thread \ {t} :
           pc'[u] = pc[u] /\ from'[u] = from[u] /\ page'[u] = page[u] /\ done'[u] = done[u]
    BY <1>7 DEF CheckStop, Wait, TypeOK
  <2>4. QED
    BY <1>5, <1>6, <1>7, <2>2, <2>3 DEF CheckStop, Wait
<1>8. ASSUME NEW t \in Thread, ReadCursor(t) PROVE SkipInv'
  <2>1. Honest(since)'
    BY <1>2, <1>8, SameKeeps DEF ReadCursor
  <2>2. from'[t] = since /\ pc'[t] = "request" /\ done'[t] = 0 /\ since' = since
    BY <1>1, <1>8 DEF ReadCursor, SoundPull, TypeOK
  <2>3. SoundPull(t)'
    BY <2>1, <2>2 DEF SoundPull, Honest
  <2>4. \A u \in Thread \ {t} :
           pc'[u] = pc[u] /\ from'[u] = from[u] /\ page'[u] = page[u] /\ done'[u] = done[u]
    BY <1>8 DEF ReadCursor, TypeOK
  <2>5. QED
    BY <1>5, <1>6, <1>8, <2>3, <2>4 DEF ReadCursor
<1>9. ASSUME NEW t \in Thread, ServeRows(t) PROVE SkipInv'
  <2>1. from[t] \in Nat /\ Honest(from[t]) /\ done[t] = 0
    BY <1>1, <1>9 DEF ServeRows, SoundPull, TypeOK
  <2>2. PICK rows \in Rows(from[t]) : page'[t] \in {rows, Swapped(rows), pDeltas}
    BY <1>9 DEF ServeRows, TypeOK
  <2>3. PeersRows(page'[t]) /\ NoGapAfter(page'[t], from[t])
    BY <2>1, <2>2, ServedRows
  <2>4. pc'[t] = "served" /\ from'[t] = from[t] /\ done'[t] = 0 /\ UNCHANGED <<pSeq, pDeltas>>
    BY <1>9, <2>1 DEF ServeRows, TypeOK, peerVars
  <2>5. \A n \in 1..from[t] : Covers(from[t], n) => n <= pSeq' /\ Applied(n)'
    BY <1>9, <2>1, SameKeeps, KeepsHonest DEF ServeRows
  <2>6. Honest(from[t])'
    BY <2>4, <2>5 DEF Honest
  <2>7. PeersRows(page[t])' /\ NoGapAfter(page[t], from[t])'
    BY <2>3, <2>4 DEF PeersRows, NoGapAfter
  <2>8. SoundPull(t)'
    BY <2>4, <2>6, <2>7 DEF SoundPull
  <2>9. \A u \in Thread \ {t} :
           pc'[u] = pc[u] /\ from'[u] = from[u] /\ page'[u] = page[u] /\ done'[u] = done[u]
    BY <1>9 DEF ServeRows, TypeOK
  <2>10. QED
    BY <1>5, <1>6, <1>9, <2>8, <2>9 DEF ServeRows
<1>10. ASSUME NEW t \in Thread, EndPull(t), UNCHANGED <<peerVars, localVars, since>>
       PROVE  SkipInv'
  BY <1>1, <1>5, <1>10, SameKeeps, EndPullSound
<1>11. ASSUME NEW t \in Thread, Validate(t) PROVE SkipInv'
  <2>1. CASE EndPull(t)
    BY <1>10, <1>11, <2>1 DEF Validate
  <2>2. CASE pc' = [pc EXCEPT ![t] = "apply"] /\ UNCHANGED <<from, page, done>>
    <3>1. done[t] = 0 /\ Honest(from[t]) /\ PeersRows(page[t]) /\ NoGapAfter(page[t], from[t])
      BY <1>1, <1>11 DEF Validate, SoundPull
    <3>2. /\ pc'[t] = "apply" /\ done'[t] = 0 /\ from'[t] = from[t] /\ page'[t] = page[t]
          /\ UNCHANGED <<pSeq, pDeltas>> /\ Len(page[t]) \in Nat
      BY <1>11, <2>2, <3>1 DEF Validate, TypeOK, peerVars
    <3>3. \A n \in 1..from[t] : Covers(from[t], n) => n <= pSeq' /\ Applied(n)'
      BY <1>11, <3>1, SameKeeps, KeepsHonest DEF Validate, TypeOK
    <3>4. Honest(from[t])' /\ PeersRows(page[t])' /\ NoGapAfter(page[t], from[t])'
      BY <3>1, <3>2, <3>3 DEF Honest, PeersRows, NoGapAfter
    <3>5. Written(t)'
      BY <3>2 DEF Written
    <3>6. SoundPull(t)'
      BY <3>2, <3>4, <3>5 DEF SoundPull
    <3>7. \A u \in Thread \ {t} :
             pc'[u] = pc[u] /\ from'[u] = from[u] /\ page'[u] = page[u] /\ done'[u] = done[u]
      BY <2>2 DEF TypeOK
    <3>8. QED
      BY <1>5, <1>6, <1>11, <3>6, <3>7 DEF Validate
  <2>3. QED
    BY <1>11, <2>1, <2>2 DEF Validate
<1>12. ASSUME NEW t \in Thread, Apply(t) PROVE SkipInv'
  <2>1. /\ Keeps /\ Len(origin') = Len(lDeltas')
        /\ \A n \in Nat : n = page[t][done[t] + 1].seq => Applied(n)'
    BY <1>12, ApplyKeeps
  <2>2. ASSUME NEW u \in Thread \ {t} PROVE SoundPull(u)'
    BY <1>1, <1>12, <2>1, SameThread DEF Apply, TypeOK
  <2>3. /\ pc'[t] = "apply" /\ from'[t] = from[t] /\ page'[t] = page[t]
        /\ done'[t] = done[t] + 1 /\ UNCHANGED <<pSeq, pDeltas>>
    BY <1>12 DEF Apply, TypeOK, peerVars
  <2>4. Honest(from[t]) /\ PeersRows(page[t]) /\ NoGapAfter(page[t], from[t]) /\ Written(t)
    BY <1>1, <1>12 DEF Apply, SoundPull
  <2>5. \A n \in 1..from[t] : Covers(from[t], n) => n <= pSeq' /\ Applied(n)'
    BY <2>1, <2>4, KeepsHonest DEF TypeOK
  <2>6. Honest(from[t])' /\ PeersRows(page[t])' /\ NoGapAfter(page[t], from[t])'
    BY <2>3, <2>4, <2>5 DEF Honest, PeersRows, NoGapAfter
  <2>7. page[t] \in Seq(Peer!Delta) /\ done[t] \in Nat /\ done[t] + 1 \in DOMAIN page[t]
    BY <1>12, NextRowType DEF TypeOK, Apply
  <2>8. \A i \in 1..(done[t] + 1) : page[t][i].seq \in 1..pSeq
    BY <2>4, <2>7 DEF PeersRows
  <2>9. ASSUME NEW n \in 1..pSeq, NEW i \in 1..(done[t] + 1), n = page[t][i].seq
        PROVE  Applied(n)'
    <3>1. CASE i = done[t] + 1
      BY <2>1, <2>9, <3>1
    <3>2. CASE i \in 1..done[t]
      BY <2>1, <2>4, <2>9, <3>2, KeepsApplied DEF Written
    <3>3. QED
      BY <2>7, <3>1, <3>2
  <2>10. Written(t)'
    <3>1. done'[t] <= Len(page'[t])
      BY <2>3, <2>7
    <3>2. \A i \in 1..done'[t] : \E n \in 1..pSeq : n = page'[t][i].seq /\ Applied(n)'
      BY <2>3, <2>8, <2>9
    <3>3. QED
      BY <3>1, <3>2 DEF Written, Applied
  <2>11. SoundPull(t)'
    BY <2>3, <2>6, <2>10 DEF SoundPull
  <2>12. QED
    BY <1>2, <1>12, <2>1, <2>2, <2>11 DEF Apply, SkipInv
<1>13. ASSUME NEW t \in Thread, Advance(t) PROVE SkipInv'
  <2>1. \A u \in Thread : SoundPull(u)'
    BY <1>1, <1>13, SameKeeps, EndPullSound DEF Advance
  <2>2. PICK c \in Nat : c = CursorAfter(page[t], from[t])
    BY CursorType DEF TypeOK
  <2>3. Honest(c) /\ since' = c
    BY <1>1, <1>13, <2>2, HonestAdvance DEF Advance
  <2>4. \A n \in 1..c : Covers(c, n) => n <= pSeq' /\ Applied(n)'
    BY <1>13, <2>3, SameKeeps, KeepsHonest DEF Advance
  <2>5. Honest(since)'
    BY <2>3, <2>4 DEF Honest
  <2>6. QED
    BY <1>3, <1>13, <2>1, <2>5 DEF Advance, SkipInv
<1>14. ASSUME NEW t \in Thread, Fail(t) PROVE SkipInv'
  BY <1>10, <1>14 DEF Fail
<1>15. ASSUME Start PROVE SkipInv'
  <2>1. PICK t \in Thread : pc[t] = "off" /\ pc' = [pc EXCEPT ![t] = "loop"]
    BY <1>15 DEF Start
  <2>2. pc'[t] = "loop" /\ done'[t] = 0
    BY <1>1, <1>15, <2>1 DEF Start, SoundPull, TypeOK
  <2>3. SoundPull(t)'
    BY <2>2, RestingThread
  <2>4. \A u \in Thread \ {t} :
           pc'[u] = pc[u] /\ from'[u] = from[u] /\ page'[u] = page[u] /\ done'[u] = done[u]
    BY <1>15, <2>1 DEF Start, TypeOK
  <2>5. QED
    BY <1>5, <1>6, <1>15, <2>3, <2>4 DEF Start
<1>16. ASSUME Stop \/ Joined \/ UNCHANGED vars PROVE SkipInv'
  <2>1. UNCHANGED <<peerVars, localVars, since, threadVars>>
    BY <1>16 DEF Stop, Joined, vars
  <2>2. \A u \in Thread : SoundPull(u)'
    BY <1>1, <2>1, SameKeeps, SameThread DEF threadVars
  <2>3. QED
    BY <1>5, <2>1, <2>2
<1>17. QED
  BY <1>4, <1>7, <1>8, <1>9, <1>11, <1>12, <1>13, <1>14, <1>15, <1>16 DEF Next, Poll

\* The cursor never claims a change that the local store does not have, whatever
\* fails and however the poller is stopped and started: for a poller that reads
\* the cursor the way its peer does.
THEOREM NeverSkips ==
    ASSUME ModesAgree
    PROVE  Spec => []NothingSkipped
<1>1. Init => SkipInv
  <2> SUFFICES ASSUME Init PROVE SkipInv
    OBVIOUS
  <2>1. \A t \in Thread : SoundPull(t)
    BY DEF Init, SoundPull, Asked, HasRows
  <2>2. Honest(since)
    BY DEF Init, Honest
  <2>3. QED
    BY <2>1, <2>2 DEF Init, Local!Init, SkipInv
<1>2. TypeOK /\ PeerLog /\ SkipInv /\ [Next]_vars => SkipInv'
  BY SkipStep
<1>3. TypeOK /\ SkipInv => NothingSkipped
  <2> SUFFICES ASSUME TypeOK, SkipInv, NEW n \in 1..pSeq, Covers(since, n)
               PROVE  Applied(n)
    BY DEF NothingSkipped, Applied
  <2>1. n \in 1..since
    BY DEF Covers, TypeOK, Peer!TypeOK
  <2>2. QED
    BY <2>1 DEF SkipInv, Honest
<1>4. QED
  BY <1>1, <1>2, <1>3, FederationTypeCorrect, PTL DEF Spec

-----------------------------------------------------------------------------
(* One loop at a time: with a join that waits, stop(timeout=None) leaves no thread  *)
(* behind.  The default timeout of 5.0 does not wait.                               *)

JoinWaits == JoinMayTimeout = FALSE

\* Consecutive rows that are accepted all lie beyond the cursor.
LEMMA ConsecutiveAhead ==
    ASSUME NEW rows \in Seq(Peer!Delta), Consecutive(rows), NEW n \in Nat,
           NEW next, Acceptable(rows, n, next)
    PROVE  \A i \in DOMAIN rows : ~Covers(n, rows[i].seq)
<1> SUFFICES ASSUME NEW i \in DOMAIN rows PROVE ~Covers(n, rows[i].seq)
  OBVIOUS
<1>1. 1 \in DOMAIN rows /\ i \in Nat /\ i >= 1
  OBVIOUS
<1>2. rows[1].seq \in Nat /\ rows[i].seq \in Nat
  <2>1. rows[1] \in Peer!Delta /\ rows[i] \in Peer!Delta
    BY <1>1
  <2>2. QED
    BY <2>1 DEF Peer!Delta
<1>3. rows[1].seq <= rows[i].seq
  BY <1>1, <1>2 DEF Consecutive
<1>4. ~Covers(n, rows[1].seq)
  BY <1>1 DEF Acceptable
<1>5. QED
  BY <1>2, <1>3, <1>4 DEF Covers

\* A served page is consecutive, or its second number falls below its first.
LEMMA ServedOrder ==
    ASSUME ModesAgree, TypeOK, PeerLog, NEW n \in Nat, NEW rows \in Rows(n),
           NEW p \in {rows, Swapped(rows), pDeltas}
    PROVE  Consecutive(p) \/ (Len(p) >= 2 /\ p[2].seq < p[1].seq)
<1>1. pDeltas \in Seq(Peer!Delta) /\ pSeq \in Nat /\ pSeq = Len(pDeltas)
  BY DEF TypeOK, Peer!TypeOK, PeerLog
<1>2. rows \in Seq(Peer!Delta) /\ Consecutive(rows)
  <2>1. ASSUME NEW first \in Nat \ {0}, NEW k \in Nat, k <= pSeq
        PROVE  Consecutive(SubSeq(pDeltas, first, k))
    <3>1. \A i \in 1..(k - first + 1) : SubSeq(pDeltas, first, k)[i] = pDeltas[first + i - 1]
      BY <1>1, <2>1
    <3>2. DOMAIN SubSeq(pDeltas, first, k) = 1..(k - first + 1)
      BY <1>1, <2>1
    <3>3. \A i \in 1..(k - first + 1) : SubSeq(pDeltas, first, k)[i].seq = first + i - 1
      BY <1>1, <2>1, <3>1 DEF PeerLog
    <3>4. ASSUME NEW i \in 1..(k - first + 1)
          PROVE  SubSeq(pDeltas, first, k)[i].seq = SubSeq(pDeltas, first, k)[1].seq + i - 1
      <4>1. 1 \in 1..(k - first + 1) /\ i \in Nat
        BY <2>1
      <4>2. SubSeq(pDeltas, first, k)[1].seq = first
        BY <2>1, <3>3, <4>1
      <4>3. QED
        BY <2>1, <3>3, <4>1, <4>2
    <3>5. QED
      BY <3>2, <3>4 DEF Consecutive
  <2>2. rows = <<>> \/ \E first \in Nat \ {0}, k \in Nat : k <= pSeq /\ rows = SubSeq(pDeltas, first, k)
    <3>1. CASE PeerFilter = "exclusive"
      <4>1. rows = SubSeq(pDeltas, n + 1, pSeq) /\ n + 1 \in Nat \ {0} /\ pSeq <= pSeq
        BY <1>1, <3>1 DEF Rows
      <4>2. QED
        BY <1>1, <4>1
    <3>2. CASE PeerFilter # "exclusive"
      <4> DEFINE first == IF n = 0 THEN 1 ELSE n
      <4>1. rows = <<>> \/ \E k \in first..pSeq : rows = SubSeq(pDeltas, first, k)
        BY <3>2 DEF Rows
      <4>2. first \in Nat \ {0} /\ \A k \in first..pSeq : k \in Nat /\ k <= pSeq
        BY <1>1
      <4> HIDE DEF first
      <4>3. QED
        BY <4>1, <4>2
    <3>3. QED
      BY <3>1, <3>2
  <2>3. CASE rows = <<>>
    BY <2>3 DEF Consecutive
  <2>4. QED
    BY <2>1, <2>2, <2>3, RowsType
<1>3. CASE p = rows
  BY <1>2, <1>3
<1>4. CASE p = pDeltas
  BY <1>1, <1>4 DEF Consecutive, PeerLog
<1>5. CASE p = Swapped(rows)
  <2>1. CASE Len(rows) < 2
    <3>1. p = rows
      BY <1>2, <1>5, <2>1 DEF Swapped
    <3>2. QED
      BY <1>2, <3>1
  <2>2. CASE ~(Len(rows) < 2)
    <3>1. 1 \in DOMAIN rows /\ 2 \in DOMAIN rows /\ Len(p) = Len(rows)
      BY <1>2, <1>5, <2>2 DEF Swapped
    <3>2. p[1] = rows[2] /\ p[2] = rows[1]
      BY <1>5, <2>2, <3>1 DEF Swapped
    <3>3. rows[1] \in Peer!Delta
      BY <1>2, <3>1
    <3>4. rows[2].seq = rows[1].seq + 1 /\ rows[1].seq \in Nat
      BY <1>2, <3>1, <3>3 DEF Consecutive, Peer!Delta
    <3>5. QED
      BY <1>2, <2>2, <3>1, <3>2, <3>4
  <2>3. QED
    BY <2>1, <2>2
<1>6. QED
  BY <1>3, <1>4, <1>5

\* The cursor that a finished pull hands over is not behind the one it asked with.
LEMMA AdvanceForward ==
    ASSUME TypeOK, OneLoop, NEW t \in Thread, Advance(t)
    PROVE  since' >= since
<1>1. from[t] = since /\ since \in Nat /\ page[t] \in Seq(Peer!Delta)
  BY DEF OneLoop, Advance, Asked, TypeOK
<1>2. since' = CursorAfter(page[t], since)
  BY <1>1 DEF Advance
<1>3. CASE page[t] = <<>>
  BY <1>1, <1>2, <1>3 DEF CursorAfter
<1>4. CASE page[t] # <<>>
  <2> DEFINE last == page[t][Len(page[t])]
  <2>1. Len(page[t]) \in DOMAIN page[t] /\ last \in Peer!Delta
    BY <1>1, <1>4
  <2>2. ~Covers(since, last.seq)
    BY <2>1 DEF OneLoop, Advance
  <2>3. last.seq \in Nat
    BY <2>1 DEF Peer!Delta
  <2>4. since' = IF CursorMode = "inclusive" THEN last.seq + 1 ELSE last.seq
    BY <1>2, <1>4 DEF CursorAfter
  <2> HIDE DEF last
  <2>5. QED
    BY <1>1, <2>2, <2>3, <2>4 DEF Covers
<1>5. QED
  BY <1>3, <1>4

\* A row that the only loop writes is not covered by the cursor.
LEMMA ReapplyStep ==
    ASSUME TypeOK, OneLoop, NEW t \in Thread, Apply(t)
    PROVE  \A i \in DOMAIN origin' \ DOMAIN origin : ~Covers(since, origin'[i])
<1> DEFINE row == page[t][done[t] + 1]
<1>1. done[t] + 1 \in DOMAIN page[t] /\ row \in Peer!Delta
  BY NextRowType DEF Apply
<1>2. ~Covers(since, row.seq) /\ row.seq \in Nat
  BY <1>1 DEF OneLoop, Apply, Peer!Delta
<1>3. origin \in Seq(Nat) /\ origin' = Append(origin, row.seq)
  BY DEF Apply, TypeOK
<1> HIDE DEF row
<1>4. DOMAIN origin' \ DOMAIN origin = {Len(origin) + 1} /\ origin'[Len(origin) + 1] = row.seq
  BY <1>2, <1>3
<1>5. QED
  BY <1>2, <1>4

\* Every step keeps what is known of the only loop.
LEMMA LoopStep ==
    ASSUME ModesAgree, JoinWaits, TypeOK, PeerLog, OneLoop, [Next]_vars
    PROVE  OneLoop'
<1> DEFINE Part(u) ==
        /\ pc[u] # "off" => u = current
        /\ Asked(u) => from[u] = since
        /\ pc[u] = "served" =>
              Consecutive(page[u]) \/ (Len(page[u]) >= 2 /\ page[u][2].seq < page[u][1].seq)
        /\ pc[u] = "apply" =>
              /\ Consecutive(page[u])
              /\ \A i \in DOMAIN page[u] : ~Covers(since, page[u][i].seq)
<1> USE DEF Asked, Consecutive
<1>1. \A u \in Thread : Part(u)
  BY DEF OneLoop
<1>2. ASSUME NEW t \in Thread, pc[t] # "off", UNCHANGED current, Part(t)',
             \A u \in Thread \ {t} :
                pc'[u] = pc[u] /\ from'[u] = from[u] /\ page'[u] = page[u]
      PROVE  OneLoop'
  <2>1. \A u \in Thread \ {t} : pc[u] = "off"
    BY <1>1, <1>2
  <2>2. QED
    BY <1>2, <2>1 DEF OneLoop
<1>3. ASSUME UNCHANGED <<pc, from, page, since, current>> PROVE OneLoop'
  BY <1>3 DEF OneLoop
<1>4. CASE PeerAdd
  BY <1>3, <1>4 DEF PeerAdd, threadVars, pollerVars
<1>5. ASSUME NEW t \in Thread, EndPull(t), UNCHANGED current, pc[t] # "off" PROVE OneLoop'
  <2>1. pc'[t] = "wait" /\ t = current
    BY <1>1, <1>5 DEF EndPull, TypeOK
  <2>2. \A u \in Thread \ {t} :
           pc'[u] = pc[u] /\ from'[u] = from[u] /\ page'[u] = page[u]
    BY <1>5 DEF EndPull, TypeOK
  <2>3. QED
    BY <1>2, <1>5, <2>1, <2>2
<1>6. ASSUME NEW t \in Thread, CheckStop(t) \/ Wait(t) PROVE OneLoop'
  <2>1. pc'[t] \in {"off", "begin", "loop"} /\ t = current /\ pc[t] # "off"
    BY <1>1, <1>6 DEF CheckStop, Wait, TypeOK
  <2>2. \A u \in Thread \ {t} :
           pc'[u] = pc[u] /\ from'[u] = from[u] /\ page'[u] = page[u]
    BY <1>6 DEF CheckStop, Wait, TypeOK
  <2>3. UNCHANGED current
    BY <1>6 DEF CheckStop, Wait, pollerVars
  <2>4. QED
    BY <1>2, <2>1, <2>2, <2>3
<1>7. ASSUME NEW t \in Thread, ReadCursor(t) PROVE OneLoop'
  <2>1. pc'[t] = "request" /\ from'[t] = since' /\ t = current /\ pc[t] # "off"
    BY <1>1, <1>7 DEF ReadCursor, TypeOK
  <2>2. \A u \in Thread \ {t} :
           pc'[u] = pc[u] /\ from'[u] = from[u] /\ page'[u] = page[u]
    BY <1>7 DEF ReadCursor, TypeOK
  <2>3. UNCHANGED current
    BY <1>7 DEF ReadCursor, pollerVars
  <2>4. QED
    BY <1>2, <2>1, <2>2, <2>3
<1>8. ASSUME NEW t \in Thread, ServeRows(t) PROVE OneLoop'
  <2>1. PICK rows \in Rows(from[t]) : page'[t] \in {rows, Swapped(rows), pDeltas}
    BY <1>8 DEF ServeRows, TypeOK
  <2>2. Consecutive(page'[t]) \/ (Len(page'[t]) >= 2 /\ page'[t][2].seq < page'[t][1].seq)
    BY <2>1, ServedOrder DEF TypeOK
  <2>3. pc'[t] = "served" /\ from'[t] = from[t] /\ t = current /\ pc[t] = "request"
        /\ UNCHANGED <<current, since>>
    BY <1>1, <1>8 DEF ServeRows, TypeOK, pollerVars
  <2>4. \A u \in Thread \ {t} :
           pc'[u] = pc[u] /\ from'[u] = from[u] /\ page'[u] = page[u]
    BY <1>8 DEF ServeRows, TypeOK
  <2>5. Part(t)'
    BY <1>1, <2>2, <2>3
  <2>6. QED
    BY <1>2, <2>3, <2>4, <2>5
<1>9. ASSUME NEW t \in Thread, Validate(t) PROVE OneLoop'
  <2>1. CASE EndPull(t)
    BY <1>5, <1>9, <2>1 DEF Validate, pollerVars
  <2>2. ASSUME pc' = [pc EXCEPT ![t] = "apply"], UNCHANGED <<from, page, done>>,
               NEW next, Acceptable(page[t], from[t], next)
        PROVE  OneLoop'
    <3>1. /\ page[t] \in Seq(Peer!Delta) /\ from[t] \in Nat /\ from[t] = since
          /\ t = current /\ pc[t] = "served"
      BY <1>1, <1>9 DEF Validate, TypeOK
    <3>2. Consecutive(page[t])
      <4>1. CASE Len(page[t]) >= 2 /\ page[t][2].seq < page[t][1].seq
        <5>1. 1 \in DOMAIN page[t] /\ 2 \in DOMAIN page[t]
          BY <3>1, <4>1
        <5>2. page[t][1].seq < page[t][2].seq
          BY <2>2, <5>1 DEF Acceptable
        <5>3. page[t][1] \in Peer!Delta /\ page[t][2] \in Peer!Delta
          BY <3>1, <5>1
        <5>4. page[t][1].seq \in Nat /\ page[t][2].seq \in Nat
          BY <5>3 DEF Peer!Delta
        <5>5. QED
          BY <4>1, <5>2, <5>4
      <4>2. QED
        BY <1>1, <3>1, <4>1
    <3>3. \A i \in DOMAIN page[t] : ~Covers(since, page[t][i].seq)
      BY <2>2, <3>1, <3>2, ConsecutiveAhead
    <3>4. /\ pc'[t] = "apply" /\ from'[t] = from[t] /\ page'[t] = page[t]
          /\ UNCHANGED <<current, since>>
      BY <1>9, <2>2 DEF Validate, TypeOK, pollerVars
    <3>5. \A u \in Thread \ {t} :
             pc'[u] = pc[u] /\ from'[u] = from[u] /\ page'[u] = page[u]
      BY <2>2 DEF TypeOK
    <3>6. Part(t)'
      BY <3>1, <3>2, <3>3, <3>4
    <3>7. QED
      BY <1>2, <3>1, <3>4, <3>5, <3>6
  <2>3. QED
    BY <1>9, <2>1, <2>2 DEF Validate
<1>10. ASSUME NEW t \in Thread, Apply(t) PROVE OneLoop'
  BY <1>3, <1>10 DEF Apply, pollerVars
<1>11. ASSUME NEW t \in Thread, Advance(t) \/ Fail(t) PROVE OneLoop'
  BY <1>5, <1>11 DEF Advance, Fail, pollerVars
<1>12. CASE Start
  <2>1. \A u \in Thread : pc[u] = "off"
    BY <1>1, <1>12, ThreadAssumption DEF Start
  <2>2. PICK t \in Thread : current' = t /\ pc' = [pc EXCEPT ![t] = "loop"]
    BY <1>12 DEF Start
  <2>3. \A u \in Thread : IF u = t THEN pc'[u] = "loop" ELSE pc'[u] = "off"
    BY <2>1, <2>2 DEF TypeOK
  <2>4. QED
    BY <2>2, <2>3 DEF OneLoop
<1>13. CASE Stop
  BY <1>3, <1>13 DEF Stop, threadVars
<1>14. CASE Joined
  <2>1. \A u \in Thread : pc[u] = "off"
    BY <1>1, <1>14, ThreadAssumption DEF Joined, JoinWaits
  <2>2. QED
    BY <1>14, <2>1 DEF Joined, threadVars, OneLoop
<1>15. CASE UNCHANGED vars
  BY <1>3, <1>15 DEF vars, threadVars, pollerVars
<1>16. QED
  BY <1>4, <1>6, <1>7, <1>8, <1>9, <1>10, <1>11, <1>12, <1>13, <1>14, <1>15 DEF Next, Poll

\* When stop() waits for its thread, there is one loop, always.
LEMMA OneLoopHolds ==
    ASSUME ModesAgree, JoinWaits
    PROVE  Spec => []OneLoop
<1>1. Init => OneLoop
  BY DEF Init, OneLoop, Asked
<1>2. TypeOK /\ PeerLog /\ OneLoop /\ [Next]_vars => OneLoop'
  BY LoopStep
<1>3. QED
  BY <1>1, <1>2, FederationTypeCorrect, PTL DEF Spec

\* When stop() waits for its thread, the cursor only moves forward.
THEOREM CursorMonotone ==
    ASSUME ModesAgree, JoinWaits
    PROVE  Spec => CursorNeverRegresses
<1>1. TypeOK /\ OneLoop /\ [Next]_vars => [since' >= since]_since
  <2> SUFFICES ASSUME TypeOK, OneLoop, [Next]_vars PROVE since' >= since \/ since' = since
    OBVIOUS
  <2>1. ASSUME NEW t \in Thread, Advance(t) PROVE since' >= since
    BY <2>1, AdvanceForward
  <2>2. ASSUME ~(\E t \in Thread : Advance(t)) PROVE since' = since
    BY <2>2 DEF Next, Poll, PeerAdd, CheckStop, ReadCursor, ServeRows, Validate, Apply,
                Fail, Wait, Start, Stop, Joined, vars
  <2>3. QED
    BY <2>1, <2>2
<1>2. QED
  BY <1>1, FederationTypeCorrect, OneLoopHolds, PTL DEF Spec, CursorNeverRegresses

\* When stop() waits for its thread, no acknowledged change is written again.
THEOREM NeverReapplies ==
    ASSUME ModesAgree, JoinWaits
    PROVE  Spec => NothingReapplied
<1>1. TypeOK /\ OneLoop /\ [Next]_vars =>
        [\A i \in DOMAIN origin' \ DOMAIN origin : ~Covers(since, origin'[i])]_origin
  <2> SUFFICES ASSUME TypeOK, OneLoop, [Next]_vars
               PROVE  (\A i \in DOMAIN origin' \ DOMAIN origin : ~Covers(since, origin'[i]))
                        \/ origin' = origin
    OBVIOUS
  <2>1. ASSUME NEW t \in Thread, Apply(t)
        PROVE  \A i \in DOMAIN origin' \ DOMAIN origin : ~Covers(since, origin'[i])
    BY <2>1, ReapplyStep
  <2>2. ASSUME ~(\E t \in Thread : Apply(t)) PROVE origin' = origin
    BY <2>2 DEF Next, Poll, PeerAdd, CheckStop, ReadCursor, ServeRows, Validate, Advance,
                Fail, Wait, Start, Stop, Joined, vars, localVars
  <2>3. QED
    BY <2>1, <2>2
<1>2. QED
  BY <1>1, FederationTypeCorrect, OneLoopHolds, PTL DEF Spec, NothingReapplied

-----------------------------------------------------------------------------
(* A follower that caught up lists what its peer lists. *)

LocalLog == lSeq = Len(lDeltas) /\ \A i \in 1..lSeq : lDeltas[i].seq = i

\* Every local delta is the change of the peer that it came from.
FromPeer ==
    \A i \in DOMAIN lDeltas :
        origin[i] \in 1..pSeq /\ SameChange(lDeltas[i], pDeltas[origin[i]])

\* What the pull of t has written so far is the end of the local log.
Fresh(t) ==
    /\ done[t] <= Len(origin)
    /\ \A k \in 1..done[t] : origin[Len(origin) - done[t] + k] = page[t][k].seq

\* Change n was written, and nothing up to n was written after it: whatever a pull
\* that failed left behind was overtaken when the pull was repeated.
Settled(n) ==
    \E j \in DOMAIN origin :
        origin[j] = n /\ \A i \in DOMAIN origin : origin[i] <= n => i <= j

AgreeInv ==
    /\ LocalLog
    /\ FromPeer
    /\ \A t \in Thread : pc[t] = "apply" => Fresh(t)
    /\ \A n \in 1..since : Covers(since, n) => Settled(n)

\* A step that writes nothing and keeps the cursor keeps the agreement.
LEMMA AgreeQuiet ==
    ASSUME TypeOK, AgreeInv, Keeps, UNCHANGED <<localVars, since>>,
           \A u \in Thread : pc'[u] = "apply" =>
               \/ done'[u] = 0
               \/ pc[u] = "apply" /\ done'[u] = done[u] /\ page'[u] = page[u]
    PROVE  AgreeInv'
<1>1. UNCHANGED <<lSeq, lDeltas, origin>>
  BY DEF localVars
<1>2. LocalLog'
  BY <1>1 DEF AgreeInv, LocalLog
<1>3. FromPeer'
  <2> SUFFICES ASSUME NEW i \in DOMAIN lDeltas
               PROVE  origin[i] \in 1..pSeq' /\ SameChange(lDeltas[i], pDeltas'[origin[i]])
    BY <1>1 DEF FromPeer, SameChange
  <2>1. origin[i] \in 1..pSeq /\ SameChange(lDeltas[i], pDeltas[origin[i]])
    BY DEF AgreeInv, FromPeer
  <2>2. pSeq \in Nat /\ pSeq' \in Nat /\ pSeq <= pSeq' /\ pDeltas'[origin[i]] = pDeltas[origin[i]]
    BY <2>1 DEF Keeps, TypeOK, Peer!TypeOK
  <2>3. QED
    BY <2>1, <2>2
<1>4. ASSUME NEW u \in Thread, pc'[u] = "apply" PROVE Fresh(u)'
  <2>1. Len(origin) \in Nat
    BY DEF TypeOK
  <2>2. CASE done'[u] = 0
    BY <1>1, <2>1, <2>2 DEF Fresh
  <2>3. CASE pc[u] = "apply" /\ done'[u] = done[u] /\ page'[u] = page[u]
    BY <1>1, <2>3 DEF Fresh, AgreeInv
  <2>4. QED
    BY <1>4, <2>2, <2>3
<1>5. \A n \in 1..since' : Covers(since', n) => Settled(n)'
  BY <1>1 DEF AgreeInv, Settled
<1>6. QED
  BY <1>2, <1>3, <1>4, <1>5 DEF AgreeInv

\* A row that is written is a change no cursor covers, so it settles behind nothing.
LEMMA AgreeApply ==
    ASSUME TypeOK, PeerLog, SkipInv, OneLoop, AgreeInv, NEW t \in Thread, Apply(t)
    PROVE  AgreeInv'
<1> DEFINE row == page[t][done[t] + 1]
           d == Local!NewDelta(row.action, row.agent)
           n == Len(origin)
<1>1. /\ pc[t] = "apply" /\ done[t] + 1 \in DOMAIN page[t]
      /\ row \in Peer!Delta /\ row.seq \in 1..pSeq /\ row = pDeltas[row.seq]
  <2>1. done[t] + 1 \in DOMAIN page[t] /\ row \in Peer!Delta /\ pc[t] = "apply"
    BY NextRowType DEF Apply
  <2>2. PeersRows(page[t])
    BY <2>1 DEF SkipInv, SoundPull, HasRows
  <2>3. QED
    BY <2>1, <2>2 DEF PeersRows
<1>2. d \in Local!Delta /\ d.action = row.action /\ d.agent = row.agent /\ d.seq = lSeq + 1
  BY <1>1 DEF Local!Delta, Peer!Delta, Local!DeltaAction, Peer!DeltaAction,
              Local!NewDelta, TypeOK, Local!TypeOK
<1>3. /\ lSeq' = lSeq + 1 /\ lDeltas' = Append(lDeltas, d) /\ origin' = Append(origin, row.seq)
      /\ UNCHANGED <<pSeq, pDeltas, since, pc, page>> /\ done'[t] = done[t] + 1
  BY DEF Apply, Local!Add, peerVars, TypeOK
<1>4. ~Covers(since, row.seq)
  BY <1>1 DEF OneLoop
<1> HIDE DEF row, d
<1>5. /\ lDeltas \in Seq(Local!Delta) /\ origin \in Seq(Nat) /\ row.seq \in Nat
      /\ n = Len(lDeltas) /\ lSeq = n /\ n \in Nat /\ done[t] \in Nat
  BY <1>1 DEF TypeOK, Local!TypeOK, Peer!Delta, SkipInv, AgreeInv, LocalLog
<1>6. /\ Len(lDeltas') = n + 1 /\ Len(origin') = n + 1
      /\ DOMAIN lDeltas' = 1..(n + 1) /\ DOMAIN origin' = 1..(n + 1)
      /\ lDeltas'[n + 1] = d /\ origin'[n + 1] = row.seq
      /\ \A i \in 1..n : lDeltas'[i] = lDeltas[i] /\ origin'[i] = origin[i]
  BY <1>2, <1>3, <1>5
<1>7. DOMAIN lDeltas = 1..n /\ DOMAIN origin = 1..n
  BY <1>5
<1> HIDE DEF n
<1>8. LocalLog'
  <2>1. \A i \in 1..n : lDeltas[i].seq = i
    BY <1>5 DEF AgreeInv, LocalLog
  <2>2. QED
    BY <1>2, <1>3, <1>5, <1>6, <2>1 DEF LocalLog
<1>9. FromPeer'
  <2> SUFFICES ASSUME NEW i \in 1..(n + 1)
               PROVE  origin'[i] \in 1..pSeq /\ SameChange(lDeltas'[i], pDeltas[origin'[i]])
    BY <1>3, <1>6 DEF FromPeer, SameChange
  <2>1. CASE i \in 1..n
    BY <1>6, <1>7, <2>1 DEF AgreeInv, FromPeer
  <2>2. CASE i = n + 1
    BY <1>1, <1>2, <1>6, <2>2 DEF SameChange
  <2>3. QED
    BY <1>5, <2>1, <2>2
<1>10. ASSUME NEW u \in Thread, pc'[u] = "apply" PROVE Fresh(u)'
  <2>1. u = t
    BY <1>1, <1>3, <1>10 DEF OneLoop
  <2>2. Fresh(t)
    BY <1>1 DEF AgreeInv
  <2>3. done[t] <= n /\ \A k \in 1..done[t] : origin[n - done[t] + k] = page[t][k].seq
    BY <2>2 DEF Fresh, n
  <2>4. ASSUME NEW k \in 1..(done[t] + 1)
        PROVE  origin'[(n + 1) - (done[t] + 1) + k] = page[t][k].seq
    <3>1. CASE k = done[t] + 1
      <4>1. (n + 1) - (done[t] + 1) + k = n + 1
        BY <1>5, <3>1
      <4>2. QED
        BY <1>6, <3>1, <4>1 DEF row
    <3>2. CASE k # done[t] + 1
      <4> done[t] \in Nat /\ n \in Nat /\ k \in Nat
        BY <1>5
      <4>1. k \in 1..done[t] /\ (n + 1) - (done[t] + 1) + k = n - done[t] + k
        BY <3>2
      <4>2. n - done[t] + k \in 1..n
        BY <1>5, <2>3, <4>1
      <4>3. QED
        BY <1>6, <2>3, <4>1, <4>2
    <3>3. QED
      BY <3>1, <3>2
  <2>5. done[t] + 1 <= n + 1
    BY <1>5, <2>3
  <2>6. QED
    BY <1>3, <1>6, <2>1, <2>4, <2>5 DEF Fresh
<1>11. ASSUME NEW m \in 1..since, Covers(since, m) PROVE Settled(m)'
  <2>1. PICK j \in 1..n : origin[j] = m /\ \A i \in 1..n : origin[i] <= m => i <= j
    BY <1>7, <1>11 DEF AgreeInv, Settled
  <2>2. ~(row.seq <= m)
    BY <1>4, <1>5, <1>11 DEF Covers, TypeOK
  <2>3. ASSUME NEW i \in 1..(n + 1), origin'[i] <= m PROVE i <= j
    <3> n \in Nat
      BY <1>5
    <3>1. i \in 1..n \/ i = n + 1
      OBVIOUS
    <3>2. QED
      BY <1>6, <2>1, <2>2, <2>3, <3>1
  <2>4. j \in 1..(n + 1) /\ origin'[j] = m
    BY <1>5, <1>6, <2>1
  <2>5. QED
    BY <1>6, <2>3, <2>4 DEF Settled
<1>12. QED
  BY <1>3, <1>8, <1>9, <1>10, <1>11 DEF AgreeInv

\* The cursor of a finished pull covers what the old one did and the pull's rows,
\* which are the end of the local log.
LEMMA AgreeAdvance ==
    ASSUME TypeOK, PeerLog, SkipInv, OneLoop, AgreeInv, NEW t \in Thread, Advance(t)
    PROVE  AgreeInv'
<1> DEFINE rows == page[t]
           len == Len(origin)
           size == Len(page[t])
<1>1. /\ pc[t] = "apply" /\ done[t] = size /\ from[t] = since /\ EndPull(t)
      /\ since' = CursorAfter(rows, since) /\ UNCHANGED <<peerVars, localVars>>
  BY DEF Advance, OneLoop, Asked
<1>2. /\ rows \in Seq(Peer!Delta) /\ origin \in Seq(Nat) /\ since \in Nat
      /\ DOMAIN origin = 1..len
  BY DEF TypeOK
<1>3. len \in Nat /\ size \in Nat /\ since \in Nat /\ DOMAIN rows = 1..size
  BY <1>2
<1>4. UNCHANGED <<pSeq, pDeltas, lSeq, lDeltas, origin>>
  BY <1>1 DEF peerVars, localVars
<1>5. size <= len /\ \A k \in 1..size : origin[len - size + k] = rows[k].seq
  BY <1>1 DEF AgreeInv, Fresh
<1>6. NoGapAfter(rows, since) /\ Consecutive(rows) /\ PeersRows(rows)
  BY <1>1 DEF SkipInv, SoundPull, HasRows, OneLoop
<1>7. \A k \in 1..size : rows[k].seq \in Nat
  BY <1>3, <1>6 DEF PeersRows, TypeOK, Peer!TypeOK
<1>8. \A i \in 1..len : origin[i] \in Nat
  BY <1>2
<1> HIDE DEF rows, len, size
<1>9. ASSUME NEW k \in 1..size PROVE Settled(rows[k].seq)
  <2> DEFINE j == len - size + k
  <2>1. j \in 1..len /\ origin[j] = rows[k].seq
    BY <1>3, <1>5
  <2>2. ASSUME NEW i \in 1..len, origin[i] <= rows[k].seq PROVE i <= j
    <3>1. CASE i <= len - size
      BY <1>3, <3>1
    <3>2. CASE ~(i <= len - size)
      <4> DEFINE h == i - (len - size)
      <4>1. h \in 1..size /\ len - size + h = i
        BY <1>3, <1>5, <3>2
      <4>2. origin[i] = rows[h].seq
        BY <1>5, <4>1
      <4>3. 1 \in 1..size
        BY <1>3, <4>1
      <4>4. rows[h].seq = rows[1].seq + h - 1 /\ rows[k].seq = rows[1].seq + k - 1
        BY <1>3, <1>6, <4>1 DEF Consecutive
      <4>5. rows[1].seq \in Nat
        BY <1>7, <4>3
      <4>6. h \in Int /\ k \in Int
        BY <4>1
      <4> HIDE DEF h
      <4>7. h <= k
        BY <2>2, <4>2, <4>4, <4>5, <4>6
      <4>8. QED
        BY <1>3, <4>1, <4>6, <4>7
    <3>3. QED
      BY <3>1, <3>2
  <2> HIDE DEF j
  <2>3. QED
    BY <1>2, <2>1, <2>2 DEF Settled
<1>10. ASSUME NEW n \in 1..since', Covers(since', n) PROVE Settled(n)
  <2>1. CASE rows = <<>>
    BY <1>1, <1>10, <2>1 DEF CursorAfter, AgreeInv
  <2>2. CASE rows # <<>>
    <3> DEFINE top == rows[size].seq
    <3>1. size \in 1..size
      BY <1>2, <1>3, <2>2 DEF size, rows
    <3>2. top \in Nat /\ since' = IF CursorMode = "inclusive" THEN top + 1 ELSE top
      BY <1>1, <1>7, <2>2, <3>1 DEF CursorAfter, size, rows
    <3> HIDE DEF top
    <3>3. n \in 1..top
      BY <1>10, <3>2, ModeAssumption DEF Covers, CursorModes
    <3>4. CASE Covers(since, n)
      <4>1. n \in 1..since
        BY <1>3, <3>3, <3>4 DEF Covers
      <4>2. QED
        BY <3>4, <4>1 DEF AgreeInv
    <3>5. CASE ~Covers(since, n)
      <4>1. PICK k \in 1..size : rows[k].seq = n
        BY <1>3, <1>6, <3>1, <3>3, <3>5 DEF NoGapAfter, top
      <4>2. QED
        BY <1>9, <4>1
    <3>6. QED
      BY <3>4, <3>5
  <2>3. QED
    BY <2>1, <2>2
<1>11. \A u \in Thread : pc'[u] # "apply"
  <2>1. \A u \in Thread \ {t} : pc[u] = "off"
    BY <1>1 DEF OneLoop
  <2>2. QED
    BY <1>1, <2>1 DEF EndPull, TypeOK
<1>12. LocalLog' /\ FromPeer'
  BY <1>4 DEF AgreeInv, LocalLog, FromPeer
<1>13. \A n : Settled(n)' <=> Settled(n)
  BY <1>4 DEF Settled
<1>14. QED
  BY <1>10, <1>11, <1>12, <1>13 DEF AgreeInv

\* Every step keeps the agreement of what is settled.
LEMMA AgreeStep ==
    ASSUME ModesAgree, TypeOK, PeerLog, SkipInv, OneLoop, AgreeInv, [Next]_vars
    PROVE  AgreeInv'
<1>1. ASSUME UNCHANGED <<peerVars, localVars, since>>,
             \A u \in Thread : pc'[u] = "apply" =>
                 \/ done'[u] = 0
                 \/ pc[u] = "apply" /\ done'[u] = done[u] /\ page'[u] = page[u]
      PROVE  AgreeInv'
  BY <1>1, SameKeeps, AgreeQuiet
<1>2. CASE PeerAdd
  <2>1. PICK action \in Peer!DeltaAction, f \in Facts : Peer!Add(action, f)
    BY <1>2 DEF PeerAdd
  <2>2. Keeps
    BY <1>2, <2>1, PeerLogAfterAdd DEF Keeps, PeerAdd, localVars, TypeOK, Peer!TypeOK
  <2>3. QED
    BY <1>2, <2>2, AgreeQuiet DEF PeerAdd, threadVars
<1>3. ASSUME NEW t \in Thread,
             CheckStop(t) \/ ReadCursor(t) \/ ServeRows(t) \/ Wait(t)
      PROVE  AgreeInv'
  <2>1. pc'[t] # "apply" /\ UNCHANGED <<peerVars, localVars, since>>
    BY <1>3 DEF CheckStop, ReadCursor, ServeRows, Wait, TypeOK
  <2>2. \A u \in Thread \ {t} : pc'[u] = pc[u] /\ done'[u] = done[u] /\ page'[u] = page[u]
    BY <1>3 DEF CheckStop, ReadCursor, ServeRows, Wait, TypeOK
  <2>3. QED
    BY <1>1, <2>1, <2>2
<1>4. ASSUME NEW t \in Thread, EndPull(t), UNCHANGED <<peerVars, localVars, since>>
      PROVE  AgreeInv'
  <2>1. pc'[t] # "apply"
    BY <1>4 DEF EndPull, TypeOK
  <2>2. \A u \in Thread \ {t} : pc'[u] = pc[u] /\ done'[u] = done[u] /\ page'[u] = page[u]
    BY <1>4 DEF EndPull, TypeOK
  <2>3. QED
    BY <1>1, <1>4, <2>1, <2>2
<1>5. ASSUME NEW t \in Thread, Validate(t) PROVE AgreeInv'
  <2>1. CASE EndPull(t)
    BY <1>4, <1>5, <2>1 DEF Validate
  <2>2. CASE pc' = [pc EXCEPT ![t] = "apply"] /\ UNCHANGED <<from, page, done>>
    <3>1. done'[t] = 0
      BY <1>5, <2>2 DEF Validate, SkipInv, SoundPull
    <3>2. \A u \in Thread \ {t} : pc'[u] = pc[u] /\ done'[u] = done[u] /\ page'[u] = page[u]
      BY <2>2 DEF TypeOK
    <3>3. QED
      BY <1>1, <1>5, <3>1, <3>2 DEF Validate
  <2>3. QED
    BY <1>5, <2>1, <2>2 DEF Validate
<1>6. ASSUME NEW t \in Thread, Fail(t) PROVE AgreeInv'
  BY <1>4, <1>6 DEF Fail
<1>7. CASE Start
  <2>1. PICK t \in Thread : pc' = [pc EXCEPT ![t] = "loop"]
    BY <1>7 DEF Start
  <2>2. \A u \in Thread : pc'[u] = "apply" => pc[u] = "apply"
    BY <2>1 DEF TypeOK
  <2>3. QED
    BY <1>1, <1>7, <2>2 DEF Start
<1>8. CASE Stop \/ Joined \/ UNCHANGED vars
  BY <1>1, <1>8 DEF Stop, Joined, vars, threadVars
<1>9. ASSUME NEW t \in Thread, Apply(t) PROVE AgreeInv'
  BY <1>9, AgreeApply
<1>10. ASSUME NEW t \in Thread, Advance(t) PROVE AgreeInv'
  BY <1>10, AgreeAdvance
<1>11. QED
  BY <1>2, <1>3, <1>5, <1>6, <1>7, <1>8, <1>9, <1>10 DEF Next, Poll

\* The last local delta of a slug is the peer's last delta of it.
LEMMA SettledAgrees ==
    ASSUME TypeOK, PeerLog, SkipInv, AgreeInv, \A n \in 1..pSeq : Covers(since, n)
    PROVE  {d.agent : d \in Local!Listed(Local!Logged)}
             = {d.agent : d \in Peer!Listed(Peer!Logged)}
<1>1. ASSUME NEW n \in 1..pSeq PROVE Settled(n)
  <2>1. Covers(since, n)
    OBVIOUS
  <2>2. n \in 1..since
    <3>1. since \in Nat /\ n \in Nat
      BY DEF TypeOK, Peer!TypeOK
    <3>2. QED
      BY <2>1, <3>1 DEF Covers
  <2>3. QED
    BY <2>1, <2>2 DEF AgreeInv
<1>2. /\ DOMAIN lDeltas = 1..lSeq /\ DOMAIN origin = 1..lSeq /\ lSeq \in Nat
      /\ DOMAIN pDeltas = 1..pSeq /\ pSeq \in Nat
  BY DEF TypeOK, Local!TypeOK, Peer!TypeOK, SkipInv, AgreeInv, LocalLog, PeerLog
<1>3. /\ \A i \in 1..lSeq : lDeltas[i].seq = i
      /\ \A n \in 1..pSeq : pDeltas[n].seq = n
  BY DEF AgreeInv, LocalLog, PeerLog
<1>4. \A i \in 1..lSeq :
          origin[i] \in 1..pSeq /\ SameChange(lDeltas[i], pDeltas[origin[i]])
  BY <1>2 DEF AgreeInv, FromPeer
<1>5. ASSUME NEW n \in 1..pSeq
      PROVE  \E j \in 1..lSeq : origin[j] = n /\ \A i \in 1..lSeq : origin[i] <= n => i <= j
  BY <1>1, <1>2 DEF Settled
<1>6. Local!Logged = {lDeltas[i] : i \in 1..lSeq} /\ Peer!Logged = {pDeltas[n] : n \in 1..pSeq}
  BY <1>2 DEF Local!Logged, Peer!Logged
<1>7. ASSUME NEW d \in Local!Listed(Local!Logged)
      PROVE  \E p \in Peer!Listed(Peer!Logged) : p.agent = d.agent
  <2>1. d \in Local!Logged /\ d.action = "upsert"
        /\ \A e \in Local!Logged : e.agent.slug = d.agent.slug => e.seq <= d.seq
    BY DEF Local!Listed
  <2>2. PICK i \in 1..lSeq : d = lDeltas[i]
    BY <1>6, <2>1
  <2> DEFINE m == origin[i]
  <2>3. m \in 1..pSeq /\ SameChange(d, pDeltas[m])
    BY <1>4, <2>2
  <2>4. \A h \in 1..lSeq : lDeltas[h].agent.slug = d.agent.slug => h <= i
    BY <1>3, <1>6, <2>1, <2>2
  <2>5. ASSUME NEW n \in 1..pSeq, pDeltas[n].agent.slug = d.agent.slug PROVE n <= m
    <3>1. PICK j \in 1..lSeq : origin[j] = n /\ \A h \in 1..lSeq : origin[h] <= n => h <= j
      BY <1>5
    <3>2. lDeltas[j].agent.slug = d.agent.slug
      BY <1>4, <2>5, <3>1 DEF SameChange
    <3>3. j <= i
      BY <2>4, <3>2
    <3>4. CASE m <= n
      <4>1. i = j
        BY <3>1, <3>3, <3>4
      <4>2. QED
        BY <3>1, <4>1
    <3>5. CASE ~(m <= n)
      BY <2>3, <3>5
    <3>6. QED
      BY <3>4, <3>5
  <2>6. pDeltas[m].agent = d.agent /\ pDeltas[m].action = "upsert"
    BY <2>1, <2>3 DEF SameChange
  <2>7. \A e \in Peer!Logged : e.agent.slug = pDeltas[m].agent.slug => e.seq <= pDeltas[m].seq
    BY <1>3, <1>6, <2>3, <2>5, <2>6
  <2>8. pDeltas[m] \in Peer!Listed(Peer!Logged)
    BY <1>6, <2>3, <2>6, <2>7 DEF Peer!Listed
  <2>9. QED
    BY <2>6, <2>8
<1>8. ASSUME NEW p \in Peer!Listed(Peer!Logged)
      PROVE  \E d \in Local!Listed(Local!Logged) : d.agent = p.agent
  <2>1. p \in Peer!Logged /\ p.action = "upsert"
        /\ \A e \in Peer!Logged : e.agent.slug = p.agent.slug => e.seq <= p.seq
    BY DEF Peer!Listed
  <2>2. PICK n \in 1..pSeq : p = pDeltas[n]
    BY <1>6, <2>1
  <2>3. PICK j \in 1..lSeq : origin[j] = n /\ \A h \in 1..lSeq : origin[h] <= n => h <= j
    BY <1>5
  <2>4. lDeltas[j].agent = p.agent /\ lDeltas[j].action = "upsert"
    BY <1>4, <2>1, <2>2, <2>3 DEF SameChange
  <2>5. ASSUME NEW h \in 1..lSeq, lDeltas[h].agent.slug = p.agent.slug PROVE h <= j
    <3>1. origin[h] \in 1..pSeq /\ pDeltas[origin[h]].agent.slug = p.agent.slug
      BY <1>4, <2>5 DEF SameChange
    <3>2. origin[h] <= n
      BY <1>3, <1>6, <2>1, <2>2, <3>1
    <3>3. QED
      BY <2>3, <3>2
  <2>6. \A e \in Local!Logged : e.agent.slug = lDeltas[j].agent.slug => e.seq <= lDeltas[j].seq
    BY <1>3, <1>6, <2>4, <2>5
  <2>7. lDeltas[j] \in Local!Listed(Local!Logged)
    BY <1>6, <2>4, <2>6 DEF Local!Listed
  <2>8. QED
    BY <2>4, <2>7
<1>9. QED
  BY <1>7, <1>8

\* A follower that covers its peer's whole log lists the same records, whatever pages
\* were written in part and repeated: when stop() waits for its thread.
THEOREM CaughtUp ==
    ASSUME ModesAgree, JoinWaits
    PROVE  Spec => []CaughtUpAgrees
<1>1. Init => SkipInv /\ AgreeInv
  <2> SUFFICES ASSUME Init PROVE SkipInv /\ AgreeInv
    OBVIOUS
  <2>1. SkipInv
    BY DEF Init, Local!Init, SkipInv, SoundPull, Asked, HasRows, Honest
  <2>2. LocalLog /\ FromPeer
    BY DEF Init, Local!Init, LocalLog, FromPeer
  <2>3. QED
    BY <2>1, <2>2 DEF Init, AgreeInv
<1>2. TypeOK /\ PeerLog /\ SkipInv /\ [Next]_vars => SkipInv'
  BY SkipStep
<1>3. TypeOK /\ PeerLog /\ SkipInv /\ OneLoop /\ AgreeInv /\ [Next]_vars => AgreeInv'
  BY AgreeStep
<1>4. TypeOK /\ PeerLog /\ SkipInv /\ AgreeInv => CaughtUpAgrees
  BY SettledAgrees DEF CaughtUpAgrees
<1>5. QED
  BY <1>1, <1>2, <1>3, <1>4, FederationTypeCorrect, OneLoopHolds, PTL DEF Spec
=============================================================================
