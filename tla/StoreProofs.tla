---------------------------- MODULE StoreProofs ----------------------------
(***************************************************************************)
(* Proofs about the change log and its two stores: DeltaStore, for every     *)
(* set of agents, slugs and records and logs of every length, and           *)
(* PersistentStore, which inherits from it, for any number of writers,      *)
(* failures and restarts and tables of any length.                          *)
(***************************************************************************)
EXTENDS PersistentStore, FiniteSetTheorems, SequenceTheorems, WellFoundedInduction, TLAPS

-----------------------------------------------------------------------------
(* The store in memory. *)

\* What an add records is a delta, one past the last number handed out.
LEMMA NewDeltaType ==
    ASSUME TypeOK, NEW action \in DeltaAction, NEW f \in Facts
    PROVE  /\ NewDelta(action, f) \in Delta
           /\ NewDelta(action, f).agent = f
           /\ NewDelta(action, f).action = action
           /\ NewDelta(action, f).seq = seq + 1
           /\ f.id \in Agent
BY FactsAssumption DEF TypeOK, NewDelta, Delta

\* Types are preserved: the log holds deltas and the index maps agents to deltas.
THEOREM StoreTypeCorrect == Spec => []TypeOK
<1>1. Init => TypeOK
  BY DEF Init, TypeOK
<1>2. TypeOK /\ [Next]_vars => TypeOK'
  <2> SUFFICES ASSUME TypeOK, [Next]_vars PROVE TypeOK'
    OBVIOUS
  <2>1. ASSUME NEW action \in DeltaAction, NEW f \in Facts, Add(action, f) PROVE TypeOK'
    <3> DEFINE d == NewDelta(action, f)
    <3>1. d \in Delta /\ d.agent = f /\ f.id \in Agent
      BY NewDeltaType
    <3> HIDE DEF d
    <3>2. seq' \in Nat /\ deltas' \in Seq(Delta)
      BY <2>1, <3>1 DEF Add, TypeOK, d
    <3>3. latest' = [a \in DOMAIN latest \cup {f.id} |-> IF a = f.id THEN d ELSE latest[a]]
      BY <2>1, <3>1 DEF Add, Index, d
    <3>4. DOMAIN latest' \subseteq Agent /\ \A a \in DOMAIN latest' : latest'[a] \in Delta
      BY <3>1, <3>3 DEF TypeOK
    <3>5. QED
      BY <3>2, <3>4 DEF TypeOK
  <2>2. CASE Clear
    BY <2>2 DEF Clear, TypeOK
  <2>3. CASE UNCHANGED vars
    BY <2>3 DEF vars, TypeOK
  <2>4. QED
    BY <2>1, <2>2, <2>3 DEF Next
<1>3. QED
  BY <1>1, <1>2, PTL DEF Spec

\* Sequence numbers are consecutive from 1 in every reachable log.
THEOREM Contiguous == Spec => []LogIsContiguous
<1>1. Init => LogIsContiguous
  BY DEF Init, LogIsContiguous
<1>2. TypeOK /\ LogIsContiguous /\ [Next]_vars => LogIsContiguous'
  <2> SUFFICES ASSUME TypeOK, LogIsContiguous, [Next]_vars PROVE LogIsContiguous'
    OBVIOUS
  <2>1. ASSUME NEW action \in DeltaAction, NEW f \in Facts, Add(action, f)
        PROVE LogIsContiguous'
    <3> DEFINE d == NewDelta(action, f)
    <3>1. d \in Delta /\ d.seq = seq + 1
      BY NewDeltaType
    <3>2. deltas \in Seq(Delta) /\ deltas' = Append(deltas, d) /\ seq' = seq + 1
      BY <2>1 DEF Add, TypeOK
    <3> HIDE DEF d
    <3>3. Len(deltas') = Len(deltas) + 1 /\ DOMAIN deltas' = 1..(Len(deltas) + 1)
      BY <3>1, <3>2
    <3>4. \A i \in DOMAIN deltas' : deltas'[i].seq = i
      BY <3>1, <3>2, <3>3 DEF LogIsContiguous
    <3>5. QED
      BY <3>2, <3>3, <3>4 DEF LogIsContiguous
  <2>2. CASE Clear
    BY <2>2 DEF Clear, LogIsContiguous
  <2>3. CASE UNCHANGED vars
    BY <2>3 DEF vars, LogIsContiguous
  <2>4. QED
    BY <2>1, <2>2, <2>3 DEF Next
<1>3. QED
  BY <1>1, <1>2, StoreTypeCorrect, PTL DEF Spec

\* An add puts one new delta into the set of logged deltas, newer than all others.
LEMMA AddLogs ==
    ASSUME TypeOK, LogIsContiguous,
           NEW action \in DeltaAction, NEW f \in Facts, Add(action, f)
    PROVE  /\ Logged' = Logged \cup {NewDelta(action, f)}
           /\ \A e \in Logged : e \in Delta /\ e.seq <= seq
<1> DEFINE d == NewDelta(action, f)
<1>1. d \in Delta
  BY NewDeltaType
<1>2. deltas \in Seq(Delta) /\ deltas' = Append(deltas, d)
  BY DEF Add, TypeOK
<1> HIDE DEF d
<1>3. DOMAIN deltas = 1..Len(deltas) /\ Len(deltas) \in Nat
  BY <1>2
<1>4. DOMAIN deltas' = 1..(Len(deltas) + 1)
  BY <1>1, <1>2
<1>5. \A i \in DOMAIN deltas : deltas'[i] = deltas[i]
  BY <1>1, <1>2, <1>3
<1>6. deltas'[Len(deltas) + 1] = d
  BY <1>1, <1>2
<1>7. Logged' = Logged \cup {d}
  BY <1>3, <1>4, <1>5, <1>6 DEF Logged
<1>8. \A e \in Logged : e \in Delta /\ e.seq <= seq
  BY <1>2, <1>3 DEF Logged, LogIsContiguous
<1>9. QED
  BY <1>7, <1>8 DEF d

\* The index the snapshot is served from holds the newest delta of every agent.
THEOREM Newest == Spec => []IndexIsNewest
<1>1. Init => IndexIsNewest
  BY DEF Init, IndexIsNewest, Logged
<1>2. TypeOK /\ LogIsContiguous /\ IndexIsNewest /\ [Next]_vars => IndexIsNewest'
  <2> SUFFICES ASSUME TypeOK, LogIsContiguous, IndexIsNewest, [Next]_vars
               PROVE  IndexIsNewest'
    OBVIOUS
  <2>1. ASSUME NEW action \in DeltaAction, NEW f \in Facts, Add(action, f)
        PROVE IndexIsNewest'
    <3> DEFINE d == NewDelta(action, f)
    <3>1. d \in Delta /\ d.agent = f /\ d.seq = seq + 1
      BY NewDeltaType
    <3>2. Logged' = Logged \cup {d} /\ \A e \in Logged : e \in Delta /\ e.seq <= seq
      BY <2>1, AddLogs
    <3>3. latest' = [a \in DOMAIN latest \cup {f.id} |-> IF a = f.id THEN d ELSE latest[a]]
      BY <2>1, <3>1 DEF Add, Index
    <3> HIDE DEF d
    <3>4. seq \in Nat
      BY DEF TypeOK
    <3>5. DOMAIN latest' = {e.agent.id : e \in Logged'}
      BY <3>1, <3>2, <3>3 DEF IndexIsNewest
    <3>6. ASSUME NEW a \in DOMAIN latest'
          PROVE  /\ latest'[a] \in Logged'
                 /\ latest'[a].agent.id = a
                 /\ \A e \in Logged' : e.agent.id = a => e.seq <= latest'[a].seq
      <4>1. CASE a = f.id
        <5>1. latest'[a] = d
          BY <3>3, <4>1
        <5>2. \A e \in Logged' : e.seq <= d.seq
          BY <3>1, <3>2, <3>4 DEF Delta
        <5>3. QED
          BY <3>1, <3>2, <4>1, <5>1, <5>2
      <4>2. CASE a # f.id
        <5>1. a \in DOMAIN latest /\ latest'[a] = latest[a]
          BY <3>3, <4>2
        <5>2. QED
          BY <3>1, <3>2, <4>2, <5>1 DEF IndexIsNewest
      <4>3. QED
        BY <4>1, <4>2
    <3>7. QED
      BY <3>5, <3>6 DEF IndexIsNewest
  <2>2. CASE Clear
    BY <2>2 DEF Clear, IndexIsNewest, Logged
  <2>3. CASE UNCHANGED vars
    BY <2>3 DEF vars, IndexIsNewest, Logged
  <2>4. QED
    BY <2>1, <2>2, <2>3 DEF Next
<1>3. QED
  BY <1>1, <1>2, StoreTypeCorrect, Contiguous, PTL DEF Spec

\* Deltas of one agent carry one slug, when the records do.
LEMMA LoggedTypes ==
    ASSUME TypeOK
    PROVE  \A d \in Logged : d \in Delta
<1>1. deltas \in Seq(Delta)
  BY DEF TypeOK
<1>2. QED
  BY <1>1 DEF Logged

\* No two deltas of the log have one sequence number.
LEMMA SeqsAreKeys ==
    ASSUME LogIsContiguous
    PROVE  \A d, e \in Logged : d.seq = e.seq => d = e
BY DEF LogIsContiguous, Logged

\* The newest delta of every agent decides every slug: a delta that is not the
\* newest of its agent is superseded under its own slug, by its own agent.
LEMMA NewestDecide ==
    ASSUME SlugsAreStable, TypeOK, LogIsContiguous, IndexIsNewest
    PROVE  SnapshotListsSame
<1>1. \A d \in Logged : d \in Delta /\ d.agent \in Facts /\ d.seq \in Nat
  BY LoggedTypes DEF Delta
<1>2. \A d \in Logged :
        /\ d.agent.id \in DOMAIN latest
        /\ latest[d.agent.id] \in Latest
        /\ latest[d.agent.id] \in Logged
        /\ latest[d.agent.id].agent.slug = d.agent.slug
        /\ d.seq <= latest[d.agent.id].seq
  BY <1>1 DEF IndexIsNewest, Latest, SlugsAreStable
<1>3. Latest \subseteq Logged
  BY DEF IndexIsNewest, Latest
<1>4. ASSUME NEW d \in Listed(Latest) PROVE d \in Listed(Logged)
  <2>1. d \in Logged /\ d.action = "upsert"
    BY <1>3, <1>4 DEF Listed
  <2>2. ASSUME NEW e \in Logged, e.agent.slug = d.agent.slug PROVE e.seq <= d.seq
    <3>1. latest[e.agent.id].seq <= d.seq
      BY <1>2, <1>4, <2>2 DEF Listed
    <3>2. e.seq <= latest[e.agent.id].seq /\ latest[e.agent.id] \in Logged
      BY <1>2
    <3>3. QED
      BY <1>1, <2>1, <3>1, <3>2
  <2>3. QED
    BY <2>1, <2>2 DEF Listed
<1>5. ASSUME NEW d \in Listed(Logged) PROVE d \in Listed(Latest)
  <2>1. d \in Logged
    BY <1>5 DEF Listed
  <2>2. latest[d.agent.id].seq <= d.seq
    BY <1>2, <2>1 DEF Listed
  <2>3. latest[d.agent.id] = d
    BY <1>1, <1>2, <2>1, <2>2, SeqsAreKeys
  <2>4. QED
    BY <1>2, <1>3, <2>1, <2>3 DEF Listed
<1>6. QED
  BY <1>4, <1>5 DEF SnapshotListsSame

\* With slugs that an agent never changes, the catalog rebuilt from one delta
\* per agent lists exactly what the whole log lists.
THEOREM SameCatalog ==
    ASSUME SlugsAreStable
    PROVE  Spec => []SnapshotListsSame
<1>1. TypeOK /\ LogIsContiguous /\ IndexIsNewest => SnapshotListsSame
  BY NewestDecide
<1>2. QED
  BY <1>1, StoreTypeCorrect, Contiguous, Newest, PTL

-----------------------------------------------------------------------------
(* Induction over data: a claim about every length of a log is proved at the *)
(* least length at which it would fail.                                      *)

\* Every nonempty set of numbers has a least one: the initial intervals of the
\* naturals are finite sets, and these are well-founded under strict inclusion.
LEMMA LeastNumber ==
    ASSUME NEW B \in SUBSET Nat, B # {}
    PROVE  \E m \in B : \A k \in B : m <= k
<1> DEFINE T == {1..n : n \in B}
<1>1. IsWellFoundedOn(StrictSubsetOrdering(Nat), FiniteSubsetsOf(Nat))
  BY FS_StrictSubsetOrderingWellFounded
<1>2. T \subseteq FiniteSubsetsOf(Nat) /\ T # {}
  <2>1. \A n \in B : 1..n \in SUBSET Nat /\ IsFiniteSet(1..n)
    BY FS_Interval
  <2>2. QED
    BY <2>1 DEF FiniteSubsetsOf
<1>3. PICK t \in T : \A u \in T : ~(<<u, t>> \in StrictSubsetOrdering(Nat))
  <2> HIDE DEF T
  <2> QED BY <1>1, <1>2, WFMin
<1>4. PICK m \in B : t = 1..m
  OBVIOUS
<1>5. ASSUME NEW k \in B, k < m PROVE FALSE
  <2>1. <<1..k, 1..m>> \in StrictSubsetOrdering(Nat)
    <3>1. m \in 1..m /\ m \notin 1..k
      BY <1>5
    <3>2. 1..k \subseteq 1..m /\ 1..k # 1..m
      BY <1>5, <3>1
    <3> QED BY <3>2 DEF StrictSubsetOrdering
  <2>2. QED BY <1>3, <1>4, <2>1
<1>6. QED
  BY <1>5

\* Induction, for a set of numbers: a set that contains every number whose
\* predecessors it contains is all of them.
LEMMA StrongInduction ==
    ASSUME NEW G \in SUBSET Nat,
           \A n \in Nat : (\A k \in 0..(n - 1) : k \in G) => n \in G
    PROVE  G = Nat
<1> SUFFICES ASSUME Nat \ G # {} PROVE FALSE
  OBVIOUS
<1>1. PICK m \in Nat \ G : \A k \in Nat \ G : m <= k
  <2> DEFINE B == Nat \ G
  <2>1. B \in SUBSET Nat /\ B # {}
    OBVIOUS
  <2> HIDE DEF B
  <2>2. \E m \in B : \A k \in B : m <= k
    BY <2>1, LeastNumber
  <2>3. QED
    BY <2>2 DEF B
<1>2. \A k \in 0..(m - 1) : k \in G
  BY <1>1
<1>3. QED
  BY <1>1, <1>2

\* A nonempty set of numbers with a bound has a greatest one, and Max is it.
LEMMA MaxOfBounded ==
    ASSUME NEW S \in SUBSET Nat, S # {}, NEW n \in Nat, \A k \in S : k <= n
    PROVE  Max(S) \in S /\ \A k \in S : k <= Max(S)
<1> DEFINE B == {n - k : k \in S}
<1>1. B \in SUBSET Nat /\ B # {}
  <2>1. \A k \in S : n - k \in Nat
    OBVIOUS
  <2>2. QED
    BY <2>1
<1>2. PICK m \in B : \A k \in B : m <= k
  <2> HIDE DEF B
  <2> QED BY <1>1, LeastNumber
<1>3. PICK x \in S : m = n - x
  OBVIOUS
<1>4. \A k \in S : x >= k
  BY <1>2, <1>3
<1>5. QED
  BY <1>3, <1>4 DEF Max

-----------------------------------------------------------------------------
(* Replaying deltas.  A fold is an iteration over the sets of positions.     *)

\* The body of the fold of Replay(ds), with h in the place of the iteration.
ReplayStep(ds, h, s) ==
    IF s = {} THEN <<>> ELSE ApplyDelta(h[s \ {Max(s)}], ds[Max(s)])

\* h is the fold over the first n positions.
ReplayTo(ds, n, h) == h = [s \in SUBSET (1..n) |-> ReplayStep(ds, h, s)]

\* The greatest number of a set that contains the greatest number allowed.
LEMMA MaxIsTop ==
    ASSUME NEW n \in Nat, n > 0, NEW s \in SUBSET (1..n), n \in s
    PROVE  Max(s) = n
<1>1. s \in SUBSET Nat /\ s # {} /\ \A k \in s : k <= n
  OBVIOUS
<1>2. Max(s) \in s /\ \A k \in s : k <= Max(s)
  BY <1>1, MaxOfBounded
<1>3. n <= Max(s) /\ Max(s) \in 1..n
  BY <1>2
<1>4. QED
  BY <1>3

\* The greatest number of a nonempty set of positions is one of them.
LEMMA MaxIsMember ==
    ASSUME NEW n \in Nat, NEW s \in SUBSET (1..n), s # {}
    PROVE  Max(s) \in s
<1>1. s \in SUBSET Nat /\ \A k \in s : k <= n
  OBVIOUS
<1>2. QED
  BY <1>1, MaxOfBounded

\* The iteration exists, for every number of positions.
LEMMA ReplayExists ==
    ASSUME NEW ds
    PROVE  \A n \in Nat : \E h : ReplayTo(ds, n, h)
<1> DEFINE G == {n \in Nat : \E h : ReplayTo(ds, n, h)}
<1>1. ASSUME NEW n \in Nat, \A k \in 0..(n - 1) : k \in G PROVE n \in G
  <2>1. CASE n = 0
    <3> DEFINE h == [s \in SUBSET (1..0) |-> <<>>]
    <3>1. \A s \in SUBSET (1..0) : s = {}
      OBVIOUS
    <3>2. \A s \in SUBSET (1..0) : ReplayStep(ds, h, s) = <<>>
      BY <3>1 DEF ReplayStep
    <3> HIDE DEF h
    <3>3. h = [s \in SUBSET (1..0) |-> ReplayStep(ds, h, s)]
      BY <3>2 DEF h
    <3>4. QED
      BY <2>1, <3>3 DEF ReplayTo
  <2>2. CASE n > 0
    <3>1. n - 1 \in 0..(n - 1)
      BY <2>2
    <3>2. PICK g : ReplayTo(ds, n - 1, g)
      BY <1>1, <3>1
    <3> DEFINE value(s) == IF n \in s THEN ApplyDelta(g[s \ {n}], ds[n]) ELSE g[s]
               h == [s \in SUBSET (1..n) |-> value(s)]
    <3>3. \A s \in SUBSET (1..n) : n \notin s => s \in SUBSET (1..(n - 1))
      OBVIOUS
    <3>4. \A s \in SUBSET (1..n) : s \ {n} \in SUBSET (1..(n - 1)) /\ s \ {n} \in SUBSET (1..n)
      BY <3>3
    <3>5. \A s \in SUBSET (1..n) : n \notin s => h[s] = g[s]
      OBVIOUS
    <3>6. \A s \in SUBSET (1..n) : n \in s => h[s] = ApplyDelta(g[s \ {n}], ds[n])
      OBVIOUS
    <3>7. ASSUME NEW s \in SUBSET (1..n) PROVE h[s] = ReplayStep(ds, h, s)
      <4> HIDE DEF h
      <4>1. CASE n \in s
        <5>1. Max(s) = n /\ s # {}
          BY <2>2, <4>1, MaxIsTop
        <5>2. h[s \ {n}] = g[s \ {n}]
          BY <3>4, <3>5
        <5>3. QED
          BY <3>6, <4>1, <5>1, <5>2 DEF ReplayStep
      <4>2. CASE n \notin s
        <5>1. s \in SUBSET (1..(n - 1))
          BY <3>3, <4>2
        <5>2. g[s] = ReplayStep(ds, g, s)
          BY <3>2, <5>1 DEF ReplayTo
        <5>3. CASE s = {}
          BY <3>5, <4>2, <5>2, <5>3 DEF ReplayStep
        <5>4. CASE s # {}
          <6>1. Max(s) \in s
            BY <5>4, MaxIsMember
          <6>2. h[s \ {Max(s)}] = g[s \ {Max(s)}]
            BY <3>5, <4>2
          <6>3. QED
            BY <3>5, <4>2, <5>2, <5>4, <6>2 DEF ReplayStep
        <5>5. QED
          BY <5>3, <5>4
      <4>3. QED
        BY <4>1, <4>2
    <3>8. h = [s \in SUBSET (1..n) |-> ReplayStep(ds, h, s)]
      BY <3>7
    <3> HIDE DEF h
    <3>9. ReplayTo(ds, n, h)
      BY <3>8 DEF ReplayTo
    <3>10. QED
      BY <3>9
  <2>3. QED
    BY <2>1, <2>2
<1>2. G = Nat
  <2>1. G \in SUBSET Nat
    OBVIOUS
  <2> HIDE DEF G
  <2> QED BY <1>1, <2>1, StrongInduction
<1>3. QED
  BY <1>2

\* Replay, position by position: from nothing, one delta applied after the other.
LEMMA ReplayEquation ==
    ASSUME NEW ds, NEW n \in Nat, DOMAIN ds = 1..n
    PROVE  \E h : /\ Replay(ds) = h[n]
                  /\ h[0] = <<>>
                  /\ \A k \in 1..n : h[k] = ApplyDelta(h[k - 1], ds[k])
<1> DEFINE g == CHOOSE g : ReplayTo(ds, n, g)
           h == [k \in 0..n |-> g[1..k]]
<1>1. ReplayTo(ds, n, g)
  BY ReplayExists
<1>2. Replay(ds) = g[1..n]
  BY DEF Replay, FoldLeft, MapThenFoldSet, ReplayTo, ReplayStep
<1> HIDE DEF g
<1>3. h[0] = <<>>
  <2>1. g[1..0] = ReplayStep(ds, g, 1..0)
    BY <1>1 DEF ReplayTo
  <2>2. 1..0 = {}
    OBVIOUS
  <2>3. QED
    BY <2>1, <2>2 DEF ReplayStep
<1>4. ASSUME NEW k \in 1..n PROVE h[k] = ApplyDelta(h[k - 1], ds[k])
  <2>1. g[1..k] = ReplayStep(ds, g, 1..k)
    <3>1. 1..k \in SUBSET (1..n)
      OBVIOUS
    <3>2. QED
      BY <1>1, <3>1 DEF ReplayTo
  <2>2. Max(1..k) = k /\ 1..k # {}
    <3>1. k \in Nat /\ k > 0 /\ k \in 1..k /\ 1..k \in SUBSET (1..k)
      OBVIOUS
    <3>2. QED
      BY <3>1, MaxIsTop
  <2>3. (1..k) \ {k} = 1..(k - 1)
    OBVIOUS
  <2>4. k \in 0..n /\ k - 1 \in 0..n
    OBVIOUS
  <2>5. QED
    BY <2>1, <2>2, <2>3, <2>4 DEF ReplayStep
<1>5. Replay(ds) = h[n]
  BY <1>2
<1> HIDE DEF h
<1>6. QED
  BY <1>3, <1>4, <1>5

\* f is the catalog that D lists: under each slug the record of the listed delta.
IsCatalog(f, D) ==
    /\ f = [x \in DOMAIN f |-> f[x]]
    /\ DOMAIN f = {d.agent.slug : d \in Listed(D)}
    /\ \A d \in Listed(D) : f[d.agent.slug] = d.agent

\* There is one catalog of what is listed.
LEMMA OneCatalog ==
    ASSUME NEW f, NEW g, NEW D, NEW E, IsCatalog(f, D), IsCatalog(g, E),
           Listed(D) = Listed(E)
    PROVE  f = g
<1>1. DOMAIN f = DOMAIN g
  BY DEF IsCatalog
<1>2. \A x \in DOMAIN f : f[x] = g[x]
  BY DEF IsCatalog
<1>3. QED
  BY <1>1, <1>2 DEF IsCatalog

\* A delta newer than all others takes over its slug: what is listed with it.
LEMMA ListedWith ==
    ASSUME NEW D, NEW d, d.seq \in Nat, \A e \in D : e.seq \in Nat /\ e.seq < d.seq
    PROVE  Listed(D \cup {d}) =
             {e \in Listed(D) : e.agent.slug # d.agent.slug}
               \cup (IF d.action = "upsert" THEN {d} ELSE {})
<1>1. \A e \in D : e.seq <= d.seq /\ ~(d.seq <= e.seq)
  OBVIOUS
<1>2. d.seq <= d.seq
  OBVIOUS
<1>3. QED
  BY <1>1, <1>2 DEF Listed

\* Applying it to the catalog of D gives the catalog of D with it.
LEMMA ApplyLists ==
    ASSUME NEW f, NEW D, NEW d, IsCatalog(f, D),
           d.seq \in Nat, \A e \in D : e.seq \in Nat /\ e.seq < d.seq
    PROVE  IsCatalog(ApplyDelta(f, d), D \cup {d})
<1> DEFINE slug == d.agent.slug
           E == D \cup {d}
           g == ApplyDelta(f, d)
<1>1. Listed(E) = {e \in Listed(D) : e.agent.slug # slug}
                          \cup (IF d.action = "upsert" THEN {d} ELSE {})
  BY ListedWith
<1>2. /\ DOMAIN f = {e.agent.slug : e \in Listed(D)}
      /\ \A e \in Listed(D) : f[e.agent.slug] = e.agent
  BY DEF IsCatalog
<1> HIDE DEF E
<1>3. CASE d.action = "upsert"
  <2>1. g = [s \in DOMAIN f \cup {slug} |-> IF s = slug THEN d.agent ELSE f[s]]
    BY <1>3 DEF ApplyDelta
  <2>2. Listed(E) = {e \in Listed(D) : e.agent.slug # slug} \cup {d}
    BY <1>1, <1>3
  <2> HIDE DEF g
  <2>3. DOMAIN g = {e.agent.slug : e \in Listed(E)}
    BY <1>2, <2>1, <2>2
  <2>4. \A e \in Listed(E) : g[e.agent.slug] = e.agent
    BY <1>2, <2>1, <2>2
  <2>5. g = [x \in DOMAIN g |-> g[x]]
    BY <2>1
  <2>6. QED
    BY <2>3, <2>4, <2>5 DEF IsCatalog, E, g
<1>4. CASE d.action # "upsert"
  <2>1. g = [s \in DOMAIN f \ {slug} |-> f[s]]
    BY <1>4 DEF ApplyDelta
  <2>2. Listed(E) = {e \in Listed(D) : e.agent.slug # slug}
    BY <1>1, <1>4
  <2> HIDE DEF g
  <2>3. DOMAIN g = {e.agent.slug : e \in Listed(E)}
    BY <1>2, <2>1, <2>2
  <2>4. \A e \in Listed(E) : g[e.agent.slug] = e.agent
    BY <1>2, <2>1, <2>2
  <2>5. g = [x \in DOMAIN g |-> g[x]]
    BY <2>1
  <2>6. QED
    BY <2>3, <2>4, <2>5 DEF IsCatalog, E, g
<1>5. QED
  BY <1>3, <1>4

\* Replaying deltas in the order of their numbers gives the catalog they list.
LEMMA ReplayLists ==
    ASSUME NEW n \in Nat, NEW ds, DOMAIN ds = 1..n,
           \A i \in 1..n : ds[i].seq \in Nat,
           \A i, j \in 1..n : i < j => ds[i].seq < ds[j].seq
    PROVE  IsCatalog(Replay(ds), {ds[i] : i \in 1..n})
<1>1. PICK h : /\ Replay(ds) = h[n]
               /\ h[0] = <<>>
               /\ \A k \in 1..n : h[k] = ApplyDelta(h[k - 1], ds[k])
  BY ReplayEquation
<1> DEFINE upTo(k) == {ds[i] : i \in 1..k}
           G == {k \in Nat : k <= n => IsCatalog(h[k], upTo(k))}
<1>2. IsCatalog(<<>>, {})
  <2>1. Listed({}) = {}
    BY DEF Listed
  <2>2. DOMAIN <<>> = {}
    OBVIOUS
  <2>3. <<>> = [x \in {} |-> <<>>[x]]
    OBVIOUS
  <2>4. QED
    BY <2>1, <2>2, <2>3 DEF IsCatalog
<1>3. ASSUME NEW k \in Nat, \A j \in 0..(k - 1) : j \in G PROVE k \in G
  <2>1. CASE k = 0
    <3>1. upTo(0) = {}
      OBVIOUS
    <3>2. QED
      BY <1>1, <1>2, <2>1, <3>1
  <2>2. CASE k > 0
    <3> SUFFICES ASSUME k <= n PROVE IsCatalog(h[k], upTo(k))
      OBVIOUS
    <3>1. k - 1 \in 0..(k - 1) /\ k - 1 <= n /\ k \in 1..n
      BY <2>2
    <3>2. IsCatalog(h[k - 1], upTo(k - 1))
      BY <1>3, <3>1
    <3>3. upTo(k) = upTo(k - 1) \cup {ds[k]}
      <4>1. 1..k = (1..(k - 1)) \cup {k}
        BY <2>2
      <4>2. QED
        BY <4>1
    <3>4. \A e \in upTo(k - 1) : e.seq \in Nat /\ e.seq < ds[k].seq
      <4> SUFFICES ASSUME NEW i \in 1..(k - 1) PROVE ds[i].seq \in Nat /\ ds[i].seq < ds[k].seq
        OBVIOUS
      <4>1. i \in 1..n /\ i < k
        BY <3>1
      <4>2. QED
        BY <3>1, <4>1
    <3> HIDE DEF upTo
    <3>5. IsCatalog(ApplyDelta(h[k - 1], ds[k]), upTo(k - 1) \cup {ds[k]})
      BY <3>1, <3>2, <3>4, ApplyLists
    <3>6. QED
      BY <1>1, <3>1, <3>3, <3>5
  <2>3. QED
    BY <2>1, <2>2
<1>4. G = Nat
  <2>1. G \in SUBSET Nat
    OBVIOUS
  <2> HIDE DEF G
  <2> QED BY <1>3, <2>1, StrongInduction
<1>5. n \in G
  BY <1>4
<1>6. QED
  BY <1>1, <1>5

-----------------------------------------------------------------------------
(* Reading the log: since(0) is another fold, and yields all of it. *)

\* The delta d is kept after those of ds.
Keep(ds, d) == IF d.seq > 0 THEN Append(ds, d) ELSE ds

\* The body of the fold of Since(0), with h in the place of the iteration.
KeepStep(ds, h, s) ==
    IF s = {} THEN <<>> ELSE Keep(h[s \ {Max(s)}], ds[Max(s)])

\* h is the fold over the first n positions.
KeepTo(ds, n, h) == h = [s \in SUBSET (1..n) |-> KeepStep(ds, h, s)]

\* This iteration exists too.
LEMMA KeepExists ==
    ASSUME NEW ds
    PROVE  \A n \in Nat : \E h : KeepTo(ds, n, h)
<1> DEFINE G == {n \in Nat : \E h : KeepTo(ds, n, h)}
<1>1. ASSUME NEW n \in Nat, \A k \in 0..(n - 1) : k \in G PROVE n \in G
  <2>1. CASE n = 0
    <3> DEFINE h == [s \in SUBSET (1..0) |-> <<>>]
    <3>1. \A s \in SUBSET (1..0) : s = {}
      OBVIOUS
    <3>2. \A s \in SUBSET (1..0) : KeepStep(ds, h, s) = <<>>
      BY <3>1 DEF KeepStep
    <3> HIDE DEF h
    <3>3. h = [s \in SUBSET (1..0) |-> KeepStep(ds, h, s)]
      BY <3>2 DEF h
    <3>4. QED
      BY <2>1, <3>3 DEF KeepTo
  <2>2. CASE n > 0
    <3>1. n - 1 \in 0..(n - 1)
      BY <2>2
    <3>2. PICK g : KeepTo(ds, n - 1, g)
      BY <1>1, <3>1
    <3> DEFINE value(s) == IF n \in s THEN Keep(g[s \ {n}], ds[n]) ELSE g[s]
               h == [s \in SUBSET (1..n) |-> value(s)]
    <3>3. \A s \in SUBSET (1..n) : n \notin s => s \in SUBSET (1..(n - 1))
      OBVIOUS
    <3>4. \A s \in SUBSET (1..n) : s \ {n} \in SUBSET (1..(n - 1)) /\ s \ {n} \in SUBSET (1..n)
      BY <3>3
    <3>5. \A s \in SUBSET (1..n) : n \notin s => h[s] = g[s]
      OBVIOUS
    <3>6. \A s \in SUBSET (1..n) : n \in s => h[s] = Keep(g[s \ {n}], ds[n])
      OBVIOUS
    <3>7. ASSUME NEW s \in SUBSET (1..n) PROVE h[s] = KeepStep(ds, h, s)
      <4> HIDE DEF h
      <4>1. CASE n \in s
        <5>1. Max(s) = n /\ s # {}
          BY <2>2, <4>1, MaxIsTop
        <5>2. h[s \ {n}] = g[s \ {n}]
          BY <3>4, <3>5
        <5>3. QED
          BY <3>6, <4>1, <5>1, <5>2 DEF KeepStep
      <4>2. CASE n \notin s
        <5>1. s \in SUBSET (1..(n - 1))
          BY <3>3, <4>2
        <5>2. g[s] = KeepStep(ds, g, s)
          BY <3>2, <5>1 DEF KeepTo
        <5>3. CASE s = {}
          BY <3>5, <4>2, <5>2, <5>3 DEF KeepStep
        <5>4. CASE s # {}
          <6>1. Max(s) \in s
            BY <5>4, MaxIsMember
          <6>2. h[s \ {Max(s)}] = g[s \ {Max(s)}]
            BY <3>5, <4>2
          <6>3. QED
            BY <3>5, <4>2, <5>2, <5>4, <6>2 DEF KeepStep
        <5>5. QED
          BY <5>3, <5>4
      <4>3. QED
        BY <4>1, <4>2
    <3>8. h = [s \in SUBSET (1..n) |-> KeepStep(ds, h, s)]
      BY <3>7
    <3> HIDE DEF h
    <3>9. KeepTo(ds, n, h)
      BY <3>8 DEF KeepTo
    <3>10. QED
      BY <3>9
  <2>3. QED
    BY <2>1, <2>2
<1>2. G = Nat
  <2>1. G \in SUBSET Nat
    OBVIOUS
  <2> HIDE DEF G
  <2> QED BY <1>1, <2>1, StrongInduction
<1>3. QED
  BY <1>2

\* since(0), position by position.
LEMMA KeepEquation ==
    ASSUME NEW n \in Nat, DOMAIN deltas = 1..n
    PROVE  \E h : /\ Since(0) = h[n]
                  /\ h[0] = <<>>
                  /\ \A k \in 1..n : h[k] = Keep(h[k - 1], deltas[k])
<1> DEFINE g == CHOOSE g : KeepTo(deltas, n, g)
           h == [k \in 0..n |-> g[1..k]]
<1>1. KeepTo(deltas, n, g)
  BY KeepExists
<1>2. Since(0) = g[1..n]
  BY DEF Since, Keep, FoldLeft, MapThenFoldSet, KeepTo, KeepStep
<1> HIDE DEF g
<1>3. h[0] = <<>>
  <2>1. g[1..0] = KeepStep(deltas, g, 1..0)
    BY <1>1 DEF KeepTo
  <2>2. 1..0 = {}
    OBVIOUS
  <2>3. QED
    BY <2>1, <2>2 DEF KeepStep
<1>4. ASSUME NEW k \in 1..n PROVE h[k] = Keep(h[k - 1], deltas[k])
  <2>1. g[1..k] = KeepStep(deltas, g, 1..k)
    <3>1. 1..k \in SUBSET (1..n)
      OBVIOUS
    <3>2. QED
      BY <1>1, <3>1 DEF KeepTo
  <2>2. Max(1..k) = k /\ 1..k # {}
    <3>1. k \in Nat /\ k > 0 /\ k \in 1..k /\ 1..k \in SUBSET (1..k)
      OBVIOUS
    <3>2. QED
      BY <3>1, MaxIsTop
  <2>3. (1..k) \ {k} = 1..(k - 1)
    OBVIOUS
  <2>4. k \in 0..n /\ k - 1 \in 0..n
    OBVIOUS
  <2>5. QED
    BY <2>1, <2>2, <2>3, <2>4 DEF KeepStep
<1>5. Since(0) = h[n]
  BY <1>2
<1> HIDE DEF h
<1>6. QED
  BY <1>3, <1>4, <1>5

\* No number is zero, so nothing is dropped.
LEMMA SinceZero ==
    ASSUME TypeOK
    PROVE  Since(0) = deltas
<1> DEFINE n == Len(deltas)
           upTo(k) == SubSeq(deltas, 1, k)
<1>1. deltas \in Seq(Delta) /\ n \in Nat /\ DOMAIN deltas = 1..n
  BY DEF TypeOK
<1>2. PICK h : /\ Since(0) = h[n]
               /\ h[0] = <<>>
               /\ \A k \in 1..n : h[k] = Keep(h[k - 1], deltas[k])
  BY <1>1, KeepEquation
<1> DEFINE G == {k \in Nat : k <= n => h[k] = upTo(k)}
<1>3. ASSUME NEW k \in Nat, \A j \in 0..(k - 1) : j \in G PROVE k \in G
  <2>1. CASE k = 0
    <3>1. upTo(0) = <<>>
      BY SubSeqEmpty
    <3>2. QED
      BY <1>2, <2>1, <3>1
  <2>2. CASE k > 0
    <3> SUFFICES ASSUME k <= n PROVE h[k] = upTo(k)
      OBVIOUS
    <3>1. k - 1 \in 0..(k - 1) /\ k - 1 <= n /\ k \in 1..n
      BY <2>2
    <3>2. h[k - 1] = upTo(k - 1)
      BY <1>3, <3>1
    <3>3. deltas[k] \in Delta /\ deltas[k].seq > 0
      <4>1. deltas[k] \in Delta
        BY <1>1, <3>1, ElementOfSeq
      <4>2. QED
        BY <4>1 DEF Delta
    <3>4. h[k] = Append(upTo(k - 1), deltas[k])
      BY <1>2, <3>1, <3>2, <3>3 DEF Keep
    <3>5. upTo(k) = upTo(k - 1) \o <<deltas[k]>>
      <4>1. 1 \in 1..Len(deltas) /\ k \in 1..Len(deltas)
        BY <1>1, <3>1
      <4>2. QED
        BY <1>1, <4>1, SubSeqRecursiveSecond
    <3>6. upTo(k - 1) \in Seq(Delta)
      <4>1. \A i \in 1..(k - 1) : deltas[i] \in Delta
        BY <1>1, <3>1, ElementOfSeq
      <4>2. 1 \in Int /\ k - 1 \in Int
        OBVIOUS
      <4>3. QED
        BY <4>1, <4>2, SubSeqProperties
    <3> HIDE DEF upTo
    <3>7. Append(upTo(k - 1), deltas[k]) = upTo(k - 1) \o <<deltas[k]>>
      BY <3>3, <3>6, AppendIsConcat
    <3>8. QED
      BY <3>4, <3>5, <3>7
  <2>3. QED
    BY <2>1, <2>2
<1>4. G = Nat
  <2>1. G \in SUBSET Nat
    OBVIOUS
  <2> HIDE DEF G
  <2> QED BY <1>3, <2>1, StrongInduction
<1>5. n \in G
  BY <1>1, <1>4
<1>6. upTo(n) = deltas
  BY <1>1, SubSeqFull
<1>7. QED
  BY <1>1, <1>2, <1>5, <1>6

-----------------------------------------------------------------------------
(* The snapshot: the newest deltas, in order. *)

\* Some deltas with bounded numbers, if any, have a newest one.
LEMMA NewestExists ==
    ASSUME NEW D, D # {}, NEW bound \in Nat, \A d \in D : d.seq \in Nat /\ d.seq <= bound
    PROVE  \E d \in D : \A e \in D : e.seq <= d.seq
<1> DEFINE S == {d.seq : d \in D}
<1>1. S \in SUBSET Nat /\ S # {} /\ \A k \in S : k <= bound
  OBVIOUS
<1>2. PICK m \in S : \A k \in S : k <= m
  <2> HIDE DEF S
  <2> QED BY <1>1, MaxOfBounded
<1>3. QED
  BY <1>2

\* A finite set of deltas with different numbers can be put in order.
LEMMA OrderExists ==
    ASSUME NEW bound \in Nat
    PROVE
    \A n \in Nat : \A D :
        /\ IsFiniteSet(D) /\ Cardinality(D) = n
        /\ \A d \in D : d.seq \in Nat /\ d.seq <= bound
        /\ \A d, e \in D : d.seq = e.seq => d = e
        => \E ds \in [1..n -> D] :
              /\ \A d \in D : \E i \in 1..n : ds[i] = d
              /\ \A i, j \in 1..n : i < j => ds[i].seq < ds[j].seq
<1> DEFINE Numbered(D) == /\ IsFiniteSet(D)
                          /\ \A d \in D : d.seq \in Nat /\ d.seq <= bound
                          /\ \A d, e \in D : d.seq = e.seq => d = e
           Ordered(ds, n, D) == /\ ds \in [1..n -> D]
                                /\ \A d \in D : \E i \in 1..n : ds[i] = d
                                /\ \A i, j \in 1..n : i < j => ds[i].seq < ds[j].seq
           P(n) == \A D : Numbered(D) /\ Cardinality(D) = n => \E ds : Ordered(ds, n, D)
           G == {n \in Nat : P(n)}
<1>1. ASSUME NEW n \in Nat, \A k \in 0..(n - 1) : k \in G PROVE n \in G
  <2> SUFFICES ASSUME NEW D, Numbered(D), Cardinality(D) = n PROVE \E ds : Ordered(ds, n, D)
    OBVIOUS
  <2>1. CASE n = 0
    <3>1. D = {}
      BY <2>1, FS_EmptySet
    <3>2. Ordered([i \in 1..0 |-> 0], 0, D)
      BY <3>1
    <3>3. QED
      BY <2>1, <3>2
  <2>2. CASE n > 0
    <3>1. D # {}
      BY <2>2, FS_EmptySet
    <3>2. PICK d \in D : \A e \in D : e.seq <= d.seq
      BY <3>1, NewestExists
    <3> DEFINE E == D \ {d}
    <3>3. IsFiniteSet(E) /\ Cardinality(E) = n - 1
      BY FS_RemoveElement
    <3>4. Numbered(E) /\ n - 1 \in 0..(n - 1)
      BY <2>2, <3>3
    <3>5. PICK es : Ordered(es, n - 1, E)
      <4>1. n - 1 \in G
        BY <1>1, <3>4
      <4>2. P(n - 1)
        BY <4>1
      <4>3. QED
        <5> HIDE DEF E, Numbered, Ordered
        <5> QED BY <3>3, <3>4, <4>2
    <3>6. \A e \in E : e.seq < d.seq /\ e \in D
      BY <3>2
    <3> DEFINE ds == [i \in 1..n |-> IF i = n THEN d ELSE es[i]]
    <3>7. \A i \in 1..n : i # n => i \in 1..(n - 1)
      OBVIOUS
    <3>8. \A i \in 1..(n - 1) : i \in 1..n /\ i # n /\ ds[i] = es[i] /\ es[i] \in E
      BY <3>5
    <3>9. n \in 1..n /\ ds[n] = d
      BY <2>2
    <3>10. ds \in [1..n -> D]
      BY <3>6, <3>7, <3>8
    <3> HIDE DEF ds
    <3>11. ASSUME NEW e \in D PROVE \E i \in 1..n : ds[i] = e
      <4>1. CASE e = d
        BY <3>9, <4>1
      <4>2. CASE e # d
        <5>1. PICK i \in 1..(n - 1) : es[i] = e
          BY <3>5, <4>2
        <5>2. QED
          BY <3>8, <5>1
      <4>3. QED
        BY <4>1, <4>2
    <3>12. ASSUME NEW i \in 1..n, NEW j \in 1..n, i < j PROVE ds[i].seq < ds[j].seq
      <4>1. i \in 1..(n - 1)
        BY <3>12
      <4>2. CASE j = n
        BY <3>6, <3>8, <3>9, <4>1, <4>2
      <4>3. CASE j # n
        BY <3>5, <3>7, <3>8, <3>12, <4>1, <4>3
      <4>4. QED
        BY <4>2, <4>3
    <3>13. Ordered(ds, n, D)
      BY <3>10, <3>11, <3>12
    <3>14. QED
      BY <3>13
  <2>3. QED
    BY <2>1, <2>2
<1>2. G = Nat
  <2>1. G \in SUBSET Nat
    OBVIOUS
  <2> HIDE DEF G
  <2> QED BY <1>1, <2>1, StrongInduction
<1>3. \A n \in Nat : P(n)
  BY <1>2
<1>4. QED
  BY <1>3

\* What is logged has different, bounded numbers, and is finitely much.
LEMMA LoggedIsNumbered ==
    ASSUME TypeOK, LogIsContiguous
    PROVE  /\ IsFiniteSet(Logged)
           /\ \A d \in Logged : d.seq \in Nat /\ d.seq <= Len(deltas)
<1>1. deltas \in Seq(Delta) /\ Len(deltas) \in Nat /\ DOMAIN deltas = 1..Len(deltas)
  BY DEF TypeOK
<1>2. IsFiniteSet(1..Len(deltas))
  BY <1>1, FS_Interval
<1>3. deltas \in Surjection(1..Len(deltas), Logged)
  BY <1>1 DEF Surjection, Logged
<1>4. IsFiniteSet(Logged)
  BY <1>2, <1>3, FS_Surjection
<1>5. \A d \in Logged : d.seq \in Nat /\ d.seq <= Len(deltas)
  BY <1>1 DEF Logged, LogIsContiguous
<1>6. QED
  BY <1>4, <1>5

\* The snapshot is the newest deltas in the order of their numbers.
LEMMA SnapshotIsOrdered ==
    ASSUME TypeOK, LogIsContiguous, IndexIsNewest
    PROVE  \E n \in Nat :
              /\ DOMAIN Snapshot = 1..n
              /\ {Snapshot[i] : i \in 1..n} = Latest
              /\ \A i \in 1..n : Snapshot[i].seq \in Nat
              /\ \A i, j \in 1..n : i < j => Snapshot[i].seq < Snapshot[j].seq
<1> DEFINE D == Latest
           n == Cardinality(D)
           InSequence(ds) == /\ Range(ds) = D
                             /\ \A i, j \in DOMAIN ds : i < j => ds[i].seq < ds[j].seq
<1>1. D \subseteq Logged
  BY DEF IndexIsNewest, Latest
<1>2. Len(deltas) \in Nat
  BY DEF TypeOK
<1>3. /\ IsFiniteSet(D) /\ n \in Nat
      /\ \A d \in D : d.seq \in Nat /\ d.seq <= Len(deltas)
      /\ \A d, e \in D : d.seq = e.seq => d = e
  <2>1. IsFiniteSet(Logged) /\ \A d \in Logged : d.seq \in Nat /\ d.seq <= Len(deltas)
    BY LoggedIsNumbered
  <2>2. IsFiniteSet(D)
    BY <1>1, <2>1, FS_Subset
  <2>3. n \in Nat
    BY <2>2, FS_CardinalityType
  <2>4. QED
    BY <1>1, <2>1, <2>2, <2>3, SeqsAreKeys
<1>4. Cardinality(D) = n
  BY DEF Cardinality, Cardinality
<1> HIDE DEF D, n
<1>5. PICK es \in [1..n -> D] :
        /\ \A d \in D : \E i \in 1..n : es[i] = d
        /\ \A i, j \in 1..n : i < j => es[i].seq < es[j].seq
  <2>1. n = Cardinality(D)
    BY DEF n
  <2>2. QED
    BY <1>2, <1>3, <2>1, OrderExists
<1>6. InSequence(es)
  BY <1>5 DEF Range
<1>7. Snapshot = CHOOSE ds \in [1..n -> D] : InSequence(ds)
  BY <1>4 DEF Snapshot, InOrder, D
<1> HIDE DEF InSequence
<1>8. Snapshot \in [1..n -> D] /\ InSequence(Snapshot)
  BY <1>5, <1>6, <1>7
<1> DEFINE ss == Snapshot
<1> HIDE DEF ss
<1>9. ss \in [1..n -> D] /\ InSequence(ss)
  BY <1>8 DEF ss
<1>10. /\ DOMAIN ss = 1..n
       /\ {ss[i] : i \in 1..n} = D
       /\ \A i \in 1..n : ss[i].seq \in Nat
       /\ \A i, j \in 1..n : i < j => ss[i].seq < ss[j].seq
  BY <1>3, <1>9 DEF InSequence, Range
<1>11. QED
  BY <1>3, <1>10 DEF ss, D

\* The snapshot's promise: with slugs that an agent never changes, a follower
\* that folds the snapshot and one that folds the whole log rebuild one catalog.
THEOREM Replayed ==
    ASSUME SlugsAreStable
    PROVE  Spec => []SnapshotIsReplay
<1>1. TypeOK /\ LogIsContiguous /\ IndexIsNewest => SnapshotIsReplay
  <2> SUFFICES ASSUME TypeOK, LogIsContiguous, IndexIsNewest
               PROVE  SnapshotIsReplay
    OBVIOUS
  <2>1. IsCatalog(Replay(Snapshot), Latest)
    <3> DEFINE ss == Snapshot
    <3>1. PICK n \in Nat :
            /\ DOMAIN ss = 1..n
            /\ {ss[i] : i \in 1..n} = Latest
            /\ \A i \in 1..n : ss[i].seq \in Nat
            /\ \A i, j \in 1..n : i < j => ss[i].seq < ss[j].seq
      BY SnapshotIsOrdered
    <3> HIDE DEF ss
    <3>2. IsCatalog(Replay(ss), {ss[i] : i \in 1..n})
      BY <3>1, ReplayLists
    <3>3. QED
      BY <3>1, <3>2 DEF ss
  <2>2. IsCatalog(Replay(deltas), Logged)
    <3>1. deltas \in Seq(Delta) /\ Len(deltas) \in Nat /\ DOMAIN deltas = 1..Len(deltas)
      BY DEF TypeOK
    <3>2. \A i \in 1..Len(deltas) : deltas[i].seq = i
      BY <3>1 DEF LogIsContiguous
    <3>3. IsCatalog(Replay(deltas), {deltas[i] : i \in 1..Len(deltas)})
      BY <3>1, <3>2, ReplayLists
    <3>4. QED
      BY <3>1, <3>3 DEF Logged
  <2>3. Listed(Latest) = Listed(Logged)
    BY NewestDecide DEF SnapshotListsSame
  <2>4. Since(0) = deltas
    BY SinceZero
  <2>5. QED
    BY <2>1, <2>2, <2>3, <2>4, OneCatalog DEF SnapshotIsReplay, CurrentFacts
<1>2. QED
  BY <1>1, StoreTypeCorrect, Contiguous, Newest, PTL

-----------------------------------------------------------------------------
(* The abstract catalog. *)

\* A newer delta takes over its slug and leaves every other slug as it was.
LEMMA ListedAfterAdd ==
    ASSUME TypeOK, LogIsContiguous,
           NEW action \in DeltaAction, NEW f \in Facts, Add(action, f)
    PROVE  Listed(Logged') =
             {e \in Listed(Logged) : e.agent.slug # f.slug}
               \cup (IF action = "upsert" THEN {NewDelta(action, f)} ELSE {})
<1> DEFINE d == NewDelta(action, f)
<1>1. d \in Delta /\ d.agent = f /\ d.action = action /\ d.seq = seq + 1
  BY NewDeltaType
<1>2. Logged' = Logged \cup {d} /\ \A e \in Logged : e \in Delta /\ e.seq <= seq
  BY AddLogs
<1> HIDE DEF d
<1>3. \A e \in Logged : e.seq <= d.seq /\ ~(d.seq <= e.seq)
  BY <1>1, <1>2 DEF TypeOK, Delta
<1>4. d.seq <= d.seq
  BY <1>1 DEF TypeOK
<1>5. Listed(Logged') = {e \in Listed(Logged) : e.agent.slug # f.slug}
                          \cup (IF action = "upsert" THEN {d} ELSE {})
  BY <1>1, <1>2, <1>3, <1>4 DEF Listed
<1>6. QED
  BY <1>5 DEF d

\* The store implements the abstract catalog: an add publishes or withdraws one
\* record, and clearing the store empties the catalog.
THEOREM Implements ==
    ASSUME SlugsAreStable
    PROVE  Spec => ImplementsCatalog
<1> DEFINE inv == TypeOK /\ LogIsContiguous /\ IndexIsNewest
           listed == {d.agent : d \in Listed(Latest)}
           last == IF deltas = <<>> THEN <<>>
                   ELSE <<deltas[Len(deltas)].action, deltas[Len(deltas)].agent>>
<1>1. Init => Abstract!Init
  BY DEF Init, Abstract!Init, Latest, Listed
<1>2. inv /\ inv' /\ [Next]_vars => [Abstract!Next]_<<listed, last>>
  <2> SUFFICES ASSUME inv, inv', [Next]_vars
               PROVE  Abstract!Next \/ (listed' = listed /\ last' = last)
    OBVIOUS
  <2>1. Listed(Latest) = Listed(Logged) /\ Listed(Latest') = Listed(Logged')
    <3>1. SnapshotListsSame
      BY NewestDecide
    <3>2. SnapshotListsSame'
      BY NewestDecide, PTL
    <3>3. QED
      BY <3>1, <3>2 DEF SnapshotListsSame, Listed
  <2>2. ASSUME NEW action \in DeltaAction, NEW f \in Facts, Add(action, f)
        PROVE  \/ action = "upsert" /\ Abstract!Publish(f)
               \/ action # "upsert" /\ Abstract!Withdraw(action, f)
    <3>1. Listed(Logged') = {e \in Listed(Logged) : e.agent.slug # f.slug}
             \cup (IF action = "upsert" THEN {NewDelta(action, f)} ELSE {})
      BY <2>2, ListedAfterAdd
    <3>2. NewDelta(action, f).agent = f /\ NewDelta(action, f).action = action
      BY NewDeltaType DEF NewDelta
    <3>3. last' = <<action, f>>
      <4>1. deltas \in Seq(Delta) /\ deltas' = Append(deltas, NewDelta(action, f))
        BY <2>2 DEF Add, TypeOK
      <4>2. deltas' # <<>> /\ deltas'[Len(deltas')] = NewDelta(action, f)
        BY <4>1
      <4>3. QED
        BY <3>2, <4>2
    <3> HIDE DEF last
    <3>4. CASE action = "upsert"
      BY <2>1, <3>1, <3>2, <3>3, <3>4 DEF Abstract!Publish, Abstract!Without, Listed, last
    <3>5. CASE action # "upsert"
      BY <2>1, <3>1, <3>2, <3>3, <3>5 DEF Abstract!Withdraw, Abstract!Without, Listed, last
    <3>6. QED
      BY <3>4, <3>5
  <2>3. CASE Clear
    BY <2>3 DEF Clear, Abstract!Next, Abstract!Reset, Latest, Listed
  <2>4. CASE UNCHANGED vars
    BY <2>4 DEF vars, Latest, Listed
  <2>5. QED
    BY <2>2, <2>3, <2>4 DEF Next, Abstract!Next, DeltaAction
<1>3. QED
  BY <1>1, <1>2, StoreTypeCorrect, Contiguous, Newest, PTL
     DEF Spec, ImplementsCatalog, Abstract!Spec

-----------------------------------------------------------------------------
(* The store with a table. *)

\* Numbers are drawn from one counter that is ahead of the table, so what is
\* inserted has a number no row has.
IInv ==
    /\ seq \in Nat
    /\ rows \subseteq Delta
    /\ pending \in [Writer -> Delta \cup {NoDelta}]
    /\ AnsweredIsDurable
    /\ RowsAreKeyed
    /\ NumbersAreFree

\* A delta has a number.
LEMMA DeltaHasNumber == \A d \in Delta : d.seq \in Nat
BY DEF Delta

\* Nothing is numbered, stored or answered at the start.
LEMMA Initially == PersistentInit => IInv
BY DEF PersistentInit, IInv, Init, AnsweredIsDurable, RowsAreKeyed, NumbersAreFree

\* The delta that Number makes takes the next number.
LEMMA Numbered ==
    ASSUME seq \in Nat, NEW w \in Writer, Number(w), pending \in [Writer -> Delta \cup {NoDelta}]
    PROVE  /\ seq' = seq + 1
           /\ rows' = rows /\ answered' = answered
           /\ \E d \in Delta : d.seq = seq + 1 /\ pending' = [pending EXCEPT ![w] = d]
<1>1. PICK action \in DeltaAction, f \in Facts :
          Add(action, f) /\ pending' = [pending EXCEPT ![w] = NewDelta(action, f)]
  BY DEF Number
<1>2. NewDelta(action, f) \in Delta /\ NewDelta(action, f).seq = seq + 1
  BY DEF NewDelta, Delta
<1>3. seq' = seq + 1
  BY <1>1 DEF Add
<1>4. QED
  BY <1>1, <1>2, <1>3 DEF Number, history

\* An insert keeps what IInv says of the table.
LEMMA Inserted ==
    ASSUME IInv, NEW w \in Writer, pending[w] # NoDelta, seq' = seq,
           rows' = rows \cup {pending[w]} \/ rows' = rows,
           pending' = [pending EXCEPT ![w] = NoDelta]
    PROVE  /\ rows' \subseteq Delta
           /\ pending' \in [Writer -> Delta \cup {NoDelta}]
           /\ RowsAreKeyed'
           /\ NumbersAreFree'
<1>1. pending[w] \in Delta /\ pending[w].seq \in Nat
  BY DeltaHasNumber DEF IInv
<1>2. rows' \subseteq Delta
  BY <1>1 DEF IInv
<1>3. pending' \in [Writer -> Delta \cup {NoDelta}]
  BY DEF IInv
<1>4. RowsAreKeyed'
  BY DEF IInv, RowsAreKeyed, NumbersAreFree
<1>5. \A v \in Writer : pending'[v] # NoDelta => v # w /\ pending'[v] = pending[v]
  BY DEF IInv
<1>6. \A d \in rows' : d.seq <= seq'
  BY DEF IInv, NumbersAreFree
<1>7. ASSUME NEW v \in Writer, pending'[v] # NoDelta
      PROVE  /\ pending'[v].seq <= seq'
             /\ \A d \in rows' : d.seq # pending'[v].seq
             /\ \A u \in Writer \ {v} : pending'[u] # NoDelta => pending'[u].seq # pending'[v].seq
  BY <1>5, <1>7 DEF IInv, NumbersAreFree
<1>8. QED
  BY <1>2, <1>3, <1>4, <1>6, <1>7 DEF NumbersAreFree

\* Every step keeps numbers free, rows keyed and answers durable.
LEMMA Inductive == IInv /\ [PersistentNext]_persistentVars => IInv'
<1> SUFFICES ASSUME IInv, [PersistentNext]_persistentVars PROVE IInv'
  OBVIOUS
<1>1. ASSUME NEW w \in Writer, Number(w) PROVE IInv'
  <2>1. /\ seq' = seq + 1
        /\ rows' = rows /\ answered' = answered
    BY <1>1, Numbered DEF IInv
  <2>2. PICK d \in Delta : d.seq = seq + 1 /\ pending' = [pending EXCEPT ![w] = d]
    BY <1>1, Numbered DEF IInv
  <2>3. \A v \in Writer : pending'[v] = IF v = w THEN d ELSE pending[v]
    BY <2>2 DEF IInv
  <2>4. pending' \in [Writer -> Delta \cup {NoDelta}]
    BY <2>2 DEF IInv
  <2>5. \A e \in rows : e.seq \in Nat /\ e.seq <= seq
    BY DeltaHasNumber DEF IInv, NumbersAreFree
  <2>6. \A v \in Writer : pending[v] # NoDelta => pending[v].seq \in Nat /\ pending[v].seq <= seq
    BY DeltaHasNumber DEF IInv, NumbersAreFree
  <2>7. ASSUME NEW v \in Writer, pending'[v] # NoDelta
        PROVE  /\ pending'[v].seq <= seq'
               /\ \A e \in rows' : e.seq # pending'[v].seq
               /\ \A u \in Writer \ {v} : pending'[u] # NoDelta => pending'[u].seq # pending'[v].seq
    <3>1. CASE v = w
      <4>1. pending'[v].seq = seq + 1
        BY <2>2, <2>3, <3>1
      <4>2. \A u \in Writer \ {v} : pending'[u] = pending[u]
        BY <2>3, <3>1
      <4>3. seq \in Nat
        BY DEF IInv
      <4>4. QED
        BY <2>1, <2>5, <2>6, <4>1, <4>2, <4>3
    <3>2. CASE v # w
      <4>1. pending'[v] = pending[v] /\ pending[v] # NoDelta
        BY <2>3, <2>7, <3>2
      <4>2. pending[v].seq \in Nat /\ pending[v].seq <= seq /\ seq \in Nat
        BY <2>6, <4>1 DEF IInv
      <4>3. \A e \in rows : e.seq # pending[v].seq
        BY <4>1 DEF IInv, NumbersAreFree
      <4>4. ASSUME NEW u \in Writer \ {v}, pending'[u] # NoDelta PROVE pending'[u].seq # pending[v].seq
        <5>1. CASE u = w
          BY <2>2, <2>3, <4>2, <5>1
        <5>2. CASE u # w
          BY <2>3, <4>1, <4>4, <5>2 DEF IInv, NumbersAreFree
        <5>3. QED
          BY <5>1, <5>2
      <4>5. QED
        BY <2>1, <4>1, <4>2, <4>3, <4>4
    <3>3. QED
      BY <3>1, <3>2
  <2>8. \A e \in rows' : e.seq <= seq'
    BY <2>1, <2>5 DEF IInv
  <2>9. seq' \in Nat /\ rows' \subseteq Delta /\ AnsweredIsDurable' /\ RowsAreKeyed'
    BY <2>1 DEF IInv, AnsweredIsDurable, RowsAreKeyed
  <2>10. QED
    BY <2>4, <2>7, <2>8, <2>9 DEF IInv, NumbersAreFree
<1>2. ASSUME NEW w \in Writer, Persist(w) PROVE IInv'
  <2>1. /\ pending[w] # NoDelta /\ seq' = seq
        /\ rows' = rows \cup {pending[w]} /\ answered' = answered \cup {pending[w]}
        /\ pending' = [pending EXCEPT ![w] = NoDelta]
    BY <1>2 DEF Persist, Insert, memory
  <2>2. AnsweredIsDurable'
    BY <2>1 DEF IInv, AnsweredIsDurable
  <2>3. QED
    BY <2>1, <2>2, Inserted DEF IInv
<1>3. ASSUME NEW w \in Writer, PersistFails(w) PROVE IInv'
  <2>1. /\ pending[w] # NoDelta /\ seq' = seq /\ answered' = answered
        /\ rows' = rows \cup {pending[w]} \/ rows' = rows
        /\ pending' = [pending EXCEPT ![w] = NoDelta]
    BY <1>3 DEF PersistFails, Insert, memory
  <2>2. AnsweredIsDurable'
    BY <2>1 DEF IInv, AnsweredIsDurable
  <2>3. QED
    BY <2>1, <2>2, Inserted DEF IInv
<1>4. CASE Restart
  <2>1. /\ rows' = rows /\ answered' = answered
        /\ pending' = [w \in Writer |-> NoDelta]
    BY <1>4 DEF Restart
  <2>2. PICK n \in {d.seq : d \in rows} \cup {0} : (\A d \in rows : d.seq <= n) /\ seq' = n
    BY <1>4 DEF Restart, LoadSeq
  <2>3. seq' \in Nat
    BY <2>2, DeltaHasNumber DEF IInv
  <2>4. NumbersAreFree'
    BY <2>1, <2>2 DEF NumbersAreFree
  <2>5. QED
    BY <2>1, <2>3, <2>4 DEF IInv, AnsweredIsDurable, RowsAreKeyed
<1>5. ASSUME UNCHANGED <<seq, rows, pending, answered>> PROVE IInv'
  BY <1>5 DEF IInv, AnsweredIsDurable, RowsAreKeyed, NumbersAreFree
<1>6. Load => UNCHANGED <<seq, rows, pending, answered>>
  BY DEF Load, memory, history
<1>7. Fallback => UNCHANGED <<seq, rows, pending, answered>>
  BY DEF Fallback, memory, history
<1>8. UNCHANGED persistentVars => UNCHANGED <<seq, rows, pending, answered>>
  BY DEF persistentVars, memory, history
<1>9. QED
  BY <1>1, <1>2, <1>3, <1>4, <1>5, <1>6, <1>7, <1>8 DEF PersistentNext

\* Numbers are free, rows keyed and answers durable in every reachable state.
THEOREM Invariant == PersistentSpec => []IInv
BY Initially, Inductive, PTL DEF PersistentSpec

\* A numbered delta keeps the types of the inherited store.
LEMMA AddTyped ==
    ASSUME TypeOK, NEW action \in DeltaAction, NEW f \in Facts, Add(action, f)
    PROVE  TypeOK'
<1> DEFINE d == NewDelta(action, f)
<1>1. d \in Delta /\ d.agent = f /\ f.id \in Agent
  BY FactsAssumption DEF TypeOK, NewDelta, Delta
<1> HIDE DEF d
<1>2. /\ seq' = seq + 1 /\ deltas' = Append(deltas, d)
      /\ latest' = [a \in DOMAIN latest \cup {f.id} |-> IF a = f.id THEN d ELSE latest[a]]
  BY <1>1 DEF Add, Index, d
<1>3. QED
  BY <1>1, <1>2 DEF TypeOK

\* A page of deltas that a poll receives keeps the follower's types.
LEMMA ReceiveTyped ==
    ASSUME cursor \in Nat, received \subseteq Delta,
           NEW page \in SUBSET Delta, Receive(page)
    PROVE  cursor' \in Nat /\ received' \subseteq Delta
BY DeltaHasNumber DEF Receive

\* Types are preserved by writers, failed inserts, polls and restarts.
THEOREM PersistentTypeCorrect == PersistentSpec => []PersistentTypeOK
<1>1. PersistentInit => PersistentTypeOK
  <2> SUFFICES ASSUME PersistentInit PROVE PersistentTypeOK
    OBVIOUS
  <2>1. TypeOK
    BY DEF PersistentInit, Init, TypeOK
  <2>2. pending \in [Writer -> Delta \cup {NoDelta}]
    BY DEF PersistentInit
  <2>3. QED
    BY <2>1, <2>2 DEF PersistentInit, PersistentTypeOK
<1>2. PersistentTypeOK /\ [PersistentNext]_persistentVars => PersistentTypeOK'
  <2> SUFFICES ASSUME PersistentTypeOK, [PersistentNext]_persistentVars PROVE PersistentTypeOK'
    OBVIOUS
  <2>1. ASSUME NEW w \in Writer, Number(w) PROVE PersistentTypeOK'
    <3>1. PICK action \in DeltaAction, f \in Facts :
              Add(action, f) /\ pending' = [pending EXCEPT ![w] = NewDelta(action, f)]
      BY <2>1 DEF Number
    <3>2. TypeOK'
      BY <3>1, AddTyped DEF PersistentTypeOK
    <3>3. NewDelta(action, f) \in Delta
      BY DEF PersistentTypeOK, TypeOK, NewDelta, Delta
    <3>4. UNCHANGED <<rows, follower, history>>
      BY <2>1 DEF Number
    <3>5. QED
      BY <3>1, <3>2, <3>3, <3>4 DEF PersistentTypeOK, follower, history
  <2>2. ASSUME UNCHANGED memory PROVE TypeOK'
    BY <2>2 DEF PersistentTypeOK, memory, TypeOK
  <2>3. ASSUME NEW w \in Writer, Persist(w) \/ PersistFails(w) PROVE PersistentTypeOK'
    BY <2>2, <2>3 DEF Persist, PersistFails, Insert, PersistentTypeOK, follower
  <2>4. CASE Load
    <3>1. LoadSince(cursor) \in SUBSET Delta
      BY DEF LoadSince, PersistentTypeOK
    <3>2. cursor' \in Nat /\ received' \subseteq Delta /\ polling' \in BOOLEAN
      BY <2>4, <3>1, ReceiveTyped DEF Load, PersistentTypeOK
    <3>3. QED
      BY <2>2, <2>4, <3>2 DEF Load, PersistentTypeOK, history
  <2>5. CASE Fallback
    <3>1. {d \in Logged : d.seq > cursor} \in SUBSET Delta
      BY DEF Logged, PersistentTypeOK, TypeOK
    <3>2. cursor' \in Nat /\ received' \subseteq Delta
      BY <2>5, <3>1, ReceiveTyped DEF Fallback, PersistentTypeOK
    <3>3. QED
      BY <2>2, <2>5, <3>2 DEF Fallback, PersistentTypeOK, history
  <2>6. CASE Restart
    <3>1. seq' \in Nat
      BY <2>6, DeltaHasNumber DEF Restart, LoadSeq, PersistentTypeOK
    <3>2. TypeOK'
      BY <2>6, <3>1 DEF Restart, TypeOK
    <3>3. ghosts' \subseteq Nat
      BY <2>6, DeltaHasNumber DEF Restart, PersistentTypeOK
    <3>4. QED
      BY <2>6, <3>2, <3>3 DEF Restart, PersistentTypeOK
  <2>7. CASE UNCHANGED persistentVars
    BY <2>2, <2>7 DEF persistentVars, PersistentTypeOK, follower, history
  <2>8. QED
    BY <2>1, <2>3, <2>4, <2>5, <2>6, <2>7 DEF PersistentNext
<1>3. QED
  BY <1>1, <1>2, PTL DEF PersistentSpec

\* What add() returned stays in the table, for any number of writers, failed inserts
\* and restarts.
THEOREM Durable == PersistentSpec => []AnsweredIsDurable
<1>1. IInv => AnsweredIsDurable
  BY DEF IInv
<1>2. QED
  BY <1>1, Invariant, PTL

\* No two rows of the table have one number.
THEOREM Keyed == PersistentSpec => []RowsAreKeyed
<1>1. IInv => RowsAreKeyed
  BY DEF IInv
<1>2. QED
  BY <1>1, Invariant, PTL

\* The counter is never behind the table or a call in progress.
THEOREM Free == PersistentSpec => []NumbersAreFree
<1>1. IInv => NumbersAreFree
  BY DEF IInv
<1>2. QED
  BY <1>1, Invariant, PTL

-----------------------------------------------------------------------------
(* What a poll serves. *)

\* What is not yet inserted, and what was inserted since the query of a poll that
\* now reads memory, is in memory.
InMemory ==
    /\ deltas \in Seq(Delta)
    /\ \A w \in Writer : pending[w] # NoDelta => pending[w] \in Logged
    /\ polling => \A d \in rows : d.seq > cursor => d \in Logged

\* An append keeps what is logged and logs the new delta.
LEMMA LoggedGrows ==
    ASSUME NEW d \in Delta, deltas \in Seq(Delta), deltas' = Append(deltas, d)
    PROVE  /\ deltas' \in Seq(Delta)
           /\ Logged \subseteq Logged'
           /\ d \in Logged'
<1>1. deltas' \in Seq(Delta) /\ Len(deltas') = Len(deltas) + 1 /\ deltas'[Len(deltas) + 1] = d
  OBVIOUS
<1>2. \A i \in DOMAIN deltas : i \in DOMAIN deltas' /\ deltas'[i] = deltas[i]
  OBVIOUS
<1>3. Len(deltas) + 1 \in DOMAIN deltas'
  BY <1>1
<1>4. QED
  BY <1>1, <1>2, <1>3 DEF Logged

\* Memory holds all numbers given out since the start, after every step.
LEMMA MemoryKept == IInv /\ InMemory /\ [PersistentNext]_persistentVars => InMemory'
<1> SUFFICES ASSUME IInv, InMemory, [PersistentNext]_persistentVars PROVE InMemory'
  OBVIOUS
<1>1. ASSUME NEW w \in Writer, Number(w) PROVE InMemory'
  <2>1. PICK action \in DeltaAction, f \in Facts :
            Add(action, f) /\ pending' = [pending EXCEPT ![w] = NewDelta(action, f)]
    BY <1>1 DEF Number
  <2> DEFINE d == NewDelta(action, f)
  <2>2. d \in Delta
    BY DEF NewDelta, Delta, IInv
  <2>3. deltas' = Append(deltas, d) /\ pending' = [pending EXCEPT ![w] = d]
    BY <2>1 DEF Add
  <2>4. UNCHANGED <<rows, polling, cursor>>
    BY <1>1 DEF Number, follower
  <2> HIDE DEF d
  <2>5. /\ deltas' \in Seq(Delta)
        /\ Logged \subseteq Logged'
        /\ d \in Logged'
    BY <2>2, <2>3, LoggedGrows DEF InMemory
  <2>6. \A v \in Writer : pending'[v] = IF v = w THEN d ELSE pending[v]
    BY <2>3 DEF IInv
  <2>7. QED
    BY <2>4, <2>5, <2>6 DEF InMemory
<1>2. ASSUME NEW w \in Writer, pending[w] # NoDelta, UNCHANGED <<deltas, polling, cursor>>,
             rows' = rows \cup {pending[w]} \/ rows' = rows,
             pending' = [pending EXCEPT ![w] = NoDelta]
      PROVE  InMemory'
  <2>1. Logged' = Logged
    BY <1>2 DEF Logged
  <2>2. \A v \in Writer : pending'[v] # NoDelta => pending'[v] = pending[v]
    BY <1>2 DEF IInv
  <2>3. QED
    BY <1>2, <2>1, <2>2 DEF InMemory
<1>3. ASSUME NEW w \in Writer, Persist(w) PROVE InMemory'
  BY <1>2, <1>3 DEF Persist, Insert, memory, follower
<1>4. ASSUME NEW w \in Writer, PersistFails(w) PROVE InMemory'
  BY <1>2, <1>4 DEF PersistFails, Insert, memory, follower
<1>5. CASE Load
  <2>1. UNCHANGED <<deltas, rows, pending>> /\ Logged' = Logged
    BY <1>5 DEF Load, memory, Logged
  <2>2. CASE LoadSince(cursor) = {}
    <3>1. cursor' = cursor /\ \A d \in rows : ~(d.seq > cursor)
      BY <1>5, <2>2 DEF Load, LoadSince
    <3>2. QED
      BY <2>1, <3>1 DEF InMemory
  <2>3. CASE LoadSince(cursor) # {}
    <3>1. polling' = FALSE
      BY <1>5, <2>3 DEF Load
    <3>2. QED
      BY <2>1, <3>1 DEF InMemory
  <2>4. QED
    BY <2>2, <2>3
<1>6. CASE Fallback
  BY <1>6 DEF Fallback, memory, Logged, InMemory
<1>7. CASE Restart
  <2>1. deltas' = <<>> /\ polling' = FALSE /\ pending' = [w \in Writer |-> NoDelta]
    BY <1>7 DEF Restart
  <2>2. QED
    BY <2>1 DEF InMemory
<1>8. CASE UNCHANGED persistentVars
  BY <1>8 DEF persistentVars, memory, follower, Logged, InMemory
<1>9. QED
  BY <1>1, <1>3, <1>4, <1>5, <1>6, <1>7, <1>8 DEF PersistentNext

\* A page with a delta in it moves the cursor to the greatest number of the page.
LEMMA ServedUpToCursor ==
    ASSUME NEW page, Receive(page), cursor' # cursor
    PROVE  page \subseteq received'
BY DEF Receive

\* A poll that moves the cursor leaves no answered delta between the old and the
\* new one unserved, though query and memory are read in two steps.
THEOREM PollsServe == PersistentSpec => PollServesAnswered
<1>1. IInv /\ InMemory /\ [PersistentNext]_persistentVars =>
        [cursor' # cursor =>
            \A d \in answered : d.seq > cursor /\ d.seq <= cursor' => d \in received']_persistentVars
  <2> SUFFICES ASSUME IInv, InMemory, PersistentNext, cursor' # cursor,
                      NEW d \in answered, d.seq > cursor
               PROVE  d \in received'
    OBVIOUS
  <2>1. d \in rows
    BY DEF IInv, AnsweredIsDurable
  <2>2. CASE Load
    <3>1. d \in LoadSince(cursor)
      BY <2>1 DEF LoadSince
    <3>2. Receive(LoadSince(cursor))
      BY <2>2, <3>1 DEF Load
    <3>3. QED
      BY <3>1, <3>2, ServedUpToCursor
  <2>3. CASE Fallback
    <3>1. d \in Logged
      BY <2>1, <2>3 DEF Fallback, InMemory
    <3>2. Receive({e \in Logged : e.seq > cursor})
      BY <2>3 DEF Fallback
    <3>3. QED
      BY <3>1, <3>2, ServedUpToCursor
  <2>4. QED
    BY <2>2, <2>3 DEF PersistentNext, Number, Persist, PersistFails, Restart, follower
<1>2. PersistentInit => InMemory
  BY DEF PersistentInit, Init, InMemory
<1>3. QED
  BY <1>1, <1>2, Initially, Inductive, MemoryKept, PTL DEF PersistentSpec, PollServesAnswered

-----------------------------------------------------------------------------
(* What a cursor passes over. *)

\* Number n is behind a row of the table: whatever is inserted under it is late.
Overtaken(n) == \E r \in rows : n <= r.seq

\* Every number handed out, and every number the cursor went by, is accounted for:
\* it is behind a row, or memory still holds its delta (and the follower has it, for
\* a number behind the cursor), or the follower was served it and a restart lost it.
Passed ==
    /\ cursor \in Nat
    /\ \A x \in Logged : x.seq <= seq
    /\ \A x, y \in Logged : x.seq = y.seq => x = y
    /\ \A n \in 1..seq : Overtaken(n) \/ \E x \in Logged : x.seq = n
    /\ \A n \in 1..cursor :
          \/ Overtaken(n)
          \/ n \in ghosts
          \/ \E x \in Logged : x \in received /\ x.seq = n
    /\ SkipsOnlyLateOrReused

\* An append logs the new delta and nothing else.
LEMMA LoggedIs ==
    ASSUME NEW d \in Delta, deltas \in Seq(Delta), deltas' = Append(deltas, d)
    PROVE  Logged' = Logged \cup {d}
<1>1. Len(deltas') = Len(deltas) + 1 /\ deltas'[Len(deltas) + 1] = d
  OBVIOUS
<1>2. \A i \in DOMAIN deltas : deltas'[i] = deltas[i]
  OBVIOUS
<1>3. DOMAIN deltas' = DOMAIN deltas \cup {Len(deltas) + 1}
  BY <1>1
<1>4. QED
  BY <1>1, <1>2, <1>3 DEF Logged

\* A new delta takes the number that no delta in memory has.
LEMMA PassedByNumber ==
    ASSUME IInv, InMemory, Passed, NEW w \in Writer, Number(w)
    PROVE  Passed'
<1>1. PICK action \in DeltaAction, f \in Facts :
          Add(action, f) /\ pending' = [pending EXCEPT ![w] = NewDelta(action, f)]
  BY DEF Number
<1> DEFINE d == NewDelta(action, f)
<1>2. d \in Delta /\ d.seq = seq + 1
  BY DEF NewDelta, Delta, IInv
<1>3. deltas' = Append(deltas, d) /\ seq' = seq + 1
  BY <1>1 DEF Add
<1> HIDE DEF d
<1>4. Logged' = Logged \cup {d}
  BY <1>2, <1>3, LoggedIs DEF InMemory
<1>5. UNCHANGED <<rows, cursor, received, late, ghosts>>
  BY DEF Number, follower, history
<1>6. \A x \in Logged : x.seq \in Nat /\ x.seq <= seq
  BY DeltaHasNumber DEF Passed, InMemory, Logged
<1>7. seq \in Nat /\ cursor' \in Nat
  BY <1>5 DEF IInv, Passed
<1>8. \A x \in Logged' : x.seq <= seq'
  BY <1>2, <1>3, <1>4, <1>6, <1>7
<1>9. \A x, y \in Logged' : x.seq = y.seq => x = y
  BY <1>2, <1>4, <1>6, <1>7 DEF Passed
<1>10. \A n : Overtaken(n)' <=> Overtaken(n)
  BY <1>5 DEF Overtaken
<1>11. \A n \in 1..seq' : Overtaken(n)' \/ \E x \in Logged' : x.seq = n
  <2> TAKE n \in 1..seq'
  <2>1. CASE n = seq + 1
    BY <1>2, <1>4, <2>1
  <2>2. CASE n # seq + 1
    <3>1. n \in 1..seq
      BY <1>3, <1>7, <2>2
    <3>2. QED
      BY <1>4, <1>10, <3>1 DEF Passed
  <2>3. QED
    BY <2>1, <2>2
<1>12. \A n \in 1..cursor' :
           \/ Overtaken(n)'
           \/ n \in ghosts'
           \/ \E x \in Logged' : x \in received' /\ x.seq = n
  BY <1>4, <1>5, <1>10 DEF Passed
<1>13. SkipsOnlyLateOrReused'
  BY <1>5 DEF Passed, SkipsOnlyLateOrReused
<1>14. QED
  BY <1>7, <1>8, <1>9, <1>11, <1>12, <1>13 DEF Passed

\* A row inserted behind the cursor is either below another row, or the delta that
\* the follower was served from memory, or under a number a restart gave up.
LEMMA PassedByInsert ==
    ASSUME IInv, InMemory, Passed, NEW w \in Writer, pending[w] # NoDelta, Insert(w),
           UNCHANGED <<seq, deltas, cursor, received, ghosts>>
    PROVE  Passed'
<1> DEFINE d == pending[w]
<1>1. d \in Logged /\ d \in Delta /\ d.seq \in Nat \ {0}
  BY DEF IInv, InMemory, Delta
<1>2. rows' = rows \cup {d} /\ late \subseteq late'
  BY DEF Insert
<1>3. \A r \in rows : r.seq \in Nat /\ r.seq # d.seq
  BY DeltaHasNumber DEF IInv, NumbersAreFree
<1>4. Logged' = Logged
  BY DEF Logged
<1>5. \A n : Overtaken(n) => Overtaken(n)'
  BY <1>2 DEF Overtaken
<1>6. d.seq <= cursor => d \in received \cup late' \/ d.seq \in ghosts
  <2> SUFFICES ASSUME d.seq <= cursor, d.seq \notin ghosts PROVE d \in received \cup late'
    OBVIOUS
  <2>1. d.seq \in 1..cursor
    BY <1>1 DEF Passed
  <2>2. CASE Overtaken(d.seq)
    <3>1. PICK r \in rows : d.seq <= r.seq
      BY <2>2 DEF Overtaken
    <3>2. r.seq > d.seq
      BY <1>1, <1>3, <3>1
    <3>3. late' = late \cup {pending[w]}
      BY <3>2 DEF Insert
    <3>4. QED
      BY <3>3
  <2>3. CASE \E x \in Logged : x \in received /\ x.seq = d.seq
    BY <1>1, <2>3 DEF Passed
  <2>4. QED
    BY <2>1, <2>2, <2>3 DEF Passed
<1> HIDE DEF d
<1>7. SkipsOnlyLateOrReused'
  BY <1>2, <1>6 DEF Passed, SkipsOnlyLateOrReused
<1>8. /\ cursor' \in Nat
      /\ \A x \in Logged' : x.seq <= seq'
      /\ \A x, y \in Logged' : x.seq = y.seq => x = y
  BY <1>4 DEF Passed
<1>9. \A n \in 1..seq' : Overtaken(n)' \/ \E x \in Logged' : x.seq = n
  BY <1>4, <1>5 DEF Passed
<1>10. \A n \in 1..cursor' :
           \/ Overtaken(n)'
           \/ n \in ghosts'
           \/ \E x \in Logged' : x \in received' /\ x.seq = n
  BY <1>4, <1>5 DEF Passed
<1>11. QED
  BY <1>7, <1>8, <1>9, <1>10 DEF Passed

\* A cursor that the table moved stands at a row's number.
LEMMA PassedByLoad ==
    ASSUME IInv, InMemory, Passed, Load
    PROVE  Passed'
<1>1. UNCHANGED <<seq, rows, late, ghosts>> /\ Logged' = Logged
  BY DEF Load, memory, history, Logged
<1>2. \A n : Overtaken(n)' <=> Overtaken(n)
  BY <1>1 DEF Overtaken
<1>3. CASE LoadSince(cursor) = {}
  <2>1. UNCHANGED <<cursor, received>>
    BY <1>3 DEF Load
  <2>2. QED
    BY <1>1, <1>2, <2>1 DEF Passed, SkipsOnlyLateOrReused
<1>4. CASE LoadSince(cursor) # {}
  <2>1. Receive(LoadSince(cursor))
    BY <1>4 DEF Load
  <2>2. received' = received \cup LoadSince(cursor)
    BY <2>1 DEF Receive
  <2>3. PICK r \in LoadSince(cursor) : cursor' = r.seq
    BY <1>4, <2>1 DEF Receive
  <2>4. r \in rows /\ r.seq \in Nat
    BY <2>3, DeltaHasNumber DEF LoadSince, IInv
  <2>5. \A n \in 1..cursor' : Overtaken(n)'
    BY <1>2, <2>3, <2>4 DEF Overtaken
  <2>6. SkipsOnlyLateOrReused'
    <3> SUFFICES ASSUME NEW d \in rows, d.seq <= cursor'
                 PROVE  d \in received' \cup late \/ d.seq \in ghosts
      BY <1>1 DEF SkipsOnlyLateOrReused
    <3>1. d.seq \in Nat /\ cursor \in Nat
      BY DeltaHasNumber DEF IInv, Passed
    <3>2. CASE d.seq > cursor
      BY <2>2, <3>2 DEF LoadSince
    <3>3. CASE ~(d.seq > cursor)
      BY <2>2, <3>1, <3>3 DEF Passed, SkipsOnlyLateOrReused
    <3>4. QED
      BY <3>2, <3>3
  <2>7. QED
    BY <1>1, <1>2, <2>3, <2>4, <2>5, <2>6 DEF Passed
<1>5. QED
  BY <1>3, <1>4

\* A cursor that memory moved goes by numbers in memory, all served, and numbers
\* behind a row.
LEMMA PassedByFallback ==
    ASSUME IInv, InMemory, Passed, Fallback
    PROVE  Passed'
<1> DEFINE page == {x \in Logged : x.seq > cursor}
<1>1. UNCHANGED <<seq, rows, late, ghosts>> /\ Logged' = Logged /\ polling
  BY DEF Fallback, memory, history, Logged
<1>2. \A n : Overtaken(n)' <=> Overtaken(n)
  BY <1>1 DEF Overtaken
<1>3. Receive(page)
  BY DEF Fallback
<1>4. CASE page = {}
  <2>1. UNCHANGED <<cursor, received>>
    BY <1>3, <1>4 DEF Receive
  <2>2. QED
    BY <1>1, <1>2, <2>1 DEF Passed, SkipsOnlyLateOrReused
<1>5. CASE page # {}
  <2>1. received' = received \cup page
    BY <1>3 DEF Receive
  <2>2. PICK x \in page : cursor' = x.seq
    BY <1>3, <1>5 DEF Receive
  <2>3. x \in Logged /\ x.seq \in Nat /\ x.seq <= seq /\ seq \in Nat /\ cursor \in Nat
    BY <2>2, DeltaHasNumber DEF InMemory, IInv, Passed, Logged
  <2>4. ASSUME NEW n \in 1..cursor'
        PROVE  \/ Overtaken(n)'
               \/ n \in ghosts'
               \/ \E y \in Logged' : y \in received' /\ y.seq = n
    <3>1. CASE n <= cursor
      <4>1. n \in 1..cursor
        BY <2>3, <3>1
      <4>2. QED
        BY <1>1, <1>2, <2>1, <4>1 DEF Passed
    <3>2. CASE ~(n <= cursor)
      <4>1. n \in 1..seq /\ n > cursor
        BY <2>2, <2>3, <3>2
      <4>2. Overtaken(n) \/ \E y \in Logged : y.seq = n
        BY <4>1 DEF Passed
      <4>3. QED
        BY <1>1, <1>2, <2>1, <4>1, <4>2
    <3>3. QED
      BY <3>1, <3>2
  <2>5. SkipsOnlyLateOrReused'
    <3> SUFFICES ASSUME NEW d \in rows, d.seq <= cursor'
                 PROVE  d \in received' \cup late \/ d.seq \in ghosts
      BY <1>1 DEF SkipsOnlyLateOrReused
    <3>1. d.seq \in Nat
      BY DeltaHasNumber DEF IInv
    <3>2. CASE d.seq > cursor
      BY <1>1, <2>1, <3>2 DEF InMemory
    <3>3. CASE ~(d.seq > cursor)
      BY <2>1, <2>3, <3>1, <3>3 DEF Passed, SkipsOnlyLateOrReused
    <3>4. QED
      BY <3>2, <3>3
  <2>6. /\ cursor' \in Nat
        /\ \A y \in Logged' : y.seq <= seq'
        /\ \A y, z \in Logged' : y.seq = z.seq => y = z
        /\ \A n \in 1..seq' : Overtaken(n)' \/ \E y \in Logged' : y.seq = n
    BY <1>1, <1>2, <2>2, <2>3 DEF Passed
  <2>7. QED
    BY <2>4, <2>5, <2>6 DEF Passed
<1>6. QED
  BY <1>4, <1>5

\* A restart keeps the numbers behind a row, and gives up those of the deltas that
\* only memory held.
LEMMA PassedByRestart ==
    ASSUME IInv, InMemory, Passed, Restart
    PROVE  Passed'
<1>1. UNCHANGED <<rows, cursor, received, late>> /\ deltas' = <<>>
      /\ ghosts' = ghosts \cup {x.seq : x \in received \ rows}
  BY DEF Restart
<1>2. Logged' = {}
  BY <1>1 DEF Logged
<1>3. \A n : Overtaken(n)' <=> Overtaken(n)
  BY <1>1 DEF Overtaken
<1>4. \A n \in 1..seq' : Overtaken(n)'
  <2>1. PICK m \in {x.seq : x \in rows} \cup {0} : seq' = m
    BY DEF Restart, LoadSeq
  <2>2. CASE m = 0
    BY <2>1, <2>2
  <2>3. CASE m # 0
    <3>1. PICK r \in rows : m = r.seq
      BY <2>1, <2>3
    <3>2. r.seq \in Nat
      BY DeltaHasNumber DEF IInv
    <3>3. QED
      BY <1>3, <2>1, <3>1, <3>2 DEF Overtaken
  <2>4. QED
    BY <2>2, <2>3
<1>5. ASSUME NEW n \in 1..cursor'
      PROVE  Overtaken(n)' \/ n \in ghosts'
  <2>1. CASE Overtaken(n) \/ n \in ghosts
    BY <1>1, <1>3, <2>1
  <2>2. CASE \E x \in Logged : x \in received /\ x.seq = n
    <3>1. PICK x \in Logged : x \in received /\ x.seq = n
      BY <2>2
    <3>2. CASE x \in rows
      BY <1>3, <3>1, <3>2 DEF Overtaken
    <3>3. CASE x \notin rows
      BY <1>1, <3>1, <3>3
    <3>4. QED
      BY <3>2, <3>3
  <2>3. QED
    BY <1>1, <2>1, <2>2 DEF Passed
<1>6. SkipsOnlyLateOrReused'
  BY <1>1 DEF Passed, SkipsOnlyLateOrReused
<1>7. QED
  BY <1>1, <1>2, <1>4, <1>5, <1>6 DEF Passed

\* Every step keeps the two causes the only ones.
LEMMA PassedKept == IInv /\ InMemory /\ Passed /\ [PersistentNext]_persistentVars => Passed'
<1> SUFFICES ASSUME IInv, InMemory, Passed, [PersistentNext]_persistentVars PROVE Passed'
  OBVIOUS
<1>1. ASSUME NEW w \in Writer, Number(w) PROVE Passed'
  BY <1>1, PassedByNumber
<1>2. ASSUME UNCHANGED <<seq, deltas, rows, cursor, received, late, ghosts>> PROVE Passed'
  BY <1>2 DEF Passed, SkipsOnlyLateOrReused, Overtaken, Logged
<1>3. ASSUME NEW w \in Writer, Persist(w) PROVE Passed'
  BY <1>3, PassedByInsert DEF Persist, memory, follower
<1>4. ASSUME NEW w \in Writer, PersistFails(w) PROVE Passed'
  BY <1>2, <1>4, PassedByInsert DEF PersistFails, memory, follower
<1>5. CASE UNCHANGED persistentVars
  BY <1>2, <1>5 DEF persistentVars, memory, follower, history
<1>6. QED
  BY <1>1, <1>3, <1>4, <1>5, PassedByLoad, PassedByFallback, PassedByRestart DEF PersistentNext

\* A follower's cursor goes by a row it was not served only when the row came after
\* one with a greater number, or reuses a number lost in a restart.
THEOREM CursorSkips == PersistentSpec => []SkipsOnlyLateOrReused
<1>1. PersistentInit => InMemory
  BY DEF PersistentInit, Init, InMemory
<1>2. PersistentInit => Passed
  <2> SUFFICES ASSUME PersistentInit PROVE Passed
    OBVIOUS
  <2>1. rows = {} /\ cursor = 0 /\ seq = 0 /\ Logged = {}
    BY DEF PersistentInit, Init, Logged
  <2>2. QED
    BY <2>1 DEF Passed, SkipsOnlyLateOrReused
<1>3. Passed => SkipsOnlyLateOrReused
  BY DEF Passed
<1>4. QED
  BY <1>1, <1>2, <1>3, Initially, Inductive, MemoryKept, PassedKept, PTL DEF PersistentSpec
=============================================================================
