---------------------------- MODULE MerkleProofs ----------------------------
(***************************************************************************)
(* Proofs about MerkleTree, MerkleAudit and TrustProfiles, for every set of *)
(* entries, logs of every length and every set of requests.                *)
(*                                                                         *)
(* The trees are recursive functions.  An induction over the length of a    *)
(* log takes the least length at which the claim fails: LeastNumber.        *)
(***************************************************************************)
EXTENDS MerkleAudit, TrustProfiles, FiniteSetTheorems, SequenceTheorems, WellFoundedInduction, TLAPS

\* Every nonempty set of numbers has a least one: the initial intervals of the
\* naturals are finite sets, and these are well-founded under strict inclusion.
LEMMA LeastNumber ==
    ASSUME NEW B \in SUBSET Nat, B # {}
    PROVE  \E m \in B : \A k \in B : m <= k
<1> DEFINE T == {1..n : n \in B}
<1>1. IsWellFoundedOn(StrictSubsetOrdering(Nat), FiniteSubsetsOf(Nat))
  BY FS_StrictSubsetOrderingWellFounded
<1>2. T \subseteq FiniteSubsetsOf(Nat) /\ T # {}
  <2>1. \A n \in B : 1..n \in SUBSET Nat /\ IsFiniteSet(1..n)
    BY FS_Interval
  <2>2. QED
    BY <2>1 DEF FiniteSubsetsOf
<1>3. PICK t \in T : \A u \in T : ~(<<u, t>> \in StrictSubsetOrdering(Nat))
  <2> HIDE DEF T
  <2> QED BY <1>1, <1>2, WFMin
<1>4. PICK m \in B : t = 1..m
  OBVIOUS
<1>5. ASSUME NEW k \in B, k < m PROVE FALSE
  <2>1. <<1..k, 1..m>> \in StrictSubsetOrdering(Nat)
    <3>1. m \in 1..m /\ m \notin 1..k
      BY <1>5
    <3>2. 1..k \subseteq 1..m /\ 1..k # 1..m
      BY <1>5, <3>1
    <3> QED BY <3>2 DEF StrictSubsetOrdering
  <2>2. QED BY <1>3, <1>4, <2>1
<1>6. QED
  BY <1>5

\* Induction, for a set of numbers: a set that contains every number whose
\* predecessors it contains is all of them.
LEMMA StrongInduction ==
    ASSUME NEW G \in SUBSET Nat,
           \A n \in Nat : (\A k \in 0..(n - 1) : k \in G) => n \in G
    PROVE  G = Nat
<1> SUFFICES ASSUME Nat \ G # {} PROVE FALSE
  OBVIOUS
<1>1. PICK m \in Nat \ G : \A k \in Nat \ G : m <= k
  <2> DEFINE B == Nat \ G
  <2>1. B \in SUBSET Nat /\ B # {}
    OBVIOUS
  <2> HIDE DEF B
  <2>2. \E m \in B : \A k \in B : m <= k
    BY <2>1, LeastNumber
  <2>3. QED
    BY <2>2 DEF B
<1>2. \A k \in 0..(m - 1) : k \in G
  BY <1>1
<1>3. QED
  BY <1>1, <1>2

\* A nonempty set of numbers with a bound has a greatest one, and Max is it.
LEMMA MaxOfBounded ==
    ASSUME NEW S \in SUBSET Nat, S # {}, NEW n \in Nat, \A k \in S : k <= n
    PROVE  Max(S) \in S /\ \A k \in S : k <= Max(S)
<1> DEFINE B == {n - k : k \in S}
<1>1. B \in SUBSET Nat /\ B # {}
  <2>1. \A k \in S : n - k \in Nat
    OBVIOUS
  <2>2. QED
    BY <2>1
<1>2. PICK m \in B : \A k \in B : m <= k
  <2> HIDE DEF B
  <2> QED BY <1>1, LeastNumber
<1>3. PICK x \in S : m = n - x
  OBVIOUS
<1>4. \A k \in S : x >= k
  BY <1>2, <1>3
<1>5. QED
  BY <1>3, <1>4 DEF Max

\* f is computed by recursion: at x from c, or from its value at next[x].
Recursive(S, V, B, c, next, op, f) ==
    f \in [S -> V] /\ \A x \in S : f[x] = IF x \in B THEN c[x] ELSE op[<<x, f[next[x]]>>]

\* The recursion comes to an end: m decreases.
Descends(S, V, B, m, c, next, op) ==
    /\ \A x \in S : m[x] \in Nat
    /\ \A x \in S : x \in B => c[x] \in V
    /\ \A x \in S : x \notin B => next[x] \in S /\ m[next[x]] < m[x]
    /\ \A x \in S : \A v \in V : op[<<x, v>>] \in V

\* Then there is such a function.
LEMMA Recursion ==
    ASSUME NEW S, NEW V, NEW B, NEW m, NEW c, NEW next, NEW op, Descends(S, V, B, m, c, next, op)
    PROVE  \E f : Recursive(S, V, B, c, next, op, f)
<1>0. /\ \A x \in S : m[x] \in Nat
      /\ \A x \in S : x \in B => c[x] \in V
      /\ \A x \in S : x \notin B => next[x] \in S /\ m[next[x]] < m[x]
      /\ \A x \in S : \A v \in V : op[<<x, v>>] \in V
  BY DEF Descends
<1> USE <1>0
<1> DEFINE upTo(n) == {x \in S : m[x] <= n}
           value(f, x) == IF x \in B THEN c[x] ELSE op[<<x, f[next[x]]>>]
           solves(n, f) == f \in [upTo(n) -> V] /\ \A x \in upTo(n) : f[x] = value(f, x)
           G == {n \in Nat : \E f : solves(n, f)}
<1>1. ASSUME NEW n \in Nat, \A k \in 0..(n - 1) : k \in G PROVE n \in G
  <2> DEFINE g == CHOOSE g : solves(n - 1, g)
             f == [x \in upTo(n) |-> value(g, x)]
  <2>1. n = 0 \/ solves(n - 1, g)
    <3>1. n = 0 \/ n - 1 \in 0..(n - 1)
      OBVIOUS
    <3> HIDE DEF solves
    <3>2. QED
      BY <1>1, <3>1
  <2> HIDE DEF g
  <2>2. ASSUME NEW x \in upTo(n), x \notin B PROVE n # 0 /\ next[x] \in upTo(n - 1) /\ next[x] \in upTo(n)
    BY <2>2
  <2>3. ASSUME NEW x \in upTo(n) PROVE value(g, x) \in V
    BY <2>1, <2>2, <2>3
  <2>4. ASSUME NEW x \in upTo(n - 1), n # 0 PROVE x \in upTo(n) /\ f[x] = g[x]
    BY <2>1, <2>4
  <2> HIDE DEF f
  <2>5. ASSUME NEW x \in upTo(n) PROVE f[x] = value(f, x)
    <3>1. f[x] = value(g, x)
      BY DEF f
    <3>2. x \notin B => f[next[x]] = g[next[x]]
      <4> HIDE DEF upTo, value
      <4> QED BY <2>2, <2>4
    <3> HIDE DEF upTo
    <3>3. QED
      BY <3>1, <3>2
  <2>6. f \in [upTo(n) -> V]
    <3> HIDE DEF upTo, value
    <3> QED BY <2>3 DEF f
  <2>7. solves(n, f)
    BY <2>5, <2>6
  <2> HIDE DEF solves
  <2>8. QED
    BY <2>7
<1>2. G = Nat
  <2>1. G \in SUBSET Nat
    OBVIOUS
  <2> HIDE DEF G
  <2> QED BY <1>1, <2>1, StrongInduction
<1> DEFINE h(n) == CHOOSE f : solves(n, f)
<1>3. \A n \in Nat : solves(n, h(n))
  <2> HIDE DEF solves
  <2> QED BY <1>2
<1> HIDE DEF h
<1>4. ASSUME NEW x \in S, NEW k \in Nat, m[x] <= k PROVE h(k)[x] = h(m[x])[x]
  <2> DEFINE A == {n \in Nat : \A y \in S : \A i, j \in Nat :
                                  m[y] = n /\ n <= i /\ n <= j => h(i)[y] = h(j)[y]}
  <2>1. ASSUME NEW n \in Nat, \A a \in 0..(n - 1) : a \in A PROVE n \in A
    <3> SUFFICES ASSUME NEW y \in S, NEW i \in Nat, NEW j \in Nat, m[y] = n, n <= i, n <= j
                 PROVE  h(i)[y] = h(j)[y]
      OBVIOUS
    <3>1. h(i)[y] = value(h(i), y) /\ h(j)[y] = value(h(j), y)
      BY <1>3
    <3>2. ASSUME y \notin B PROVE h(i)[next[y]] = h(j)[next[y]]
      <4>1. next[y] \in S /\ m[next[y]] \in 0..(n - 1) /\ m[next[y]] <= i /\ m[next[y]] <= j
        BY <3>2
      <4>2. QED
        BY <2>1, <4>1
    <3>3. QED
      BY <3>1, <3>2
  <2>2. A = Nat
    <3>1. A \in SUBSET Nat
      OBVIOUS
    <3> HIDE DEF A
    <3> QED BY <2>1, <3>1, StrongInduction
  <2>3. m[x] \in A
    BY <2>2
  <2>4. QED
    BY <1>4, <2>3
<1> DEFINE f == [x \in S |-> h(m[x])[x]]
<1>5. ASSUME NEW x \in S PROVE f[x] \in V /\ f[x] = value(h(m[x]), x)
  <2>1. m[x] \in Nat /\ x \in upTo(m[x])
    OBVIOUS
  <2>2. solves(m[x], h(m[x]))
    BY <1>3, <2>1
  <2>3. QED
    BY <2>1, <2>2
<1>6. ASSUME NEW x \in S PROVE f[x] = value(f, x)
  <2>1. x \notin B => h(m[x])[next[x]] = f[next[x]]
    BY <1>4
  <2> HIDE DEF f
  <2>2. QED
    BY <1>5, <2>1
<1>7. f \in [S -> V]
  BY <1>5
<1> HIDE DEF f
<1>8. Recursive(S, V, B, c, next, op, f)
  BY <1>6, <1>7 DEF Recursive
<1>9. QED
  BY <1>8

-----------------------------------------------------------------------------
(* Where a tree splits. *)

\* The powers of two.
LEMMA PowerEquation ==
    /\ Power[0] = 1
    /\ \A d \in Nat : Power[d] \in Nat /\ Power[d + 1] = 2 * Power[d]
<1> DEFINE B == {0}
           m == [d \in Nat |-> d]
           c == [d \in Nat |-> 1]
           next == [d \in Nat |-> d - 1]
           op == [p \in Nat \X Nat |-> 2 * p[2]]
<1>1. Descends(Nat, Nat, B, m, c, next, op)
  BY DEF Descends
<1>2. \E f : Recursive(Nat, Nat, B, c, next, op, f)
  <2> HIDE DEF B, m, c, next, op
  <2> QED BY <1>1, Recursion
<1>3. PICK f : Recursive(Nat, Nat, B, c, next, op, f)
  BY <1>2
<1>4. f \in [Nat -> Nat] /\ \A d \in Nat : f[d] = IF d = 0 THEN 1 ELSE 2 * f[d - 1]
  <2>1. f \in [Nat -> Nat] /\ \A d \in Nat : f[d] = IF d \in B THEN c[d] ELSE op[<<d, f[next[d]]>>]
    BY <1>3 DEF Recursive
  <2>2. ASSUME NEW d \in Nat, d # 0 PROVE next[d] = d - 1 /\ op[<<d, f[d - 1]>>] = 2 * f[d - 1]
    <3>1. d - 1 \in Nat /\ f[d - 1] \in Nat
      BY <2>1, <2>2
    <3>2. QED
      BY <3>1
  <2>3. QED
    BY <2>1, <2>2
<1>5. f = [d \in Nat |-> IF d = 0 THEN 1 ELSE 2 * f[d - 1]]
  BY <1>4
<1> HIDE DEF B, m, c, next, op
<1>6. Power = [d \in Nat |-> IF d = 0 THEN 1 ELSE 2 * Power[d - 1]]
  BY <1>5, Zenon DEF Power
<1>7. Power[0] = 1 /\ \A d \in Nat : Power[d + 1] = 2 * Power[d]
  <2>1. \A d \in Nat : d + 1 \in Nat /\ d + 1 # 0 /\ (d + 1) - 1 = d
    OBVIOUS
  <2>2. QED
    BY <1>6, <2>1
<1> DEFINE G == {d \in Nat : Power[d] \in Nat}
<1>8. ASSUME NEW d \in Nat, \A k \in 0..(d - 1) : k \in G PROVE d \in G
  <2>1. d = 0 \/ (d - 1 \in 0..(d - 1) /\ d - 1 \in Nat /\ (d - 1) + 1 = d)
    OBVIOUS
  <2>2. d # 0 => Power[d] = 2 * Power[d - 1]
    BY <1>7, <2>1
  <2>3. d # 0 => Power[d - 1] \in Nat
    BY <1>8, <2>1
  <2>4. QED
    BY <1>7, <2>2, <2>3
<1>9. G = Nat
  <2>1. G \in SUBSET Nat
    OBVIOUS
  <2> HIDE DEF G
  <2> QED BY <1>8, <2>1, StrongInduction
<1>10. QED
  BY <1>7, <1>9

\* They grow.
LEMMA PowersGrow ==
    \A d, k \in Nat : Power[d] >= 1 /\ Power[d] > d /\ (d < k => 2 * Power[d] <= Power[k])
<1> DEFINE G == {k \in Nat : Power[k] > k /\ \A d \in Nat : d < k => 2 * Power[d] <= Power[k]}
<1>1. ASSUME NEW k \in Nat, \A j \in 0..(k - 1) : j \in G PROVE k \in G
  <2>1. CASE k = 0
    BY <2>1, PowerEquation
  <2>2. CASE k # 0
    <3>1. k - 1 \in Nat /\ k - 1 \in G /\ (k - 1) + 1 = k
      BY <1>1, <2>2
    <3>2. Power[k - 1] \in Nat /\ Power[k] = 2 * Power[k - 1]
      BY <3>1, PowerEquation
    <3>3. \A d \in Nat : d < k => d = k - 1 \/ d < k - 1
      BY <2>2
    <3>4. \A d \in Nat : Power[d] \in Nat
      BY PowerEquation
    <3>5. Power[k - 1] >= k
      BY <3>1, <3>2
    <3>6. QED
      BY <2>2, <3>1, <3>2, <3>3, <3>4, <3>5
  <2>3. QED
    BY <2>1, <2>2
<1>2. G = Nat
  <2>1. G \in SUBSET Nat
    OBVIOUS
  <2> HIDE DEF G
  <2> QED BY <1>1, <2>1, StrongInduction
<1>3. \A k \in Nat : Power[k] > k /\ \A d \in Nat : d < k => 2 * Power[d] <= Power[k]
  BY <1>2
<1>4. \A k \in Nat : Power[k] \in Nat
  BY PowerEquation
<1>5. QED
  BY <1>3, <1>4

\* A tree of more than one leaf splits into two that are not empty.
LEMMA SplitWithin ==
    ASSUME NEW n \in Nat, n > 1
    PROVE  Split(n) \in 1..(n - 1) /\ PowerOfTwo(Split(n))
<1> DEFINE S == {k \in 1..(n - 1) : PowerOfTwo(k)}
<1>1. PowerOfTwo(1)
  BY PowerEquation DEF PowerOfTwo
<1>2. S \in SUBSET Nat /\ S # {} /\ \A k \in S : k <= n
  BY <1>1
<1>3. Max(S) \in S
  <2> HIDE DEF S
  <2> QED BY <1>2, MaxOfBounded
<1>4. QED
  BY <1>3 DEF Split

\* A tree splits at a power of two, and its left half is the larger one.
LEMMA SplitIsPower ==
    ASSUME NEW n \in Nat, n > 1
    PROVE  \E d \in Nat : Split(n) = Power[d] /\ Power[d] < n /\ n <= 2 * Power[d]
<1> DEFINE S == {k \in 1..(n - 1) : PowerOfTwo(k)}
<1>1. S \in SUBSET Nat /\ S # {} /\ \A k \in S : k <= n
  <2>1. PowerOfTwo(1)
    BY PowerEquation DEF PowerOfTwo
  <2>2. QED
    BY <2>1
<1>2. Split(n) \in S /\ \A k \in S : k <= Split(n)
  <2> HIDE DEF S
  <2>1. Max(S) \in S /\ \A k \in S : k <= Max(S)
    BY <1>1, MaxOfBounded
  <2>2. QED
    BY <2>1 DEF Split, S
<1>3. PICK d \in Nat : Split(n) = Power[d]
  <2>1. Split(n) \in Nat /\ PowerOfTwo(Split(n))
    BY <1>2
  <2>2. QED
    BY <2>1 DEF PowerOfTwo
<1>4. /\ Power[d] \in Nat /\ Power[d + 1] = 2 * Power[d]
      /\ Power[d] >= 1 /\ Power[d + 1] > d + 1 /\ d + 1 \in Nat
  BY PowerEquation, PowersGrow
<1>5. Power[d] < n
  BY <1>2, <1>3
<1>6. n <= 2 * Power[d]
  <2> SUFFICES ASSUME 2 * Power[d] < n PROVE FALSE
    BY <1>4
  <2>1. PowerOfTwo(Power[d + 1])
    BY <1>4 DEF PowerOfTwo
  <2>2. Power[d + 1] \in S
    BY <1>4, <2>1
  <2>3. QED
    BY <1>2, <1>3, <1>4, <2>2
<1>7. QED
  BY <1>3, <1>5, <1>6

\* The power of two at which a tree splits is the only one below its size and not
\* below the half of it.
LEMMA SplitAt ==
    ASSUME NEW n \in Nat, NEW d \in Nat, Power[d] < n, n <= 2 * Power[d]
    PROVE  Split(n) = Power[d]
<1>1. Power[d] \in Nat /\ Power[d] >= 1
  BY PowerEquation, PowersGrow
<1>2. PICK i \in Nat : Split(n) = Power[i] /\ Power[i] < n /\ n <= 2 * Power[i]
  BY <1>1, SplitIsPower
<1>3. Power[i] \in Nat
  BY PowerEquation
<1>4. ~(i < d) /\ ~(d < i)
  <2>1. (i < d => 2 * Power[i] <= Power[d]) /\ (d < i => 2 * Power[d] <= Power[i])
    BY PowersGrow
  <2>2. QED
    BY <1>1, <1>2, <1>3, <2>1
<1>5. QED
  BY <1>2, <1>4

\* A log is empty, a single leaf, or it splits.
LEMMA Lengths ==
    \A s \in Seq(Hashes) : /\ Len(s) \in Nat
                           /\ s = <<>> <=> Len(s) = 0
                           /\ s # <<>> /\ Len(s) # 1 => Len(s) > 1
<1>1. \A s \in Seq(Hashes) : Len(s) \in Nat
  OBVIOUS
<1>2. \A s \in Seq(Hashes) : s = <<>> <=> Len(s) = 0
  BY EmptySeq
<1>3. \A n \in Nat : n = 0 \/ n = 1 \/ n > 1
  OBVIOUS
<1>4. QED
  BY <1>1, <1>2, <1>3, Zenon

\* The halves of a log are shorter logs, and together they are the log.
LEMMA Halves ==
    ASSUME NEW s \in Seq(Hashes), Len(s) > 1
    PROVE  /\ Left(s) \in Seq(Hashes) /\ Right(s) \in Seq(Hashes)
           /\ Len(Left(s)) = Split(Len(s))
           /\ Len(Right(s)) = Len(s) - Split(Len(s))
           /\ Len(Left(s)) \in 1..(Len(s) - 1) /\ Len(Right(s)) \in 1..(Len(s) - 1)
           /\ \A i \in 1..Split(Len(s)) : Left(s)[i] = s[i]
           /\ \A i \in 1..(Len(s) - Split(Len(s))) : Right(s)[i] = s[i + Split(Len(s))]
<1>1. Len(s) \in Nat /\ Split(Len(s)) \in 1..(Len(s) - 1)
  BY SplitWithin
<1> DEFINE k == Split(Len(s))
<1> HIDE DEF k
<1>2. k \in 1..(Len(s) - 1)
  BY <1>1 DEF k
<1>3. /\ SubSeq(s, 1, k) \in Seq(Hashes) /\ Len(SubSeq(s, 1, k)) = k
      /\ \A i \in 1..k : SubSeq(s, 1, k)[i] = s[i]
  <2>1. \A i \in 1..k : s[i] \in Hashes
    BY <1>1, <1>2, ElementOfSeq
  <2>2. QED
    BY <1>1, <1>2, <2>1, SubSeqProperties
<1>4. /\ SubSeq(s, k + 1, Len(s)) \in Seq(Hashes) /\ Len(SubSeq(s, k + 1, Len(s))) = Len(s) - k
      /\ \A i \in 1..(Len(s) - k) : SubSeq(s, k + 1, Len(s))[i] = s[i + k]
  <2>1. \A i \in (k + 1)..Len(s) : s[i] \in Hashes
    BY <1>1, <1>2, ElementOfSeq
  <2>2. k + 1 \in Int /\ Len(s) \in Int
    BY <1>1, <1>2
  <2> DEFINE r == SubSeq(s, k + 1, Len(s))
  <2>3. /\ r \in Seq(Hashes)
        /\ Len(r) = IF k + 1 <= Len(s) THEN Len(s) - (k + 1) + 1 ELSE 0
        /\ \A i \in 1..(Len(s) - (k + 1) + 1) : r[i] = s[(k + 1) + i - 1]
    BY <2>1, <2>2, SubSeqProperties
  <2> HIDE DEF r
  <2>4. r \in Seq(Hashes) /\ Len(r) = Len(s) - k /\ \A i \in 1..(Len(s) - k) : r[i] = s[i + k]
    <3>1. ASSUME NEW i \in 1..(Len(s) - k) PROVE r[i] = s[i + k]
      <4>1. i \in 1..(Len(s) - (k + 1) + 1) /\ (k + 1) + i - 1 = i + k
        BY <1>1, <1>2
      <4>2. QED
        BY <2>3, <4>1
    <3>2. QED
      BY <1>1, <1>2, <2>3, <3>1
  <2>5. QED
    BY <2>4 DEF r
<1>5. QED
  BY <1>1, <1>2, <1>3, <1>4 DEF Left, Right, k

\* The place in the right tree of an entry behind the left one.
LEMMA PlaceOnRight ==
    ASSUME NEW n \in Nat, NEW half \in Nat, NEW x \in Nat, half <= x, x < n
    PROVE  /\ x - half \in Nat /\ x - half < n - half
           /\ (x - half) + 1 \in 1..(n - half) /\ ((x - half) + 1) + half = x + 1
OBVIOUS

\* What Halves says, of a tree whose length has a name.
LEMMA HalvesOf ==
    ASSUME NEW n \in Nat, n > 1, NEW s \in Seq(Hashes), Len(s) = n
    PROVE  /\ Left(s) \in Seq(Hashes) /\ Right(s) \in Seq(Hashes)
           /\ Len(Left(s)) = Split(n) /\ Len(Right(s)) = n - Split(n)
           /\ Split(n) \in Nat /\ Split(n) >= 1 /\ n - Split(n) >= 1
           /\ Split(n) \in 0..(n - 1) /\ n - Split(n) \in 0..(n - 1)
           /\ \A i \in 1..Split(n) : Left(s)[i] = s[i]
           /\ \A i \in 1..(n - Split(n)) : Right(s)[i] = s[i + Split(n)]
<1>1. Len(s) > 1
  OBVIOUS
<1>2. /\ Left(s) \in Seq(Hashes) /\ Right(s) \in Seq(Hashes)
      /\ Len(Left(s)) = Split(Len(s)) /\ Len(Right(s)) = Len(s) - Split(Len(s))
      /\ \A i \in 1..Split(Len(s)) : Left(s)[i] = s[i]
      /\ \A i \in 1..(Len(s) - Split(Len(s))) : Right(s)[i] = s[i + Split(Len(s))]
  BY <1>1, Halves, Zenon
<1>3. Split(n) \in 1..(n - 1)
  BY SplitWithin
<1> DEFINE half == Split(n)
<1> HIDE DEF half
<1>4. half \in Nat /\ half >= 1 /\ n - half >= 1 /\ half \in 0..(n - 1) /\ n - half \in 0..(n - 1)
  BY <1>3 DEF half
<1>5. QED
  BY <1>2, <1>4, Zenon DEF half

-----------------------------------------------------------------------------
(* The recursive functions exist, so they satisfy their equations. *)

\* Logs of at most n leaves.
NoLonger(n) == {s \in Seq(Hashes) : Len(s) <= n}

\* The body of MerkleRoot, with h in the place of the function itself.
RootStep(h, s) ==
    IF s = <<>> THEN <<>>
    ELSE IF Len(s) = 1 THEN s[1]
    ELSE NodeHash(h[Left(s)], h[Right(s)])

\* h computes the roots of the logs of at most n leaves.
RootsTo(n, h) == h = [s \in NoLonger(n) |-> RootStep(h, s)]

\* Roots of longer logs extend those of shorter ones.
LEMMA RootsExist == \A n \in Nat : \E h : RootsTo(n, h)
<1> DEFINE G == {n \in Nat : \E h : RootsTo(n, h)}
<1>1. ASSUME NEW n \in Nat, \A k \in 0..(n - 1) : k \in G PROVE n \in G
  <2>1. CASE n = 0
    <3> DEFINE h == [s \in NoLonger(0) |-> <<>>]
    <3>1. \A s \in NoLonger(0) : s = <<>>
      BY EmptySeq DEF NoLonger
    <3>2. h = [s \in NoLonger(0) |-> RootStep(h, s)]
      BY <3>1 DEF RootStep
    <3>3. QED
      BY <2>1, <3>2 DEF RootsTo
  <2>2. CASE n > 0
    <3>1. PICK g : RootsTo(n - 1, g)
      BY <1>1, <2>2
    <3> DEFINE h == [s \in NoLonger(n) |-> RootStep(g, s)]
    <3>2. \A s \in NoLonger(n - 1) : s \in NoLonger(n) /\ h[s] = g[s]
      BY <3>1 DEF RootsTo, NoLonger
    <3>3. \A s \in NoLonger(n) : Len(s) > 1 => Left(s) \in NoLonger(n - 1) /\ Right(s) \in NoLonger(n - 1)
      BY <2>2, Halves DEF NoLonger
    <3> HIDE DEF h
    <3>4. \A s \in NoLonger(n) : s # <<>> /\ Len(s) # 1 => Len(s) > 1
      BY Lengths DEF NoLonger
    <3>5. \A s \in NoLonger(n) : RootStep(h, s) = RootStep(g, s)
      BY <3>2, <3>3, <3>4 DEF RootStep
    <3>6. h = [s \in NoLonger(n) |-> RootStep(h, s)]
      BY <3>5 DEF h
    <3>7. QED
      BY <3>6 DEF RootsTo
  <2>3. QED
    BY <2>1, <2>2
<1>2. G = Nat
  <2>1. G \in SUBSET Nat
    OBVIOUS
  <2> HIDE DEF G
  <2> QED BY <1>1, <2>1, StrongInduction
<1>3. QED
  BY <1>2

\* They agree where both are defined.
LEMMA RootsAgree ==
    ASSUME NEW n \in Nat, NEW m \in Nat, n <= m,
           NEW g, RootsTo(n, g), NEW h, RootsTo(m, h)
    PROVE  \A s \in NoLonger(n) : g[s] = h[s]
<1> DEFINE G == {k \in Nat : \A s \in NoLonger(n) : Len(s) = k => g[s] = h[s]}
<1>1. ASSUME NEW k \in Nat, \A j \in 0..(k - 1) : j \in G PROVE k \in G
  <2> SUFFICES ASSUME NEW s \in NoLonger(n), Len(s) = k PROVE g[s] = h[s]
    OBVIOUS
  <2>1. s \in Seq(Hashes) /\ s \in NoLonger(m) /\ Len(s) <= n
    BY DEF NoLonger
  <2>2. g[s] = RootStep(g, s) /\ h[s] = RootStep(h, s)
    BY <2>1 DEF RootsTo
  <2>3. CASE Len(s) > 1
    <3>1. /\ Left(s) \in NoLonger(n) /\ Len(Left(s)) \in 0..(k - 1)
          /\ Right(s) \in NoLonger(n) /\ Len(Right(s)) \in 0..(k - 1)
      BY <2>1, <2>3, Halves DEF NoLonger
    <3>2. g[Left(s)] = h[Left(s)] /\ g[Right(s)] = h[Right(s)]
      BY <1>1, <3>1
    <3>3. QED
      BY <2>2, <3>2 DEF RootStep
  <2>4. CASE s = <<>> \/ Len(s) = 1
    BY <2>2, <2>4 DEF RootStep
  <2>5. QED
    BY <2>1, <2>3, <2>4, Lengths
<1>2. G = Nat
  <2>1. G \in SUBSET Nat
    OBVIOUS
  <2> HIDE DEF G
  <2> QED BY <1>1, <2>1, StrongInduction
<1>3. \A s \in NoLonger(n) : Len(s) \in G
  BY <1>2, Lengths DEF NoLonger
<1>4. QED
  BY <1>3

\* The root of a tree is computed from the roots of its halves.
LEMMA RootEquation ==
    \A s \in Seq(Hashes) : MerkleRoot[s] = RootStep(MerkleRoot, s)
<1> DEFINE upTo(n) == CHOOSE h : RootsTo(n, h)
           r == [s \in Seq(Hashes) |-> upTo(Len(s))[s]]
<1>1. \A n \in Nat : RootsTo(n, upTo(n))
  BY RootsExist
<1> HIDE DEF upTo
<1>2. \A n \in Nat : \A s \in NoLonger(n) : upTo(n)[s] = r[s]
  <2> TAKE n \in Nat
  <2> TAKE s \in NoLonger(n)
  <2>1. s \in Seq(Hashes) /\ Len(s) \in Nat /\ Len(s) <= n /\ s \in NoLonger(Len(s))
    BY Lengths DEF NoLonger
  <2>2. upTo(Len(s))[s] = upTo(n)[s]
    BY <1>1, <2>1, RootsAgree
  <2>3. QED
    BY <2>1, <2>2
<1>3. \A s \in Seq(Hashes) : r[s] = RootStep(r, s)
  <2> TAKE s \in Seq(Hashes)
  <2> DEFINE n == Len(s)
  <2>1. n \in Nat /\ s \in NoLonger(n)
    BY Lengths DEF NoLonger
  <2>2. upTo(n)[s] = RootStep(upTo(n), s)
    BY <1>1, <2>1 DEF RootsTo
  <2>3. CASE n > 1
    <3>1. Left(s) \in NoLonger(n) /\ Right(s) \in NoLonger(n)
      BY <2>1, <2>3, Halves DEF NoLonger
    <3> HIDE DEF r
    <3>2. RootStep(upTo(n), s) = RootStep(r, s)
      BY <1>2, <2>1, <3>1 DEF RootStep
    <3>3. QED
      BY <1>2, <2>1, <2>2, <3>2
  <2>4. CASE s = <<>> \/ n = 1
    <3>1. RootStep(upTo(n), s) = RootStep(r, s)
      BY <2>4 DEF RootStep
    <3> HIDE DEF r
    <3>2. QED
      BY <1>2, <2>1, <2>2, <3>1
  <2>5. QED
    BY <2>3, <2>4, Lengths
<1>4. r = [s \in Seq(Hashes) |-> RootStep(r, s)]
  BY <1>3
<1> HIDE DEF r
<1>5. \E f : f = [s \in Seq(Hashes) |-> RootStep(f, s)]
  BY <1>4
<1>6. MerkleRoot = CHOOSE f : f = [s \in Seq(Hashes) |-> RootStep(f, s)]
  BY DEF MerkleRoot, RootStep
<1>7. MerkleRoot = [s \in Seq(Hashes) |-> RootStep(MerkleRoot, s)]
  BY <1>5, <1>6
<1>8. QED
  BY <1>7

\* What a root is: a leaf, or a node over the roots of the halves.
LEMMA RootOfTree ==
    ASSUME NEW s \in Seq(Hashes)
    PROVE  /\ Len(s) = 0 => MerkleRoot[s] = <<>>
           /\ Len(s) = 1 => MerkleRoot[s] = s[1] /\ \E e \in Entry : MerkleRoot[s] = <<e>>
           /\ Len(s) > 1 => MerkleRoot[s] = <<MerkleRoot[Left(s)], MerkleRoot[Right(s)]>>
<1>1. MerkleRoot[s] = RootStep(MerkleRoot, s)
  BY RootEquation
<1>2. Len(s) = 1 => s[1] \in Hashes
  BY ElementOfSeq
<1>3. Len(s) = 0 => s = <<>>
  BY Lengths
<1>4. Len(s) # 0 => s # <<>>
  BY Lengths
<1>5. CASE Len(s) = 0
  BY <1>1, <1>3, <1>5 DEF RootStep
<1>6. CASE Len(s) = 1
  <2>1. s # <<>>
    BY <1>4, <1>6
  <2>2. MerkleRoot[s] = s[1]
    BY <1>1, <1>6, <2>1 DEF RootStep
  <2>3. \E e \in Entry : s[1] = <<e>>
    BY <1>2, <1>6 DEF Hashes, LeafHash
  <2>4. QED
    BY <1>6, <2>2, <2>3
<1>7. CASE Len(s) > 1
  <2> DEFINE n == Len(s)
  <2>0. n \in Nat /\ n > 1
    BY <1>7, Lengths
  <2> HIDE DEF n
  <2>a. n # 0 /\ n # 1
    BY <2>0
  <2>1. s # <<>> /\ Len(s) # 1 /\ Len(s) # 0
    BY <1>4, <2>a, Zenon DEF n
  <2>2. MerkleRoot[s] = <<MerkleRoot[Left(s)], MerkleRoot[Right(s)]>>
    BY <1>1, <2>1 DEF RootStep, NodeHash
  <2>3. QED
    BY <1>7, <2>1, <2>2
<1>8. QED
  BY <1>5, <1>6, <1>7, Lengths

\* An empty tree, a leaf and a node have different hashes.
LEMMA RootKinds ==
    ASSUME NEW s \in Seq(Hashes)
    PROVE  /\ Len(s) = 0 => Len(MerkleRoot[s]) = 0
           /\ Len(s) = 1 => Len(MerkleRoot[s]) = 1
           /\ Len(s) > 1 => Len(MerkleRoot[s]) = 2
<1>1. Len(<<>>) = 0
  OBVIOUS
<1>2. \A e : Len(<<e>>) = 1
  OBVIOUS
<1>3. \A l, r : Len(<<l, r>>) = 2
  OBVIOUS
<1>4. QED
  BY <1>1, <1>2, <1>3, RootOfTree, Zenon

\* Two logs with one root are one log: the root commits to every leaf and to their
\* number.
THEOREM RootIsInjective ==
    \A s, t \in Seq(Hashes) : MerkleRoot[s] = MerkleRoot[t] => s = t
<1> DEFINE G == {n \in Nat : \A s, t \in Seq(Hashes) :
                   Len(s) = n /\ MerkleRoot[s] = MerkleRoot[t] => s = t}
<1>1. ASSUME NEW n \in Nat, \A k \in 0..(n - 1) : k \in G PROVE n \in G
  <2> SUFFICES ASSUME NEW s \in Seq(Hashes), NEW t \in Seq(Hashes), Len(s) = n,
                      MerkleRoot[s] = MerkleRoot[t]
               PROVE  s = t
    OBVIOUS
  <2>1. (Len(s) = 0 <=> Len(t) = 0) /\ (Len(s) = 1 <=> Len(t) = 1) /\ (Len(s) > 1 <=> Len(t) > 1)
    <3>1. /\ Len(s) = 0 \/ Len(s) = 1 \/ Len(s) > 1
          /\ Len(t) = 0 \/ Len(t) = 1 \/ Len(t) > 1
      BY Lengths
    <3>2. Len(MerkleRoot[s]) = Len(MerkleRoot[t])
      OBVIOUS
    <3> DEFINE a == Len(MerkleRoot[s])
    <3>3. (Len(s) = 0 => a = 0) /\ (Len(s) = 1 => a = 1) /\ (Len(s) > 1 => a = 2)
      BY RootKinds
    <3>4. (Len(t) = 0 => a = 0) /\ (Len(t) = 1 => a = 1) /\ (Len(t) > 1 => a = 2)
      BY <3>2, RootKinds
    <3> HIDE DEF a
    <3>5. Len(s) \in Nat /\ Len(t) \in Nat
      BY Lengths
    <3>6. QED
      BY <3>1, <3>3, <3>4, <3>5
  <2>3. CASE Len(s) = 0
    BY <2>1, <2>3, Lengths
  <2>4. CASE Len(s) = 1
    <3>1. Len(t) = 1 /\ s[1] = t[1]
      BY <2>1, <2>4, RootOfTree
    <3>2. QED
      BY <2>4, <3>1, SeqEqual
  <2>5. CASE Len(s) > 1
    <3>1. Len(t) > 1
      BY <2>1, <2>5
    <3>2. MerkleRoot[Left(s)] = MerkleRoot[Left(t)] /\ MerkleRoot[Right(s)] = MerkleRoot[Right(t)]
      BY <2>5, <3>1, RootOfTree
    <3>3. Left(s) = Left(t) /\ Right(s) = Right(t)
      <4>1. Len(Left(s)) \in 0..(n - 1) /\ Len(Right(s)) \in 0..(n - 1)
        BY <2>5, Halves
      <4>2. Len(Left(s)) \in G /\ Len(Right(s)) \in G
        BY <1>1, <4>1
      <4>3. /\ Left(s) \in Seq(Hashes) /\ Right(s) \in Seq(Hashes)
            /\ Left(t) \in Seq(Hashes) /\ Right(t) \in Seq(Hashes)
        BY <2>5, <3>1, Halves
      <4>4. QED
        BY <3>2, <4>2, <4>3
    <3>4. Split(Len(s)) = Split(Len(t)) /\ Len(s) = Len(t)
      <4>1. Len(Left(s)) = Split(Len(s)) /\ Len(Right(s)) = Len(s) - Split(Len(s))
        BY <2>5, Halves
      <4>2. Len(Left(t)) = Split(Len(t)) /\ Len(Right(t)) = Len(t) - Split(Len(t))
        BY <3>1, Halves
      <4>3. Split(Len(s)) \in Nat /\ Split(Len(t)) \in Nat /\ Len(s) \in Nat /\ Len(t) \in Nat
        BY <2>5, <3>1, SplitWithin, Lengths
      <4>4. QED
        BY <3>3, <4>1, <4>2, <4>3
    <3>5. ASSUME NEW i \in 1..Len(s) PROVE s[i] = t[i]
      <4> DEFINE k == Split(Len(s))
      <4>1. k \in 1..(Len(s) - 1) /\ Len(s) \in Nat /\ i \in Nat
        BY <2>5, SplitWithin, Lengths
      <4>2. /\ \A j \in 1..k : s[j] = Left(s)[j] /\ t[j] = Left(t)[j]
            /\ \A j \in 1..(Len(s) - k) : s[j + k] = Right(s)[j] /\ t[j + k] = Right(t)[j]
        BY <2>5, <3>1, <3>4, Halves
      <4> HIDE DEF k
      <4>3. CASE i <= k
        BY <3>3, <4>1, <4>2, <4>3
      <4>4. CASE i > k
        <5>1. i - k \in 1..(Len(s) - k) /\ (i - k) + k = i
          BY <4>1, <4>4
        <5>2. QED
          BY <3>3, <4>2, <5>1
      <4>5. QED
        BY <4>1, <4>3, <4>4
    <3>6. QED
      BY <3>4, <3>5, SeqEqual
  <2>6. QED
    BY <2>3, <2>4, <2>5, Lengths
<1>2. G = Nat
  <2>1. G \in SUBSET Nat
    OBVIOUS
  <2> HIDE DEF G
  <2> QED BY <1>1, <2>1, StrongInduction
<1>3. QED
  <2> SUFFICES ASSUME NEW s \in Seq(Hashes), NEW t \in Seq(Hashes), MerkleRoot[s] = MerkleRoot[t]
               PROVE  s = t
    OBVIOUS
  <2>1. Len(s) \in G
    BY <1>2, Lengths
  <2>2. QED
    BY <2>1

-----------------------------------------------------------------------------
(* The audit. *)

\* Types are preserved: checkpoints and the audit speak of logs of leaf hashes.
THEOREM TypeCorrect == Spec => []TypeOK
<1> USE BoundAssumption
<1>0. MaxSize \in Nat
  OBVIOUS
<1>n. NoCheckpoint \in Checkpoint
  <2>1. <<>> \in Seq(Hashes)
    BY EmptySeq
  <2>2. QED
    BY <1>0, <2>1 DEF NoCheckpoint, Checkpoint
<1>1. Init => TypeOK
  <2> SUFFICES ASSUME Init PROVE TypeOK
    OBVIOUS
  <2>1. leaves \in Seq(Hashes) /\ Len(leaves) <= MaxSize
    BY <1>0, EmptySeq DEF Init
  <2>2. signing \in -1..MaxSize
    BY <1>0 DEF Init
  <2>3. audit \in Audit
    BY <1>n DEF Init, Audit, Stage
  <2>4. checkpoints \subseteq Checkpoint /\ tampered \in BOOLEAN
    BY DEF Init
  <2>5. QED
    BY <2>1, <2>2, <2>3, <2>4 DEF TypeOK
<1>2. TypeOK /\ [Next]_vars => TypeOK'
  <2> SUFFICES ASSUME TypeOK, [Next]_vars PROVE TypeOK'
    OBVIOUS
  <2>1. ASSUME NEW e \in Entry, AppendEntry(e) PROVE TypeOK'
    <3>1. LeafHash(e) \in Hashes
      BY DEF Hashes
    <3>2. leaves' \in Seq(Hashes) /\ Len(leaves') = Len(leaves) + 1
      BY <2>1, <3>1, AppendProperties DEF AppendEntry, TypeOK
    <3>3. Len(leaves) \in Nat /\ Len(leaves) < MaxSize
      BY <2>1 DEF AppendEntry, TypeOK
    <3>4. QED
      BY <1>0, <2>1, <3>2, <3>3 DEF AppendEntry, TypeOK
  <2>2. CASE Tamper
    <3>1. PICK i \in DOMAIN leaves, e \in Entry : leaves' = [leaves EXCEPT ![i] = LeafHash(e)]
      BY <2>2 DEF Tamper
    <3>2. LeafHash(e) \in Hashes
      BY DEF Hashes
    <3>3. leaves' \in Seq(Hashes) /\ Len(leaves') = Len(leaves)
      BY <3>1, <3>2, ExceptSeq DEF TypeOK
    <3>4. audit' \in Audit
      BY <2>2 DEF Tamper, TypeOK, Audit
    <3>5. QED
      BY <2>2, <3>3, <3>4 DEF Tamper, TypeOK
  <2>3. CASE SignSize
    BY <1>0, <2>3 DEF SignSize, TypeOK
  <2>4. CASE SignRoot \/ Fabricate
    <3>1. PICK size \in 0..MaxSize, signed \in BOOLEAN :
             checkpoints' = checkpoints \cup {[size |-> size, over |-> leaves, signed |-> signed]}
      <4>1. CASE SignRoot
        <5>1. signing \in 0..MaxSize
          BY <1>0, <4>1 DEF SignRoot, TypeOK
        <5>2. checkpoints' = checkpoints \cup {[size |-> signing, over |-> leaves, signed |-> TRUE]}
          BY <4>1 DEF SignRoot, Hand
        <5>3. QED
          BY <5>1, <5>2
      <4>2. CASE Fabricate
        <5>1. Len(leaves) \in 0..MaxSize
          BY <1>0 DEF TypeOK
        <5>2. QED
          BY <4>2, <5>1 DEF Fabricate, Hand
      <4>3. QED
        BY <2>4, <4>1, <4>2
    <3>2. [size |-> size, over |-> leaves, signed |-> signed] \in Checkpoint
      BY DEF Checkpoint, TypeOK
    <3>3. checkpoints' \subseteq Checkpoint
      BY <3>1, <3>2 DEF TypeOK
    <3>4. leaves' = leaves /\ audit' = audit /\ tampered' = tampered
      BY <2>4 DEF SignRoot, Fabricate
    <3>5. signing' = -1 \/ signing' = signing
      BY <2>4 DEF SignRoot, Fabricate
    <3>6. signing' \in -1..MaxSize
      BY <1>0, <3>5 DEF TypeOK
    <3>7. QED
      BY <3>3, <3>4, <3>6 DEF TypeOK
  <2>5. CASE StartAudit
    <3>1. PICK c \in checkpoints, p \in checkpoints \cup {NoCheckpoint} :
             audit' = [at |-> "root", cp |-> c, pinned |-> p, signature |-> c.signed,
                       recomputed |-> FALSE, appendOnly |-> TRUE, undisturbed |-> TRUE]
      BY <2>5 DEF StartAudit
    <3>2. c \in Checkpoint /\ p \in Checkpoint /\ c.signed \in BOOLEAN
      BY <1>n DEF TypeOK, Checkpoint
    <3>3. audit' \in Audit
      BY <3>1, <3>2 DEF Audit, Stage
    <3>4. QED
      BY <2>5, <3>3 DEF StartAudit, TypeOK
  <2>6. CASE ReadRoot \/ ReadSize \/ ReadPrefix \/ ReadGrew
    <3>1. audit' \in Audit
      BY <2>6 DEF ReadRoot, ReadSize, ReadPrefix, ReadGrew, AuditStep, AfterRecomputation,
                  TypeOK, Audit, Stage
    <3>2. QED
      BY <2>6, <3>1 DEF ReadRoot, ReadSize, ReadPrefix, ReadGrew, AuditStep, TypeOK
  <2>7. CASE EndAudit
    <3>1. audit' \in Audit
      BY <1>n, <2>7 DEF EndAudit, Audit, Stage
    <3>2. QED
      BY <2>7, <3>1 DEF EndAudit, TypeOK
  <2>8. CASE UNCHANGED vars
    BY <2>8 DEF vars, TypeOK
  <2>9. QED
    BY <2>1, <2>2, <2>3, <2>4, <2>5, <2>6, <2>7, <2>8 DEF Next
<1>3. QED
  BY <1>1, <1>2, PTL DEF Spec

-----------------------------------------------------------------------------
(* The inductive invariant of the audit. *)

\* The log t starts with the log s.
Begins(s, t) == Len(s) <= Len(t) /\ \A i \in 1..Len(s) : s[i] = t[i]

\* What a checkpoint says of the log it was computed over: its size is no greater than
\* that of the tree, the log has not become shorter since, and unless a leaf was
\* replaced it still starts with that tree.
Handed(cp, log, replaced) ==
    /\ cp.size <= Len(cp.over)
    /\ Len(cp.over) <= Len(log)
    /\ ~replaced => Begins(cp.over, log)

\* What an audit knows once the roots agreed: the pinned tree, which is older, is no
\* longer than the audited one, and with no leaf replaced under the auditor's eyes
\* the log starts with the audited tree.
Matched(a, log) ==
    /\ Len(a.pinned.over) <= Len(a.cp.over)
    /\ Len(a.cp.over) <= Len(log)
    /\ a.undisturbed => Begins(a.cp.over, log)

\* The audit a, stage by stage.
Honest(a, log, replaced) ==
    /\ Handed(a.cp, log, replaced) /\ Handed(a.pinned, log, replaced)
    /\ a.at # "off" => a.signature = a.cp.signed
    /\ a.at \in {"off", "root", "size", "prefix"} => a.appendOnly
    /\ a.at \in {"root", "size"} => ~a.recomputed
    /\ a.at = "size" => Matched(a, log)
    /\ a.at \in {"prefix", "grew", "done"} =>
          \/ a.recomputed /\ Matched(a, log) /\ ~Torn(a.cp)
          \/ ~a.recomputed /\ (replaced \/ Len(log) > a.cp.size)
    /\ a.at \in {"grew", "done"} /\ a.appendOnly /\ a.undisturbed => Begins(a.pinned.over, log)
    /\ ~a.appendOnly => replaced \/ Torn(a.pinned)

IInv ==
    /\ signing <= Len(leaves)
    /\ \A cp \in checkpoints : Handed(cp, leaves, tampered)
    /\ Honest(audit, leaves, tampered)

\* The lengths of the trees are numbers.
LEMMA CheckpointType ==
    ASSUME NEW cp \in Checkpoint
    PROVE  cp.over \in Seq(Hashes) /\ Len(cp.over) \in Nat /\ cp.size \in Nat
<1>1. cp.over \in Seq(Hashes) /\ cp.size \in 0..MaxSize
  BY DEF Checkpoint
<1>2. QED
  BY <1>1, BoundAssumption

\* A log that starts with s, and grows, still starts with s.
LEMMA BeginsGrows ==
    ASSUME NEW s \in Seq(Hashes), NEW t \in Seq(Hashes), NEW u \in Seq(Hashes),
           Begins(s, t), Begins(t, u)
    PROVE  Begins(s, u)
<1>1. Len(s) \in Nat /\ Len(t) \in Nat /\ Len(u) \in Nat
  OBVIOUS
<1>2. Len(s) <= Len(t) /\ Len(t) <= Len(u)
  BY DEF Begins
<1>3. \A i \in 1..Len(s) : s[i] = t[i] /\ t[i] = u[i]
  <2> TAKE i \in 1..Len(s)
  <2>1. i \in 1..Len(t)
    BY <1>1, <1>2
  <2>2. QED
    BY <2>1 DEF Begins
<1>4. QED
  BY <1>1, <1>2, <1>3 DEF Begins

\* To start with s is to have s as a prefix.
LEMMA BeginsIsPrefix ==
    ASSUME NEW s \in Seq(Hashes), NEW t \in Seq(Hashes), Begins(s, t)
    PROVE  IsPrefix(s, t)
BY DEF Begins, IsPrefix

\* Of two trees that one log starts with, the shorter is a prefix of the longer.
LEMMA BeginsBoth ==
    ASSUME NEW s \in Seq(Hashes), NEW t \in Seq(Hashes), NEW u \in Seq(Hashes),
           Begins(s, u), Begins(t, u), Len(s) <= Len(t)
    PROVE  Begins(s, t)
<1>1. Len(s) \in Nat /\ Len(t) \in Nat
  OBVIOUS
<1>2. \A i \in 1..Len(s) : i \in 1..Len(t)
  BY <1>1
<1>3. QED
  BY <1>2 DEF Begins

\* What a checkpoint says stays true while the log grows.
LEMMA HandedGrows ==
    ASSUME NEW cp \in Checkpoint, NEW s \in Seq(Hashes), NEW t \in Seq(Hashes),
           NEW replaced \in BOOLEAN, Begins(s, t), Handed(cp, s, replaced)
    PROVE  Handed(cp, t, replaced)
<1>1. cp.over \in Seq(Hashes) /\ Len(cp.over) \in Nat /\ Len(s) \in Nat /\ Len(t) \in Nat
  BY CheckpointType
<1>2. Len(s) <= Len(t)
  BY DEF Begins
<1>3. QED
  BY <1>1, <1>2, BeginsGrows DEF Handed

\* So does what an audit knows.
LEMMA HonestGrows ==
    ASSUME NEW a \in Audit, NEW s \in Seq(Hashes), NEW t \in Seq(Hashes),
           NEW replaced \in BOOLEAN, Begins(s, t), Honest(a, s, replaced)
    PROVE  Honest(a, t, replaced)
<1>1. /\ a.cp \in Checkpoint /\ a.cp.over \in Seq(Hashes) /\ Len(a.cp.over) \in Nat /\ a.cp.size \in Nat
      /\ a.pinned \in Checkpoint /\ a.pinned.over \in Seq(Hashes) /\ Len(a.pinned.over) \in Nat
  BY CheckpointType DEF Audit
<1>2. Len(s) \in Nat /\ Len(t) \in Nat /\ Len(s) <= Len(t)
  BY DEF Begins
<1>3. Handed(a.cp, t, replaced) /\ Handed(a.pinned, t, replaced)
  BY <1>1, HandedGrows DEF Honest
<1>4. Matched(a, s) => Matched(a, t)
  BY <1>1, <1>2, BeginsGrows DEF Matched
<1>5. Begins(a.pinned.over, s) => Begins(a.pinned.over, t)
  BY <1>1, BeginsGrows
<1>6. Len(s) > a.cp.size => Len(t) > a.cp.size
  BY <1>1, <1>2
<1>7. QED
  BY <1>3, <1>4, <1>5, <1>6 DEF Honest

\* Replacing a leaf keeps the length, and after it little is claimed.
LEMMA HonestReplaced ==
    ASSUME NEW a \in Audit, NEW s \in Seq(Hashes), NEW t \in Seq(Hashes),
           NEW replaced \in BOOLEAN, Len(t) = Len(s), Honest(a, s, replaced)
    PROVE  Honest([a EXCEPT !.undisturbed = FALSE], t, TRUE)
<1> DEFINE b == [a EXCEPT !.undisturbed = FALSE]
<1>1. /\ b.at = a.at /\ b.cp = a.cp /\ b.pinned = a.pinned /\ b.signature = a.signature
      /\ b.recomputed = a.recomputed /\ b.appendOnly = a.appendOnly /\ b.undisturbed = FALSE
  BY DEF Audit
<1> HIDE DEF b
<1>2. Handed(b.cp, t, TRUE) /\ Handed(b.pinned, t, TRUE)
  BY <1>1 DEF Honest, Handed
<1>3. Matched(a, s) => Matched(b, t)
  BY <1>1 DEF Matched
<1>4. a.recomputed \in BOOLEAN
  BY DEF Audit
<1>5. b.at \in {"prefix", "grew", "done"} =>
          \/ b.recomputed /\ Matched(b, t) /\ ~Torn(b.cp)
          \/ ~b.recomputed
  BY <1>1, <1>3, <1>4 DEF Honest
<1>6. Honest(b, t, TRUE)
  BY <1>1, <1>2, <1>3, <1>5 DEF Honest
<1>7. QED
  BY <1>6 DEF b

\* The least of two numbers.
LEMMA MinOfTwo ==
    ASSUME NEW m \in Nat, NEW n \in Nat
    PROVE  Min({m, n}) = IF m <= n THEN m ELSE n
<1> DEFINE x == IF m <= n THEN m ELSE n
<1>1. x \in {m, n} /\ \A y \in {m, n} : x <= y
  OBVIOUS
<1>2. \A z \in {m, n} : (\A y \in {m, n} : z <= y) => z = x
  OBVIOUS
<1>3. QED
  BY <1>1, <1>2 DEF Min

\* The append-only check: if the root of the first leaves is the pinned root, then the
\* log starts with the pinned tree; and it is, if no leaf was replaced and the pinned
\* size is that of the pinned tree.
LEMMA PrefixRoot ==
    ASSUME NEW cp \in Checkpoint, NEW s \in Seq(Hashes), NEW replaced \in BOOLEAN,
           Handed(cp, s, replaced)
    PROVE  LET same == MerkleRoot[SubSeq(s, 1, Min({cp.size, Len(s)}))] = RootOf(cp) IN
           /\ same => Begins(cp.over, s)
           /\ ~replaced /\ ~Torn(cp) => same
<1> DEFINE n == Min({cp.size, Len(s)})
           p == SubSeq(s, 1, n)
<1>1. cp.over \in Seq(Hashes) /\ Len(cp.over) \in Nat /\ cp.size \in Nat /\ Len(s) \in Nat
  BY CheckpointType
<1>2. n \in Nat /\ n <= Len(s) /\ n = cp.size
  <2>1. cp.size <= Len(cp.over) /\ Len(cp.over) <= Len(s)
    BY DEF Handed
  <2>2. n = IF cp.size <= Len(s) THEN cp.size ELSE Len(s)
    BY <1>1, MinOfTwo
  <2> HIDE DEF n
  <2> QED BY <1>1, <2>1, <2>2
<1> HIDE DEF n
<1>3. p \in Seq(Hashes) /\ Len(p) = n /\ \A i \in 1..n : p[i] = s[i]
  <2>1. \A i \in 1..n : s[i] \in Hashes
    BY <1>1, <1>2, ElementOfSeq
  <2>2. 1 \in Int /\ n \in Int
    BY <1>2
  <2>3. /\ p \in Seq(Hashes)
        /\ Len(p) = IF 1 <= n THEN n - 1 + 1 ELSE 0
        /\ \A i \in 1..(n - 1 + 1) : p[i] = s[1 + i - 1]
    BY <2>1, <2>2, SubSeqProperties
  <2> HIDE DEF p
  <2>4. Len(p) = n
    BY <1>2, <2>3
  <2>5. ASSUME NEW i \in 1..n PROVE p[i] = s[i]
    <3>1. i \in 1..(n - 1 + 1) /\ 1 + i - 1 = i
      BY <1>2
    <3>2. QED
      BY <2>3, <3>1
  <2>6. QED
    BY <2>3, <2>4, <2>5
<1> HIDE DEF p
<1>4. ASSUME MerkleRoot[p] = RootOf(cp) PROVE Begins(cp.over, s)
  <2>1. p = cp.over
    BY <1>1, <1>3, <1>4, RootIsInjective DEF RootOf
  <2>2. QED
    BY <1>2, <1>3, <2>1 DEF Begins
<1>5. ASSUME ~replaced, ~Torn(cp) PROVE MerkleRoot[p] = RootOf(cp)
  <2>1. Len(cp.over) = n /\ \A i \in 1..Len(cp.over) : cp.over[i] = s[i]
    BY <1>2, <1>5 DEF Handed, Begins, Torn
  <2>2. Len(p) = Len(cp.over) /\ \A i \in 1..Len(p) : p[i] = cp.over[i]
    BY <1>3, <2>1
  <2>3. p = cp.over
    BY <1>1, <1>3, <2>2, SeqEqual
  <2>4. QED
    BY <2>3 DEF RootOf
<1>6. QED
  BY <1>4, <1>5 DEF p, n

\* An audit that was given no pinned checkpoint has nothing to compare with.
LEMMA UnpinnedBegins ==
    ASSUME leaves \in Seq(Hashes), AfterRecomputation = "done"
    PROVE  Begins(audit.pinned.over, leaves)
<1>1. audit.pinned.over = <<>>
  BY DEF AfterRecomputation, NoCheckpoint
<1>2. Len(<<>>) = 0 /\ Len(leaves) \in Nat
  OBVIOUS
<1>3. QED
  BY <1>1, <1>2 DEF Begins

\* The first read: an agreement of the roots is an agreement of the leaves.
LEMMA HonestReadRoot ==
    ASSUME TypeOK, IInv, ReadRoot
    PROVE  Honest(audit', leaves, tampered)
<1>1. /\ audit \in Audit /\ leaves \in Seq(Hashes) /\ Len(leaves) \in Nat /\ audit.at = "root"
      /\ audit.cp \in Checkpoint /\ audit.pinned \in Checkpoint
      /\ audit' = [audit EXCEPT !.at = IF MerkleRoot[leaves] = RootOf(audit.cp) THEN "size"
                                      ELSE AfterRecomputation]
  BY DEF TypeOK, Audit, ReadRoot, AuditStep
<1>2. /\ Handed(audit.cp, leaves, tampered) /\ Handed(audit.pinned, leaves, tampered)
      /\ audit.signature = audit.cp.signed /\ audit.appendOnly
  BY <1>1 DEF IInv, Honest
<1>3. audit.recomputed = FALSE
  BY <1>1 DEF IInv, Honest, Audit
<1>4. /\ audit.cp.over \in Seq(Hashes) /\ Len(audit.cp.over) \in Nat /\ audit.cp.size \in Nat
      /\ Len(audit.pinned.over) \in Nat
  BY <1>1, CheckpointType
<1>5. CASE MerkleRoot[leaves] = RootOf(audit.cp)
  <2>1. audit' = [audit EXCEPT !.at = "size"]
    BY <1>1, <1>5
  <2>2. leaves = audit.cp.over
    BY <1>1, <1>4, <1>5, RootIsInjective DEF RootOf
  <2>3. Begins(audit.cp.over, leaves)
    BY <1>4, <2>2 DEF Begins
  <2>4. Matched(audit, leaves)
    BY <1>2, <1>4, <2>2, <2>3 DEF Matched, Handed
  <2>5. /\ audit'.at = "size" /\ audit'.cp = audit.cp /\ audit'.pinned = audit.pinned
        /\ audit'.signature = audit.signature /\ audit'.recomputed = FALSE
        /\ audit'.appendOnly = audit.appendOnly /\ audit'.undisturbed = audit.undisturbed
    BY <1>1, <1>3, <2>1 DEF Audit
  <2>6. QED
    BY <1>2, <2>4, <2>5 DEF Honest, Matched
<1>6. CASE MerkleRoot[leaves] # RootOf(audit.cp)
  <2>1. audit' = [audit EXCEPT !.at = AfterRecomputation]
    BY <1>1, <1>6
  <2>2. /\ audit'.at = AfterRecomputation /\ audit'.cp = audit.cp /\ audit'.pinned = audit.pinned
        /\ audit'.signature = audit.signature /\ audit'.recomputed = FALSE
        /\ audit'.appendOnly = audit.appendOnly /\ audit'.undisturbed = audit.undisturbed
    BY <1>1, <1>3, <2>1 DEF Audit
  <2>3. tampered \/ Len(leaves) > audit.cp.size
    <3> SUFFICES ASSUME ~tampered PROVE Len(leaves) > audit.cp.size
      OBVIOUS
    <3>1. Begins(audit.cp.over, leaves) /\ audit.cp.over # leaves
      BY <1>2, <1>6 DEF Handed, RootOf
    <3>2. Len(audit.cp.over) # Len(leaves)
      BY <1>1, <1>4, <3>1, SeqEqual DEF Begins
    <3>3. Len(audit.cp.over) <= Len(leaves) /\ audit.cp.size <= Len(audit.cp.over)
      BY <1>2 DEF Handed
    <3>4. QED
      BY <1>1, <1>4, <3>2, <3>3
  <2>4. AfterRecomputation = "done" => Begins(audit.pinned.over, leaves)
    BY <1>1, UnpinnedBegins
  <2>5. AfterRecomputation \in {"prefix", "done"}
    BY DEF AfterRecomputation
  <2>6. QED
    BY <1>2, <2>2, <2>3, <2>4, <2>5 DEF Honest
<1>7. QED
  BY <1>5, <1>6

\* The second read: the size agrees, or the log grew since it was signed.
LEMMA HonestReadSize ==
    ASSUME TypeOK, IInv, ReadSize
    PROVE  Honest(audit', leaves, tampered)
<1>1. /\ audit \in Audit /\ leaves \in Seq(Hashes) /\ Len(leaves) \in Nat /\ audit.at = "size"
      /\ audit.cp \in Checkpoint /\ audit.pinned \in Checkpoint
      /\ audit' = [audit EXCEPT !.at = AfterRecomputation,
                                !.recomputed = (Len(leaves) = audit.cp.size)]
  BY DEF TypeOK, Audit, ReadSize, AuditStep
<1>2. /\ Handed(audit.cp, leaves, tampered) /\ Handed(audit.pinned, leaves, tampered)
      /\ audit.signature = audit.cp.signed /\ audit.appendOnly /\ Matched(audit, leaves)
  BY <1>1 DEF IInv, Honest
<1>3. Len(audit.cp.over) \in Nat /\ audit.cp.size \in Nat
  BY <1>1, CheckpointType
<1>4. /\ audit'.at = AfterRecomputation /\ audit'.cp = audit.cp /\ audit'.pinned = audit.pinned
      /\ audit'.signature = audit.signature /\ audit'.recomputed = (Len(leaves) = audit.cp.size)
      /\ audit'.appendOnly = audit.appendOnly /\ audit'.undisturbed = audit.undisturbed
  BY <1>1 DEF Audit
<1>5. AfterRecomputation = "done" => Begins(audit.pinned.over, leaves)
  BY <1>1, UnpinnedBegins
<1>6. AfterRecomputation \in {"prefix", "done"}
  BY DEF AfterRecomputation
<1>7. audit.cp.size <= Len(audit.cp.over) /\ Len(audit.cp.over) <= Len(leaves)
  BY <1>2 DEF Handed
<1>8. Matched(audit', leaves)
  BY <1>2, <1>4 DEF Matched
<1>9. CASE Len(leaves) = audit.cp.size
  <2>1. ~Torn(audit.cp)
    BY <1>1, <1>3, <1>7, <1>9 DEF Torn
  <2>2. QED
    BY <1>2, <1>4, <1>5, <1>6, <1>8, <1>9, <2>1 DEF Honest
<1>10. CASE Len(leaves) # audit.cp.size
  <2>1. Len(leaves) > audit.cp.size
    BY <1>1, <1>3, <1>7, <1>10
  <2>2. QED
    BY <1>2, <1>4, <1>5, <1>6, <1>10, <2>1 DEF Honest
<1>11. QED
  BY <1>9, <1>10

\* The third read: the pinned prefix.
LEMMA HonestReadPrefix ==
    ASSUME TypeOK, IInv, ReadPrefix
    PROVE  Honest(audit', leaves, tampered)
<1> DEFINE same == MerkleRoot[SubSeq(leaves, 1, Min({audit.pinned.size, Len(leaves)}))]
                     = RootOf(audit.pinned)
<1>1. /\ audit \in Audit /\ leaves \in Seq(Hashes) /\ audit.at = "prefix"
      /\ audit.cp \in Checkpoint /\ audit.pinned \in Checkpoint /\ tampered \in BOOLEAN
      /\ audit' = [audit EXCEPT !.at = "grew", !.appendOnly = same]
  BY DEF TypeOK, Audit, ReadPrefix, AuditStep
<1>2. Handed(audit.pinned, leaves, tampered)
  BY DEF IInv, Honest
<1>3. (same => Begins(audit.pinned.over, leaves)) /\ (~tampered /\ ~Torn(audit.pinned) => same)
  BY <1>1, <1>2, PrefixRoot
<1> HIDE DEF same
<1>4. /\ audit'.at = "grew" /\ audit'.cp = audit.cp /\ audit'.pinned = audit.pinned
      /\ audit'.signature = audit.signature /\ audit'.recomputed = audit.recomputed
      /\ audit'.appendOnly = same /\ audit'.undisturbed = audit.undisturbed
  BY <1>1 DEF Audit
<1>5. Matched(audit, leaves) => Matched(audit', leaves)
  BY <1>4 DEF Matched
<1>6. QED
  BY <1>1, <1>3, <1>4, <1>5 DEF IInv, Honest

\* The last read: the pinned size.
LEMMA HonestReadGrew ==
    ASSUME TypeOK, IInv, ReadGrew
    PROVE  Honest(audit', leaves, tampered)
<1> DEFINE grown == audit.appendOnly /\ audit.pinned.size <= Len(leaves)
<1>1. /\ audit \in Audit /\ leaves \in Seq(Hashes) /\ audit.at = "grew" /\ Len(leaves) \in Nat
      /\ audit.cp \in Checkpoint /\ audit.pinned \in Checkpoint /\ audit.appendOnly \in BOOLEAN
      /\ audit' = [audit EXCEPT !.at = "done", !.appendOnly = grown]
  BY DEF TypeOK, Audit, ReadGrew, AuditStep
<1>2. grown = audit.appendOnly
  <2>1. audit.pinned.size <= Len(audit.pinned.over) /\ Len(audit.pinned.over) <= Len(leaves)
    BY DEF IInv, Honest, Handed
  <2>2. Len(audit.pinned.over) \in Nat /\ audit.pinned.size \in Nat
    BY <1>1, CheckpointType
  <2>3. audit.pinned.size <= Len(leaves)
    BY <1>1, <2>1, <2>2
  <2>4. QED
    BY <1>1, <2>3
<1> HIDE DEF grown
<1>3. /\ audit'.at = "done" /\ audit'.cp = audit.cp /\ audit'.pinned = audit.pinned
      /\ audit'.signature = audit.signature /\ audit'.recomputed = audit.recomputed
      /\ audit'.appendOnly = audit.appendOnly /\ audit'.undisturbed = audit.undisturbed
  BY <1>1, <1>2 DEF Audit
<1>4. Matched(audit, leaves) => Matched(audit', leaves)
  BY <1>3 DEF Matched
<1>5. QED
  BY <1>1, <1>3, <1>4 DEF IInv, Honest

\* The empty checkpoint claims nothing.
LEMMA NothingHanded ==
    ASSUME NEW log \in Seq(Hashes), NEW replaced
    PROVE  Handed(NoCheckpoint, log, replaced) /\ ~Torn(NoCheckpoint)
<1>1. NoCheckpoint.size = 0 /\ NoCheckpoint.over = <<>> /\ Len(<<>>) = 0 /\ Len(log) \in Nat
  BY DEF NoCheckpoint
<1>2. QED
  BY <1>1 DEF Handed, Begins, Torn

\* A step that only makes the log longer, and hands out what fits the log, preserves
\* the invariant.
LEMMA GrowthStep ==
    ASSUME TypeOK, TypeOK', IInv, Begins(leaves, leaves'),
           audit' = audit, tampered' = tampered, signing' <= Len(leaves'),
           \A cp \in checkpoints' \ checkpoints : Handed(cp, leaves', tampered)
    PROVE  IInv'
<1>1. /\ leaves \in Seq(Hashes) /\ leaves' \in Seq(Hashes) /\ audit \in Audit
      /\ tampered \in BOOLEAN /\ checkpoints \subseteq Checkpoint
  BY DEF TypeOK
<1>2. Honest(audit, leaves', tampered)
  BY <1>1, HonestGrows DEF IInv
<1>3. \A cp \in checkpoints : Handed(cp, leaves', tampered)
  BY <1>1, HandedGrows DEF IInv
<1>4. \A cp \in checkpoints' : Handed(cp, leaves', tampered)
  BY <1>3
<1>5. QED
  BY <1>2, <1>4 DEF IInv

\* Every reachable audit is an honest one.
LEMMA Invariance == TypeOK /\ TypeOK' /\ IInv /\ [Next]_vars => IInv'
<1> SUFFICES ASSUME TypeOK, TypeOK', IInv, [Next]_vars PROVE IInv'
  OBVIOUS
<1>t. /\ leaves \in Seq(Hashes) /\ leaves' \in Seq(Hashes) /\ audit \in Audit
      /\ Len(leaves) \in Nat /\ Len(leaves') \in Nat /\ signing \in Int
      /\ tampered \in BOOLEAN /\ checkpoints \subseteq Checkpoint
  BY BoundAssumption DEF TypeOK
<1>s. Begins(leaves, leaves)
  BY <1>t DEF Begins
<1>1. ASSUME NEW e \in Entry, AppendEntry(e) PROVE IInv'
  <2>1. LeafHash(e) \in Hashes /\ leaves' = Append(leaves, LeafHash(e))
    BY <1>1 DEF Hashes, AppendEntry
  <2>2. Len(leaves') = Len(leaves) + 1 /\ \A i \in 1..Len(leaves) : leaves'[i] = leaves[i]
    BY <1>t, <2>1, AppendProperties
  <2>3. Begins(leaves, leaves')
    BY <1>t, <2>2 DEF Begins
  <2>4. signing' <= Len(leaves')
    BY <1>1, <1>t, <2>2 DEF AppendEntry, IInv
  <2>5. QED
    BY <1>1, <2>3, <2>4, GrowthStep DEF AppendEntry
<1>2. CASE Tamper
  <2>1. PICK i \in DOMAIN leaves, e \in Entry : leaves' = [leaves EXCEPT ![i] = LeafHash(e)]
    BY <1>2 DEF Tamper
  <2>2. Len(leaves') = Len(leaves)
    BY <1>t, <2>1
  <2>3. /\ audit' = [audit EXCEPT !.undisturbed = FALSE] /\ tampered' = TRUE
        /\ signing' = signing /\ checkpoints' = checkpoints
    BY <1>2 DEF Tamper
  <2>4. Honest(audit', leaves', TRUE)
    BY <1>t, <2>2, <2>3, HonestReplaced DEF IInv
  <2>5. \A cp \in checkpoints : Handed(cp, leaves', TRUE)
    BY <2>2 DEF IInv, Handed
  <2>6. QED
    BY <2>2, <2>3, <2>4, <2>5 DEF IInv
<1>3. CASE SignSize
  <2>1. leaves' = leaves /\ audit' = audit /\ tampered' = tampered /\ checkpoints' = checkpoints
    BY <1>3 DEF SignSize
  <2>2. signing' <= Len(leaves')
    BY <1>3, <1>t DEF SignSize
  <2>3. Begins(leaves, leaves')
    BY <1>s, <2>1
  <2>4. \A cp \in checkpoints' \ checkpoints : Handed(cp, leaves', tampered)
    BY <2>1
  <2>5. QED
    BY <2>1, <2>2, <2>3, <2>4, GrowthStep
<1>4. CASE SignRoot \/ Fabricate
  <2>1. leaves' = leaves /\ audit' = audit /\ tampered' = tampered
    BY <1>4 DEF SignRoot, Fabricate
  <2>2. signing' = -1 \/ signing' = signing
    BY <1>4 DEF SignRoot, Fabricate
  <2>3. signing' <= Len(leaves')
    BY <1>t, <2>1, <2>2 DEF IInv
  <2>4. PICK size \in {signing, Len(leaves)}, signed \in BOOLEAN :
           checkpoints' = checkpoints \cup {[size |-> size, over |-> leaves, signed |-> signed]}
    BY <1>4 DEF SignRoot, Fabricate, Hand
  <2>5. size <= Len(leaves)
    BY <1>t DEF IInv
  <2>6. Handed([size |-> size, over |-> leaves, signed |-> signed], leaves, tampered)
    BY <1>t, <1>s, <2>5 DEF Handed
  <2>7. \A cp \in checkpoints' \ checkpoints : Handed(cp, leaves', tampered)
    BY <2>1, <2>4, <2>6
  <2>8. Begins(leaves, leaves')
    BY <1>s, <2>1
  <2>9. QED
    BY <2>1, <2>3, <2>7, <2>8, GrowthStep
<1>5. CASE StartAudit
  <2>1. PICK c \in checkpoints, p \in checkpoints \cup {NoCheckpoint} :
           audit' = [at |-> "root", cp |-> c, pinned |-> p, signature |-> c.signed,
                     recomputed |-> FALSE, appendOnly |-> TRUE, undisturbed |-> TRUE]
    BY <1>5 DEF StartAudit
  <2>2. Handed(c, leaves, tampered) /\ Handed(p, leaves, tampered)
    BY <1>t, NothingHanded DEF IInv
  <2>3. Honest(audit', leaves, tampered)
    BY <2>1, <2>2 DEF Honest
  <2>4. QED
    BY <1>5, <2>3 DEF StartAudit, IInv
<1>6. CASE ReadRoot
  BY <1>6, HonestReadRoot DEF ReadRoot, AuditStep, IInv
<1>7. CASE ReadSize
  BY <1>7, HonestReadSize DEF ReadSize, AuditStep, IInv
<1>8. CASE ReadPrefix
  BY <1>8, HonestReadPrefix DEF ReadPrefix, AuditStep, IInv
<1>9. CASE ReadGrew
  BY <1>9, HonestReadGrew DEF ReadGrew, AuditStep, IInv
<1>10. CASE EndAudit
  <2>1. audit' = [at |-> "off", cp |-> NoCheckpoint, pinned |-> NoCheckpoint, signature |-> FALSE,
                  recomputed |-> FALSE, appendOnly |-> TRUE, undisturbed |-> TRUE]
    BY <1>10 DEF EndAudit
  <2>2. Honest(audit', leaves, tampered)
    BY <1>t, <2>1, NothingHanded DEF Honest
  <2>3. QED
    BY <1>10, <2>2 DEF EndAudit, IInv
<1>11. CASE UNCHANGED vars
  BY <1>11 DEF vars, IInv
<1>12. QED
  BY <1>1, <1>2, <1>3, <1>4, <1>5, <1>6, <1>7, <1>8, <1>9, <1>10, <1>11 DEF Next

\* What the invariant says of a finished audit.
LEMMA HonestReports ==
    ASSUME TypeOK, IInv
    PROVE  ReportIsTrue /\ GrowthIsNotTampering
<1>1. /\ audit \in Audit /\ audit.cp \in Checkpoint /\ audit.pinned \in Checkpoint
      /\ leaves \in Seq(Hashes)
      /\ audit.signature \in BOOLEAN /\ audit.recomputed \in BOOLEAN /\ audit.appendOnly \in BOOLEAN
  BY DEF TypeOK, Audit
<1>2. audit.cp.over \in Seq(Hashes) /\ audit.pinned.over \in Seq(Hashes)
  BY <1>1, CheckpointType
<1>3. GrowthIsNotTampering
  BY DEF IInv, Honest, GrowthIsNotTampering
<1>4. ASSUME audit.at = "done", Passed
      PROVE  /\ audit.cp.signed /\ ~Torn(audit.cp)
             /\ audit.undisturbed => IsPrefix(audit.pinned.over, audit.cp.over)
  <2>1. audit.cp.signed /\ Matched(audit, leaves) /\ ~Torn(audit.cp)
    BY <1>4 DEF IInv, Honest, Passed
  <2>2. ASSUME audit.undisturbed PROVE IsPrefix(audit.pinned.over, audit.cp.over)
    <3>1. Begins(audit.pinned.over, leaves)
      BY <1>4, <2>2 DEF IInv, Honest, Passed
    <3>2. Begins(audit.cp.over, leaves) /\ Len(audit.pinned.over) <= Len(audit.cp.over)
      BY <2>1, <2>2 DEF Matched
    <3>3. QED
      BY <1>1, <1>2, <3>1, <3>2, BeginsBoth, BeginsIsPrefix
  <2>3. QED
    BY <2>1, <2>2
<1>5. ASSUME audit.at = "done", ~Passed
      PROVE  \/ ~audit.cp.signed \/ tampered \/ Len(leaves) > audit.cp.size \/ Torn(audit.pinned)
  BY <1>1, <1>5 DEF IInv, Honest, Passed
<1>6. QED
  BY <1>3, <1>4, <1>5 DEF ReportIsTrue

\* The inductive invariant holds in every reachable state.
LEMMA AuditsAreHonest == Spec => [](TypeOK /\ IInv)
<1>1. Init => IInv
  <2> SUFFICES ASSUME Init PROVE IInv
    OBVIOUS
  <2>1. leaves = <<>> /\ leaves \in Seq(Hashes) /\ Len(leaves) = 0 /\ signing = -1 /\ checkpoints = {}
    BY EmptySeq DEF Init
  <2>2. audit = [at |-> "off", cp |-> NoCheckpoint, pinned |-> NoCheckpoint, signature |-> FALSE,
                 recomputed |-> FALSE, appendOnly |-> TRUE, undisturbed |-> TRUE]
    BY DEF Init
  <2>3. Honest(audit, leaves, tampered)
    BY <2>1, <2>2, NothingHanded DEF Honest
  <2>4. QED
    BY <2>1, <2>3 DEF IInv
<1>2. QED
  BY <1>1, Invariance, TypeCorrect, PTL DEF Spec

\* A report that passes is about one moment of the log, and one that fails has a cause.
THEOREM ReportsAreTrue == Spec => []ReportIsTrue
<1>1. TypeOK /\ IInv => ReportIsTrue
  BY HonestReports
<1>2. QED
  BY <1>1, AuditsAreHonest, PTL

\* A log that only grows passes the append-only check against every checkpoint that
\* was not signed across an append.
THEOREM GrowthPasses == Spec => []GrowthIsNotTampering
<1>1. TypeOK /\ IInv => GrowthIsNotTampering
  BY HonestReports
<1>2. QED
  BY <1>1, AuditsAreHonest, PTL

-----------------------------------------------------------------------------
(* Walking up a tree: the fold over a path is an iteration over positions.   *)

\* The greatest number of a set that contains the greatest number allowed.
LEMMA MaxIsTop ==
    ASSUME NEW n \in Nat, n > 0, NEW s \in SUBSET (1..n), n \in s
    PROVE  Max(s) = n
<1>1. s \in SUBSET Nat /\ s # {} /\ \A k \in s : k <= n
  OBVIOUS
<1>2. Max(s) \in s /\ \A k \in s : k <= Max(s)
  BY <1>1, MaxOfBounded
<1>3. n <= Max(s) /\ Max(s) \in 1..n
  BY <1>2
<1>4. QED
  BY <1>3

\* The greatest number of a nonempty set of positions is one of them.
LEMMA MaxIsMember ==
    ASSUME NEW n \in Nat, NEW s \in SUBSET (1..n), s # {}
    PROVE  Max(s) \in s
<1>1. s \in SUBSET Nat /\ \A k \in s : k <= n
  OBVIOUS
<1>2. QED
  BY <1>1, MaxOfBounded

\* A step of the walk that rebuilds two roots, or of the one that rebuilds one.
Ascend(both, at, p) == IF both THEN ClimbBoth(at, p) ELSE Climb(at, p)

\* The body of the fold over such steps, with h in the place of the iteration.
AscentStep(both, path, start, h, s) ==
    IF s = {} THEN start ELSE Ascend(both, h[s \ {Max(s)}], path[Max(s)])

\* h is the fold over the first n elements.
AscentTo(both, path, start, n, h) == h = [s \in SUBSET (1..n) |-> AscentStep(both, path, start, h, s)]

\* The iteration exists, for every number of positions.
LEMMA AscentExists ==
    ASSUME NEW both, NEW path, NEW start
    PROVE  \A n \in Nat : \E h : AscentTo(both, path, start, n, h)
<1> DEFINE G == {n \in Nat : \E h : AscentTo(both, path, start, n, h)}
<1>1. ASSUME NEW n \in Nat, \A k \in 0..(n - 1) : k \in G PROVE n \in G
  <2>1. CASE n = 0
    <3> DEFINE h == [s \in SUBSET (1..0) |-> start]
    <3>1. \A s \in SUBSET (1..0) : s = {}
      OBVIOUS
    <3>2. \A s \in SUBSET (1..0) : AscentStep(both, path, start, h, s) = start
      BY <3>1 DEF AscentStep
    <3> HIDE DEF h
    <3>3. h = [s \in SUBSET (1..0) |-> AscentStep(both, path, start, h, s)]
      BY <3>2 DEF h
    <3>4. QED
      BY <2>1, <3>3 DEF AscentTo
  <2>2. CASE n > 0
    <3>1. n - 1 \in 0..(n - 1)
      BY <2>2
    <3>2. PICK g : AscentTo(both, path, start, n - 1, g)
      BY <1>1, <3>1
    <3> DEFINE value(s) == IF n \in s THEN Ascend(both, g[s \ {n}], path[n]) ELSE g[s]
               h == [s \in SUBSET (1..n) |-> value(s)]
    <3>3. \A s \in SUBSET (1..n) : n \notin s => s \in SUBSET (1..(n - 1))
      OBVIOUS
    <3>4. \A s \in SUBSET (1..n) : s \ {n} \in SUBSET (1..(n - 1)) /\ s \ {n} \in SUBSET (1..n)
      BY <3>3
    <3>5. \A s \in SUBSET (1..n) : n \notin s => h[s] = g[s]
      OBVIOUS
    <3>6. \A s \in SUBSET (1..n) : n \in s => h[s] = Ascend(both, g[s \ {n}], path[n])
      OBVIOUS
    <3>7. ASSUME NEW s \in SUBSET (1..n) PROVE h[s] = AscentStep(both, path, start, h, s)
      <4> HIDE DEF h
      <4>1. CASE n \in s
        <5>1. Max(s) = n /\ s # {}
          BY <2>2, <4>1, MaxIsTop
        <5>2. h[s \ {n}] = g[s \ {n}]
          BY <3>4, <3>5
        <5>3. QED
          BY <3>6, <4>1, <5>1, <5>2 DEF AscentStep
      <4>2. CASE n \notin s
        <5>1. s \in SUBSET (1..(n - 1))
          BY <3>3, <4>2
        <5>2. g[s] = AscentStep(both, path, start, g, s)
          BY <3>2, <5>1 DEF AscentTo
        <5>3. CASE s = {}
          BY <3>5, <4>2, <5>2, <5>3 DEF AscentStep
        <5>4. CASE s # {}
          <6>1. Max(s) \in s
            BY <5>4, MaxIsMember
          <6>2. h[s \ {Max(s)}] = g[s \ {Max(s)}]
            BY <3>5, <4>2
          <6>3. QED
            BY <3>5, <4>2, <5>2, <5>4, <6>2 DEF AscentStep
        <5>5. QED
          BY <5>3, <5>4
      <4>3. QED
        BY <4>1, <4>2
    <3>8. h = [s \in SUBSET (1..n) |-> AscentStep(both, path, start, h, s)]
      BY <3>7
    <3> HIDE DEF h
    <3>9. AscentTo(both, path, start, n, h)
      BY <3>8 DEF AscentTo
    <3>10. QED
      BY <3>9
  <2>3. QED
    BY <2>1, <2>2
<1>2. G = Nat
  <2>1. G \in SUBSET Nat
    OBVIOUS
  <2> HIDE DEF G
  <2> QED BY <1>1, <2>1, StrongInduction
<1>3. QED
  BY <1>2

\* h is an ascent, element by element: from start, one step after the other.
Ascends(both, path, start, n, end, h) ==
    /\ h[0] = start /\ h[n] = end
    /\ \A k \in 1..n : h[k] = Ascend(both, h[k - 1], path[k])

\* A fold over a path is one.
LEMMA AscentEquation ==
    ASSUME NEW both, NEW path, NEW start, NEW n \in Nat, NEW g, AscentTo(both, path, start, n, g)
    PROVE  \E h : Ascends(both, path, start, n, g[1..n], h)
<1> DEFINE h == [k \in 0..n |-> g[1..k]]
<1>1. h[0] = start
  <2>1. g[1..0] = AscentStep(both, path, start, g, 1..0)
    BY DEF AscentTo
  <2>2. 1..0 = {}
    OBVIOUS
  <2>3. QED
    BY <2>1, <2>2 DEF AscentStep
<1>2. ASSUME NEW k \in 1..n PROVE h[k] = Ascend(both, h[k - 1], path[k])
  <2>1. g[1..k] = AscentStep(both, path, start, g, 1..k)
    <3>1. 1..k \in SUBSET (1..n)
      OBVIOUS
    <3>2. QED
      BY <3>1 DEF AscentTo
  <2>2. Max(1..k) = k /\ 1..k # {}
    <3>1. k \in Nat /\ k > 0 /\ k \in 1..k /\ 1..k \in SUBSET (1..k)
      OBVIOUS
    <3>2. QED
      BY <3>1, MaxIsTop
  <2>3. (1..k) \ {k} = 1..(k - 1)
    OBVIOUS
  <2>4. k \in 0..n /\ k - 1 \in 0..n
    OBVIOUS
  <2>5. QED
    BY <2>1, <2>2, <2>3, <2>4 DEF AscentStep
<1>3. h[n] = g[1..n]
  OBVIOUS
<1> HIDE DEF h
<1>4. Ascends(both, path, start, n, g[1..n], h)
  BY <1>1, <1>2, <1>3 DEF Ascends
<1>5. QED
  BY <1>4

\* h is a walk, element by element: from the leaf, one climb after the other.
Climbs(leaf, index, size, path, n, h) ==
    /\ Walk(leaf, index, size, path) = h[n]
    /\ h[0] = [fn |-> index, sn |-> size - 1, root |-> leaf]
    /\ \A k \in 1..n : h[k] = Climb(h[k - 1], path[k])

\* The fold of Walk.
WalkStep(path, start, h, s) ==
    IF s = {} THEN start ELSE Climb(h[s \ {Max(s)}], path[Max(s)])

WalkTo(path, start, n, h) == h = [s \in SUBSET (1..n) |-> WalkStep(path, start, h, s)]

\* Every walk is one.
LEMMA WalkEquation ==
    ASSUME NEW leaf, NEW index, NEW size, NEW path, NEW n \in Nat, DOMAIN path = 1..n
    PROVE  \E h : Climbs(leaf, index, size, path, n, h)
<1> DEFINE start == [fn |-> index, sn |-> size - 1, root |-> leaf]
           g == CHOOSE g : WalkTo(path, start, n, g)
<1>1. \A h, s : WalkStep(path, start, h, s) = AscentStep(FALSE, path, start, h, s)
  BY DEF WalkStep, AscentStep, Ascend
<1>2. Walk(leaf, index, size, path) = g[1..n]
  BY DEF Walk, FoldLeft, MapThenFoldSet, WalkTo, WalkStep
<1> HIDE DEF g, start
<1>3. \A h : WalkTo(path, start, n, h) <=> AscentTo(FALSE, path, start, n, h)
  BY <1>1 DEF WalkTo, AscentTo
<1>4. AscentTo(FALSE, path, start, n, g)
  <2>1. \E h : AscentTo(FALSE, path, start, n, h)
    BY AscentExists
  <2>2. \E h : WalkTo(path, start, n, h)
    BY <1>3, <2>1
  <2>3. WalkTo(path, start, n, g)
    BY <2>2 DEF g
  <2>4. QED
    BY <1>3, <2>3
<1>5. PICK h : Ascends(FALSE, path, start, n, g[1..n], h)
  BY <1>4, AscentEquation
<1>6. Climbs(leaf, index, size, path, n, h)
  BY <1>2, <1>5 DEF Climbs, Ascends, Ascend, start
<1>7. QED
  BY <1>6

\* The fold of Consistent.
BothStep(path, start, h, s) ==
    IF s = {} THEN start ELSE ClimbBoth(h[s \ {Max(s)}], path[Max(s)])

BothTo(path, start, n, h) == h = [s \in SUBSET (1..n) |-> BothStep(path, start, h, s)]

\* It is an ascent of two roots.
LEMMA BothEquation ==
    ASSUME NEW path, NEW start, NEW n \in Nat, DOMAIN path = 1..n
    PROVE  \E h : Ascends(TRUE, path, start, n, FoldLeft(ClimbBoth, start, path), h)
<1> DEFINE g == CHOOSE g : BothTo(path, start, n, g)
<1>1. \A h, s : BothStep(path, start, h, s) = AscentStep(TRUE, path, start, h, s)
  BY DEF BothStep, AscentStep, Ascend
<1>2. FoldLeft(ClimbBoth, start, path) = g[1..n]
  BY DEF FoldLeft, MapThenFoldSet, BothTo, BothStep
<1> HIDE DEF g
<1>3. \A h : BothTo(path, start, n, h) <=> AscentTo(TRUE, path, start, n, h)
  BY <1>1 DEF BothTo, AscentTo
<1>4. AscentTo(TRUE, path, start, n, g)
  <2>1. \E h : AscentTo(TRUE, path, start, n, h)
    BY AscentExists
  <2>2. \E h : BothTo(path, start, n, h)
    BY <1>3, <2>1
  <2>3. BothTo(path, start, n, g)
    BY <2>2 DEF g
  <2>4. QED
    BY <1>3, <2>3
<1>5. QED
  BY <1>2, <1>4, AscentEquation

-----------------------------------------------------------------------------
(* Positions.  A climb moves the position whatever the path holds.           *)

\* The position of node f on a level whose last node is l.
At(f, l) == [fn |-> f, sn |-> l]

\* Positions are pairs of numbers, and halving one gives another.
LEMMA PositionFields ==
    /\ \A f, l \in Nat : At(f, l) \in Position /\ At(f, l).fn = f /\ At(f, l).sn = l
    /\ \A at \in Position : at.fn \in Nat /\ at.sn \in Nat /\ at = At(at.fn, at.sn)
    /\ \A at \in Position : Halved(at) = At(at.fn \div 2, at.sn \div 2) /\ Halved(at) \in Position
<1>1. \A f, l \in Nat : At(f, l) \in Position /\ At(f, l).fn = f /\ At(f, l).sn = l
  BY DEF At, Position
<1>2. \A at \in Position : at.fn \in Nat /\ at.sn \in Nat /\ at = At(at.fn, at.sn)
  BY DEF At, Position
<1>3. \A n \in Nat : n \div 2 \in Nat
  OBVIOUS
<1>4. \A at \in Position : Halved(at) = At(at.fn \div 2, at.sn \div 2)
  BY DEF Halved, At
<1>5. \A at \in Position : Halved(at) \in Position
  BY <1>1, <1>2, <1>3, <1>4
<1>6. QED
  BY <1>1, <1>2, <1>4, <1>5

\* A function that halves a position until it is in B exists when B is always reached.
LEMMA HalvingStops ==
    ASSUME NEW B, \A at \in Position : at \notin B => at.fn > 0
    PROVE  \E f : f = [at \in Position |-> IF at \in B THEN at ELSE f[Halved(at)]]
<1> DEFINE m == [at \in Position |-> at.fn]
           c == [at \in Position |-> at]
           next == [at \in Position |-> Halved(at)]
           op == [p \in Position \X Position |-> p[2]]
<1>1. Descends(Position, Position, B, m, c, next, op)
  <2>1. ASSUME NEW at \in Position, at \notin B
        PROVE  Halved(at) \in Position /\ Halved(at).fn < at.fn
    <3>1. at.fn \in Nat /\ at.fn > 0 /\ at.fn \div 2 \in Nat /\ at.sn \div 2 \in Nat
      BY <2>1, PositionFields
    <3>2. Halved(at).fn = at.fn \div 2
      BY <3>1, PositionFields
    <3>3. QED
      BY <3>1, <3>2, PositionFields
  <2>2. QED
    BY <2>1, PositionFields DEF Descends
<1>2. \E f : Recursive(Position, Position, B, c, next, op, f)
  <2> HIDE DEF m, c, next, op
  <2> QED BY <1>1, Recursion
<1>3. PICK f : Recursive(Position, Position, B, c, next, op, f)
  BY <1>2
<1>4. f \in [Position -> Position]
  BY <1>3 DEF Recursive
<1>5. ASSUME NEW at \in Position PROVE f[at] = IF at \in B THEN at ELSE f[Halved(at)]
  <2>1. f[at] = IF at \in B THEN c[at] ELSE op[<<at, f[next[at]]>>]
    BY <1>3 DEF Recursive
  <2>2. Halved(at) \in Position /\ f[Halved(at)] \in Position
    BY <1>4, PositionFields
  <2>3. QED
    BY <2>1, <2>2
<1>6. QED
  BY <1>4, <1>5

\* SkipLevels satisfies its equation ...
LEMMA SkipLevelsEquation ==
    \A at \in Position :
        SkipLevels[at] = IF at.fn = 0 \/ Odd(at.fn) THEN at ELSE SkipLevels[Halved(at)]
<1> DEFINE B == {at \in Position : at.fn = 0 \/ Odd(at.fn)}
<1>1. \A at \in Position : at \notin B => at.fn > 0
  BY PositionFields
<1>2. \E f : f = [at \in Position |-> IF at \in B THEN at ELSE f[Halved(at)]]
  <2> HIDE DEF B
  <2> QED BY <1>1, HalvingStops
<1>3. \E f : f = [at \in Position |-> IF at.fn = 0 \/ Odd(at.fn) THEN at ELSE f[Halved(at)]]
  BY <1>2
<1>4. SkipLevels = [at \in Position |-> IF at.fn = 0 \/ Odd(at.fn) THEN at ELSE SkipLevels[Halved(at)]]
  BY <1>3, Zenon DEF SkipLevels
<1>5. QED
  BY <1>4

\* ... and ShiftOdd by its own.
LEMMA ShiftOddEquation ==
    \A at \in Position : ShiftOdd[at] = IF Odd(at.fn) THEN ShiftOdd[Halved(at)] ELSE at
<1> DEFINE B == {at \in Position : ~Odd(at.fn)}
<1>1. \A at \in Position : at \notin B => at.fn > 0
  BY PositionFields DEF Odd
<1>2. \E f : f = [at \in Position |-> IF at \in B THEN at ELSE f[Halved(at)]]
  <2> HIDE DEF B
  <2> QED BY <1>1, HalvingStops
<1>3. \E f : f = [at \in Position |-> IF Odd(at.fn) THEN f[Halved(at)] ELSE at]
  <2>1. PICK f : f = [at \in Position |-> IF at \in B THEN at ELSE f[Halved(at)]]
    BY <1>2
  <2>2. f = [at \in Position |-> IF Odd(at.fn) THEN f[Halved(at)] ELSE at]
    BY <2>1
  <2>3. QED
    BY <2>2
<1>4. ShiftOdd = [at \in Position |-> IF Odd(at.fn) THEN ShiftOdd[Halved(at)] ELSE at]
  BY <1>3, Zenon DEF ShiftOdd
<1>5. QED
  BY <1>4

\* The nodes that are not right of the last one.
Ordered == {at \in Position : at.fn <= at.sn}

\* The node above one of them is one too.
LEMMA AboveOrdered ==
    /\ \A at \in Position : Above(at) \in Position
    /\ \A at \in Ordered : Above(at) \in Ordered
<1>1. \A at \in Position : Halved(at) \in Position /\ (at \in Ordered => Halved(at) \in Ordered)
  <2> TAKE at \in Position
  <2>1. at.fn \in Nat /\ at.sn \in Nat /\ at.fn \div 2 \in Nat /\ at.sn \div 2 \in Nat
    BY PositionFields
  <2>2. at.fn <= at.sn => at.fn \div 2 <= at.sn \div 2
    BY <2>1
  <2>3. Halved(at) \in Position /\ Halved(at).fn = at.fn \div 2 /\ Halved(at).sn = at.sn \div 2
    BY <2>1, PositionFields
  <2>4. QED
    BY <2>2, <2>3 DEF Ordered
<1> DEFINE G == {n \in Nat : \A at \in Position : at.fn = n =>
                    SkipLevels[at] \in Position /\ (at \in Ordered => SkipLevels[at] \in Ordered)}
<1>2. ASSUME NEW n \in Nat, \A k \in 0..(n - 1) : k \in G PROVE n \in G
  <2> SUFFICES ASSUME NEW at \in Position, at.fn = n
               PROVE  SkipLevels[at] \in Position /\ (at \in Ordered => SkipLevels[at] \in Ordered)
    OBVIOUS
  <2>1. CASE n = 0 \/ Odd(n)
    BY <2>1, SkipLevelsEquation
  <2>2. CASE ~(n = 0 \/ Odd(n))
    <3>1. SkipLevels[at] = SkipLevels[Halved(at)]
      BY <2>2, SkipLevelsEquation
    <3>2. n \div 2 \in 0..(n - 1) /\ at.sn \div 2 \in Nat /\ n \div 2 \in Nat
      BY <2>2, PositionFields
    <3>3. Halved(at).fn = n \div 2
      BY <3>2, PositionFields
    <3>4. QED
      BY <1>1, <1>2, <3>1, <3>2, <3>3
  <2>3. QED
    BY <2>1, <2>2
<1>3. G = Nat
  <2>1. G \in SUBSET Nat
    OBVIOUS
  <2> HIDE DEF G
  <2> QED BY <1>2, <2>1, StrongInduction
<1>4. \A at \in Position : SkipLevels[at] \in Position /\ (at \in Ordered => SkipLevels[at] \in Ordered)
  BY <1>3, PositionFields
<1>5. \A at \in Position : Above(at) = Halved(IF OnRight(at) THEN SkipLevels[at] ELSE at)
  BY PositionFields DEF Above, At
<1>6. QED
  BY <1>1, <1>4, <1>5 DEF Ordered

\* Every power of two but the first is twice the one before.
LEMMA PowerIsEven ==
    ASSUME NEW i \in Nat
    PROVE  /\ Power[i] \in Nat /\ Power[i] >= 1
           /\ i = 0 => Power[i] = 1
           /\ i # 0 => i - 1 \in Nat /\ Power[i - 1] \in Nat /\ Power[i] = 2 * Power[i - 1]
<1>1. i # 0 => i - 1 \in Nat /\ (i - 1) + 1 = i
  OBVIOUS
<1>2. QED
  BY <1>1, PowerEquation, PowersGrow

\* What a climb from the last node of its level skips: the levels on which it is alone.
LEMMA SkipApart ==
    ASSUME NEW f \in Nat, NEW i \in Nat, f > 0, f < Power[i]
    PROVE  \E g, j \in Nat : /\ g < Power[j]
                             /\ SkipLevels[At(f, f)] = At(g, g) /\ Odd(g) /\ j # 0
                             /\ SkipLevels[At(f + Power[i], f + Power[i])] = At(g + Power[j], g + Power[j])
<1> DEFINE claim(x, k) ==
             \E g, j \in Nat : /\ g < Power[j]
                               /\ SkipLevels[At(x, x)] = At(g, g) /\ Odd(g) /\ j # 0
                               /\ SkipLevels[At(x + Power[k], x + Power[k])] = At(g + Power[j], g + Power[j])
           G == {x \in Nat : \A k \in Nat : x > 0 /\ x < Power[k] => claim(x, k)}
<1>1. ASSUME NEW x \in Nat, \A y \in 0..(x - 1) : y \in G PROVE x \in G
  <2> SUFFICES ASSUME NEW k \in Nat, x > 0, x < Power[k] PROVE claim(x, k)
    OBVIOUS
  <2> DEFINE y == x + Power[k]
  <2>1. Power[k] \in Nat /\ k # 0 /\ k - 1 \in Nat /\ Power[k - 1] \in Nat /\ Power[k] = 2 * Power[k - 1]
    BY PowerIsEven
  <2>2. y \in Nat /\ y > 0 /\ (Odd(y) <=> Odd(x)) /\ y \div 2 = x \div 2 + Power[k - 1]
    BY <2>1 DEF Odd
  <2>3. /\ At(x, x) \in Position /\ At(x, x).fn = x /\ Halved(At(x, x)) = At(x \div 2, x \div 2)
        /\ At(y, y) \in Position /\ At(y, y).fn = y /\ Halved(At(y, y)) = At(y \div 2, y \div 2)
    <3> HIDE DEF y
    <3>1. \A z \in Nat : /\ At(z, z) \in Position /\ At(z, z).fn = z /\ At(z, z).sn = z
                        /\ Halved(At(z, z)) = At(z \div 2, z \div 2)
      BY PositionFields
    <3>2. QED
      BY <2>2, <3>1
  <2>4. /\ SkipLevels[At(x, x)] = IF Odd(x) THEN At(x, x) ELSE SkipLevels[At(x \div 2, x \div 2)]
        /\ SkipLevels[At(y, y)] = IF Odd(x) THEN At(y, y) ELSE SkipLevels[At(y \div 2, y \div 2)]
    <3>1. x # 0 /\ y # 0
      BY <2>2
    <3> HIDE DEF y
    <3>2. QED
      BY <2>2, <2>3, <3>1, SkipLevelsEquation
  <2>5. CASE Odd(x)
    BY <2>1, <2>4, <2>5
  <2>6. CASE ~Odd(x)
    <3>1. x \div 2 \in 0..(x - 1) /\ x \div 2 \in Nat /\ x \div 2 > 0 /\ x \div 2 < Power[k - 1]
      BY <2>1, <2>6 DEF Odd
    <3> HIDE DEF claim
    <3>2. claim(x \div 2, k - 1)
      BY <1>1, <2>1, <3>1
    <3>3. SkipLevels[At(x, x)] = SkipLevels[At(x \div 2, x \div 2)]
      BY <2>4, <2>6
    <3>4. SkipLevels[At(y, y)] = SkipLevels[At(x \div 2 + Power[k - 1], x \div 2 + Power[k - 1])]
      BY <2>2, <2>4, <2>6
    <3>5. QED
      BY <3>2, <3>3, <3>4 DEF claim
  <2>7. QED
    BY <2>5, <2>6
<1>2. G = Nat
  <2>1. G \in SUBSET Nat
    OBVIOUS
  <2> HIDE DEF G
  <2> QED BY <1>1, <2>1, StrongInduction
<1>3. QED
  BY <1>2

\* A complete tree is alone on every level but the last one.
LEMMA SkipPower ==
    ASSUME NEW i \in Nat
    PROVE  SkipLevels[At(Power[i], Power[i])] = At(1, 1)
<1> DEFINE G == {k \in Nat : SkipLevels[At(Power[k], Power[k])] = At(1, 1)}
<1>1. ASSUME NEW k \in Nat, \A j \in 0..(k - 1) : j \in G PROVE k \in G
  <2> DEFINE x == Power[k]
  <2>0. x \in Nat /\ x >= 1
    BY PowerIsEven
  <2>1. At(x, x) \in Position /\ At(x, x).fn = x /\ Halved(At(x, x)) = At(x \div 2, x \div 2)
    BY <2>0, PositionFields
  <2>2. SkipLevels[At(x, x)] = IF Odd(x) THEN At(x, x) ELSE SkipLevels[At(x \div 2, x \div 2)]
    BY <2>0, <2>1, SkipLevelsEquation
  <2>3. CASE k = 0
    <3>1. x = 1
      BY <2>3, PowerIsEven
    <3>2. Odd(1)
      BY DEF Odd
    <3>3. QED
      BY <2>2, <3>1, <3>2
  <2>4. CASE k # 0
    <3>1. k - 1 \in 0..(k - 1) /\ Power[k - 1] \in Nat /\ x = 2 * Power[k - 1]
      BY <2>4, PowerIsEven
    <3> HIDE DEF x
    <3>2. ~Odd(x) /\ x \div 2 = Power[k - 1]
      BY <3>1 DEF Odd
    <3>3. SkipLevels[At(Power[k - 1], Power[k - 1])] = At(1, 1)
      BY <1>1, <3>1
    <3>4. QED
      BY <2>2, <3>2, <3>3 DEF x
  <2>5. QED
    BY <2>3, <2>4
<1>2. G = Nat
  <2>1. G \in SUBSET Nat
    OBVIOUS
  <2> HIDE DEF G
  <2> QED BY <1>1, <2>1, StrongInduction
<1>3. QED
  BY <1>2

\* a is a position in the right half of a tree whose left half has Power[i] nodes on
\* the level, b the same position in that half alone.
Apart(a, b, i) ==
    /\ a = At(b.fn + Power[i], b.sn + Power[i])
    /\ b.fn <= b.sn /\ b.sn < Power[i]

\* a is a position in the left half of a tree, of Power[i] nodes on the level, b the
\* same position in that half alone.
Inside(a, b, i) ==
    /\ b = At(b.fn, Power[i] - 1) /\ a = At(b.fn, a.sn)
    /\ b.fn < Power[i] /\ Power[i] <= a.sn /\ a.sn < 2 * Power[i]

Top == At(0, 0)

\* What one climb does to the position.
LEMMA AboveEquation ==
    ASSUME NEW f \in Nat, NEW l \in Nat
    PROVE  /\ OnRight(At(f, l)) <=> f = l \/ Odd(f)
           /\ Odd(f) \/ f # l => Above(At(f, l)) = At(f \div 2, l \div 2)
           /\ f = l => Above(At(f, l)) = Halved(SkipLevels[At(f, l)])
<1>1. At(f, l) \in Position /\ At(f, l).fn = f /\ At(f, l).sn = l
  BY PositionFields
<1>2. OnRight(At(f, l)) <=> f = l \/ Odd(f)
  BY <1>1 DEF OnRight
<1>3. Above(At(f, l)) = Halved(IF OnRight(At(f, l)) THEN SkipLevels[At(f, l)] ELSE At(f, l))
  BY <1>1 DEF Above, At
<1>4. Odd(f) => SkipLevels[At(f, l)] = At(f, l)
  BY <1>1, SkipLevelsEquation
<1>5. Halved(At(f, l)) = At(f \div 2, l \div 2)
  BY <1>1, PositionFields
<1>6. QED
  BY <1>2, <1>3, <1>4, <1>5

\* The top of the tree is never left.
LEMMA AboveTop == OnRight(Top) /\ Above(Top) = Top
<1>1. 0 \in Nat /\ 0 \div 2 = 0 /\ Top.fn = 0 /\ Top \in Position /\ Top.sn = 0
  BY PositionFields DEF Top
<1>2. SkipLevels[Top] = Top
  BY <1>1, SkipLevelsEquation
<1>3. Halved(Top) = Top
  BY <1>1, PositionFields DEF Top
<1>4. QED
  BY <1>1, <1>2, <1>3, AboveEquation DEF Top

\* Climbing the left half alone and inside the tree is the same, up to its root; the
\* next climb is the last one, and from the left.
LEMMA InsideStep ==
    ASSUME NEW i \in Nat, NEW a \in Position, NEW b \in Position, Inside(a, b, i)
    PROVE  /\ i # 0 => /\ OnRight(a) <=> OnRight(b)
                       /\ Inside(Above(a), Above(b), i - 1)
                       /\ a.sn # 0 /\ b.sn # 0
           /\ i = 0 => ~OnRight(a) /\ Above(a) = Top /\ b = Top /\ a.sn # 0
<1> DEFINE f == b.fn
           l == a.sn
           P == Power[i]
<1>1. f \in Nat /\ l \in Nat /\ P \in Nat /\ P >= 1 /\ P - 1 \in Nat
  BY PositionFields, PowerIsEven
<1>2. b = At(f, P - 1) /\ a = At(f, l) /\ f < P /\ P <= l /\ l < 2 * P
  BY DEF Inside
<1> HIDE DEF f, l, P
<1>3. b.sn = P - 1 /\ l # 0 /\ f # l
  <2>1. At(f, P - 1).sn = P - 1
    BY <1>1, PositionFields
  <2>2. QED
    BY <1>1, <1>2, <2>1
<1>4. ASSUME i # 0
      PROVE (OnRight(a) <=> OnRight(b)) /\ Inside(Above(a), Above(b), i - 1) /\ P - 1 # 0
  <2> DEFINE Q == Power[i - 1]
  <2>1. Q \in Nat /\ P = 2 * Q
    BY <1>4, PowerIsEven DEF P
  <2> HIDE DEF Q
  <2>2. Odd(P - 1) /\ (P - 1) \div 2 = Q - 1 /\ P - 1 # 0
    BY <1>1, <2>1 DEF Odd
  <2>3. f = P - 1 \/ Odd(f) <=> Odd(f)
    BY <2>2
  <2>4. OnRight(b) <=> Odd(f)
    BY <1>1, <1>2, <2>3, AboveEquation
  <2>5. OnRight(a) <=> Odd(f)
    BY <1>1, <1>2, <1>3, AboveEquation
  <2>6. Above(a) = At(f \div 2, l \div 2)
    BY <1>1, <1>2, <1>3, AboveEquation
  <2>7. Above(b) = At(f \div 2, Q - 1)
    <3>1. Odd(f) \/ f # P - 1
      BY <2>2
    <3>2. Above(b) = At(f \div 2, (P - 1) \div 2)
      BY <1>1, <1>2, <3>1, AboveEquation
    <3>3. QED
      BY <2>2, <3>2
  <2>8. f \div 2 \in Nat /\ l \div 2 \in Nat /\ f \div 2 < Q /\ Q <= l \div 2 /\ l \div 2 < 2 * Q /\ Q - 1 \in Nat
    BY <1>1, <1>2, <2>1
  <2>9. /\ Above(b).fn = f \div 2 /\ Above(a).sn = l \div 2
    BY <2>6, <2>7, <2>8, PositionFields
  <2>10. Inside(Above(a), Above(b), i - 1)
    BY <2>6, <2>7, <2>8, <2>9 DEF Inside, Q
  <2>11. QED
    BY <2>2, <2>4, <2>5, <2>10
<1>5. ASSUME i = 0 PROVE ~OnRight(a) /\ Above(a) = Top /\ b = Top
  <2>1. P = 1
    BY <1>5, PowerIsEven DEF P
  <2>2. f = 0 /\ l = 1
    BY <1>1, <1>2, <2>1
  <2>3. ~Odd(0) /\ 0 \div 2 = 0 /\ 1 \div 2 = 0
    BY DEF Odd
  <2>4. QED
    BY <1>1, <1>2, <2>1, <2>2, <2>3, AboveEquation DEF Top
<1>6. QED
  BY <1>3, <1>4, <1>5 DEF l

\* Climbing the right half alone and in the tree is the same, up to its root; the next
\* climb is the last one, and from the right.
LEMMA ApartStep ==
    ASSUME NEW i \in Nat, NEW a \in Position, NEW b \in Position, Apart(a, b, i)
    PROVE  /\ OnRight(a) <=> OnRight(b)
           /\ a.sn # 0
           /\ b.sn # 0 => \E j \in Nat : Apart(Above(a), Above(b), j)
           /\ b.sn = 0 => OnRight(a) /\ Above(a) = Top /\ b = Top
<1> DEFINE f == b.fn
           l == b.sn
           P == Power[i]
<1>1. f \in Nat /\ l \in Nat /\ P \in Nat /\ P >= 1 /\ b = At(f, l)
  BY PositionFields, PowerIsEven
<1>2. a = At(f + P, l + P) /\ f <= l /\ l < P
  BY DEF Apart
<1>3. f + P \in Nat /\ l + P \in Nat /\ l + P # 0 /\ (f + P = l + P <=> f = l)
  BY <1>1
<1>4. a.sn = l + P
  BY <1>2, <1>3, PositionFields
<1> HIDE DEF f, l, P
<1>5. ASSUME l # 0
      PROVE  (OnRight(a) <=> OnRight(b)) /\ \E j \in Nat : Apart(Above(a), Above(b), j)
  <2> DEFINE Q == Power[i - 1]
  <2>0. i - 1 \in Nat /\ Q \in Nat /\ P = 2 * Q
    <3>1. i # 0
      BY <1>1, <1>2, <1>5, PowerIsEven DEF P
    <3>2. QED
      BY <3>1, PowerIsEven DEF P
  <2> HIDE DEF Q
  <2>1. /\ Odd(f + P) <=> Odd(f)
        /\ (f + P) \div 2 = f \div 2 + Q /\ (l + P) \div 2 = l \div 2 + Q
        /\ f \div 2 <= l \div 2 /\ l \div 2 < Q /\ f \div 2 \in Nat /\ l \div 2 \in Nat
    BY <1>1, <1>2, <2>0 DEF Odd
  <2>2. OnRight(a) <=> OnRight(b)
    BY <1>1, <1>2, <1>3, <2>1, AboveEquation
  <2>3. CASE Odd(f) \/ f # l
    <3>1. Above(b) = At(f \div 2, l \div 2) /\ Above(a) = At(f \div 2 + Q, l \div 2 + Q)
      BY <1>1, <1>2, <1>3, <2>1, <2>3, AboveEquation
    <3>2. Above(b).fn = f \div 2 /\ Above(b).sn = l \div 2
      BY <2>1, <3>1, PositionFields
    <3>3. Apart(Above(a), Above(b), i - 1)
      BY <2>1, <3>1, <3>2 DEF Apart, Q
    <3>4. QED
      BY <2>0, <2>2, <3>3
  <2>4. CASE f = l
    <3>1. PICK g \in Nat, j \in Nat :
               /\ g < Power[j]
               /\ SkipLevels[At(f, f)] = At(g, g) /\ Odd(g) /\ j # 0
               /\ SkipLevels[At(f + P, f + P)] = At(g + Power[j], g + Power[j])
      <4>1. f > 0 /\ f < Power[i]
        BY <1>1, <1>2, <1>5, <2>4 DEF P
      <4>2. QED
        BY <1>1, <4>1, SkipApart DEF P
    <3>2. Above(b) = Halved(At(g, g)) /\ Above(a) = Halved(At(g + Power[j], g + Power[j]))
      BY <1>1, <1>2, <1>3, <2>4, <3>1, AboveEquation
    <3>3. j - 1 \in Nat /\ Power[j - 1] \in Nat /\ Power[j] = 2 * Power[j - 1] /\ Power[j] \in Nat
      BY <3>1, PowerIsEven
    <3>4. /\ g \div 2 \in Nat /\ g \div 2 < Power[j - 1] /\ g + Power[j] \in Nat
          /\ (g + Power[j]) \div 2 = g \div 2 + Power[j - 1]
      BY <3>1, <3>3
    <3>5. /\ Above(b) = At(g \div 2, g \div 2)
          /\ Above(a) = At(g \div 2 + Power[j - 1], g \div 2 + Power[j - 1])
      <4>1. \A z \in Nat : Halved(At(z, z)) = At(z \div 2, z \div 2)
        BY PositionFields
      <4>2. QED
        BY <3>2, <3>4, <4>1
    <3>6. Above(b).fn = g \div 2 /\ Above(b).sn = g \div 2
      BY <3>4, <3>5, PositionFields
    <3>7. Apart(Above(a), Above(b), j - 1)
      BY <3>4, <3>5, <3>6 DEF Apart
    <3>8. QED
      BY <2>2, <3>3, <3>7
  <2>5. QED
    BY <2>3, <2>4
<1>6. ASSUME l = 0
      PROVE  OnRight(a) /\ OnRight(b) /\ Above(a) = Top /\ b = Top
  <2>1. f = 0 /\ b = Top /\ a = At(P, P)
    BY <1>1, <1>2, <1>6 DEF Top
  <2>2. SkipLevels[At(P, P)] = At(1, 1)
    BY SkipPower DEF P
  <2>3. OnRight(a) /\ Above(a) = Halved(At(1, 1))
    BY <1>1, <2>1, <2>2, AboveEquation
  <2>4. 1 \in Nat /\ 1 \div 2 = 0
    OBVIOUS
  <2>5. At(1, 1) \in Position /\ At(1, 1).fn = 1 /\ At(1, 1).sn = 1
    BY <2>4, PositionFields
  <2>6. Halved(At(1, 1)) = Top
    BY <2>4, <2>5, PositionFields DEF Top
  <2>7. QED
    BY <2>1, <2>3, <2>6, AboveTop
<1>7. QED
  BY <1>3, <1>4, <1>5, <1>6 DEF l

\* f lists the positions that a walk from at passes.
RisesFrom(at, f) == f \in [Nat -> Position] /\ f[0] = at /\ \A k \in Nat : f[k + 1] = Above(f[k])

Rise(at) == CHOOSE f : RisesFrom(at, f)

\* There is such a list.
LEMMA RiseEquation ==
    ASSUME NEW at \in Position
    PROVE  RisesFrom(at, Rise(at))
<1> DEFINE B == {0}
           m == [k \in Nat |-> k]
           c == [k \in Nat |-> at]
           next == [k \in Nat |-> k - 1]
           op == [p \in Nat \X Position |-> Above(p[2])]
<1>1. Descends(Nat, Position, B, m, c, next, op)
  BY AboveOrdered DEF Descends
<1>2. \E f : Recursive(Nat, Position, B, c, next, op, f)
  <2> HIDE DEF B, m, c, next, op
  <2> QED BY <1>1, Recursion
<1>3. PICK f : Recursive(Nat, Position, B, c, next, op, f)
  BY <1>2
<1>4. f \in [Nat -> Position] /\ \A k \in Nat : f[k] = IF k \in B THEN c[k] ELSE op[<<k, f[next[k]]>>]
  BY <1>3 DEF Recursive
<1>5. f[0] = at
  BY <1>4
<1>6. ASSUME NEW k \in Nat PROVE f[k + 1] = Above(f[k])
  <2>1. k + 1 \in Nat /\ k + 1 \notin B /\ next[k + 1] = k
    OBVIOUS
  <2>2. f[k + 1] = op[<<k + 1, f[k]>>]
    BY <1>4, <2>1
  <2>3. <<k + 1, f[k]>> \in Nat \X Position
    BY <1>4
  <2>4. QED
    BY <2>2, <2>3
<1>7. RisesFrom(at, f)
  BY <1>4, <1>5, <1>6 DEF RisesFrom
<1>8. QED
  BY <1>7 DEF Rise

\* After l climbs the walk is at the top, and not before.
Reaches(at, l) == Rise(at)[l].sn = 0 /\ \A k \in 0..(l - 1) : Rise(at)[k].sn # 0

\* The walks in the left half and inside the tree.
LEMMA InsideRises ==
    ASSUME NEW i \in Nat, NEW a \in Position, NEW b \in Position, Inside(a, b, i)
    PROVE  /\ \A k \in 0..(i - 1) : OnRight(Rise(a)[k]) <=> OnRight(Rise(b)[k])
           /\ ~OnRight(Rise(a)[i])
           /\ \A k \in Nat : k > i => Rise(a)[k] = Top
           /\ Reaches(a, i + 1) /\ Reaches(b, i)
<1> DEFINE p == Rise(a)
           q == Rise(b)
<1>1. /\ p \in [Nat -> Position] /\ p[0] = a /\ \A k \in Nat : p[k + 1] = Above(p[k])
      /\ q \in [Nat -> Position] /\ q[0] = b /\ \A k \in Nat : q[k + 1] = Above(q[k])
  BY RiseEquation DEF RisesFrom
<1> HIDE DEF p, q
<1> DEFINE G == {k \in Nat : k <= i => Inside(p[k], q[k], i - k)}
<1>2. ASSUME NEW k \in Nat, \A j \in 0..(k - 1) : j \in G PROVE k \in G
  <2>1. CASE k = 0
    <3>1. i - k = i
      BY <2>1
    <3>2. QED
      BY <1>1, <2>1, <3>1
  <2>2. CASE k # 0
    <3> DEFINE j == k - 1
    <3>1. j \in Nat /\ j \in 0..(k - 1) /\ k = j + 1
      BY <2>2
    <3> HIDE DEF j
    <3>2. SUFFICES ASSUME k <= i PROVE Inside(p[k], q[k], i - k)
      OBVIOUS
    <3>3. Inside(p[j], q[j], i - j)
      BY <1>2, <3>1, <3>2
    <3>4. i - j \in Nat /\ i - j # 0 /\ (i - j) - 1 = i - k
      BY <3>1, <3>2
    <3>5. p[j] \in Position /\ q[j] \in Position /\ p[k] = Above(p[j]) /\ q[k] = Above(q[j])
      BY <1>1, <3>1
    <3>6. Inside(Above(p[j]), Above(q[j]), (i - j) - 1)
      BY <3>3, <3>4, <3>5, InsideStep
    <3>7. QED
      BY <3>4, <3>5, <3>6
  <2>3. QED
    BY <2>1, <2>2
<1>3. G = Nat
  <2>1. G \in SUBSET Nat
    OBVIOUS
  <2> HIDE DEF G
  <2> QED BY <1>2, <2>1, StrongInduction
<1>4. \A k \in 0..i : Inside(p[k], q[k], i - k) /\ i - k \in Nat /\ p[k] \in Position /\ q[k] \in Position
  BY <1>1, <1>3
<1>5. \A k \in 0..(i - 1) : /\ OnRight(p[k]) <=> OnRight(q[k])
                            /\ p[k].sn # 0 /\ q[k].sn # 0
  <2> TAKE k \in 0..(i - 1)
  <2>1. k \in 0..i /\ i - k # 0
    OBVIOUS
  <2>2. QED
    BY <1>4, <2>1, InsideStep
<1>6. ~OnRight(p[i]) /\ Above(p[i]) = Top /\ q[i] = Top /\ p[i].sn # 0
  <2>1. i \in 0..i /\ i - i = 0
    OBVIOUS
  <2>2. QED
    BY <1>4, <2>1, InsideStep
<1> DEFINE H == {k \in Nat : k > i => p[k] = Top}
<1>7. ASSUME NEW k \in Nat, \A j \in 0..(k - 1) : j \in H PROVE k \in H
  <2> SUFFICES ASSUME k > i PROVE p[k] = Top
    OBVIOUS
  <2> DEFINE j == k - 1
  <2>1. j \in Nat /\ j \in 0..(k - 1) /\ k = j + 1 /\ (j = i \/ j > i)
    OBVIOUS
  <2> HIDE DEF j
  <2>2. p[k] = Above(p[j])
    BY <1>1, <2>1
  <2>3. QED
    BY <1>6, <1>7, <2>1, <2>2, AboveTop
<1>8. H = Nat
  <2>1. H \in SUBSET Nat
    OBVIOUS
  <2> HIDE DEF H
  <2> QED BY <1>7, <2>1, StrongInduction
<1>9. \A k \in Nat : k > i => p[k] = Top
  BY <1>8
<1>10. Top.sn = 0
  BY PositionFields DEF Top
<1>11. p[i + 1].sn = 0 /\ q[i].sn = 0
  BY <1>6, <1>9, <1>10
<1>12. \A k \in 0..((i + 1) - 1) : p[k].sn # 0
  <2> TAKE k \in 0..((i + 1) - 1)
  <2>1. k \in 0..(i - 1) \/ k = i
    OBVIOUS
  <2>2. QED
    BY <1>5, <1>6, <2>1
<1>13. QED
  BY <1>5, <1>6, <1>9, <1>11, <1>12 DEF Reaches, p, q

\* The walks in the right half and in the tree.
LEMMA ApartRises ==
    ASSUME NEW i \in Nat, NEW a \in Position, NEW b \in Position, Apart(a, b, i), NEW k \in Nat
    PROVE  /\ OnRight(Rise(a)[k]) <=> OnRight(Rise(b)[k])
           /\ Rise(b)[k].sn = 0 => OnRight(Rise(a)[k]) /\ Rise(a)[k + 1].sn = 0
           /\ Rise(a)[k].sn = 0 => k # 0 /\ Rise(b)[k - 1].sn = 0
<1> DEFINE p == Rise(a)
           q == Rise(b)
           related(n) == \/ \E j \in Nat : Apart(p[n], q[n], j)
                         \/ p[n] = Top /\ q[n] = Top /\ n # 0 /\ q[n - 1].sn = 0
<1>1. /\ p \in [Nat -> Position] /\ p[0] = a /\ \A n \in Nat : p[n + 1] = Above(p[n])
      /\ q \in [Nat -> Position] /\ q[0] = b /\ \A n \in Nat : q[n + 1] = Above(q[n])
  BY RiseEquation DEF RisesFrom
<1>2. Top.sn = 0
  BY PositionFields DEF Top
<1> HIDE DEF p, q
<1> DEFINE G == {n \in Nat : related(n)}
<1>3. ASSUME NEW n \in Nat, \A x \in 0..(n - 1) : x \in G PROVE n \in G
  <2>1. CASE n = 0
    BY <1>1, <2>1
  <2>2. CASE n # 0
    <3> DEFINE x == n - 1
    <3>1. x \in Nat /\ x \in 0..(n - 1) /\ n = x + 1 /\ n - 1 = x
      BY <2>2
    <3> HIDE DEF x
    <3>2. p[x] \in Position /\ q[x] \in Position /\ p[n] = Above(p[x]) /\ q[n] = Above(q[x])
      BY <1>1, <3>1
    <3>3. related(x)
      BY <1>3, <3>1
    <3>4. CASE p[x] = Top /\ q[x] = Top
      BY <1>2, <2>2, <3>1, <3>2, <3>4, AboveTop
    <3>5. CASE \E j \in Nat : Apart(p[x], q[x], j)
      <4>1. PICK j \in Nat : Apart(p[x], q[x], j)
        BY <3>5
      <4>2. /\ q[x].sn # 0 => \E y \in Nat : Apart(Above(p[x]), Above(q[x]), y)
            /\ q[x].sn = 0 => Above(p[x]) = Top /\ q[x] = Top
        BY <3>2, <4>1, ApartStep
      <4>3. QED
        BY <2>2, <3>1, <3>2, <4>2, AboveTop
    <3>6. QED
      BY <3>3, <3>4, <3>5
  <2>3. QED
    BY <2>1, <2>2
<1>4. G = Nat
  <2>1. G \in SUBSET Nat
    OBVIOUS
  <2> HIDE DEF G
  <2> QED BY <1>3, <2>1, StrongInduction
<1>5. related(k) /\ p[k] \in Position /\ q[k] \in Position /\ p[k + 1] = Above(p[k])
  BY <1>1, <1>4
<1>6. CASE p[k] = Top /\ q[k] = Top /\ k # 0 /\ q[k - 1].sn = 0
  BY <1>2, <1>5, <1>6, AboveTop DEF p, q
<1>7. CASE \E j \in Nat : Apart(p[k], q[k], j)
  <2>1. PICK j \in Nat : Apart(p[k], q[k], j)
    BY <1>7
  <2>2. /\ OnRight(p[k]) <=> OnRight(q[k])
        /\ p[k].sn # 0
        /\ q[k].sn = 0 => OnRight(p[k]) /\ Above(p[k]) = Top
    BY <1>5, <2>1, ApartStep
  <2>3. QED
    BY <1>2, <1>5, <2>2 DEF p, q
<1>8. QED
  BY <1>5, <1>6, <1>7

\* The hashes that a walk from at computes out of a path.
Joins(at, path, n, r) ==
    \A k \in 1..n : r[k] = IF OnRight(Rise(at)[k - 1]) THEN NodeHash(path[k], r[k - 1])
                           ELSE NodeHash(r[k - 1], path[k])

\* A walk is its positions and its hashes.
LEMMA WalkRises ==
    ASSUME NEW leaf, NEW index \in Nat, NEW size \in Nat, size # 0,
           NEW path, NEW n \in Nat, DOMAIN path = 1..n
    PROVE  /\ Walk(leaf, index, size, path).fn = Rise(At(index, size - 1))[n].fn
           /\ Walk(leaf, index, size, path).sn = Rise(At(index, size - 1))[n].sn
           /\ \E r : /\ r[0] = leaf /\ r[n] = Walk(leaf, index, size, path).root
                     /\ Joins(At(index, size - 1), path, n, r)
<1> DEFINE at == At(index, size - 1)
           w == Walk(leaf, index, size, path)
<1>1. at \in Position /\ at.fn = index /\ at.sn = size - 1
  <2>1. size - 1 \in Nat
    OBVIOUS
  <2>2. QED
    BY <2>1, PositionFields
<1>2. Rise(at)[0] = at /\ \A k \in Nat : Rise(at)[k + 1] = Above(Rise(at)[k])
  BY <1>1, RiseEquation DEF RisesFrom
<1>3. PICK h : Climbs(leaf, index, size, path, n, h)
  BY WalkEquation
<1>4. /\ w = h[n]
      /\ h[0] = [fn |-> index, sn |-> size - 1, root |-> leaf]
      /\ \A k \in 1..n : h[k] = Climb(h[k - 1], path[k])
  BY <1>3 DEF Climbs
<1> HIDE DEF at, w
<1> DEFINE same(k) == h[k].fn = Rise(at)[k].fn /\ h[k].sn = Rise(at)[k].sn
           G == {k \in Nat : k <= n => same(k)}
<1>5. ASSUME NEW x, NEW y, x.fn = y.fn, x.sn = y.sn
      PROVE  (OnRight(x) <=> OnRight(y)) /\ Above(x) = Above(y)
  <2>1. OnRight(x) <=> OnRight(y)
    BY <1>5 DEF OnRight
  <2>2. QED
    BY <1>5, <2>1 DEF Above
<1>6. ASSUME NEW x, NEW y
      PROVE  /\ Climb(x, y).fn = Above(x).fn /\ Climb(x, y).sn = Above(x).sn
             /\ Climb(x, y).root = IF OnRight(x) THEN NodeHash(y, x.root) ELSE NodeHash(x.root, y)
  <2> DEFINE above == Above(x)
             joined == IF OnRight(x) THEN NodeHash(y, x.root) ELSE NodeHash(x.root, y)
  <2>1. Climb(x, y) = [fn |-> above.fn, sn |-> above.sn, root |-> joined]
    BY Zenon DEF Climb
  <2> HIDE DEF above, joined
  <2>2. Climb(x, y).fn = above.fn /\ Climb(x, y).sn = above.sn /\ Climb(x, y).root = joined
    BY <2>1
  <2>3. QED
    BY <2>2, Zenon DEF above, joined
<1>7. ASSUME NEW k \in Nat, \A j \in 0..(k - 1) : j \in G PROVE k \in G
  <2> SUFFICES ASSUME k <= n PROVE same(k)
    OBVIOUS
  <2>1. CASE k = 0
    <3>1. h[0].fn = index /\ h[0].sn = size - 1
      BY <1>4
    <3>2. Rise(at)[0].fn = index /\ Rise(at)[0].sn = size - 1
      BY <1>1, <1>2 DEF at
    <3>3. QED
      BY <2>1, <3>1, <3>2
  <2>2. CASE k # 0
    <3> DEFINE j == k - 1
    <3>1. j \in Nat /\ j \in 0..(k - 1) /\ k = j + 1 /\ k - 1 = j /\ k \in 1..n /\ j <= n
      BY <2>2
    <3> HIDE DEF j
    <3>2. same(j)
      BY <1>7, <3>1
    <3>3. h[k] = Climb(h[j], path[k]) /\ Rise(at)[k] = Above(Rise(at)[j])
      BY <1>2, <1>4, <3>1
    <3>4. Above(h[j]) = Above(Rise(at)[j])
      BY <1>5, <3>2
    <3>5. h[k].fn = Above(h[j]).fn /\ h[k].sn = Above(h[j]).sn
      BY <1>6, <3>3
    <3>6. QED
      BY <3>3, <3>4, <3>5
  <2>3. QED
    BY <2>1, <2>2
<1>8. G = Nat
  <2>1. G \in SUBSET Nat
    OBVIOUS
  <2> HIDE DEF G
  <2> QED BY <1>7, <2>1, StrongInduction
<1>9. \A k \in 0..n : same(k)
  BY <1>8
<1> DEFINE r == [k \in 0..n |-> h[k].root]
<1>10. r[0] = leaf /\ r[n] = w.root
  BY <1>4
<1>11. ASSUME NEW k \in 1..n
       PROVE  r[k] = IF OnRight(Rise(at)[k - 1]) THEN NodeHash(path[k], r[k - 1])
                     ELSE NodeHash(r[k - 1], path[k])
  <2>1. k - 1 \in 0..n /\ k \in 0..n
    OBVIOUS
  <2>2. same(k - 1)
    BY <1>9, <2>1
  <2>3. OnRight(h[k - 1]) <=> OnRight(Rise(at)[k - 1])
    BY <1>5, <2>2
  <2>4. r[k] = h[k].root /\ r[k - 1] = h[k - 1].root /\ h[k] = Climb(h[k - 1], path[k])
    BY <1>4, <2>1
  <2> HIDE DEF r
  <2>5. QED
    BY <1>6, <2>3, <2>4
<1> HIDE DEF r
<1>12. Joins(at, path, n, r)
  BY <1>11 DEF Joins
<1>13. w.fn = Rise(at)[n].fn /\ w.sn = Rise(at)[n].sn
  BY <1>4, <1>9
<1>14. QED
  BY <1>10, <1>12, <1>13 DEF at, w

-----------------------------------------------------------------------------
(* Inclusion proofs. *)

\* Each hash is joined with another one into the next.
Chain(r, n) == \A k \in 1..n : \E p : r[k] = <<p, r[k - 1]>> \/ r[k] = <<r[k - 1], p>>

\* A walk that ends at the root of a tree is no longer than the tree is deep.
LEMMA Depth ==
    ASSUME NEW d \in Nat, NEW s \in Seq(Hashes), Len(s) >= 1, Len(s) <= Power[d],
           NEW n \in Nat, NEW r, r[n] = MerkleRoot[s], Chain(r, n)
    PROVE  n <= d
<1> DEFINE chain(j) == Chain(r, j)
           G == {x \in Nat : \A t \in Seq(Hashes) : \A j \in Nat :
                    Len(t) >= 1 /\ Len(t) <= Power[x] /\ r[j] = MerkleRoot[t] /\ chain(j) => j <= x}
<1>1. ASSUME NEW x \in Nat, \A y \in 0..(x - 1) : y \in G PROVE x \in G
  <2> SUFFICES ASSUME NEW t \in Seq(Hashes), NEW j \in Nat, j # 0,
                      Len(t) >= 1, Len(t) <= Power[x], r[j] = MerkleRoot[t], chain(j)
               PROVE  j <= x
    OBVIOUS
  <2>1. PICK p : r[j] = <<p, r[j - 1]>> \/ r[j] = <<r[j - 1], p>>
    <3>1. j \in 1..j
      OBVIOUS
    <3>2. QED
      BY <3>1 DEF Chain
  <2>2. Len(t) \in Nat /\ Len(t) > 1
    <3>1. \A x1, x2 : Len(<<x1, x2>>) = 2
      OBVIOUS
    <3>2. Len(MerkleRoot[t]) = 2
      <4>1. \E x1, x2 : MerkleRoot[t] = <<x1, x2>>
        BY <2>1
      <4>2. QED
        BY <3>1, <4>1, Zenon
    <3>3. Len(t) # 1
      <4>1. 2 # 1
        OBVIOUS
      <4>2. QED
        BY <3>2, <4>1, RootKinds, Zenon
    <3>4. QED
      BY <3>3, Lengths
  <2>3. r[j - 1] = MerkleRoot[Left(t)] \/ r[j - 1] = MerkleRoot[Right(t)]
    <3>1. MerkleRoot[t] = <<MerkleRoot[Left(t)], MerkleRoot[Right(t)]>>
      BY <2>2, RootOfTree
    <3>2. QED
      BY <2>1, <3>1
  <2>4. PICK i \in Nat : Split(Len(t)) = Power[i] /\ Power[i] < Len(t) /\ Len(t) <= 2 * Power[i]
    BY <2>2, SplitIsPower
  <2>5. i < x
    <3>1. x < i => 2 * Power[x] <= Power[i]
      BY PowersGrow
    <3>2. Power[i] \in Nat /\ Power[x] \in Nat
      BY PowerEquation
    <3>3. QED
      BY <2>2, <2>4, <3>1, <3>2
  <2>6. i \in 0..(x - 1) /\ i \in G /\ j - 1 \in Nat
    BY <1>1, <2>5
  <2>7. /\ Left(t) \in Seq(Hashes) /\ Len(Left(t)) >= 1 /\ Len(Left(t)) <= Power[i]
        /\ Right(t) \in Seq(Hashes) /\ Len(Right(t)) >= 1 /\ Len(Right(t)) <= Power[i]
    <3>1. /\ Left(t) \in Seq(Hashes) /\ Right(t) \in Seq(Hashes)
          /\ Len(Left(t)) = Power[i] /\ Len(Right(t)) = Len(t) - Power[i]
          /\ Len(Right(t)) \in 1..(Len(t) - 1)
      BY <2>2, <2>4, Halves
    <3>2. Power[i] \in Nat /\ Power[i] >= 1
      BY PowerIsEven
    <3>3. QED
      BY <2>2, <2>4, <3>1, <3>2
  <2>8. chain(j - 1)
    <3>1. \A k \in 1..(j - 1) : k \in 1..j
      OBVIOUS
    <3>2. QED
      BY <3>1 DEF Chain
  <2> HIDE DEF chain
  <2>9. j - 1 <= i
    BY <2>3, <2>6, <2>7, <2>8
  <2>10. QED
    BY <2>5, <2>9
<1>2. G = Nat
  <2>1. G \in SUBSET Nat
    OBVIOUS
  <2> HIDE DEF G
  <2> QED BY <1>1, <2>1, StrongInduction
<1>3. QED
  BY <1>2

Roots == {MerkleRoot[s] : s \in Seq(Hashes)}

\* Inclusion paths by their equation, and their elements.
LEMMA InclusionPathEquation ==
    \A s \in Seq(Hashes) : \A m \in Nat :
        /\ Len(s) <= 1 => InclusionPath[s][m] = <<>>
        /\ Len(s) > 1 /\ m < Split(Len(s)) =>
              InclusionPath[s][m] = Append(InclusionPath[Left(s)][m], MerkleRoot[Right(s)])
        /\ Len(s) > 1 /\ m >= Split(Len(s)) =>
              InclusionPath[s][m]
                  = Append(InclusionPath[Right(s)][m - Split(Len(s))], MerkleRoot[Left(s)])
<1> DEFINE S == Seq(Hashes) \X Nat
           V == Seq(Roots)
           B == {x \in S : Len(x[1]) <= 1}
           z == [x \in S |-> Len(x[1])]
           c == [x \in S |-> <<>>]
           k(x) == Split(Len(x[1]))
           next == [x \in S |-> IF x[2] < k(x) THEN <<Left(x[1]), x[2]>>
                                ELSE <<Right(x[1]), x[2] - k(x)>>]
           last(x) == IF x[2] < k(x) THEN MerkleRoot[Right(x[1])] ELSE MerkleRoot[Left(x[1])]
           op == [y \in S \X V |-> IF y[1] \in B THEN y[2] ELSE Append(y[2], last(y[1]))]
<1>0. ASSUME NEW x \in S
      PROVE  /\ Len(x[1]) \in Nat /\ x[1] \in Seq(Hashes) /\ x[2] \in Nat
             /\ x \notin B => /\ Left(x[1]) \in Seq(Hashes) /\ Right(x[1]) \in Seq(Hashes)
                            /\ Len(Left(x[1])) < Len(x[1]) /\ Len(Right(x[1])) < Len(x[1])
                            /\ k(x) \in Nat
  <2>1. x[1] \in Seq(Hashes) /\ x[2] \in Nat /\ Len(x[1]) \in Nat
    OBVIOUS
  <2>2. ASSUME x \notin B
        PROVE  /\ Left(x[1]) \in Seq(Hashes) /\ Right(x[1]) \in Seq(Hashes)
               /\ Len(Left(x[1])) < Len(x[1]) /\ Len(Right(x[1])) < Len(x[1])
               /\ k(x) \in Nat
    <3>1. Len(x[1]) > 1
      BY <2>1, <2>2
    <3>2. /\ Left(x[1]) \in Seq(Hashes) /\ Right(x[1]) \in Seq(Hashes)
          /\ Len(Left(x[1])) \in 1..(Len(x[1]) - 1) /\ Len(Right(x[1])) \in 1..(Len(x[1]) - 1)
      BY <2>1, <3>1, Halves
    <3>3. Split(Len(x[1])) \in 1..(Len(x[1]) - 1)
      BY <2>1, <3>1, SplitWithin
    <3>4. QED
      BY <2>1, <3>2, <3>3
  <2>3. QED
    BY <2>1, <2>2
<1>1. Descends(S, V, B, z, c, next, op)
  <2>1. \A x \in S : z[x] \in Nat
    BY <1>0
  <2>2. \A x \in S : x \in B => c[x] \in V
    OBVIOUS
  <2>3. ASSUME NEW x \in S, x \notin B PROVE next[x] \in S /\ z[next[x]] < z[x]
    <3>1. CASE x[2] < k(x)
      <4>1. next[x] = <<Left(x[1]), x[2]>> /\ next[x] \in S
        BY <1>0, <2>3, <3>1
      <4>2. QED
        BY <1>0, <2>3, <4>1
    <3>2. CASE ~(x[2] < k(x))
      <4>1. x[2] - k(x) \in Nat
        BY <1>0, <2>3, <3>2
      <4>2. next[x] = <<Right(x[1]), x[2] - k(x)>> /\ next[x] \in S
        BY <1>0, <2>3, <3>2, <4>1
      <4>3. QED
        BY <1>0, <2>3, <4>2
    <3>3. QED
      BY <3>1, <3>2
  <2>4. ASSUME NEW x \in S, NEW v \in V PROVE op[<<x, v>>] \in V
    <3>1. op[<<x, v>>] = IF x \in B THEN v ELSE Append(v, last(x))
      BY Zenon
    <3>2. x \notin B => last(x) \in Roots
      BY <1>0 DEF Roots
    <3> HIDE DEF last, op
    <3>3. QED
      BY <3>1, <3>2
  <2> HIDE DEF S, V, B, z, c, next, op
  <2>5. QED
    BY <2>1, <2>2, <2>3, <2>4 DEF Descends
<1>2. \E f : Recursive(S, V, B, c, next, op, f)
  <2> HIDE DEF S, V, B, z, c, next, op
  <2> QED BY <1>1, Recursion
<1>3. PICK f : Recursive(S, V, B, c, next, op, f)
  BY <1>2
<1>4. f \in [S -> V] /\ \A x \in S : f[x] = IF x \in B THEN c[x] ELSE op[<<x, f[next[x]]>>]
  BY <1>3 DEF Recursive
<1> DEFINE F == [s \in Seq(Hashes) |-> [m \in Nat |-> f[<<s, m>>]]]
           step(g, s, m) ==
             IF Len(s) <= 1 THEN <<>>
             ELSE IF m < Split(Len(s)) THEN Append(g[Left(s)][m], MerkleRoot[Right(s)])
             ELSE Append(g[Right(s)][m - Split(Len(s))], MerkleRoot[Left(s)])
<1>5. \A s \in Seq(Hashes) : \A m \in Nat : F[s][m] = f[<<s, m>>]
  OBVIOUS
<1>6. ASSUME NEW s \in Seq(Hashes), NEW m \in Nat PROVE F[s][m] = step(F, s, m)
  <2> DEFINE x == <<s, m>>
  <2>1. x \in S /\ x[1] = s /\ x[2] = m
    OBVIOUS
  <2>2. CASE Len(s) <= 1
    <3>1. f[x] = <<>>
      BY <1>4, <2>1, <2>2
    <3>2. QED
      BY <2>2, <3>1
  <2>3. CASE ~(Len(s) <= 1)
    <3>1. x \notin B
      BY <2>3
    <3>2. Left(s) \in Seq(Hashes) /\ Right(s) \in Seq(Hashes) /\ Split(Len(s)) \in Nat
      <4> HIDE DEF S, B
      <4> QED BY <1>0, <2>1, <3>1
    <3>3. f[x] = op[<<x, f[next[x]]>>] /\ next[x] \in S /\ f[next[x]] \in V
      <4>1. next[x] \in S
        BY <1>1, <3>1, <2>1 DEF Descends
      <4> HIDE DEF S, V, B, c, next, op, x
      <4>2. QED
        BY <1>4, <2>1, <3>1, <4>1
    <3>4. f[x] = Append(f[next[x]], last(x))
      <4>1. <<x, f[next[x]]>> \in S \X V
        BY <2>1, <3>3
      <4> HIDE DEF S, V, B, next, last, x
      <4>2. QED
        BY <3>1, <3>3, <4>1
    <3>5. CASE m < Split(Len(s))
      <4>1. next[x] = <<Left(s), m>> /\ last(x) = MerkleRoot[Right(s)]
        BY <2>1, <3>5
      <4>2. f[next[x]] = F[Left(s)][m]
        BY <1>5, <3>2, <4>1
      <4> HIDE DEF F, next, last
      <4>3. QED
        BY <1>5, <2>3, <3>4, <3>5, <4>1, <4>2
    <3>6. CASE ~(m < Split(Len(s)))
      <4>1. next[x] = <<Right(s), m - Split(Len(s))>> /\ last(x) = MerkleRoot[Left(s)]
        BY <2>1, <3>6
      <4>2. m - Split(Len(s)) \in Nat
        BY <3>2, <3>6
      <4>3. f[next[x]] = F[Right(s)][m - Split(Len(s))]
        BY <1>5, <3>2, <4>1, <4>2
      <4> HIDE DEF F, next, last
      <4>4. QED
        BY <1>5, <2>3, <3>4, <3>6, <4>1, <4>3
    <3>7. QED
      BY <3>5, <3>6
  <2>4. QED
    BY <2>2, <2>3
<1>7. \A s \in Seq(Hashes) : F[s] = [m \in Nat |-> step(F, s, m)]
  <2> TAKE s \in Seq(Hashes)
  <2>1. F[s] = [m \in Nat |-> F[s][m]]
    OBVIOUS
  <2> HIDE DEF F, step
  <2>2. QED
    BY <1>6, <2>1
<1>8. F = [s \in Seq(Hashes) |-> [m \in Nat |-> step(F, s, m)]]
  <2>1. F = [s \in Seq(Hashes) |-> F[s]]
    OBVIOUS
  <2> HIDE DEF F, step
  <2>2. QED
    BY <1>7, <2>1
<1> HIDE DEF F
<1>9. \E g : g = [s \in Seq(Hashes) |-> [m \in Nat |-> step(g, s, m)]]
  <2> HIDE DEF step
  <2> QED BY <1>8
<1>10. InclusionPath = [s \in Seq(Hashes) |-> [m \in Nat |-> step(InclusionPath, s, m)]]
  BY <1>9, Zenon DEF InclusionPath
<1>11. \A s \in Seq(Hashes) : \A m \in Nat : InclusionPath[s][m] = step(InclusionPath, s, m)
  <2> DEFINE row(s) == [m \in Nat |-> step(InclusionPath, s, m)]
  <2> HIDE DEF step
  <2>1. \A s : \A m \in Nat : row(s)[m] = step(InclusionPath, s, m)
    OBVIOUS
  <2>2. InclusionPath = [s \in Seq(Hashes) |-> row(s)]
    BY <1>10
  <2> HIDE DEF row
  <2>3. \A s \in Seq(Hashes) : InclusionPath[s] = row(s)
    BY <2>2
  <2>4. QED
    BY <2>1, <2>3
<1>12. QED
  <2> TAKE s \in Seq(Hashes)
  <2> TAKE m \in Nat
  <2>1. InclusionPath[s][m] = step(InclusionPath, s, m)
    BY <1>11
  <2>2. Len(s) \in Nat /\ (Len(s) > 1 => Split(Len(s)) \in Nat)
    BY Lengths, SplitWithin
  <2>3. CASE Len(s) <= 1
    BY <2>1, <2>2, <2>3
  <2>4. CASE Len(s) > 1
    <3> DEFINE half == Split(Len(s))
               n == Len(s)
    <3>1. ~(n <= 1) /\ half \in Nat
      BY <2>2, <2>4
    <3>2. ASSUME m < half PROVE step(InclusionPath, s, m) = Append(InclusionPath[Left(s)][m], MerkleRoot[Right(s)])
      BY <3>1, <3>2, Zenon
    <3>3. ASSUME ~(m < half)
          PROVE  step(InclusionPath, s, m) = Append(InclusionPath[Right(s)][m - half], MerkleRoot[Left(s)])
      BY <3>1, <3>3, Zenon
    <3> HIDE DEF step, half
    <3>4. m >= half => ~(m < half)
      BY <3>1
    <3>5. QED
      BY <2>1, <3>1, <3>2, <3>3, <3>4 DEF half
  <2>5. QED
    BY <2>2, <2>3, <2>4
\* The elements of a path are roots of trees.
LEMMA PathType ==
    \A s \in Seq(Hashes) : \A m \in Nat : InclusionPath[s][m] \in Seq(Roots)
<1> DEFINE G == {n \in Nat : \A s \in Seq(Hashes) : \A m \in Nat :
                                Len(s) = n => InclusionPath[s][m] \in Seq(Roots)}
<1>1. ASSUME NEW n \in Nat, \A k \in 0..(n - 1) : k \in G PROVE n \in G
  <2> SUFFICES ASSUME NEW s \in Seq(Hashes), NEW m \in Nat, Len(s) = n
               PROVE  InclusionPath[s][m] \in Seq(Roots)
    OBVIOUS
  <2>1. CASE n <= 1
    <3>1. InclusionPath[s][m] = <<>>
      BY <2>1, InclusionPathEquation
    <3>2. QED
      BY <3>1
  <2>2. CASE n > 1
    <3> DEFINE half == Split(n)
    <3>1. /\ Left(s) \in Seq(Hashes) /\ Right(s) \in Seq(Hashes)
          /\ Len(Left(s)) \in 0..(n - 1) /\ Len(Right(s)) \in 0..(n - 1)
      BY <2>2, Halves
    <3>2. MerkleRoot[Left(s)] \in Roots /\ MerkleRoot[Right(s)] \in Roots
      BY <3>1 DEF Roots
    <3>3. half \in Nat
      BY <2>2, SplitWithin
    <3> HIDE DEF half
    <3>4. \A t \in {Left(s), Right(s)} : \A k \in Nat : InclusionPath[t][k] \in Seq(Roots)
      BY <1>1, <3>1
    <3>5. CASE m < half
      <4>1. InclusionPath[s][m] = Append(InclusionPath[Left(s)][m], MerkleRoot[Right(s)])
        BY <2>2, <3>5, InclusionPathEquation DEF half
      <4>2. QED
        BY <3>2, <3>4, <4>1
    <3>6. CASE m >= half
      <4>1. InclusionPath[s][m] = Append(InclusionPath[Right(s)][m - half], MerkleRoot[Left(s)])
        BY <2>2, <3>6, InclusionPathEquation DEF half
      <4>2. m - half \in Nat
        BY <3>3, <3>6
      <4>3. QED
        BY <3>2, <3>4, <4>1, <4>2
    <3>7. QED
      BY <3>3, <3>5, <3>6
  <2>3. QED
    BY <2>1, <2>2
<1>2. G = Nat
  <2>1. G \in SUBSET Nat
    OBVIOUS
  <2> HIDE DEF G
  <2> QED BY <1>1, <2>1, StrongInduction
<1>3. QED
  BY <1>2, Lengths

\* A path of a tree is a path of one half and the root of the other one.
LEMMA PathOfHalf ==
    ASSUME NEW s \in Seq(Hashes), Len(s) > 1, NEW m \in Nat
    PROVE  \E p \in Seq(Roots) : \E x \in Roots :
              /\ m < Split(Len(s)) => p = InclusionPath[Left(s)][m] /\ x = MerkleRoot[Right(s)]
              /\ m >= Split(Len(s)) => /\ p = InclusionPath[Right(s)][m - Split(Len(s))]
                                       /\ x = MerkleRoot[Left(s)]
              /\ Len(p) \in Nat /\ Len(InclusionPath[s][m]) = Len(p) + 1
              /\ \A k \in 1..Len(p) : InclusionPath[s][m][k] = p[k]
              /\ InclusionPath[s][m][Len(p) + 1] = x
<1> DEFINE half == Split(Len(s))
<1>1. Left(s) \in Seq(Hashes) /\ Right(s) \in Seq(Hashes) /\ half \in Nat
  BY Halves, SplitWithin, Lengths
<1> HIDE DEF half
<1>2. MerkleRoot[Left(s)] \in Roots /\ MerkleRoot[Right(s)] \in Roots
  BY <1>1 DEF Roots
<1>3. \E p \in Seq(Roots) : \E x \in Roots :
              /\ m < half => p = InclusionPath[Left(s)][m] /\ x = MerkleRoot[Right(s)]
              /\ m >= half => p = InclusionPath[Right(s)][m - half] /\ x = MerkleRoot[Left(s)]
              /\ InclusionPath[s][m] = Append(p, x)
  <2>1. CASE m < half
    <3>1. InclusionPath[s][m] = Append(InclusionPath[Left(s)][m], MerkleRoot[Right(s)])
      BY <2>1, InclusionPathEquation DEF half
    <3>2. InclusionPath[Left(s)][m] \in Seq(Roots)
      BY <1>1, PathType
    <3>3. ~(m >= half)
      BY <1>1, <2>1
    <3>4. QED
      BY <1>2, <3>1, <3>2, <3>3
  <2>2. CASE m >= half
    <3>1. InclusionPath[s][m] = Append(InclusionPath[Right(s)][m - half], MerkleRoot[Left(s)])
      BY <2>2, InclusionPathEquation DEF half
    <3>2. m - half \in Nat
      BY <1>1, <2>2
    <3>3. InclusionPath[Right(s)][m - half] \in Seq(Roots)
      BY <1>1, <3>2, PathType
    <3>4. ~(m < half)
      BY <1>1, <2>2
    <3>5. QED
      BY <1>2, <3>1, <3>3, <3>4
  <2>3. QED
    BY <1>1, <2>1, <2>2
<1>4. PICK p \in Seq(Roots), x \in Roots :
              /\ m < half => p = InclusionPath[Left(s)][m] /\ x = MerkleRoot[Right(s)]
              /\ m >= half => p = InclusionPath[Right(s)][m - half] /\ x = MerkleRoot[Left(s)]
              /\ InclusionPath[s][m] = Append(p, x)
  BY <1>3
<1>5. /\ Len(p) \in Nat /\ Len(Append(p, x)) = Len(p) + 1
      /\ \A k \in 1..Len(p) : Append(p, x)[k] = p[k]
      /\ Append(p, x)[Len(p) + 1] = x
  BY AppendProperties
<1>6. QED
  BY <1>4, <1>5 DEF half

\* Where a leaf is in its half of the tree.
LEMMA HalfPositions ==
    ASSUME NEW n \in Nat, n > 1, NEW m \in Nat, m < n
    PROVE  \E d \in Nat :
              /\ Split(n) = Power[d] /\ Power[d] \in Nat /\ n <= 2 * Power[d]
              /\ At(m, n - 1) \in Position /\ At(m, n - 1).sn = n - 1
              /\ m < Split(n) => /\ At(m, Split(n) - 1) \in Position
                                 /\ Inside(At(m, n - 1), At(m, Split(n) - 1), d)
              /\ m >= Split(n) => /\ At(m - Split(n), n - Split(n) - 1) \in Position
                                  /\ Apart(At(m, n - 1), At(m - Split(n), n - Split(n) - 1), d)
<1>1. PICK d \in Nat : Split(n) = Power[d] /\ Power[d] < n /\ n <= 2 * Power[d]
  BY SplitIsPower
<1> DEFINE half == Split(n)
<1>2. half = Power[d] /\ half \in Nat /\ half < n /\ n <= 2 * half /\ half >= 1
  BY <1>1, PowerIsEven
<1> HIDE DEF half
<1>3. n - 1 \in Nat /\ half - 1 \in Nat
  BY <1>2
<1>4. At(m, n - 1) \in Position /\ At(m, n - 1).sn = n - 1 /\ At(m, n - 1).fn = m
  BY <1>3, PositionFields
<1>5. ASSUME m < half PROVE At(m, half - 1) \in Position /\ Inside(At(m, n - 1), At(m, half - 1), d)
  <2>1. At(m, half - 1) \in Position /\ At(m, half - 1).fn = m
    BY <1>3, PositionFields
  <2>2. QED
    BY <1>2, <1>4, <1>5, <2>1 DEF Inside
<1>6. ASSUME m >= half
      PROVE  /\ At(m - half, n - half - 1) \in Position
             /\ Apart(At(m, n - 1), At(m - half, n - half - 1), d)
  <2> DEFINE f == m - half
             l == n - half - 1
  <2>1. f \in Nat /\ l \in Nat /\ f + half = m /\ l + half = n - 1 /\ f <= l /\ l < half
    BY <1>2, <1>6
  <2> HIDE DEF f, l
  <2>2. At(f, l) \in Position /\ At(f, l).fn = f /\ At(f, l).sn = l
    BY <2>1, PositionFields
  <2>3. Apart(At(m, n - 1), At(f, l), d)
    BY <1>2, <2>1, <2>2 DEF Apart
  <2>4. QED
    BY <2>2, <2>3 DEF f, l
<1>7. QED
  BY <1>1, <1>2, <1>4, <1>5, <1>6 DEF half

\* There is one number of climbs to the top.
LEMMA ReachesOnce ==
    ASSUME NEW at, NEW j \in Nat, NEW l \in Nat, Reaches(at, j), Reaches(at, l)
    PROVE  j = l
<1>1. /\ Rise(at)[j].sn = 0 /\ \A k \in 0..(j - 1) : Rise(at)[k].sn # 0
      /\ Rise(at)[l].sn = 0 /\ \A k \in 0..(l - 1) : Rise(at)[k].sn # 0
  BY DEF Reaches
<1>2. j < l => j \in 0..(l - 1)
  OBVIOUS
<1>3. l < j => l \in 0..(j - 1)
  OBVIOUS
<1>4. QED
  BY <1>1, <1>2, <1>3

\* A path has as many elements as there are climbs from its leaf to the top.
LEMMA PathReaches ==
    ASSUME NEW s \in Seq(Hashes), NEW m \in Nat, m < Len(s)
    PROVE  /\ Reaches(At(m, Len(s) - 1), Len(InclusionPath[s][m]))
           /\ Len(InclusionPath[s][m]) \in Nat
<1> DEFINE size(p) == Len(p)
           G == {n \in Nat : \A t \in Seq(Hashes) : \A x \in Nat : Len(t) = n /\ x < n =>
                                Reaches(At(x, n - 1), Len(InclusionPath[t][x]))}
<1>1. ASSUME NEW n \in Nat, \A k \in 0..(n - 1) : k \in G PROVE n \in G
  <2> SUFFICES ASSUME NEW t \in Seq(Hashes), NEW x \in Nat, Len(t) = n, x < n
               PROVE  Reaches(At(x, n - 1), Len(InclusionPath[t][x]))
    OBVIOUS
  <2>1. CASE n <= 1
    <3>1. n = 1 /\ x = 0 /\ n - 1 = 0
      BY <2>1
    <3>2. InclusionPath[t][x] = <<>> /\ Len(InclusionPath[t][x]) = 0
      BY <2>1, InclusionPathEquation, EmptySeq
    <3>3. At(0, 0) \in Position /\ At(0, 0).sn = 0
      BY PositionFields
    <3>4. Rise(At(0, 0))[0] = At(0, 0)
      BY <3>3, RiseEquation DEF RisesFrom
    <3>5. Reaches(At(0, 0), 0)
      BY <3>3, <3>4 DEF Reaches
    <3>6. QED
      BY <3>1, <3>2, <3>5
  <2>2. CASE n > 1
    <3> DEFINE half == Split(n)
               a == At(x, n - 1)
    <3>1. PICK d \in Nat :
              /\ half = Power[d] /\ Power[d] \in Nat /\ n <= 2 * Power[d]
              /\ a \in Position /\ a.sn = n - 1
              /\ x < half => At(x, half - 1) \in Position /\ Inside(a, At(x, half - 1), d)
              /\ x >= half => /\ At(x - half, n - half - 1) \in Position
                              /\ Apart(a, At(x - half, n - half - 1), d)
      BY <2>2, HalfPositions
    <3>2. PICK p \in Seq(Roots), y \in Roots :
              /\ x < half => p = InclusionPath[Left(t)][x]
              /\ x >= half => p = InclusionPath[Right(t)][x - half]
              /\ Len(p) \in Nat /\ Len(InclusionPath[t][x]) = Len(p) + 1
      <4>1. Len(t) > 1
        BY <2>2
      <4>2. PICK p \in Seq(Roots) : \E y \in Roots :
              /\ x < Split(Len(t)) => p = InclusionPath[Left(t)][x] /\ y = MerkleRoot[Right(t)]
              /\ x >= Split(Len(t)) => /\ p = InclusionPath[Right(t)][x - Split(Len(t))]
                                       /\ y = MerkleRoot[Left(t)]
              /\ Len(p) \in Nat /\ Len(InclusionPath[t][x]) = Len(p) + 1
              /\ \A k \in 1..Len(p) : InclusionPath[t][x][k] = p[k]
              /\ InclusionPath[t][x][Len(p) + 1] = y
        BY <4>1, PathOfHalf
      <4>3. QED
        BY <4>2
    <3>3. /\ Left(t) \in Seq(Hashes) /\ Right(t) \in Seq(Hashes)
          /\ Len(Left(t)) = half /\ Len(Right(t)) = n - half
          /\ half \in 0..(n - 1) /\ n - half \in 0..(n - 1) /\ half \in Nat
      BY <2>2, Halves
    <3> HIDE DEF half
    <3>4. CASE x < half
      <4>1. half \in G
        BY <1>1, <3>3
      <4>2. Reaches(At(x, half - 1), Len(p))
        BY <3>2, <3>3, <3>4, <4>1
      <4>3. Reaches(a, d + 1) /\ Reaches(At(x, half - 1), d)
        BY <3>1, <3>4, InsideRises
      <4>4. Len(p) = d
        BY <3>2, <4>2, <4>3, ReachesOnce
      <4>5. QED
        BY <3>2, <4>3, <4>4
    <3>5. CASE x >= half
      <4> DEFINE b == At(x - half, n - half - 1)
      <4>1. n - half \in G /\ x - half \in Nat /\ x - half < n - half
        <5>1. x - half \in Nat /\ x - half < n - half
          BY <3>3, <3>5
        <5> HIDE DEF G
        <5>2. n - half \in G
          BY <1>1, <3>3
        <5>3. QED
          BY <5>1, <5>2
      <4>2. Reaches(b, Len(p))
        BY <3>2, <3>3, <3>5, <4>1
      <4> HIDE DEF a, b
      <4>3. b \in Position /\ a \in Position /\ Apart(a, b, d)
        BY <3>1, <3>5 DEF b
      <4> DEFINE l == Len(p)
      <4>4. l \in Nat /\ Rise(b)[l].sn = 0 /\ \A k \in 0..(l - 1) : Rise(b)[k].sn # 0
        BY <3>2, <4>2 DEF Reaches
      <4> HIDE DEF l
      <4>5. Rise(a)[l + 1].sn = 0
        BY <4>3, <4>4, ApartRises
      <4>6. ASSUME NEW k \in 0..l PROVE Rise(a)[k].sn # 0
        <5>1. k \in Nat
          BY <4>4
        <5>2. Rise(a)[k].sn = 0 => k # 0 /\ Rise(b)[k - 1].sn = 0
          BY <4>3, <5>1, ApartRises
        <5>3. k # 0 => k - 1 \in 0..(l - 1)
          BY <4>4
        <5>4. QED
          BY <4>4, <5>2, <5>3
      <4>7. Reaches(a, l + 1)
        <5>1. (l + 1) - 1 = l
          BY <4>4
        <5>2. QED
          BY <4>5, <4>6, <5>1 DEF Reaches
      <4>8. QED
        BY <3>2, <4>7 DEF a, l
    <3>6. QED
      BY <3>3, <3>4, <3>5
  <2>3. QED
    BY <2>1, <2>2
<1>2. G = Nat
  <2>1. G \in SUBSET Nat
    OBVIOUS
  <2> HIDE DEF G
  <2> QED BY <1>1, <2>1, StrongInduction
<1>3. Len(s) \in G
  BY <1>2, Lengths
<1>4. InclusionPath[s][m] \in Seq(Roots)
  BY PathType
<1>5. QED
  BY <1>3, <1>4
\* q starts with p, and two walks turn alike as far as p goes.
Continues(q, p, l) == \A k \in 1..l : q[k] = p[k]

SameTurns(a, b, l) == \A k \in 0..(l - 1) : OnRight(Rise(a)[k]) <=> OnRight(Rise(b)[k])

\* The walk in the half, out of the walk in the tree.
LEMMA JoinsOfHalf ==
    ASSUME NEW a, NEW b, NEW q, NEW p, NEW l \in Nat, NEW r,
           Continues(q, p, l), SameTurns(a, b, l), Joins(a, q, l + 1, r)
    PROVE  /\ Joins(b, p, l, r)
           /\ r[l + 1] = IF OnRight(Rise(a)[l]) THEN NodeHash(q[l + 1], r[l])
                         ELSE NodeHash(r[l], q[l + 1])
<1>1. \A k \in 1..(l + 1) : r[k] = IF OnRight(Rise(a)[k - 1]) THEN NodeHash(q[k], r[k - 1])
                                   ELSE NodeHash(r[k - 1], q[k])
  BY DEF Joins
<1>2. ASSUME NEW k \in 1..l
      PROVE  r[k] = IF OnRight(Rise(b)[k - 1]) THEN NodeHash(p[k], r[k - 1])
                    ELSE NodeHash(r[k - 1], p[k])
  <2>1. k \in 1..(l + 1) /\ k - 1 \in 0..(l - 1)
    OBVIOUS
  <2>2. QED
    BY <1>1, <2>1 DEF Continues, SameTurns
<1>3. l + 1 \in 1..(l + 1) /\ (l + 1) - 1 = l
  OBVIOUS
<1>4. QED
  BY <1>1, <1>2, <1>3 DEF Joins

\* The path of a leaf leads from it to the root.
LEMMA PathsComplete ==
    ASSUME NEW s \in Seq(Hashes), NEW m \in Nat, m < Len(s), NEW r, r[0] = s[m + 1],
           Joins(At(m, Len(s) - 1), InclusionPath[s][m], Len(InclusionPath[s][m]), r)
    PROVE  r[Len(InclusionPath[s][m])] = MerkleRoot[s]
<1> DEFINE claim(t, x) ==
             r[0] = t[x + 1]
             /\ Joins(At(x, Len(t) - 1), InclusionPath[t][x], Len(InclusionPath[t][x]), r)
             => r[Len(InclusionPath[t][x])] = MerkleRoot[t]
           G == {n \in Nat : \A t \in Seq(Hashes) : \A x \in Nat : Len(t) = n /\ x < n => claim(t, x)}
<1>1. ASSUME NEW n \in Nat, \A k \in 0..(n - 1) : k \in G PROVE n \in G
  <2> HIDE DEF claim
  <2> SUFFICES ASSUME NEW t \in Seq(Hashes), NEW x \in Nat, Len(t) = n, x < n
               PROVE  claim(t, x)
    OBVIOUS
  <2> SUFFICES ASSUME r[0] = t[x + 1],
                      Joins(At(x, n - 1), InclusionPath[t][x], Len(InclusionPath[t][x]), r)
               PROVE  r[Len(InclusionPath[t][x])] = MerkleRoot[t]
    BY DEF claim
  <2>1. CASE n <= 1
    <3>1. n = 1 /\ x = 0
      BY <2>1
    <3>2. Len(InclusionPath[t][x]) = 0
      BY <2>1, InclusionPathEquation, EmptySeq
    <3>3. MerkleRoot[t] = t[1]
      BY <3>1, RootOfTree
    <3>4. QED
      BY <3>1, <3>2, <3>3
  <2>2. CASE n > 1
    <3> DEFINE half == Split(n)
               a == At(x, n - 1)
               q == InclusionPath[t][x]
    <3>1. PICK d \in Nat :
              /\ half = Power[d] /\ Power[d] \in Nat /\ n <= 2 * Power[d]
              /\ a \in Position /\ a.sn = n - 1
              /\ x < half => At(x, half - 1) \in Position /\ Inside(a, At(x, half - 1), d)
              /\ x >= half => /\ At(x - half, n - half - 1) \in Position
                              /\ Apart(a, At(x - half, n - half - 1), d)
      BY <2>2, HalfPositions
    <3>2. PICK p \in Seq(Roots), y \in Roots :
              /\ x < half => p = InclusionPath[Left(t)][x] /\ y = MerkleRoot[Right(t)]
              /\ x >= half => p = InclusionPath[Right(t)][x - half] /\ y = MerkleRoot[Left(t)]
              /\ Len(p) \in Nat /\ Len(q) = Len(p) + 1
              /\ \A k \in 1..Len(p) : q[k] = p[k]
              /\ q[Len(p) + 1] = y
      <4>1. Len(t) > 1
        BY <2>2
      <4>2. PICK p \in Seq(Roots) : \E y \in Roots :
              /\ x < Split(Len(t)) => p = InclusionPath[Left(t)][x] /\ y = MerkleRoot[Right(t)]
              /\ x >= Split(Len(t)) => /\ p = InclusionPath[Right(t)][x - Split(Len(t))]
                                       /\ y = MerkleRoot[Left(t)]
              /\ Len(p) \in Nat /\ Len(q) = Len(p) + 1
              /\ \A k \in 1..Len(p) : q[k] = p[k]
              /\ q[Len(p) + 1] = y
        BY <4>1, PathOfHalf
      <4>3. QED
        BY <4>2
    <3> DEFINE l == Len(p)
    <3>3. /\ Left(t) \in Seq(Hashes) /\ Right(t) \in Seq(Hashes)
          /\ Len(Left(t)) = half /\ Len(Right(t)) = n - half
          /\ half \in 0..(n - 1) /\ n - half \in 0..(n - 1) /\ half \in Nat
          /\ \A i \in 1..half : Left(t)[i] = t[i]
          /\ \A i \in 1..(n - half) : Right(t)[i] = t[i + half]
      <4>1. half = Split(n)
        OBVIOUS
      <4> HIDE DEF half, a, q, claim, G, l
      <4>2. QED
        BY <2>2, <4>1, HalvesOf, Zenon
    <3>4. MerkleRoot[t] = NodeHash(MerkleRoot[Left(t)], MerkleRoot[Right(t)])
      BY <2>2, RootOfTree DEF NodeHash
    <3>5. Joins(a, q, l + 1, r) /\ l \in Nat /\ Continues(q, p, l)
      BY <3>2 DEF Continues
    <3> HIDE DEF half, a, q, claim
    <3>6. CASE x < half
      <4> DEFINE b == At(x, half - 1)
      <4>1. half \in G /\ Reaches(b, l)
        <5>1. half \in G
          BY <1>1, <3>3
        <5>2. Reaches(At(x, Len(Left(t)) - 1), Len(InclusionPath[Left(t)][x]))
          BY <3>3, <3>6, PathReaches
        <5>3. QED
          BY <3>2, <3>3, <3>6, <5>1, <5>2
      <4> HIDE DEF b, l
      <4>2. /\ \A k \in 0..(d - 1) : OnRight(Rise(a)[k]) <=> OnRight(Rise(b)[k])
            /\ ~OnRight(Rise(a)[d])
            /\ Reaches(b, d)
        BY <3>1, <3>6, InsideRises DEF b
      <4>3. l = d
        BY <3>5, <4>1, <4>2, ReachesOnce
      <4>4. Joins(b, p, l, r) /\ r[l + 1] = NodeHash(r[l], q[l + 1])
        <5>1. SameTurns(a, b, l)
          BY <4>2, <4>3 DEF SameTurns
        <5>2. /\ Joins(b, p, l, r)
              /\ r[l + 1] = IF OnRight(Rise(a)[l]) THEN NodeHash(q[l + 1], r[l])
                            ELSE NodeHash(r[l], q[l + 1])
          BY <3>5, <5>1, JoinsOfHalf
        <5>3. QED
          BY <4>2, <4>3, <5>2
      <4>5. r[0] = Left(t)[x + 1]
        <5>1. x + 1 \in 1..half
          BY <3>3, <3>6
        <5>2. QED
          BY <3>3, <5>1
      <4>6. claim(Left(t), x)
        BY <3>3, <3>6, <4>1
      <4>7. r[l] = MerkleRoot[Left(t)]
        BY <3>2, <3>3, <3>6, <4>4, <4>5, <4>6 DEF claim, b, l
      <4>8. QED
        BY <3>2, <3>4, <3>6, <4>4, <4>7 DEF l, q
    <3>7. CASE x >= half
      <4> DEFINE z == x - half
                 b == At(z, n - half - 1)
      <4>0. z \in Nat /\ z < n - half /\ z + 1 \in 1..(n - half) /\ (z + 1) + half = x + 1
        <5>1. half \in Nat /\ half <= x
          BY <3>3, <3>7
        <5>2. QED
          BY <5>1, PlaceOnRight DEF z
      <4>1. /\ a \in Position /\ b \in Position /\ Apart(a, b, d)
            /\ p = InclusionPath[Right(t)][z] /\ y = MerkleRoot[Left(t)]
        BY <3>1, <3>2, <3>7
      <4> HIDE DEF z
      <4>2. n - half \in G /\ Reaches(b, l)
        <5>1. n - half \in G
          BY <1>1, <3>3
        <5>2. Reaches(At(z, Len(Right(t)) - 1), Len(InclusionPath[Right(t)][z]))
          BY <3>3, <4>0, PathReaches
        <5>3. QED
          BY <3>3, <4>1, <5>1, <5>2
      <4> HIDE DEF b, l
      <4>3. \A k \in Nat : /\ OnRight(Rise(a)[k]) <=> OnRight(Rise(b)[k])
                           /\ Rise(b)[k].sn = 0 => OnRight(Rise(a)[k])
        BY <4>1, ApartRises
      <4>4. OnRight(Rise(a)[l])
        BY <3>5, <4>2, <4>3 DEF Reaches
      <4>5. Joins(b, p, l, r) /\ r[l + 1] = NodeHash(q[l + 1], r[l])
        <5>1. SameTurns(a, b, l)
          BY <3>5, <4>3 DEF SameTurns
        <5>2. /\ Joins(b, p, l, r)
              /\ r[l + 1] = IF OnRight(Rise(a)[l]) THEN NodeHash(q[l + 1], r[l])
                            ELSE NodeHash(r[l], q[l + 1])
          BY <3>5, <5>1, JoinsOfHalf
        <5>3. QED
          BY <4>4, <5>2
      <4>6. r[0] = Right(t)[z + 1]
        BY <3>3, <4>0
      <4>7. claim(Right(t), z)
        BY <3>3, <4>0, <4>2
      <4>8. r[l] = MerkleRoot[Right(t)]
        BY <3>3, <4>1, <4>5, <4>6, <4>7 DEF claim, b, l
      <4>9. QED
        BY <3>2, <3>4, <4>1, <4>5, <4>8 DEF l, q
    <3>8. QED
      BY <3>3, <3>6, <3>7
  <2>3. QED
    BY <2>1, <2>2
<1>2. G = Nat
  <2>1. G \in SUBSET Nat
    OBVIOUS
  <2> HIDE DEF G
  <2> QED BY <1>1, <2>1, StrongInduction
<1> HIDE DEF claim
<1>3. claim(s, m)
  BY <1>2, Lengths
<1>4. QED
  BY <1>3 DEF claim

\* Whatever leads from a leaf at a position up to the root starts at the leaf that the
\* tree holds there.
LEMMA PathsSound ==
    ASSUME NEW s \in Seq(Hashes), NEW m \in Nat, m < Len(s),
           NEW r, r[0] \in Hashes, NEW path, NEW n \in Nat,
           Joins(At(m, Len(s) - 1), path, n, r),
           Rise(At(m, Len(s) - 1))[n].sn = 0, r[n] = MerkleRoot[s]
    PROVE  r[0] = s[m + 1]
<1> DEFINE claim(t, x, l) ==
             /\ Joins(At(x, Len(t) - 1), path, l, r)
             /\ Rise(At(x, Len(t) - 1))[l].sn = 0
             /\ r[l] = MerkleRoot[t]
             => r[0] = t[x + 1]
           G == {k \in Nat : \A t \in Seq(Hashes) : \A x, l \in Nat : Len(t) = k /\ x < k => claim(t, x, l)}
<1>1. ASSUME NEW k \in Nat, \A j \in 0..(k - 1) : j \in G PROVE k \in G
  <2> HIDE DEF claim
  <2> SUFFICES ASSUME NEW t \in Seq(Hashes), NEW x \in Nat, NEW l \in Nat, Len(t) = k, x < k
               PROVE  claim(t, x, l)
    OBVIOUS
  <2> SUFFICES ASSUME Joins(At(x, k - 1), path, l, r), Rise(At(x, k - 1))[l].sn = 0,
                      r[l] = MerkleRoot[t]
               PROVE  r[0] = t[x + 1]
    BY DEF claim
  <2>0. ASSUME NEW i \in 1..l PROVE \E p : r[i] = <<p, r[i - 1]>> \/ r[i] = <<r[i - 1], p>>
    BY DEF Joins, NodeHash
  <2>1. CASE k <= 1
    <3>1. k = 1 /\ x = 0
      BY <2>1
    <3>2. MerkleRoot[t] = t[1] /\ \E e \in Entry : MerkleRoot[t] = <<e>>
      BY <3>1, RootOfTree
    <3>3. l = 0
      <4> SUFFICES ASSUME l # 0 PROVE FALSE
        OBVIOUS
      <4>1. l \in 1..l
        OBVIOUS
      <4>2. \E x1, x2 : MerkleRoot[t] = <<x1, x2>>
        BY <2>0, <4>1
      <4>3. \A x1, x2 : Len(<<x1, x2>>) = 2
        OBVIOUS
      <4>4. \A x1 : Len(<<x1>>) = 1
        OBVIOUS
      <4>5. 1 # 2
        OBVIOUS
      <4>6. QED
        BY <3>2, <4>2, <4>3, <4>4, <4>5, Zenon
    <3>4. QED
      BY <3>1, <3>2, <3>3
  <2>2. CASE k > 1
    <3> DEFINE half == Split(k)
               a == At(x, k - 1)
               j == l - 1
    <3>1. PICK d \in Nat :
              /\ half = Power[d] /\ Power[d] \in Nat /\ k <= 2 * Power[d]
              /\ a \in Position /\ a.sn = k - 1
              /\ x < half => At(x, half - 1) \in Position /\ Inside(a, At(x, half - 1), d)
              /\ x >= half => /\ At(x - half, k - half - 1) \in Position
                              /\ Apart(a, At(x - half, k - half - 1), d)
      BY <2>2, HalfPositions
    <3>2. /\ Left(t) \in Seq(Hashes) /\ Right(t) \in Seq(Hashes)
          /\ Len(Left(t)) = half /\ Len(Right(t)) = k - half
          /\ half \in 0..(k - 1) /\ k - half \in 0..(k - 1) /\ half \in Nat /\ k - half >= 1
          /\ \A i \in 1..half : Left(t)[i] = t[i]
          /\ \A i \in 1..(k - half) : Right(t)[i] = t[i + half]
      <4>1. half = Split(k)
        OBVIOUS
      <4> HIDE DEF half, a, j, claim, G
      <4>2. QED
        BY <2>2, <4>1, HalvesOf, Zenon
    <3>3. l # 0 /\ j \in Nat /\ l = j + 1
      <4>1. Rise(a)[0] = a
        BY <3>1, RiseEquation DEF RisesFrom
      <4>2. a.sn # 0
        BY <2>2, <3>1
      <4>3. QED
        BY <4>1, <4>2
    <3> HIDE DEF half, a, j, claim
    <3>4. Joins(a, path, j + 1, r) /\ Rise(a)[j + 1].sn = 0 /\ r[j + 1] = MerkleRoot[t]
      BY <3>3 DEF a
    <3>5. r[j + 1] = <<MerkleRoot[Left(t)], MerkleRoot[Right(t)]>>
      BY <2>2, <3>4, RootOfTree
    <3>6. r[j + 1] = IF OnRight(Rise(a)[j]) THEN <<path[j + 1], r[j]>> ELSE <<r[j], path[j + 1]>>
      <4>1. j + 1 \in 1..(j + 1) /\ (j + 1) - 1 = j
        BY <3>3
      <4>2. QED
        BY <3>4, <4>1 DEF Joins, NodeHash
    <3>7. IF OnRight(Rise(a)[j]) THEN r[j] = MerkleRoot[Right(t)] ELSE r[j] = MerkleRoot[Left(t)]
      BY <3>5, <3>6
    <3>8. CASE x < half
      <4> DEFINE b == At(x, half - 1)
      <4>1. /\ \A i \in 0..(d - 1) : OnRight(Rise(a)[i]) <=> OnRight(Rise(b)[i])
            /\ ~OnRight(Rise(a)[d])
            /\ \A i \in Nat : i > d => Rise(a)[i] = Top
            /\ Rise(b)[d].sn = 0 /\ \A i \in 0..((d + 1) - 1) : Rise(a)[i].sn # 0
        BY <3>1, <3>8, InsideRises DEF Reaches
      <4> HIDE DEF b
      <4>2. j >= d
        <5>1. j + 1 <= d => j + 1 \in 0..((d + 1) - 1)
          BY <3>3
        <5>2. QED
          BY <3>3, <3>4, <4>1, <5>1
      <4>3. CASE j = d
        <5>1. Joins(b, path, j, r)
          <6>1. SameTurns(a, b, j) /\ Continues(path, path, j)
            BY <4>1, <4>3 DEF SameTurns, Continues
          <6>2. QED
            BY <3>3, <3>4, <6>1, JoinsOfHalf
        <5>2. r[j] = MerkleRoot[Left(t)]
          BY <3>7, <4>1, <4>3
        <5>3. half \in G
          BY <1>1, <3>2
        <5>4. claim(Left(t), x, j)
          BY <3>2, <3>3, <3>8, <5>3
        <5>5. r[0] = Left(t)[x + 1]
          BY <3>2, <4>1, <4>3, <5>1, <5>2, <5>4 DEF claim, b
        <5>6. x + 1 \in 1..half
          BY <3>2, <3>8
        <5>7. QED
          BY <3>2, <5>5, <5>6
      <4>4. CASE j > d
        <5>1. r[j] = MerkleRoot[Right(t)]
          BY <3>3, <3>7, <4>1, <4>4, AboveTop
        <5>2. Chain(r, j)
          <6>1. \A i \in 1..j : i \in 1..l
            BY <3>3
          <6>2. QED
            BY <2>0, <6>1 DEF Chain
        <5>3. Len(Right(t)) >= 1 /\ Len(Right(t)) <= Power[d]
          <6>1. Len(Right(t)) = k - half /\ k - half >= 1
            BY <3>2
          <6>2. half = Power[d] /\ Power[d] \in Nat /\ k <= 2 * Power[d]
            BY <3>1
          <6>3. k - half <= Power[d]
            BY <6>2
          <6>4. QED
            BY <6>1, <6>3
        <5>4. j <= d
          BY <3>2, <3>3, <5>1, <5>2, <5>3, Depth
        <5>5. QED
          BY <3>3, <4>4, <5>4
      <4>5. QED
        BY <3>3, <4>2, <4>3, <4>4
    <3>9. CASE x >= half
      <4> DEFINE z == x - half
                 b == At(z, k - half - 1)
      <4>0. z \in Nat /\ z < k - half /\ z + 1 \in 1..(k - half) /\ (z + 1) + half = x + 1
        <5>1. half \in Nat /\ half <= x
          BY <3>2, <3>9
        <5>2. QED
          BY <5>1, PlaceOnRight DEF z
      <4>1. a \in Position /\ b \in Position /\ Apart(a, b, d)
        BY <3>1, <3>9
      <4> HIDE DEF z, b
      <4>2. Rise(b)[j].sn = 0
        <5>1. j + 1 \in Nat /\ (j + 1) - 1 = j
          BY <3>3
        <5>2. QED
          BY <3>4, <4>1, <5>1, ApartRises
      <4>3. /\ \A i \in Nat : OnRight(Rise(a)[i]) <=> OnRight(Rise(b)[i])
            /\ OnRight(Rise(a)[j])
        BY <3>3, <4>1, <4>2, ApartRises
      <4>4. Joins(b, path, j, r) /\ r[j] = MerkleRoot[Right(t)]
        <5>1. SameTurns(a, b, j) /\ Continues(path, path, j)
          BY <3>3, <4>3 DEF SameTurns, Continues
        <5>2. Joins(b, path, j, r)
          BY <3>3, <3>4, <5>1, JoinsOfHalf
        <5>3. QED
          BY <3>7, <4>3, <5>2
      <4>5. k - half \in G
        BY <1>1, <3>2
      <4>6. claim(Right(t), z, j)
        BY <3>2, <3>3, <4>0, <4>5
      <4>7. r[0] = Right(t)[z + 1]
        BY <3>2, <4>2, <4>4, <4>6 DEF claim, b
      <4>8. QED
        BY <3>2, <4>0, <4>7
    <3>10. QED
      BY <3>2, <3>8, <3>9
  <2>3. QED
    BY <2>1, <2>2
<1>2. G = Nat
  <2>1. G \in SUBSET Nat
    OBVIOUS
  <2> HIDE DEF G
  <2> QED BY <1>1, <2>1, StrongInduction
<1> HIDE DEF claim
<1>3. claim(s, m, n)
  BY <1>2, Lengths
<1>4. QED
  BY <1>3 DEF claim
\* A walk that starts at a node of its level stays at one.
LEMMA RisesOrdered ==
    ASSUME NEW at \in Ordered, NEW n \in Nat
    PROVE  Rise(at)[n] \in Ordered
<1> DEFINE G == {k \in Nat : Rise(at)[k] \in Ordered}
<1>1. Rise(at)[0] = at /\ \A k \in Nat : Rise(at)[k + 1] = Above(Rise(at)[k])
  BY RiseEquation DEF RisesFrom, Ordered
<1>2. ASSUME NEW k \in Nat, \A j \in 0..(k - 1) : j \in G PROVE k \in G
  <2>1. CASE k = 0
    BY <1>1, <2>1
  <2>2. CASE k # 0
    <3> DEFINE j == k - 1
    <3>1. j \in Nat /\ j \in 0..(k - 1) /\ k = j + 1
      BY <2>2
    <3> HIDE DEF j
    <3>2. QED
      BY <1>1, <1>2, <3>1, AboveOrdered
  <2>3. QED
    BY <2>1, <2>2
<1>3. G = Nat
  <2>1. G \in SUBSET Nat
    OBVIOUS
  <2> HIDE DEF G
  <2> QED BY <1>2, <2>1, StrongInduction
<1>4. QED
  BY <1>3

\* What the walk from a leaf hash along any sequence says, whoever made the sequence.
LEMMA WalkInTree ==
    ASSUME NEW s \in Seq(Hashes), NEW m \in Nat, m < Len(s), NEW leaf,
           NEW path, NEW n \in Nat, DOMAIN path = 1..n
    PROVE  LET end == Walk(leaf, m, Len(s), path) IN
           /\ leaf \in Hashes /\ end.sn = 0 /\ end.root = MerkleRoot[s] => leaf = s[m + 1] /\ end.fn = 0
           /\ \A d \in Nat : end.root = MerkleRoot[s] /\ Len(s) <= Power[d] => n <= d
           /\ n = Len(InclusionPath[s][m]) => end.sn = 0
           /\ leaf = s[m + 1] /\ path = InclusionPath[s][m] /\ n = Len(path) => end.root = MerkleRoot[s]
<1> DEFINE at == At(m, Len(s) - 1)
           end == Walk(leaf, m, Len(s), path)
<1>1. Len(s) \in Nat /\ Len(s) >= 1 /\ Len(s) - 1 \in Nat /\ Len(s) # 0
  BY Lengths
<1>2. at \in Ordered
  <2>1. at \in Position /\ at.fn = m /\ at.sn = Len(s) - 1
    BY <1>1, PositionFields
  <2>2. m <= Len(s) - 1
    BY <1>1
  <2>3. QED
    BY <2>1, <2>2 DEF Ordered
<1>3. /\ end.fn = Rise(at)[n].fn /\ end.sn = Rise(at)[n].sn
      /\ \E r : r[0] = leaf /\ r[n] = end.root /\ Joins(at, path, n, r)
  <2> DEFINE size == Len(s)
  <2>1. size \in Nat /\ size # 0
    BY <1>1
  <2> HIDE DEF size
  <2>2. /\ Walk(leaf, m, size, path).fn = Rise(At(m, size - 1))[n].fn
        /\ Walk(leaf, m, size, path).sn = Rise(At(m, size - 1))[n].sn
        /\ \E r : /\ r[0] = leaf /\ r[n] = Walk(leaf, m, size, path).root
                  /\ Joins(At(m, size - 1), path, n, r)
    BY <2>1, WalkRises
  <2>3. QED
    BY <2>2 DEF size
<1>4. PICK r : r[0] = leaf /\ r[n] = end.root /\ Joins(at, path, n, r)
  BY <1>3
<1> HIDE DEF end
<1>5. ASSUME leaf \in Hashes, end.sn = 0, end.root = MerkleRoot[s] PROVE leaf = s[m + 1] /\ end.fn = 0
  <2>1. leaf = s[m + 1]
    BY <1>3, <1>4, <1>5, PathsSound
  <2>2. Rise(at)[n] \in Ordered
    BY <1>2, RisesOrdered
  <2>3. end.fn \in Nat /\ end.fn <= 0
    BY <1>3, <1>5, <2>2, PositionFields DEF Ordered
  <2>4. QED
    BY <2>1, <2>3
<1>6. ASSUME NEW d \in Nat, end.root = MerkleRoot[s], Len(s) <= Power[d] PROVE n <= d
  <2>1. Chain(r, n)
    BY <1>4 DEF Joins, Chain, NodeHash
  <2>2. QED
    BY <1>1, <1>4, <1>6, <2>1, Depth
<1>7. ASSUME n = Len(InclusionPath[s][m]) PROVE end.sn = 0
  BY <1>3, <1>7, PathReaches DEF Reaches
<1>8. ASSUME leaf = s[m + 1], path = InclusionPath[s][m], n = Len(path) PROVE end.root = MerkleRoot[s]
  <2>1. /\ r[0] = s[m + 1] /\ n = Len(InclusionPath[s][m])
        /\ Joins(at, InclusionPath[s][m], Len(InclusionPath[s][m]), r)
    BY <1>4, <1>8
  <2>2. r[Len(InclusionPath[s][m])] = MerkleRoot[s]
    BY <2>1, PathsComplete
  <2>3. QED
    BY <1>4, <2>1, <2>2
<1>9. QED
  BY <1>5, <1>6, <1>7, <1>8 DEF end

\* A log fits the longest path that ans_scitt.py accepts: 2^64 leaves.
PathsFit == MaxSize <= Power[MaxProofPath]

\* Every leaf has a path that tlog.py accepts; no path that the log served makes it
\* accept another leaf at a position than the one there; and ans_scitt.py accepts
\* whatever tlog.py accepts, and more only if the path has not the length that the
\* position asks for.
THEOREM InclusionIsExact ==
    ASSUME PathsFit
    PROVE  Spec => []InclusionExact
<1>1. TypeOK => InclusionExact
  <2> SUFFICES ASSUME TypeOK PROVE InclusionExact
    OBVIOUS
  <2> DEFINE root == MerkleRoot[leaves]
             n == Len(leaves)
  <2>1. leaves \in Seq(Hashes) /\ n \in Nat /\ n <= MaxSize /\ MaxSize \in Nat /\ MinProofSize \in Nat
    BY Lengths, BoundAssumption DEF TypeOK
  <2>2. \A m \in Indexes : m \in Nat /\ m < n /\ n # 0 /\ n > 0 /\ ~(n <= 0) /\ ~(m < 0) /\ ~(m >= n)
    BY <2>1 DEF Indexes
  <2>3. ASSUME n # 0 PROVE root # Error
    <3>1. Len(root) \in {1, 2}
      BY <2>1, <2>3, Lengths, RootKinds
    <3>2. Len(Error) = 3
      BY DEF Error
    <3>3. QED
      BY <3>1, <3>2
  <2>4. ASSUME NEW m \in Indexes
        PROVE  LET path == IF n < MinProofSize THEN InclusionPath[leaves][m] ELSE InclusionProof(m)
               IN RootFromInclusion(leaves[m + 1], m, n, path) = root
    <3> DEFINE path == InclusionPath[leaves][m]
    <3>1. path \in Seq(Roots) /\ Len(path) \in Nat /\ DOMAIN path = 1..Len(path)
      BY <2>1, <2>2, PathType
    <3>2. ~(n < MinProofSize) => InclusionProof(m) = path
      BY DEF InclusionProof, Indexes
    <3> HIDE DEF path
    <3> DEFINE end == Walk(leaves[m + 1], m, n, path)
    <3>3. end.sn = 0 /\ end.root = root
      BY <2>1, <2>2, <3>1, WalkInTree DEF path
    <3> HIDE DEF end
    <3>4. RootFromInclusion(leaves[m + 1], m, n, path) = root
      BY <2>2, <3>3 DEF RootFromInclusion, end
    <3>5. QED
      BY <3>2, <3>4 DEF path
  <2>5. ASSUME NEW path \in ServedPaths PROVE Len(path) \in Nat /\ DOMAIN path = 1..Len(path)
    <3>1. PICK k \in MinProofSize..n, m \in Indexes :
               path \in Prefixes(InclusionPath[SubSeq(leaves, 1, k)][m])
      BY DEF ServedPaths
    <3> DEFINE s == SubSeq(leaves, 1, k)
               q == InclusionPath[s][m]
    <3>2. s \in Seq(Hashes)
      <4>1. \A i \in 1..k : leaves[i] \in Hashes
        <5>1. \A i \in 1..k : i \in 1..n
          BY <2>1
        <5>2. QED
          BY <2>1, <5>1, ElementOfSeq
      <4>2. k \in Int
        BY <2>1
      <4>3. QED
        BY <4>1, <4>2, SubSeqProperties
    <3> HIDE DEF s
    <3>3. q \in Seq(Roots) /\ Len(q) \in Nat
      <4>1. q \in Seq(Roots)
        BY <2>2, <3>2, PathType
      <4>2. QED
        BY <4>1
    <3> HIDE DEF q
    <3>4. PICK l \in 0..Len(q) : path = SubSeq(q, 1, l)
      BY <3>1 DEF Prefixes, q, s
    <3>5. \A i \in 1..l : q[i] \in Roots
      BY <3>3, ElementOfSeq
    <3>6. path \in Seq(Roots)
      BY <3>3, <3>4, <3>5, SubSeqProperties
    <3>7. QED
      BY <3>6
  <2>6. ASSUME NEW path \in ServedPaths, NEW j \in Indexes, NEW h \in Hashes
        PROVE  LET tlog == RootFromInclusion(h, j, n, path) = root
                   scitt == RootFromProof(h, j, n, path) = root
               IN /\ tlog => leaves[j + 1] = h /\ scitt
                  /\ scitt /\ Len(path) = Len(InclusionPath[leaves][j]) => tlog
    <3> DEFINE end == Walk(h, j, n, path)
               tlog == RootFromInclusion(h, j, n, path) = root
               scitt == RootFromProof(h, j, n, path) = root
    <3>0. ~(n <= 0 \/ j < 0 \/ j >= n) /\ ~(n = 0 \/ j >= n \/ j < 0) /\ root # Error
      BY <2>2, <2>3
    <3> HIDE DEF n, root
    <3>1. tlog <=> end.sn = 0 /\ end.root = root
      BY <3>0 DEF RootFromInclusion
    <3>2. scitt <=> ~(Len(path) > MaxProofPath) /\ end.fn = 0 /\ end.root = root
      BY <3>0, Zenon DEF RootFromProof
    <3>3. /\ end.sn = 0 /\ end.root = root => h = leaves[j + 1] /\ end.fn = 0
          /\ \A d \in Nat : end.root = root /\ n <= Power[d] => Len(path) <= d
          /\ Len(path) = Len(InclusionPath[leaves][j]) => end.sn = 0
      BY <2>1, <2>2, <2>5, WalkInTree DEF n, root
    <3>4. MaxProofPath \in Nat /\ n <= Power[MaxProofPath] /\ Len(path) \in Nat
      <4>1. MaxProofPath \in Nat
        BY DEF MaxProofPath
      <4>2. Power[MaxProofPath] \in Nat
        BY <4>1, PowerEquation
      <4>3. QED
        BY <2>1, <2>5, <4>1, <4>2 DEF PathsFit
    <3> HIDE DEF end, tlog, scitt
    <3>5. end.sn = 0 /\ end.root = root => ~(Len(path) > MaxProofPath)
      BY <3>3, <3>4
    <3>6. (tlog => leaves[j + 1] = h /\ scitt) /\ (scitt /\ Len(path) = Len(InclusionPath[leaves][j]) => tlog)
      BY <3>1, <3>2, <3>3, <3>5
    <3>7. QED
      BY <3>6 DEF tlog, scitt, n, root
  <2>7. QED
    BY <2>4, <2>6 DEF InclusionExact
<1>2. QED
  BY <1>1, TypeCorrect, PTL

-----------------------------------------------------------------------------
(* Where a consistency proof starts: the largest node that the last leaf of  *)
(* the old tree is the end of.                                               *)

\* Starting higher does not change that node.
LEMMA ShiftAbove ==
    ASSUME NEW at \in Position
    PROVE  /\ Odd(at.fn) => ShiftOdd[at] = ShiftOdd[Above(at)]
           /\ ~Odd(at.fn) => ShiftOdd[at] = at
<1>1. ASSUME Odd(at.fn) PROVE ShiftOdd[at] = ShiftOdd[Above(at)]
  <2>1. at.fn \in Nat /\ at.sn \in Nat /\ at = At(at.fn, at.sn) /\ Halved(at) = At(at.fn \div 2, at.sn \div 2)
    BY PositionFields
  <2>2. Above(At(at.fn, at.sn)) = At(at.fn \div 2, at.sn \div 2)
    BY <1>1, <2>1, AboveEquation
  <2>3. Above(at) = Halved(at)
    BY <2>1, <2>2
  <2>4. QED
    BY <1>1, <2>3, ShiftOddEquation
<1>2. QED
  BY <1>1, ShiftOddEquation

\* The node for the left half alone is that for the tree.
LEMMA InsideShift ==
    ASSUME NEW i \in Nat, NEW a \in Position, NEW b \in Position, Inside(a, b, i)
    PROVE  \E j \in Nat : /\ ShiftOdd[a] \in Position /\ ShiftOdd[b] \in Position
                          /\ Inside(ShiftOdd[a], ShiftOdd[b], j)
<1> DEFINE ends(x, y) == \E j \in Nat : /\ ShiftOdd[x] \in Position /\ ShiftOdd[y] \in Position
                                        /\ Inside(ShiftOdd[x], ShiftOdd[y], j)
           G == {n \in Nat : \A x, y \in Position : Inside(x, y, n) => ends(x, y)}
<1>1. ASSUME NEW n \in Nat, \A k \in 0..(n - 1) : k \in G PROVE n \in G
  <2> SUFFICES ASSUME NEW x \in Position, NEW y \in Position, Inside(x, y, n) PROVE ends(x, y)
    OBVIOUS
  <2>1. y.fn \in Nat /\ x.sn \in Nat /\ y.fn < Power[n] /\ x = At(y.fn, x.sn)
    BY PositionFields DEF Inside
  <2>2. x.fn = y.fn
    BY <2>1, PositionFields
  <2>3. CASE Odd(y.fn)
    <3>1. n # 0
      <4>1. ~Odd(0)
        BY DEF Odd
      <4>2. QED
        BY <2>1, <2>3, <4>1, PowerEquation
    <3>2. Inside(Above(x), Above(y), n - 1)
      BY <3>1, InsideStep
    <3>3. Above(x) \in Position /\ Above(y) \in Position
      BY AboveOrdered
    <3>4. n - 1 \in G
      BY <1>1, <3>1
    <3>5. ends(Above(x), Above(y))
      BY <3>2, <3>3, <3>4
    <3>6. ShiftOdd[x] = ShiftOdd[Above(x)] /\ ShiftOdd[y] = ShiftOdd[Above(y)]
      BY <2>2, <2>3, ShiftAbove
    <3>7. QED
      BY <3>5, <3>6
  <2>4. CASE ~Odd(y.fn)
    <3>1. ShiftOdd[x] = x /\ ShiftOdd[y] = y
      BY <2>2, <2>4, ShiftAbove
    <3>2. QED
      BY <3>1
  <2>5. QED
    BY <2>3, <2>4
<1>2. G = Nat
  <2>1. G \in SUBSET Nat
    OBVIOUS
  <2> HIDE DEF G
  <2> QED BY <1>1, <2>1, StrongInduction
<1>3. ends(a, b)
  <2> HIDE DEF ends
  <2> QED BY <1>2
<1>4. QED
  BY <1>3

\* The node for the right half alone is that for the tree, if it is not the last one.
LEMMA ApartShift ==
    ASSUME NEW i \in Nat, NEW a \in Position, NEW b \in Position, Apart(a, b, i), b.fn < b.sn
    PROVE  \E j \in Nat : /\ ShiftOdd[a] \in Position /\ ShiftOdd[b] \in Position
                          /\ Apart(ShiftOdd[a], ShiftOdd[b], j)
<1> DEFINE ends(x, y) == \E j \in Nat : /\ ShiftOdd[x] \in Position /\ ShiftOdd[y] \in Position
                                        /\ Apart(ShiftOdd[x], ShiftOdd[y], j)
           G == {n \in Nat : \A x, y \in Position : \A j \in Nat :
                                y.fn = n /\ Apart(x, y, j) /\ y.fn < y.sn => ends(x, y)}
<1>1. ASSUME NEW n \in Nat, \A k \in 0..(n - 1) : k \in G PROVE n \in G
  <2> SUFFICES ASSUME NEW x \in Position, NEW y \in Position, NEW j \in Nat,
                      y.fn = n, Apart(x, y, j), n < y.sn
               PROVE  ends(x, y)
    OBVIOUS
  <2> DEFINE l == y.sn
             P == Power[j]
  <2>1. l \in Nat /\ P \in Nat /\ y = At(n, l) /\ x = At(n + P, l + P) /\ l < P
    BY PositionFields, PowerEquation DEF Apart
  <2> HIDE DEF l, P
  <2>2. j # 0 /\ P = 2 * Power[j - 1] /\ Power[j - 1] \in Nat
    <3>1. j # 0
      <4>1. j = 0 => P = 1
        BY PowerEquation DEF P
      <4>2. QED
        BY <2>1, <4>1 DEF l
    <3>2. QED
      BY <3>1, PowerIsEven DEF P
  <2>3. x.fn = n + P
    <3>1. n + P \in Nat /\ l + P \in Nat
      BY <2>1
    <3>2. At(n + P, l + P).fn = n + P
      BY <3>1, PositionFields
    <3>3. QED
      BY <2>1, <3>2
  <2>4. Odd(x.fn) <=> Odd(n)
    BY <2>1, <2>2, <2>3 DEF Odd
  <2>5. CASE Odd(n)
    <3>1. \E k \in Nat : Apart(Above(x), Above(y), k)
      <4>1. y.sn # 0
        BY <2>1 DEF l
      <4>2. QED
        BY <4>1, ApartStep
    <3>2. Above(x) \in Position /\ Above(y) \in Position
      BY AboveOrdered
    <3>3. Above(y) = At(n \div 2, l \div 2)
      BY <2>1, <2>5, AboveEquation
    <3>4. n \div 2 \in Nat /\ l \div 2 \in Nat /\ n \div 2 < l \div 2 /\ n \div 2 \in 0..(n - 1)
      <4>1. n < l
        BY DEF l
      <4>2. QED
        BY <2>1, <2>5, <4>1 DEF Odd
    <3>5. Above(y).fn = n \div 2 /\ Above(y).fn < Above(y).sn
      <4>1. /\ At(n \div 2, l \div 2).fn = n \div 2
            /\ At(n \div 2, l \div 2).sn = l \div 2
        BY <3>4, PositionFields
      <4>2. QED
        BY <3>3, <3>4, <4>1
    <3>6. n \div 2 \in G
      BY <1>1, <3>4
    <3>7. ends(Above(x), Above(y))
      BY <3>1, <3>2, <3>5, <3>6
    <3>8. ShiftOdd[x] = ShiftOdd[Above(x)] /\ ShiftOdd[y] = ShiftOdd[Above(y)]
      BY <2>4, <2>5, ShiftAbove
    <3>9. QED
      BY <3>7, <3>8
  <2>6. CASE ~Odd(n)
    <3>1. ShiftOdd[x] = x /\ ShiftOdd[y] = y
      BY <2>4, <2>6, ShiftAbove
    <3>2. QED
      BY <3>1
  <2>7. QED
    BY <2>5, <2>6
<1>2. G = Nat
  <2>1. G \in SUBSET Nat
    OBVIOUS
  <2> HIDE DEF G
  <2> QED BY <1>1, <2>1, StrongInduction
<1>3. ends(a, b)
  <2> HIDE DEF ends
  <2> QED BY <1>2, PositionFields
<1>4. QED
  BY <1>3

\* In a complete tree it is the root.
LEMMA ShiftPower ==
    \A d \in Nat : ShiftOdd[At(Power[d] - 1, Power[d] - 1)] = Top
<1> DEFINE G == {d \in Nat : ShiftOdd[At(Power[d] - 1, Power[d] - 1)] = Top}
<1>1. ASSUME NEW n \in Nat, \A k \in 0..(n - 1) : k \in G PROVE n \in G
  <2> DEFINE P == Power[n]
             x == At(P - 1, P - 1)
  <2>1. P \in Nat /\ P >= 1 /\ P - 1 \in Nat
    BY PowerIsEven
  <2> HIDE DEF P
  <2>2. x \in Position /\ x.fn = P - 1 /\ Halved(x) = At((P - 1) \div 2, (P - 1) \div 2)
    <3>1. x \in Position /\ x.fn = P - 1 /\ x.sn = P - 1
      BY <2>1, PositionFields
    <3> HIDE DEF x
    <3>2. QED
      BY <3>1, PositionFields
  <2>3. CASE n = 0
    <3>1. P - 1 = 0 /\ ~Odd(0)
      BY <2>3, PowerEquation DEF Odd, P
    <3>2. QED
      BY <2>2, <3>1, ShiftOddEquation DEF P, Top
  <2>4. CASE n # 0
    <3> DEFINE Q == Power[n - 1]
    <3>1. n - 1 \in G /\ Q \in Nat /\ P = 2 * Q
      BY <1>1, <2>4, PowerIsEven DEF P
    <3>2. ShiftOdd[At(Q - 1, Q - 1)] = Top
      BY <3>1
    <3> HIDE DEF Q
    <3>3. Odd(P - 1) /\ (P - 1) \div 2 = Q - 1
      BY <2>1, <3>1 DEF Odd
    <3>4. ShiftOdd[x] = Top
      BY <2>2, <3>2, <3>3, ShiftOddEquation
    <3>5. QED
      BY <3>4 DEF P
  <2>5. QED
    BY <2>3, <2>4
<1>2. G = Nat
  <2>1. G \in SUBSET Nat
    OBVIOUS
  <2> HIDE DEF G
  <2> QED BY <1>1, <2>1, StrongInduction
<1>3. QED
  BY <1>2

-----------------------------------------------------------------------------
(* Consistency proofs by their equation.                                     *)

\* What _subproof of tlog.py computes, case by case.
LEMMA SubProofEquation ==
    \A s \in Seq(Hashes) : \A m \in 1..Len(s) :
        /\ m = Len(s) => /\ SubProof[s][m][TRUE] = <<>>
                         /\ SubProof[s][m][FALSE] = <<MerkleRoot[s]>>
        /\ m < Len(s) /\ m <= Split(Len(s)) => \A b \in BOOLEAN :
              SubProof[s][m][b] = Append(SubProof[Left(s)][m][b], MerkleRoot[Right(s)])
        /\ m < Len(s) /\ m > Split(Len(s)) => \A b \in BOOLEAN :
              SubProof[s][m][b]
                  = Append(SubProof[Right(s)][m - Split(Len(s))][FALSE], MerkleRoot[Left(s)])
<1> DEFINE S == {x \in Seq(Hashes) \X Nat \X {0, 1} : x[2] \in 1..Len(x[1])}
           V == Seq(Roots)
           B == {x \in S : x[2] = Len(x[1])}
           z == [x \in S |-> Len(x[1])]
           c == [x \in S |-> IF x[3] = 1 THEN <<>> ELSE <<MerkleRoot[x[1]]>>]
           k(x) == Split(Len(x[1]))
           next == [x \in S |-> IF x[2] <= k(x) THEN <<Left(x[1]), x[2], x[3]>>
                                ELSE <<Right(x[1]), x[2] - k(x), 0>>]
           last(x) == IF x[2] <= k(x) THEN MerkleRoot[Right(x[1])] ELSE MerkleRoot[Left(x[1])]
           op == [y \in S \X V |-> IF y[1] \in B THEN y[2] ELSE Append(y[2], last(y[1]))]
<1>0. ASSUME NEW x \in S
      PROVE  /\ Len(x[1]) \in Nat /\ x[1] \in Seq(Hashes) /\ x[2] \in 1..Len(x[1]) /\ x[3] \in {0, 1}
             /\ x \notin B => /\ Left(x[1]) \in Seq(Hashes) /\ Right(x[1]) \in Seq(Hashes)
                              /\ Len(Left(x[1])) < Len(x[1]) /\ Len(Right(x[1])) < Len(x[1])
                              /\ Len(Left(x[1])) = k(x) /\ Len(Right(x[1])) = Len(x[1]) - k(x)
                              /\ k(x) \in Nat /\ x[2] < Len(x[1])
  <2>1. x[1] \in Seq(Hashes) /\ x[2] \in 1..Len(x[1]) /\ Len(x[1]) \in Nat /\ x[3] \in {0, 1}
    OBVIOUS
  <2>2. ASSUME x \notin B
        PROVE  /\ Left(x[1]) \in Seq(Hashes) /\ Right(x[1]) \in Seq(Hashes)
               /\ Len(Left(x[1])) < Len(x[1]) /\ Len(Right(x[1])) < Len(x[1])
               /\ Len(Left(x[1])) = k(x) /\ Len(Right(x[1])) = Len(x[1]) - k(x)
               /\ k(x) \in Nat /\ x[2] < Len(x[1])
    <3>1. Len(x[1]) > 1 /\ x[2] < Len(x[1])
      BY <2>1, <2>2
    <3>2. /\ Left(x[1]) \in Seq(Hashes) /\ Right(x[1]) \in Seq(Hashes)
          /\ Len(Left(x[1])) = Split(Len(x[1])) /\ Len(Right(x[1])) = Len(x[1]) - Split(Len(x[1]))
          /\ Len(Left(x[1])) \in 1..(Len(x[1]) - 1) /\ Len(Right(x[1])) \in 1..(Len(x[1]) - 1)
      BY <2>1, <3>1, Halves
    <3>3. Split(Len(x[1])) \in 1..(Len(x[1]) - 1)
      BY <2>1, <3>1, SplitWithin
    <3>4. QED
      BY <2>1, <3>1, <3>2, <3>3
  <2>3. QED
    BY <2>1, <2>2
<1>1. Descends(S, V, B, z, c, next, op)
  <2>1. \A x \in S : z[x] \in Nat
    BY <1>0
  <2>2. ASSUME NEW x \in S, x \in B PROVE c[x] \in V
    <3>1. MerkleRoot[x[1]] \in Roots
      BY <1>0 DEF Roots
    <3>2. QED
      BY <3>1
  <2>3. ASSUME NEW x \in S, x \notin B PROVE next[x] \in S /\ z[next[x]] < z[x]
    <3>1. CASE x[2] <= k(x)
      <4>1. next[x] = <<Left(x[1]), x[2], x[3]>>
        BY <3>1
      <4>2. next[x] \in S
        BY <1>0, <2>3, <3>1, <4>1
      <4>3. QED
        BY <1>0, <2>3, <4>1, <4>2
    <3>2. CASE ~(x[2] <= k(x))
      <4>1. next[x] = <<Right(x[1]), x[2] - k(x), 0>>
        BY <3>2
      <4>2. x[2] - k(x) \in 1..Len(Right(x[1])) /\ x[2] - k(x) \in Nat
        BY <1>0, <2>3, <3>2
      <4>3. next[x] \in S
        BY <1>0, <2>3, <4>1, <4>2
      <4>4. QED
        BY <1>0, <2>3, <4>1, <4>3
    <3>3. QED
      BY <3>1, <3>2
  <2>4. ASSUME NEW x \in S, NEW v \in V PROVE op[<<x, v>>] \in V
    <3>1. op[<<x, v>>] = IF x \in B THEN v ELSE Append(v, last(x))
      BY Zenon
    <3>2. x \notin B => last(x) \in Roots
      BY <1>0 DEF Roots
    <3> HIDE DEF last, op
    <3>3. QED
      BY <3>1, <3>2
  <2> HIDE DEF S, V, B, z, c, next, op
  <2>5. QED
    BY <2>1, <2>2, <2>3, <2>4 DEF Descends
<1>2. \E f : Recursive(S, V, B, c, next, op, f)
  <2> HIDE DEF S, V, B, z, c, next, op
  <2> QED BY <1>1, Recursion
<1>3. PICK f : Recursive(S, V, B, c, next, op, f)
  <2> HIDE DEF S, V, B, z, c, next, op
  <2> QED BY <1>2
<1>4. f \in [S -> V] /\ \A x \in S : f[x] = IF x \in B THEN c[x] ELSE op[<<x, f[next[x]]>>]
  <2> HIDE DEF S, V, B, z, c, next, op
  <2> QED BY <1>3 DEF Recursive
<1> DEFINE bit(b) == IF b THEN 1 ELSE 0
           F == [s \in Seq(Hashes) |-> [m \in 1..Len(s) |-> [b \in BOOLEAN |-> f[<<s, m, bit(b)>>]]]]
           step(g, s, m, b) ==
             IF m = Len(s) THEN IF b THEN <<>> ELSE <<MerkleRoot[s]>>
             ELSE IF m <= Split(Len(s)) THEN Append(g[Left(s)][m][b], MerkleRoot[Right(s)])
             ELSE Append(g[Right(s)][m - Split(Len(s))][FALSE], MerkleRoot[Left(s)])
<1>5. /\ bit(TRUE) = 1 /\ bit(FALSE) = 0
      /\ \A s \in Seq(Hashes) : \A m \in 1..Len(s) : \A b \in BOOLEAN : F[s][m][b] = f[<<s, m, bit(b)>>]
  OBVIOUS
<1>6. ASSUME NEW s \in Seq(Hashes), NEW m \in 1..Len(s), NEW b \in BOOLEAN
      PROVE  F[s][m][b] = step(F, s, m, b)
  <2> DEFINE x == <<s, m, bit(b)>>
  <2>1. x \in S /\ x[1] = s /\ x[2] = m /\ x[3] = bit(b) /\ bit(b) \in {0, 1} /\ (bit(b) = 1 <=> b)
    OBVIOUS
  <2> HIDE DEF bit
  <2>2. CASE m = Len(s)
    <3>1. x \in B
      BY <2>1, <2>2
    <3>2. f[x] = c[x]
      <4> HIDE DEF S, V, B, c, next, op, x
      <4> QED BY <1>4, <2>1, <3>1
    <3>3. c[x] = IF bit(b) = 1 THEN <<>> ELSE <<MerkleRoot[s]>>
      BY <2>1
    <3> HIDE DEF c, S, B
    <3>4. QED
      BY <1>5, <2>1, <2>2, <3>2, <3>3
  <2>3. CASE ~(m = Len(s))
    <3>1. x \notin B
      BY <2>1, <2>3
    <3>2. /\ Left(s) \in Seq(Hashes) /\ Right(s) \in Seq(Hashes) /\ Split(Len(s)) \in Nat
          /\ Len(Left(s)) = Split(Len(s)) /\ Len(Right(s)) = Len(s) - Split(Len(s)) /\ m < Len(s) /\ Len(s) \in Nat
      <4> HIDE DEF S, B, x
      <4> QED BY <1>0, <2>1, <3>1
    <3>3. f[x] = op[<<x, f[next[x]]>>] /\ next[x] \in S /\ f[next[x]] \in V
      <4>1. next[x] \in S
        BY <1>1, <3>1, <2>1 DEF Descends
      <4> HIDE DEF S, V, B, c, next, op, x
      <4>2. QED
        BY <1>4, <2>1, <3>1, <4>1
    <3>4. f[x] = Append(f[next[x]], last(x))
      <4>1. <<x, f[next[x]]>> \in S \X V
        <5> HIDE DEF S, V, next, x
        <5> QED BY <2>1, <3>3
      <4> HIDE DEF S, V, B, next, last, x
      <4>2. QED
        BY <3>1, <3>3, <4>1
    <3>5. CASE m <= Split(Len(s))
      <4>1. next[x] = <<Left(s), m, bit(b)>> /\ last(x) = MerkleRoot[Right(s)]
        BY <2>1, <3>5
      <4>2. m \in 1..Len(Left(s))
        BY <3>2, <3>5
      <4>3. f[next[x]] = F[Left(s)][m][b]
        <5> HIDE DEF F, next, x
        <5> QED BY <1>5, <3>2, <4>1, <4>2
      <4> HIDE DEF F, next, last
      <4>4. QED
        BY <1>5, <2>3, <3>4, <3>5, <4>1, <4>3
    <3>6. CASE ~(m <= Split(Len(s)))
      <4>1. next[x] = <<Right(s), m - Split(Len(s)), bit(FALSE)>> /\ last(x) = MerkleRoot[Left(s)]
        BY <1>5, <2>1, <3>6
      <4>2. m - Split(Len(s)) \in 1..Len(Right(s))
        BY <3>2, <3>6
      <4>3. f[next[x]] = F[Right(s)][m - Split(Len(s))][FALSE]
        <5> HIDE DEF F, next, x
        <5> QED BY <1>5, <3>2, <4>1, <4>2
      <4> HIDE DEF F, next, last
      <4>4. QED
        BY <1>5, <2>3, <3>4, <3>6, <4>1, <4>3
    <3>7. QED
      BY <3>5, <3>6
  <2>4. QED
    BY <2>2, <2>3
<1> DEFINE tip(g, s, m) == [b \in BOOLEAN |-> step(g, s, m, b)]
           row(g, s) == [m \in 1..Len(s) |-> tip(g, s, m)]
<1>7. \A s \in Seq(Hashes) : F[s] = row(F, s)
  <2> TAKE s \in Seq(Hashes)
  <2>1. \A m \in 1..Len(s) : F[s][m] = [b \in BOOLEAN |-> F[s][m][b]]
    OBVIOUS
  <2>2. F[s] = [m \in 1..Len(s) |-> F[s][m]]
    OBVIOUS
  <2> HIDE DEF F, step
  <2>3. \A m \in 1..Len(s) : F[s][m] = tip(F, s, m)
    BY <1>6, <2>1
  <2> HIDE DEF tip
  <2>4. QED
    BY <2>2, <2>3
<1>8. F = [s \in Seq(Hashes) |-> row(F, s)]
  <2>1. F = [s \in Seq(Hashes) |-> F[s]]
    OBVIOUS
  <2> HIDE DEF F, step, row
  <2>2. QED
    BY <1>7, <2>1
<1> HIDE DEF F
<1>9. \E g : g = [s \in Seq(Hashes) |-> [m \in 1..Len(s) |-> [b \in BOOLEAN |-> step(g, s, m, b)]]]
  <2> HIDE DEF step
  <2> QED BY <1>8
<1>10. SubProof = [s \in Seq(Hashes) |-> [m \in 1..Len(s) |-> [b \in BOOLEAN |-> step(SubProof, s, m, b)]]]
  BY <1>9, Zenon DEF SubProof
<1>11. \A s \in Seq(Hashes) : \A m \in 1..Len(s) : \A b \in BOOLEAN :
          SubProof[s][m][b] = step(SubProof, s, m, b)
  <2> HIDE DEF step
  <2>1. \A s : \A m : \A b \in BOOLEAN : tip(SubProof, s, m)[b] = step(SubProof, s, m, b)
    OBVIOUS
  <2>2. SubProof = [s \in Seq(Hashes) |-> row(SubProof, s)]
    BY <1>10
  <2> HIDE DEF tip
  <2>3. \A s : \A m \in 1..Len(s) : row(SubProof, s)[m] = tip(SubProof, s, m)
    OBVIOUS
  <2> HIDE DEF row
  <2>4. \A s \in Seq(Hashes) : SubProof[s] = row(SubProof, s)
    BY <2>2
  <2>5. QED
    BY <2>1, <2>3, <2>4
<1>12. ASSUME NEW s \in Seq(Hashes), NEW m \in 1..Len(s)
       PROVE  /\ m = Len(s) => /\ SubProof[s][m][TRUE] = <<>>
                               /\ SubProof[s][m][FALSE] = <<MerkleRoot[s]>>
              /\ m < Len(s) /\ m <= Split(Len(s)) => \A b \in BOOLEAN :
                    SubProof[s][m][b] = Append(SubProof[Left(s)][m][b], MerkleRoot[Right(s)])
              /\ m < Len(s) /\ m > Split(Len(s)) => \A b \in BOOLEAN :
                    SubProof[s][m][b]
                        = Append(SubProof[Right(s)][m - Split(Len(s))][FALSE], MerkleRoot[Left(s)])
  <2>1. \A b \in BOOLEAN : SubProof[s][m][b] = step(SubProof, s, m, b)
    BY <1>11
  <2> DEFINE half == Split(Len(s))
             n == Len(s)
  <2>2. n \in Nat /\ m \in Nat
    OBVIOUS
  <2>3. m < n => half \in Nat
    <3>1. ASSUME m < Len(s) PROVE Split(Len(s)) \in Nat
      <4>1. Len(s) \in Nat /\ Len(s) > 1
        BY <3>1
      <4>2. QED
        BY <4>1, SplitWithin
    <3>2. QED
      BY <3>1
  <2>4. ASSUME m = n PROVE step(SubProof, s, m, TRUE) = <<>> /\ step(SubProof, s, m, FALSE) = <<MerkleRoot[s]>>
    BY <2>4, Zenon
  <2>5. ASSUME NEW b \in BOOLEAN, m # n, m <= half
        PROVE  step(SubProof, s, m, b) = Append(SubProof[Left(s)][m][b], MerkleRoot[Right(s)])
    BY <2>5, Zenon
  <2>6. ASSUME NEW b \in BOOLEAN, m # n, ~(m <= half)
        PROVE  step(SubProof, s, m, b) = Append(SubProof[Right(s)][m - half][FALSE], MerkleRoot[Left(s)])
    BY <2>6, Zenon
  <2> HIDE DEF step, half, n
  <2>7. m < n => m # n /\ (m > half => ~(m <= half))
    BY <2>2, <2>3
  <2>8. QED
    BY <2>1, <2>4, <2>5, <2>6, <2>7 DEF half, n
<1>13. QED
  BY <1>12, Zenon

\* Their elements are roots of trees, and one that starts below the old root is not
\* empty.
LEMMA SubProofType ==
    \A s \in Seq(Hashes) : \A m \in 1..Len(s) :
        /\ \A b \in BOOLEAN : SubProof[s][m][b] \in Seq(Roots)
        /\ SubProof[s][m][FALSE] # <<>>
<1> DEFINE typed(s, m) == /\ \A b \in BOOLEAN : SubProof[s][m][b] \in Seq(Roots)
                          /\ SubProof[s][m][FALSE] # <<>>
           G == {n \in Nat : \A s \in Seq(Hashes) : \A m \in 1..n : Len(s) = n => typed(s, m)}
<1>1. ASSUME NEW n \in Nat, \A k \in 0..(n - 1) : k \in G PROVE n \in G
  <2> HIDE DEF typed
  <2> SUFFICES ASSUME NEW s \in Seq(Hashes), NEW m \in 1..n, Len(s) = n PROVE typed(s, m)
    OBVIOUS
  <2>1. \A q \in Seq(Roots) : \A x \in Roots : Append(q, x) \in Seq(Roots) /\ Append(q, x) # <<>>
    BY AppendProperties
  <2>2. CASE m = n
    <3>1. SubProof[s][m][TRUE] = <<>> /\ SubProof[s][m][FALSE] = <<MerkleRoot[s]>>
      BY <2>2, SubProofEquation
    <3>2. MerkleRoot[s] \in Roots
      BY DEF Roots
    <3>3. \A b \in BOOLEAN : b = TRUE \/ b = FALSE
      OBVIOUS
    <3>4. <<>> \in Seq(Roots) /\ <<MerkleRoot[s]>> \in Seq(Roots) /\ <<MerkleRoot[s]>> # <<>>
      BY <3>2
    <3>5. QED
      BY <3>1, <3>3, <3>4, Zenon DEF typed
  <2>3. CASE m < n
    <3> DEFINE half == Split(n)
    <3>1. /\ Left(s) \in Seq(Hashes) /\ Right(s) \in Seq(Hashes)
          /\ Len(Left(s)) = half /\ Len(Right(s)) = n - half
          /\ half \in Nat /\ half \in 0..(n - 1) /\ n - half \in 0..(n - 1)
      <4>1. n > 1
        BY <2>3
      <4> HIDE DEF G
      <4>2. QED
        BY <4>1, HalvesOf, Zenon
    <3>2. MerkleRoot[Left(s)] \in Roots /\ MerkleRoot[Right(s)] \in Roots
      BY <3>1 DEF Roots
    <3>3. half \in G /\ n - half \in G
      BY <1>1, <3>1
    <3> HIDE DEF half
    <3>4. CASE m <= half
      <4>1. typed(Left(s), m)
        <5>1. m \in 1..half
          BY <3>1, <3>4
        <5>2. QED
          BY <3>1, <3>3, <5>1
      <4>2. \A b \in BOOLEAN : SubProof[s][m][b] = Append(SubProof[Left(s)][m][b], MerkleRoot[Right(s)])
        BY <2>3, <3>4, SubProofEquation DEF half
      <4>3. QED
        BY <2>1, <3>2, <4>1, <4>2, Zenon DEF typed
    <3>5. CASE m > half
      <4>1. m - half \in 1..(n - half)
        BY <2>3, <3>1, <3>5
      <4>2. typed(Right(s), m - half)
        BY <3>1, <3>3, <4>1
      <4>3. \A b \in BOOLEAN :
               SubProof[s][m][b] = Append(SubProof[Right(s)][m - half][FALSE], MerkleRoot[Left(s)])
        BY <2>3, <3>5, SubProofEquation DEF half
      <4>4. QED
        BY <2>1, <3>2, <4>2, <4>3, Zenon DEF typed
    <3>6. QED
      <4> HIDE DEF G
      <4> QED BY <3>1, <3>4, <3>5
  <2>4. QED
    <3> HIDE DEF G
    <3> QED BY <2>2, <2>3
<1>2. G = Nat
  <2>1. G \in SUBSET Nat
    OBVIOUS
  <2> HIDE DEF G
  <2> QED BY <1>1, <2>1, StrongInduction
<1> HIDE DEF typed
<1>3. \A s \in Seq(Hashes) : \A m \in 1..Len(s) : typed(s, m)
  BY <1>2
<1>4. QED
  BY <1>3 DEF typed

\* The old tree lies in the left half, or its left half is that of the tree.
LEMMA OldTree ==
    ASSUME NEW n \in Nat, NEW s \in Seq(Hashes), Len(s) = n, NEW m \in 1..n, m < n
    PROVE  /\ SubSeq(s, 1, m) \in Seq(Hashes) /\ Len(SubSeq(s, 1, m)) = m
           /\ m <= Split(n) => SubSeq(s, 1, m) = SubSeq(Left(s), 1, m)
           /\ m > Split(n) =>
                 MerkleRoot[SubSeq(s, 1, m)]
                     = <<MerkleRoot[Left(s)], MerkleRoot[SubSeq(Right(s), 1, m - Split(n))]>>
<1>1. PICK d \in Nat : Split(n) = Power[d] /\ Power[d] < n /\ n <= 2 * Power[d]
  BY SplitIsPower
<1> DEFINE half == Split(n)
           old == SubSeq(s, 1, m)
<1>2. half \in 1..(n - 1)
  BY SplitWithin
<1>3. \A i \in 1..n : s[i] \in Hashes
  BY ElementOfSeq
<1> HIDE DEF half
<1>4. old \in Seq(Hashes) /\ Len(old) = m
  BY <1>3, SubSeqProperties
<1>5. Left(s) = SubSeq(s, 1, half) /\ Right(s) = SubSeq(s, half + 1, n)
  BY DEF Left, Right, half
<1>6. ASSUME m <= half PROVE old = SubSeq(Left(s), 1, m)
  <2>1. 1 \in 1..Len(s) /\ half \in 1..Len(s) /\ 1 \in 1..(half - 1 + 1) /\ m \in 1..(half - 1 + 1)
    BY <1>2, <1>6
  <2>2. SubSeq(SubSeq(s, 1, half), 1, m) = SubSeq(s, 1 + 1 - 1, 1 + m - 1)
    BY <2>1, SubSeqOfSubSeq
  <2>3. 1 + 1 - 1 = 1 /\ 1 + m - 1 = m
    OBVIOUS
  <2>4. QED
    BY <1>5, <2>2, <2>3
<1>7. ASSUME m > half PROVE MerkleRoot[old] = <<MerkleRoot[Left(s)], MerkleRoot[SubSeq(Right(s), 1, m - half)]>>
  <2>1. Split(m) = half
    <3>1. half = Power[d] /\ half < n /\ n <= 2 * half
      BY <1>1 DEF half
    <3>2. half < m /\ m <= 2 * half /\ m \in Nat
      BY <1>2, <1>7, <3>1
    <3>3. QED
      BY <3>1, <3>2, SplitAt
  <2>2. Left(old) = SubSeq(old, 1, half) /\ Right(old) = SubSeq(old, half + 1, m)
    BY <1>4, <2>1 DEF Left, Right
  <2>3. SubSeq(old, 1, half) = Left(s)
    <3>1. 1 \in 1..Len(s) /\ m \in 1..Len(s) /\ 1 \in 1..(m - 1 + 1) /\ half \in 1..(m - 1 + 1)
      BY <1>2, <1>7
    <3>2. SubSeq(SubSeq(s, 1, m), 1, half) = SubSeq(s, 1 + 1 - 1, 1 + half - 1)
      BY <3>1, SubSeqOfSubSeq
    <3>3. 1 + 1 - 1 = 1 /\ 1 + half - 1 = half
      BY <1>2
    <3>4. QED
      BY <1>5, <3>2, <3>3
  <2>4. SubSeq(old, half + 1, m) = SubSeq(s, half + 1, m)
    <3>1. 1 \in 1..Len(s) /\ m \in 1..Len(s) /\ half + 1 \in 1..(m - 1 + 1) /\ m \in 1..(m - 1 + 1)
      BY <1>2, <1>7
    <3>2. SubSeq(SubSeq(s, 1, m), half + 1, m) = SubSeq(s, 1 + (half + 1) - 1, 1 + m - 1)
      BY <3>1, SubSeqOfSubSeq
    <3>3. 1 + (half + 1) - 1 = half + 1 /\ 1 + m - 1 = m
      BY <1>2
    <3>4. QED
      BY <3>2, <3>3
  <2>5. SubSeq(Right(s), 1, m - half) = SubSeq(s, half + 1, m)
    <3> DEFINE i == half + 1
               k == m - half
    <3>1. /\ i \in 1..Len(s) /\ n \in 1..Len(s) /\ 1 \in 1..(n - i + 1) /\ k \in 1..(n - i + 1)
          /\ i + 1 - 1 = i /\ i + k - 1 = m
      BY <1>2, <1>7
    <3> HIDE DEF i, k
    <3>2. SubSeq(SubSeq(s, i, n), 1, k) = SubSeq(s, i + 1 - 1, i + k - 1)
      BY <3>1, SubSeqOfSubSeq
    <3>3. SubSeq(SubSeq(s, i, n), 1, k) = SubSeq(s, i, m)
      BY <3>1, <3>2
    <3>4. QED
      BY <1>5, <3>3 DEF i, k
  <2>6. Len(old) > 1
    BY <1>2, <1>4, <1>7
  <2> HIDE DEF old
  <2>7. MerkleRoot[old] = <<MerkleRoot[Left(old)], MerkleRoot[Right(old)]>>
    BY <1>4, <2>6, RootOfTree
  <2>8. QED
    BY <2>2, <2>3, <2>4, <2>5, <2>7
<1>8. QED
  BY <1>4, <1>6, <1>7 DEF half

\* What a consistency proof from the old root up leaves out: the old root, if the old
\* tree is complete, and nothing if it is not.
LEMMA FromOldRoot ==
    \A s \in Seq(Hashes) : \A m \in 1..Len(s) :
        /\ PowerOfTwo(m) =>
              SubProof[s][m][FALSE] = <<MerkleRoot[SubSeq(s, 1, m)]>> \o SubProof[s][m][TRUE]
        /\ ~PowerOfTwo(m) /\ m < Len(s) => SubProof[s][m][FALSE] = SubProof[s][m][TRUE]
<1> DEFINE claim(s, m) ==
             /\ PowerOfTwo(m) =>
                  SubProof[s][m][FALSE] = <<MerkleRoot[SubSeq(s, 1, m)]>> \o SubProof[s][m][TRUE]
             /\ ~PowerOfTwo(m) /\ m < Len(s) => SubProof[s][m][FALSE] = SubProof[s][m][TRUE]
           G == {n \in Nat : \A s \in Seq(Hashes) : \A m \in 1..n : Len(s) = n => claim(s, m)}
<1>1. ASSUME NEW n \in Nat, \A k \in 0..(n - 1) : k \in G PROVE n \in G
  <2> HIDE DEF claim
  <2> SUFFICES ASSUME NEW s \in Seq(Hashes), NEW m \in 1..n, Len(s) = n PROVE claim(s, m)
    OBVIOUS
  <2>1. CASE m = n
    <3>1. SubProof[s][m][TRUE] = <<>> /\ SubProof[s][m][FALSE] = <<MerkleRoot[s]>>
      BY <2>1, SubProofEquation
    <3>2. SubSeq(s, 1, m) = s
      BY <2>1, SubSeqFull
    <3>3. <<MerkleRoot[s]>> \o <<>> = <<MerkleRoot[s]>>
      <4>1. <<MerkleRoot[s]>> \in Seq({MerkleRoot[s]})
        OBVIOUS
      <4>2. QED
        BY <4>1, ConcatEmptySeq
    <3>4. ~(m < Len(s))
      BY <2>1
    <3>5. QED
      BY <3>1, <3>2, <3>3, <3>4 DEF claim
  <2>2. CASE m < n
    <3> DEFINE half == Split(n)
               old == MerkleRoot[SubSeq(s, 1, m)]
    <3>1. /\ Left(s) \in Seq(Hashes) /\ Right(s) \in Seq(Hashes)
          /\ Len(Left(s)) = half /\ half \in Nat /\ half \in 0..(n - 1)
      <4>1. n > 1
        BY <2>2
      <4> HIDE DEF G
      <4>2. QED
        BY <4>1, HalvesOf, Zenon
    <3>2. PowerOfTwo(half)
      BY <2>2, SplitWithin
    <3>3. PowerOfTwo(m) => m <= half
      <4> DEFINE S == {k \in 1..(n - 1) : PowerOfTwo(k)}
      <4>1. S \in SUBSET Nat /\ \A k \in S : k <= n
        OBVIOUS
      <4> SUFFICES ASSUME PowerOfTwo(m) PROVE m <= half
        OBVIOUS
      <4>2. m \in S
        BY <2>2
      <4>3. half = Max(S)
        BY DEF Split
      <4> HIDE DEF S, half
      <4>4. \A k \in S : k <= Max(S)
        BY <4>1, <4>2, MaxOfBounded
      <4>5. QED
        BY <4>2, <4>3, <4>4
    <3> HIDE DEF half, G
    <3>4. CASE m <= half
      <4>1. claim(Left(s), m)
        <5>1. half \in G /\ m \in 1..half
          BY <1>1, <3>1, <3>4
        <5>2. QED
          BY <3>1, <5>1 DEF G
      <4>2. \A b \in BOOLEAN : SubProof[s][m][b] = Append(SubProof[Left(s)][m][b], MerkleRoot[Right(s)])
        BY <2>2, <3>4, SubProofEquation DEF half
      <4> DEFINE p == SubProof[Left(s)][m][TRUE]
                 x == MerkleRoot[Right(s)]
      <4>3. SubProof[s][m][TRUE] = Append(p, x) /\ SubProof[s][m][FALSE] = Append(SubProof[Left(s)][m][FALSE], x)
        BY <4>2
      <4>4. p \in Seq(Roots) /\ x \in Roots
        <5>1. m \in 1..Len(Left(s)) /\ TRUE \in BOOLEAN
          BY <3>1, <3>4
        <5>2. p \in Seq(Roots)
          BY <3>1, <5>1, SubProofType
        <5>3. Right(s) \in Seq(Hashes)
          <6>1. n > 1
            BY <2>2
          <6>2. QED
            BY <6>1, HalvesOf
        <5>4. QED
          BY <5>2, <5>3 DEF Roots
      <4>5. SubSeq(s, 1, m) = SubSeq(Left(s), 1, m) /\ old \in Roots
        BY <2>2, <3>4, OldTree DEF half, Roots
      <4> HIDE DEF p, x, old
      <4>6. <<old>> \o Append(p, x) = Append(<<old>> \o p, x)
        BY <4>4, <4>5
      <4>7. PowerOfTwo(m) => SubProof[Left(s)][m][FALSE] = <<old>> \o p
        BY <4>1, <4>5 DEF claim, p, old
      <4>8. ~PowerOfTwo(m) => SubProof[Left(s)][m][FALSE] = p
        <5>1. ~PowerOfTwo(m) => m < half
          BY <3>1, <3>2, <3>4
        <5>2. QED
          BY <3>1, <4>1, <5>1 DEF claim, p
      <4>9. QED
        BY <4>3, <4>6, <4>7, <4>8 DEF claim, old
    <3>5. CASE m > half
      <4>1. \A b \in BOOLEAN :
               SubProof[s][m][b] = Append(SubProof[Right(s)][m - half][FALSE], MerkleRoot[Left(s)])
        BY <2>2, <3>5, SubProofEquation DEF half
      <4>2. SubProof[s][m][FALSE] = SubProof[s][m][TRUE]
        BY <4>1
      <4>3. ~PowerOfTwo(m)
        BY <3>1, <3>3, <3>5
      <4>4. QED
        BY <4>2, <4>3 DEF claim
    <3>6. QED
      BY <3>1, <3>4, <3>5
  <2>3. QED
    BY <2>1, <2>2
<1>2. G = Nat
  <2>1. G \in SUBSET Nat
    OBVIOUS
  <2> HIDE DEF G
  <2> QED BY <1>1, <2>1, StrongInduction
<1> HIDE DEF claim
<1>3. \A s \in Seq(Hashes) : \A m \in 1..Len(s) : claim(s, m)
  BY <1>2
<1>4. QED
  BY <1>3 DEF claim

\* A proof of a tree is one of a half of it and the root of the other half.
LEMMA SubProofOfHalf ==
    ASSUME NEW n \in Nat, NEW s \in Seq(Hashes), Len(s) = n, NEW m \in 1..n, m < n
    PROVE  \E p \in Seq(Roots) : \E y \in Roots :
              LET q == SubProof[s][m][FALSE] IN
              /\ m <= Split(n) => p = SubProof[Left(s)][m][FALSE] /\ y = MerkleRoot[Right(s)]
              /\ m > Split(n) => /\ p = SubProof[Right(s)][m - Split(n)][FALSE]
                                 /\ y = MerkleRoot[Left(s)]
              /\ Len(p) - 1 \in Nat /\ Len(q) - 1 = (Len(p) - 1) + 1 /\ q[1] = p[1]
              /\ Continues(Tail(q), Tail(p), Len(p) - 1) /\ Tail(q)[(Len(p) - 1) + 1] = y
<1> DEFINE half == Split(n)
           q == SubProof[s][m][FALSE]
<1>1. /\ Left(s) \in Seq(Hashes) /\ Right(s) \in Seq(Hashes)
      /\ Len(Left(s)) = half /\ Len(Right(s)) = n - half /\ half \in Nat
  <2>1. n > 1
    OBVIOUS
  <2>2. QED
    BY <2>1, HalvesOf, Zenon
<1> HIDE DEF half, q
<1>2. MerkleRoot[Left(s)] \in Roots /\ MerkleRoot[Right(s)] \in Roots
  BY <1>1 DEF Roots
<1>3. \E p \in Seq(Roots) : \E y \in Roots :
         /\ m <= half => p = SubProof[Left(s)][m][FALSE] /\ y = MerkleRoot[Right(s)]
         /\ m > half => p = SubProof[Right(s)][m - half][FALSE] /\ y = MerkleRoot[Left(s)]
         /\ q = Append(p, y) /\ p # <<>>
  <2>1. CASE m <= half
    <3>1. q = Append(SubProof[Left(s)][m][FALSE], MerkleRoot[Right(s)])
      BY <2>1, SubProofEquation DEF half, q
    <3>2. m \in 1..Len(Left(s))
      BY <1>1, <2>1
    <3>3. SubProof[Left(s)][m][FALSE] \in Seq(Roots) /\ SubProof[Left(s)][m][FALSE] # <<>>
      BY <1>1, <3>2, SubProofType
    <3>4. ~(m > half)
      BY <1>1, <2>1
    <3>5. QED
      BY <1>2, <3>1, <3>3, <3>4
  <2>2. CASE m > half
    <3>1. q = Append(SubProof[Right(s)][m - half][FALSE], MerkleRoot[Left(s)])
      BY <2>2, SubProofEquation DEF half, q
    <3>2. m - half \in 1..Len(Right(s))
      BY <1>1, <2>2
    <3>3. SubProof[Right(s)][m - half][FALSE] \in Seq(Roots) /\ SubProof[Right(s)][m - half][FALSE] # <<>>
      BY <1>1, <3>2, SubProofType
    <3>4. ~(m <= half)
      BY <1>1, <2>2
    <3>5. QED
      BY <1>2, <3>1, <3>3, <3>4
  <2>3. m <= half \/ m > half
    BY <1>1
  <2>4. QED
    BY <2>1, <2>2, <2>3, Zenon
<1>4. PICK p \in Seq(Roots) : \E y \in Roots :
         /\ m <= half => p = SubProof[Left(s)][m][FALSE] /\ y = MerkleRoot[Right(s)]
         /\ m > half => p = SubProof[Right(s)][m - half][FALSE] /\ y = MerkleRoot[Left(s)]
         /\ q = Append(p, y) /\ p # <<>>
  BY <1>3
<1>5. PICK y \in Roots :
         /\ m <= half => p = SubProof[Left(s)][m][FALSE] /\ y = MerkleRoot[Right(s)]
         /\ m > half => p = SubProof[Right(s)][m - half][FALSE] /\ y = MerkleRoot[Left(s)]
         /\ q = Append(p, y) /\ p # <<>>
  BY <1>4
<1> DEFINE l == Len(p)
<1>6. l \in Nat /\ l >= 1
  BY <1>5, EmptySeq
<1>7. /\ q \in Seq(Roots) /\ Len(q) = l + 1 /\ q # <<>>
      /\ \A k \in 1..l : q[k] = p[k]
      /\ q[l + 1] = y
  <2>1. /\ Append(p, y) \in Seq(Roots) /\ Append(p, y) # <<>> /\ Len(Append(p, y)) = Len(p) + 1
        /\ \A k \in 1..Len(p) : Append(p, y)[k] = p[k]
        /\ Append(p, y)[Len(p) + 1] = y
    BY AppendProperties
  <2>2. QED
    BY <1>5, <2>1
<1>8. /\ Len(Tail(p)) = l - 1 /\ Len(Tail(q)) = l
      /\ \A k \in 1..(l - 1) : Tail(p)[k] = p[k + 1]
      /\ \A k \in 1..l : Tail(q)[k] = q[k + 1]
  <2>1. Len(Tail(p)) = Len(p) - 1 /\ \A k \in 1..Len(Tail(p)) : Tail(p)[k] = p[k + 1]
    BY <1>5, HeadTailProperties
  <2>2. Len(Tail(q)) = Len(q) - 1 /\ \A k \in 1..Len(Tail(q)) : Tail(q)[k] = q[k + 1]
    BY <1>7, HeadTailProperties
  <2> HIDE DEF l
  <2>3. (l + 1) - 1 = l
    BY <1>6
  <2>4. QED
    BY <1>7, <2>1, <2>2, <2>3 DEF l
<1> HIDE DEF l
<1>9. /\ l - 1 \in Nat /\ Len(q) - 1 = (l - 1) + 1 /\ (l - 1) + 1 = l /\ q[1] = p[1]
  <2>1. 1 \in 1..l
    BY <1>6
  <2>2. QED
    BY <1>6, <1>7, <2>1
<1>10. Continues(Tail(q), Tail(p), l - 1)
  <2>1. ASSUME NEW k \in 1..(l - 1) PROVE Tail(q)[k] = Tail(p)[k]
    <3>1. k \in 1..l /\ k + 1 \in 1..l
      BY <1>6
    <3>2. QED
      BY <1>7, <1>8, <3>1
  <2>2. QED
    BY <2>1 DEF Continues
<1>11. Tail(q)[(l - 1) + 1] = y
  <2>1. l \in 1..l
    BY <1>6
  <2>2. QED
    BY <1>7, <1>8, <1>9, <2>1
<1>12. QED
  BY <1>5, <1>9, <1>10, <1>11 DEF l, half, q

\* Where the walk of a consistency proof from m to n leaves starts.
Start(m, n) == ShiftOdd[At(m - 1, n - 1)]

\* Where it does in the half of the tree that the old one ends in.
LEMMA StartOfHalf ==
    ASSUME NEW n \in Nat, NEW m \in 1..n, m < n
    PROVE  \E d \in Nat :
              /\ Start(m, n) \in Position
              /\ m <= Split(n) => /\ Start(m, Split(n)) \in Position
                                  /\ Inside(Start(m, n), Start(m, Split(n)), d)
              /\ m > Split(n) => /\ Start(m - Split(n), n - Split(n)) \in Position
                                 /\ Apart(Start(m, n), Start(m - Split(n), n - Split(n)), d)
<1> DEFINE half == Split(n)
           f == m - 1
           a == At(f, n - 1)
<1>0. n > 1 /\ f \in Nat /\ f < n
  OBVIOUS
<1>1. half \in Nat
  BY <1>0, SplitWithin
<1> HIDE DEF half, f
<1>2. PICK d \in Nat :
              /\ a \in Position
              /\ f < half => At(f, half - 1) \in Position /\ Inside(a, At(f, half - 1), d)
              /\ f >= half => /\ At(f - half, n - half - 1) \in Position
                              /\ Apart(a, At(f - half, n - half - 1), d)
  <2>1. PICK d \in Nat :
              /\ Split(n) = Power[d] /\ Power[d] \in Nat /\ n <= 2 * Power[d]
              /\ At(f, n - 1) \in Position /\ At(f, n - 1).sn = n - 1
              /\ f < Split(n) => /\ At(f, Split(n) - 1) \in Position
                                 /\ Inside(At(f, n - 1), At(f, Split(n) - 1), d)
              /\ f >= Split(n) => /\ At(f - Split(n), n - Split(n) - 1) \in Position
                                  /\ Apart(At(f, n - 1), At(f - Split(n), n - Split(n) - 1), d)
    BY <1>0, HalfPositions
  <2>2. QED
    BY <2>1 DEF half
<1>3. CASE m <= half
  <2>1. f < half /\ ~(m > half)
    BY <1>1, <1>3 DEF f
  <2>2. \E j \in Nat : /\ ShiftOdd[a] \in Position /\ ShiftOdd[At(f, half - 1)] \in Position
                       /\ Inside(ShiftOdd[a], ShiftOdd[At(f, half - 1)], j)
    BY <1>2, <2>1, InsideShift
  <2>3. QED
    BY <2>1, <2>2 DEF Start, half, f
<1>4. CASE m > half
  <2> DEFINE b == At(f - half, n - half - 1)
  <2>1. f >= half /\ ~(m <= half) /\ b = At((m - half) - 1, (n - half) - 1)
    <3>1. f >= half /\ ~(m <= half) /\ f - half = (m - half) - 1
      BY <1>1, <1>4 DEF f
    <3>2. QED
      BY <3>1
  <2>2. b \in Position /\ b.fn < b.sn
    <3>1. f - half \in Nat /\ n - half - 1 \in Nat /\ f - half < n - half - 1
      BY <1>0, <1>1, <2>1 DEF f
    <3>2. b \in Position /\ b.fn = f - half /\ b.sn = n - half - 1
      BY <3>1, PositionFields
    <3>3. QED
      BY <3>1, <3>2
  <2>3. Apart(a, b, d)
    BY <1>2, <2>1
  <2> HIDE DEF b
  <2>4. \E j \in Nat : /\ ShiftOdd[a] \in Position /\ ShiftOdd[b] \in Position
                       /\ Apart(ShiftOdd[a], ShiftOdd[b], j)
    BY <1>2, <2>2, <2>3, ApartShift
  <2>5. QED
    BY <2>1, <2>4 DEF Start, half, f
<1>5. QED
  BY <1>1, <1>3, <1>4

\* The walk in the tree takes one climb more than the one in its right half.
LEMMA ApartReaches ==
    ASSUME NEW i \in Nat, NEW a \in Position, NEW b \in Position, Apart(a, b, i),
           NEW l \in Nat, Reaches(b, l)
    PROVE  Reaches(a, l + 1) /\ SameTurns(a, b, l) /\ OnRight(Rise(a)[l])
<1>1. \A k \in Nat : /\ OnRight(Rise(a)[k]) <=> OnRight(Rise(b)[k])
                     /\ Rise(b)[k].sn = 0 => OnRight(Rise(a)[k]) /\ Rise(a)[k + 1].sn = 0
                     /\ Rise(a)[k].sn = 0 => k # 0 /\ Rise(b)[k - 1].sn = 0
  BY ApartRises
<1>2. Rise(b)[l].sn = 0 /\ \A k \in 0..(l - 1) : Rise(b)[k].sn # 0
  BY DEF Reaches
<1>3. ASSUME NEW k \in 0..((l + 1) - 1) PROVE Rise(a)[k].sn # 0
  <2>1. k \in Nat /\ (k # 0 => k - 1 \in 0..(l - 1))
    OBVIOUS
  <2>2. QED
    BY <1>1, <1>2, <2>1
<1>4. SameTurns(a, b, l)
  BY <1>1 DEF SameTurns
<1>5. QED
  BY <1>1, <1>2, <1>3, <1>4 DEF Reaches

\* The hashes that the same walk computes for the old tree: it has only the neighbours
\* on the left.
Rejoins(at, path, n, o) ==
    \A k \in 1..n : o[k] = IF OnRight(Rise(at)[k - 1]) THEN NodeHash(path[k], o[k - 1]) ELSE o[k - 1]

\* In a half, out of those in the tree.
LEMMA RejoinsOfHalf ==
    ASSUME NEW a, NEW b, NEW q, NEW p, NEW l \in Nat, NEW o,
           Continues(q, p, l), SameTurns(a, b, l), Rejoins(a, q, l + 1, o)
    PROVE  /\ Rejoins(b, p, l, o)
           /\ o[l + 1] = IF OnRight(Rise(a)[l]) THEN NodeHash(q[l + 1], o[l]) ELSE o[l]
<1>1. \A k \in 1..(l + 1) : o[k] = IF OnRight(Rise(a)[k - 1]) THEN NodeHash(q[k], o[k - 1])
                                   ELSE o[k - 1]
  BY DEF Rejoins
<1>2. ASSUME NEW k \in 1..l
      PROVE  o[k] = IF OnRight(Rise(b)[k - 1]) THEN NodeHash(p[k], o[k - 1]) ELSE o[k - 1]
  <2>1. k \in 1..(l + 1) /\ k - 1 \in 0..(l - 1)
    OBVIOUS
  <2>2. QED
    BY <1>1, <2>1 DEF Continues, SameTurns
<1>3. l + 1 \in 1..(l + 1) /\ (l + 1) - 1 = l
  OBVIOUS
<1>4. QED
  BY <1>1, <1>2, <1>3 DEF Rejoins

\* The proof from the old tree's node up has as many elements as the walk has climbs,
\* and one more; and it leads to both roots.
LEMMA BothRoots ==
    ASSUME NEW s \in Seq(Hashes), NEW m \in 1..Len(s), m < Len(s) \/ PowerOfTwo(m), NEW r, NEW o
    PROVE  LET q == SubProof[s][m][FALSE]
               l == Len(q) - 1
               at == Start(m, Len(s))
           IN /\ l \in Nat /\ Reaches(at, l)
              /\ r[0] = q[1] /\ Joins(at, Tail(q), l, r) => r[l] = MerkleRoot[s]
              /\ o[0] = q[1] /\ Rejoins(at, Tail(q), l, o) => o[l] = MerkleRoot[SubSeq(s, 1, m)]
<1> DEFINE claim(n, t, x) ==
             LET q == SubProof[t][x][FALSE]
                 l == Len(q) - 1
                 at == Start(x, n)
             IN /\ l \in Nat /\ Reaches(at, l)
                /\ r[0] = q[1] /\ Joins(at, Tail(q), l, r) => r[l] = MerkleRoot[t]
                /\ o[0] = q[1] /\ Rejoins(at, Tail(q), l, o) => o[l] = MerkleRoot[SubSeq(t, 1, x)]
           G == {n \in Nat : \A t \in Seq(Hashes) : \A x \in 1..n :
                   Len(t) = n /\ (x < n \/ PowerOfTwo(x)) => claim(n, t, x)}
<1> HIDE DEF claim
<1>1. ASSUME NEW n \in Nat, \A k \in 0..(n - 1) : k \in G PROVE n \in G
  <2> SUFFICES ASSUME NEW t \in Seq(Hashes), NEW x \in 1..n, Len(t) = n, x < n \/ PowerOfTwo(x)
               PROVE  claim(n, t, x)
    OBVIOUS
  <2> HIDE DEF G
  <2>1. CASE x = n
    <3> DEFINE q == SubProof[t][x][FALSE]
    <3>1. q = <<MerkleRoot[t]>>
      BY <2>1, SubProofEquation
    <3>2. Len(q) = 1 /\ q[1] = MerkleRoot[t]
      <4>1. \A h : Len(<<h>>) = 1 /\ <<h>>[1] = h
        OBVIOUS
      <4>2. QED
        BY <3>1, <4>1, Zenon
    <3>3. SubSeq(t, 1, x) = t
      BY <2>1, SubSeqFull
    <3>4. PICK d \in Nat : x = Power[d]
      BY <2>1 DEF PowerOfTwo
    <3>5. Start(x, n) = Top
      BY <2>1, <3>4, ShiftPower DEF Start
    <3>6. Rise(Top)[0] = Top /\ Top.sn = 0
      BY PositionFields, RiseEquation DEF RisesFrom, Top
    <3>7. Reaches(Top, 0)
      BY <3>6 DEF Reaches
    <3> HIDE DEF q
    <3>8. Len(q) - 1 = 0 /\ Len(q) - 1 \in Nat
      BY <3>2
    <3>9. /\ r[0] = q[1] => r[Len(q) - 1] = MerkleRoot[t]
          /\ o[0] = q[1] => o[Len(q) - 1] = MerkleRoot[SubSeq(t, 1, x)]
          /\ Reaches(Start(x, n), Len(q) - 1)
      BY <3>2, <3>3, <3>5, <3>7, <3>8
    <3>10. QED
      BY <3>8, <3>9, Zenon DEF claim, q
  <2>2. CASE x < n
    <3> DEFINE half == Split(n)
               a == Start(x, n)
               q == SubProof[t][x][FALSE]
    <3>1. /\ Left(t) \in Seq(Hashes) /\ Right(t) \in Seq(Hashes)
          /\ Len(Left(t)) = half /\ Len(Right(t)) = n - half
          /\ half \in 0..(n - 1) /\ n - half \in 0..(n - 1) /\ half \in Nat /\ n - half >= 1
      <4>1. n > 1
        BY <2>2
      <4>2. QED
        BY <4>1, HalvesOf, Zenon
    <3>2. MerkleRoot[t] = NodeHash(MerkleRoot[Left(t)], MerkleRoot[Right(t)])
      BY <2>2, RootOfTree DEF NodeHash
    <3>3. /\ x <= half => SubSeq(t, 1, x) = SubSeq(Left(t), 1, x)
          /\ x > half => MerkleRoot[SubSeq(t, 1, x)]
                           = NodeHash(MerkleRoot[Left(t)], MerkleRoot[SubSeq(Right(t), 1, x - half)])
      BY <2>2, OldTree DEF NodeHash
    <3>4. PICK d \in Nat :
              /\ a \in Position
              /\ x <= half => Start(x, half) \in Position /\ Inside(a, Start(x, half), d)
              /\ x > half => /\ Start(x - half, n - half) \in Position
                             /\ Apart(a, Start(x - half, n - half), d)
      BY <2>2, StartOfHalf
    <3>5. PowerOfTwo(half)
      BY <2>2, SplitWithin
    <3>6. PICK p \in Seq(Roots) : \E y \in Roots :
              /\ x <= half => p = SubProof[Left(t)][x][FALSE] /\ y = MerkleRoot[Right(t)]
              /\ x > half => /\ p = SubProof[Right(t)][x - half][FALSE]
                             /\ y = MerkleRoot[Left(t)]
              /\ Len(p) - 1 \in Nat /\ Len(q) - 1 = (Len(p) - 1) + 1 /\ q[1] = p[1]
              /\ Continues(Tail(q), Tail(p), Len(p) - 1) /\ Tail(q)[(Len(p) - 1) + 1] = y
      BY <2>2, SubProofOfHalf
    <3> DEFINE l == Len(p) - 1
               rest == Tail(q)
               part == Tail(p)
    <3>7. PICK y \in Roots :
              /\ x <= half => p = SubProof[Left(t)][x][FALSE] /\ y = MerkleRoot[Right(t)]
              /\ x > half => /\ p = SubProof[Right(t)][x - half][FALSE]
                             /\ y = MerkleRoot[Left(t)]
              /\ l \in Nat /\ Len(q) - 1 = l + 1 /\ q[1] = p[1]
              /\ Continues(rest, part, l) /\ rest[l + 1] = y
      BY <3>6
    <3> HIDE DEF half, a, q, l, rest, part
    <3>8. CASE x <= half
      <4> DEFINE b == Start(x, half)
      <4>1. claim(half, Left(t), x)
        <5>1. half \in G /\ x \in 1..half /\ (x < half \/ PowerOfTwo(x))
          BY <1>1, <3>1, <3>5, <3>8
        <5>2. QED
          BY <3>1, <5>1 DEF G
      <4>2. /\ Reaches(b, l)
            /\ r[0] = p[1] /\ Joins(b, part, l, r) => r[l] = MerkleRoot[Left(t)]
            /\ o[0] = p[1] /\ Rejoins(b, part, l, o) => o[l] = MerkleRoot[SubSeq(Left(t), 1, x)]
        BY <3>7, <3>8, <4>1 DEF claim, l, part
      <4>3. /\ \A k \in 0..(d - 1) : OnRight(Rise(a)[k]) <=> OnRight(Rise(b)[k])
            /\ ~OnRight(Rise(a)[d])
            /\ Reaches(a, d + 1) /\ Reaches(b, d)
        BY <3>4, <3>8, InsideRises
      <4>4. l = d
        BY <3>7, <4>2, <4>3, ReachesOnce
      <4>5. SameTurns(a, b, l)
        BY <4>3, <4>4 DEF SameTurns
      <4> HIDE DEF b
      <4>6. rest[l + 1] = MerkleRoot[Right(t)] /\ l \in Nat /\ ~OnRight(Rise(a)[l])
        BY <3>7, <3>8, <4>3, <4>4
      <4>7. ASSUME r[0] = q[1], Joins(a, rest, l + 1, r)
            PROVE  r[l + 1] = MerkleRoot[t]
        <5>1. /\ Joins(b, part, l, r)
              /\ r[l + 1] = IF OnRight(Rise(a)[l]) THEN NodeHash(rest[l + 1], r[l])
                            ELSE NodeHash(r[l], rest[l + 1])
          BY <3>7, <4>5, <4>7, JoinsOfHalf
        <5>2. QED
          BY <3>2, <3>7, <4>2, <4>6, <4>7, <5>1
      <4>8. ASSUME o[0] = q[1], Rejoins(a, rest, l + 1, o)
            PROVE  o[l + 1] = MerkleRoot[SubSeq(t, 1, x)]
        <5>1. /\ Rejoins(b, part, l, o)
              /\ o[l + 1] = IF OnRight(Rise(a)[l]) THEN NodeHash(rest[l + 1], o[l]) ELSE o[l]
          BY <3>7, <4>5, <4>8, RejoinsOfHalf
        <5>2. QED
          BY <3>3, <3>7, <3>8, <4>2, <4>6, <4>8, <5>1
      <4>9. Len(q) - 1 = l + 1 /\ l + 1 \in Nat /\ Reaches(a, l + 1)
        BY <3>7, <4>3, <4>4
      <4>10. QED
        BY <4>7, <4>8, <4>9 DEF claim, q, a, rest
    <3>9. CASE x > half
      <4> DEFINE z == x - half
                 b == Start(z, n - half)
      <4>1. claim(n - half, Right(t), z)
        <5>1. n - half \in G /\ z \in 1..(n - half) /\ z < n - half
          BY <1>1, <2>2, <3>1, <3>9
        <5> HIDE DEF z
        <5>2. QED
          BY <3>1, <5>1 DEF G
      <4>2. /\ Reaches(b, l)
            /\ r[0] = p[1] /\ Joins(b, part, l, r) => r[l] = MerkleRoot[Right(t)]
            /\ o[0] = p[1] /\ Rejoins(b, part, l, o) => o[l] = MerkleRoot[SubSeq(Right(t), 1, z)]
        BY <3>7, <3>9, <4>1 DEF claim, l, part
      <4>3. Reaches(a, l + 1) /\ SameTurns(a, b, l) /\ OnRight(Rise(a)[l])
        BY <3>4, <3>7, <3>9, <4>2, ApartReaches
      <4> HIDE DEF b
      <4>4. rest[l + 1] = MerkleRoot[Left(t)] /\ l \in Nat
        BY <3>7, <3>9
      <4>5. ASSUME r[0] = q[1], Joins(a, rest, l + 1, r)
            PROVE  r[l + 1] = MerkleRoot[t]
        <5>1. /\ Joins(b, part, l, r)
              /\ r[l + 1] = IF OnRight(Rise(a)[l]) THEN NodeHash(rest[l + 1], r[l])
                            ELSE NodeHash(r[l], rest[l + 1])
          BY <3>7, <4>3, <4>5, JoinsOfHalf
        <5>2. QED
          BY <3>2, <3>7, <4>2, <4>3, <4>4, <4>5, <5>1
      <4>6. ASSUME o[0] = q[1], Rejoins(a, rest, l + 1, o)
            PROVE  o[l + 1] = MerkleRoot[SubSeq(t, 1, x)]
        <5>1. /\ Rejoins(b, part, l, o)
              /\ o[l + 1] = IF OnRight(Rise(a)[l]) THEN NodeHash(rest[l + 1], o[l]) ELSE o[l]
          BY <3>7, <4>3, <4>6, RejoinsOfHalf
        <5>2. QED
          BY <3>3, <3>7, <3>9, <4>2, <4>3, <4>4, <4>6, <5>1
      <4>7. Len(q) - 1 = l + 1 /\ l + 1 \in Nat
        BY <3>7
      <4>8. QED
        BY <4>3, <4>5, <4>6, <4>7 DEF claim, q, a, rest
    <3>10. x <= half \/ x > half
      BY <3>1
    <3>11. QED
      BY <3>8, <3>9, <3>10
  <2>3. x = n \/ x < n
    OBVIOUS
  <2>4. QED
    BY <2>1, <2>2, <2>3
<1>2. G = Nat
  <2>1. G \in SUBSET Nat
    OBVIOUS
  <2> HIDE DEF G
  <2> QED BY <1>1, <2>1, StrongInduction
<1>3. claim(Len(s), s, m)
  BY <1>2, Lengths
<1>4. QED
  BY <1>3 DEF claim

\* h passes the positions of a walk from at, whatever else it carries.
PassesBy(at, n, h) ==
    \A k \in 1..n : h[k].fn = Above(h[k - 1]).fn /\ h[k].sn = Above(h[k - 1]).sn

\* Then its positions are those above at, one by one.
LEMMA PositionsRise ==
    ASSUME NEW at \in Position, NEW n \in Nat, NEW h, h[0].fn = at.fn, h[0].sn = at.sn,
           PassesBy(at, n, h)
    PROVE  \A k \in 0..n : /\ h[k].fn = Rise(at)[k].fn /\ h[k].sn = Rise(at)[k].sn
                           /\ OnRight(h[k]) <=> OnRight(Rise(at)[k])
<1> DEFINE same(k) == h[k].fn = Rise(at)[k].fn /\ h[k].sn = Rise(at)[k].sn
           G == {k \in Nat : k <= n => same(k)}
<1>1. Rise(at)[0] = at /\ \A k \in Nat : Rise(at)[k + 1] = Above(Rise(at)[k])
  BY RiseEquation DEF RisesFrom
<1>2. ASSUME NEW x, NEW y, x.fn = y.fn, x.sn = y.sn
      PROVE  (OnRight(x) <=> OnRight(y)) /\ Above(x) = Above(y)
  <2>1. OnRight(x) <=> OnRight(y)
    BY <1>2 DEF OnRight
  <2>2. QED
    BY <1>2, <2>1 DEF Above
<1>3. ASSUME NEW k \in Nat, \A j \in 0..(k - 1) : j \in G PROVE k \in G
  <2> SUFFICES ASSUME k <= n PROVE same(k)
    OBVIOUS
  <2>1. CASE k = 0
    BY <1>1, <2>1
  <2>2. CASE k # 0
    <3> DEFINE j == k - 1
    <3>1. j \in Nat /\ j \in 0..(k - 1) /\ k = j + 1 /\ k - 1 = j /\ k \in 1..n /\ j <= n
      BY <2>2
    <3> HIDE DEF j
    <3>2. same(j)
      BY <1>3, <3>1
    <3>3. Rise(at)[k] = Above(Rise(at)[j]) /\ h[k].fn = Above(h[j]).fn /\ h[k].sn = Above(h[j]).sn
      BY <1>1, <3>1 DEF PassesBy
    <3>4. Above(h[j]) = Above(Rise(at)[j])
      BY <1>2, <3>2
    <3>5. QED
      BY <3>3, <3>4
  <2>3. QED
    BY <2>1, <2>2
<1>4. G = Nat
  <2>1. G \in SUBSET Nat
    OBVIOUS
  <2> HIDE DEF G
  <2> QED BY <1>3, <2>1, StrongInduction
<1>5. \A k \in 0..n : same(k)
  BY <1>4
<1>6. QED
  BY <1>2, <1>5

\* r and o are the hashes of a walk from node c that ends at end.
Rebuilds(at, path, n, c, end, r, o) ==
    /\ r[0] = c /\ Joins(at, path, n, r) /\ end.new = r[n]
    /\ o[0] = c /\ Rejoins(at, path, n, o) /\ end.old = o[n]
    /\ end.sn = Rise(at)[n].sn

\* The walk that rebuilds two roots is its positions and its hashes.
LEMMA BothRise ==
    ASSUME NEW at \in Position, NEW c, NEW path, NEW n \in Nat, DOMAIN path = 1..n
    PROVE  LET end == FoldLeft(ClimbBoth, [fn |-> at.fn, sn |-> at.sn, old |-> c, new |-> c], path)
           IN \E r, o : Rebuilds(at, path, n, c, end, r, o)
<1> DEFINE start == [fn |-> at.fn, sn |-> at.sn, old |-> c, new |-> c]
           end == FoldLeft(ClimbBoth, start, path)
<1> HIDE DEF start, end
<1>1. PICK h : Ascends(TRUE, path, start, n, end, h)
  BY BothEquation DEF end
<1>2. h[0] = start /\ h[n] = end /\ \A k \in 1..n : h[k] = ClimbBoth(h[k - 1], path[k])
  BY <1>1 DEF Ascends, Ascend
<1>3. start.fn = at.fn /\ start.sn = at.sn /\ start.old = c /\ start.new = c
  BY DEF start
<1>4. ASSUME NEW x, NEW y
      PROVE  /\ ClimbBoth(x, y).fn = Above(x).fn /\ ClimbBoth(x, y).sn = Above(x).sn
             /\ ClimbBoth(x, y).old = IF OnRight(x) THEN NodeHash(y, x.old) ELSE x.old
             /\ ClimbBoth(x, y).new = IF OnRight(x) THEN NodeHash(y, x.new) ELSE NodeHash(x.new, y)
  <2> DEFINE above == Above(x)
             older == IF OnRight(x) THEN NodeHash(y, x.old) ELSE x.old
             newer == IF OnRight(x) THEN NodeHash(y, x.new) ELSE NodeHash(x.new, y)
  <2>1. ClimbBoth(x, y) = [fn |-> above.fn, sn |-> above.sn, old |-> older, new |-> newer]
    BY Zenon DEF ClimbBoth
  <2> HIDE DEF above, older, newer
  <2>2. /\ ClimbBoth(x, y).fn = above.fn /\ ClimbBoth(x, y).sn = above.sn
        /\ ClimbBoth(x, y).old = older /\ ClimbBoth(x, y).new = newer
    BY <2>1
  <2>3. QED
    BY <2>2, Zenon DEF above, older, newer
<1>5. PassesBy(at, n, h)
  BY <1>2, <1>4 DEF PassesBy
<1>6. \A k \in 0..n : /\ h[k].fn = Rise(at)[k].fn /\ h[k].sn = Rise(at)[k].sn
                      /\ OnRight(h[k]) <=> OnRight(Rise(at)[k])
  BY <1>2, <1>3, <1>5, PositionsRise
<1> DEFINE r == [k \in 0..n |-> h[k].new]
           o == [k \in 0..n |-> h[k].old]
<1>7. \A k \in 0..n : r[k] = h[k].new /\ o[k] = h[k].old
  OBVIOUS
<1> HIDE DEF r, o
<1>8. r[0] = c /\ o[0] = c /\ r[n] = end.new /\ o[n] = end.old /\ end.sn = Rise(at)[n].sn
  <2>1. 0 \in 0..n /\ n \in 0..n
    OBVIOUS
  <2>2. QED
    BY <1>2, <1>3, <1>6, <1>7, <2>1
<1>9. ASSUME NEW k \in 1..n
      PROVE  /\ r[k] = IF OnRight(Rise(at)[k - 1]) THEN NodeHash(path[k], r[k - 1])
                       ELSE NodeHash(r[k - 1], path[k])
             /\ o[k] = IF OnRight(Rise(at)[k - 1]) THEN NodeHash(path[k], o[k - 1]) ELSE o[k - 1]
  <2>1. k \in 0..n /\ k - 1 \in 0..n
    OBVIOUS
  <2>2. h[k] = ClimbBoth(h[k - 1], path[k]) /\ (OnRight(h[k - 1]) <=> OnRight(Rise(at)[k - 1]))
    BY <1>2, <1>6, <2>1
  <2>3. r[k] = h[k].new /\ r[k - 1] = h[k - 1].new /\ o[k] = h[k].old /\ o[k - 1] = h[k - 1].old
    BY <1>7, <2>1
  <2>4. QED
    BY <1>4, <2>2, <2>3
<1>10. Joins(at, path, n, r) /\ Rejoins(at, path, n, o)
  BY <1>9 DEF Joins, Rejoins
<1>11. Rebuilds(at, path, n, c, end, r, o)
  BY <1>8, <1>10 DEF Rebuilds
<1>12. QED
  BY <1>11 DEF end, start

\* One path leads to one root from one node only.
LEMMA JoinsBack ==
    ASSUME NEW at, NEW path, NEW r, NEW t, NEW n \in Nat,
           Joins(at, path, n, r), Joins(at, path, n, t), r[n] = t[n]
    PROVE  r[0] = t[0]
<1> DEFINE G == {k \in Nat : k <= n /\ r[k] = t[k] => r[0] = t[0]}
<1>1. ASSUME NEW k \in Nat, \A j \in 0..(k - 1) : j \in G PROVE k \in G
  <2> SUFFICES ASSUME k <= n, r[k] = t[k], k # 0 PROVE r[0] = t[0]
    OBVIOUS
  <2>1. k \in 1..n /\ k - 1 \in 0..(k - 1) /\ k - 1 <= n
    OBVIOUS
  <2>2. /\ r[k] = IF OnRight(Rise(at)[k - 1]) THEN <<path[k], r[k - 1]>> ELSE <<r[k - 1], path[k]>>
        /\ t[k] = IF OnRight(Rise(at)[k - 1]) THEN <<path[k], t[k - 1]>> ELSE <<t[k - 1], path[k]>>
    BY <2>1 DEF Joins, NodeHash
  <2>3. \A w, x, y, z : <<w, x>> = <<y, z>> => w = y /\ x = z
    OBVIOUS
  <2>4. r[k - 1] = t[k - 1]
    <3>1. CASE OnRight(Rise(at)[k - 1])
      <4>1. r[k] = <<path[k], r[k - 1]>> /\ t[k] = <<path[k], t[k - 1]>>
        BY <2>2, <3>1
      <4>2. <<path[k], r[k - 1]>> = <<path[k], t[k - 1]>>
        BY <4>1
      <4>3. QED
        BY <2>3, <4>2, Zenon
    <3>2. CASE ~OnRight(Rise(at)[k - 1])
      <4>1. r[k] = <<r[k - 1], path[k]>> /\ t[k] = <<t[k - 1], path[k]>>
        BY <2>2, <3>2
      <4>2. <<r[k - 1], path[k]>> = <<t[k - 1], path[k]>>
        BY <4>1
      <4>3. QED
        BY <2>3, <4>2, Zenon
    <3>3. QED
      BY <3>1, <3>2
  <2>5. QED
    BY <1>1, <2>1, <2>4
<1>2. G = Nat
  <2>1. G \in SUBSET Nat
    OBVIOUS
  <2> HIDE DEF G
  <2> QED BY <1>1, <2>1, StrongInduction
<1>3. QED
  BY <1>2

\* A consistency proof links one tree of its old size to the tree it is a proof of.
LEMMA LinksExactly ==
    ASSUME NEW n \in Nat, NEW s \in Seq(Hashes), Len(s) = n, NEW m \in 1..n,
           NEW t \in Seq(Hashes), Len(t) = m
    PROVE  Consistent(m, n, MerkleRoot[t], MerkleRoot[s], ConsistencyPath(s, m, n))
              <=> t = SubSeq(s, 1, m)
<1> DEFINE old == SubSeq(s, 1, m)
           path == ConsistencyPath(s, m, n)
           q == SubProof[s][m][FALSE]
           x == MerkleRoot[t]
           root == MerkleRoot[s]
<1>1. path = SubProof[s][m][TRUE] /\ path \in Seq(Roots)
  <2>1. SubSeq(s, 1, n) = s
    BY SubSeqFull
  <2>2. ~(m <= 0 \/ m > n)
    OBVIOUS
  <2>3. path = SubProof[s][m][TRUE]
    BY <2>1, <2>2 DEF ConsistencyPath
  <2> HIDE DEF path
  <2>4. QED
    BY <2>3, SubProofType
<1>0. path \in Seq(Roots)
  BY <1>1
<1>2. old \in Seq(Hashes) /\ Len(old) = m
  <2>1. \A i \in 1..m : s[i] \in Hashes
    BY ElementOfSeq
  <2>2. QED
    BY <2>1, SubSeqProperties
<1>3. x = MerkleRoot[old] <=> t = old
  BY <1>2, RootIsInjective
<1>4. x \in Roots /\ MerkleRoot[old] \in Roots /\ q \in Seq(Roots) /\ q # <<>>
  BY <1>2, SubProofType DEF Roots
<1>5. /\ PowerOfTwo(m) => q = <<MerkleRoot[old]>> \o path
      /\ ~PowerOfTwo(m) /\ m < n => q = path
  BY <1>1, FromOldRoot
<1> HIDE DEF old, path, q, x, root
<1>6. CASE m = n
  <2>1. path = <<>>
    BY <1>1, <1>6, SubProofEquation
  <2>2. old = s
    BY <1>6, SubSeqFull DEF old
  <2>3. Consistent(m, n, x, root, path) <=> x = root
    BY <1>6, <2>1 DEF Consistent
  <2>4. QED
    BY <1>3, <2>2, <2>3 DEF x, root, path, old
<1>7. CASE m < n
  <2> DEFINE full == IF PowerOfTwo(m) THEN <<x>> \o path ELSE path
             at == Start(m, n)
             rest == Tail(q)
             l == Len(q) - 1
             end(c) == FoldLeft(ClimbBoth, [fn |-> at.fn, sn |-> at.sn, old |-> c, new |-> c], rest)
  <2>1. \A h \in Roots : /\ <<h>> \o path # <<>> /\ (<<h>> \o path)[1] = h
                         /\ Tail(<<h>> \o path) = path
    <3> TAKE h \in Roots
    <3> DEFINE g == <<h>>
               u == g \o path
    <3>1. g \in Seq(Roots) /\ Len(g) = 1 /\ g[1] = h
      OBVIOUS
    <3> HIDE DEF g
    <3>2. /\ u \in Seq(Roots) /\ Len(u) = 1 + Len(path)
          /\ \A i \in 1..(1 + Len(path)) : u[i] = IF i <= 1 THEN g[i] ELSE path[i - 1]
      <4>1. /\ u \in Seq(Roots) /\ Len(u) = Len(g) + Len(path)
            /\ \A i \in 1..(Len(g) + Len(path)) : u[i] = IF i <= Len(g) THEN g[i] ELSE path[i - Len(g)]
        BY <1>0, <3>1, ConcatProperties
      <4> HIDE DEF u
      <4>2. QED
        BY <3>1, <4>1
    <3>3. Len(path) \in Nat
      BY <1>0
    <3> HIDE DEF u
    <3>4. u # <<>> /\ u[1] = h
      <4>1. Len(u) # 0 /\ 1 \in 1..(1 + Len(path))
        BY <3>2, <3>3
      <4>2. QED
        BY <3>1, <3>2, <4>1
    <3>5. /\ Tail(u) \in Seq(Roots) /\ Len(Tail(u)) = Len(path)
          /\ \A i \in 1..Len(path) : Tail(u)[i] = path[i]
      <4>1. /\ Tail(u) \in Seq(Roots) /\ Len(Tail(u)) = Len(u) - 1
            /\ \A i \in 1..Len(Tail(u)) : Tail(u)[i] = u[i + 1]
        BY <3>2, <3>4, HeadTailProperties
      <4>2. Len(Tail(u)) = Len(path)
        BY <3>2, <3>3, <4>1
      <4>3. ASSUME NEW i \in 1..Len(path) PROVE Tail(u)[i] = path[i]
        <5>1. i + 1 \in 1..(1 + Len(path)) /\ ~(i + 1 <= 1) /\ (i + 1) - 1 = i
          BY <3>3
        <5>2. QED
          BY <3>2, <4>1, <4>2, <5>1
      <4>4. QED
        BY <4>1, <4>2, <4>3
    <3>6. Tail(u) = path
      BY <1>0, <3>5, SeqEqual
    <3>7. QED
      BY <3>4, <3>6 DEF g, u
  <2>2. /\ full # <<>> /\ Tail(full) = rest
        /\ PowerOfTwo(m) => full[1] = x /\ q[1] = MerkleRoot[old]
        /\ ~PowerOfTwo(m) => full[1] = q[1]
    <3>1. CASE PowerOfTwo(m)
      <4>1. full = <<x>> \o path /\ q = <<MerkleRoot[old]>> \o path
        BY <1>5, <3>1
      <4> HIDE DEF full
      <4>2. QED
        BY <1>4, <2>1, <3>1, <4>1
    <3>2. CASE ~PowerOfTwo(m)
      <4>1. full = q
        BY <1>5, <1>7, <3>2
      <4> HIDE DEF full
      <4>2. QED
        BY <1>4, <3>2, <4>1
    <3>3. QED
      BY <3>1, <3>2
  <2>3. l \in Nat /\ DOMAIN rest = 1..l
    <3>1. rest \in Seq(Roots) /\ Len(rest) = Len(q) - 1
      BY <1>4, HeadTailProperties
    <3> HIDE DEF rest
    <3>2. QED
      BY <3>1
  <2>4. at \in Position
    BY <1>7, StartOfHalf
  <2>5. Consistent(m, n, x, root, path)
           <=> end(full[1]).sn = 0 /\ end(full[1]).old = x /\ end(full[1]).new = root
    <3>1. at = ShiftOdd[[fn |-> m - 1, sn |-> n - 1]]
      BY DEF Start, At
    <3>2. m # n
      BY <1>7
    <3> HIDE DEF full, rest
    <3>3. full = (IF PowerOfTwo(m) THEN <<x>> \o path ELSE path)
      BY DEF full
    <3>4. QED
      BY <2>2, <3>1, <3>2, <3>3, Zenon DEF Consistent
  <2> HIDE DEF full, at, rest, l, end
  <2>6. ASSUME NEW c
        PROVE  \E r, o : /\ r[0] = c /\ Joins(at, rest, l, r) /\ end(c).new = r[l]
                         /\ o[0] = c /\ Rejoins(at, rest, l, o) /\ end(c).old = o[l]
                         /\ end(c).sn = Rise(at)[l].sn
    <3>1. \E r, o : Rebuilds(at, rest, l, c, end(c), r, o)
      BY <2>3, <2>4, BothRise DEF end
    <3>2. QED
      BY <3>1 DEF Rebuilds
  <2>7. ASSUME NEW r, NEW o
        PROVE  /\ Rise(at)[l].sn = 0
               /\ r[0] = q[1] /\ Joins(at, rest, l, r) => r[l] = root
               /\ o[0] = q[1] /\ Rejoins(at, rest, l, o) => o[l] = MerkleRoot[old]
    <3>1. /\ Reaches(at, l)
          /\ r[0] = q[1] /\ Joins(at, rest, l, r) => r[l] = root
          /\ o[0] = q[1] /\ Rejoins(at, rest, l, o) => o[l] = MerkleRoot[old]
      BY <1>7, BothRoots, ZenonT(60) DEF at, l, q, rest, root, old
    <3>2. QED
      BY <3>1 DEF Reaches
  <2>8. end(q[1]).sn = 0 /\ end(q[1]).new = root /\ end(q[1]).old = MerkleRoot[old]
    BY <2>6, <2>7
  <2>9. ASSUME full[1] = q[1] PROVE Consistent(m, n, x, root, path) <=> x = MerkleRoot[old]
    BY <2>5, <2>8, <2>9
  <2>10. ASSUME PowerOfTwo(m), Consistent(m, n, x, root, path) PROVE x = MerkleRoot[old]
    <3>1. end(x).new = root
      BY <2>2, <2>5, <2>10
    <3>2. PICK r : r[0] = x /\ Joins(at, rest, l, r) /\ r[l] = root
      BY <2>6, <3>1
    <3>3. PICK u : u[0] = q[1] /\ Joins(at, rest, l, u) /\ u[l] = root
      BY <2>6, <2>8
    <3>4. r[0] = u[0]
      BY <2>3, <3>2, <3>3, JoinsBack
    <3>5. QED
      BY <2>2, <2>10, <3>2, <3>3, <3>4
  <2>11. Consistent(m, n, x, root, path) <=> x = MerkleRoot[old]
    BY <2>2, <2>9, <2>10
  <2>12. QED
    BY <1>3, <2>11 DEF x, root, path, old
<1>8. QED
  BY <1>6, <1>7

\* verify_consistency of tlog.py accepts the proof served for an earlier size of the log
\* with the root of that time, and with the root of no other tree of its size: a client
\* that keeps a root can tell a log that grew from one that was changed.
THEOREM ConsistencyIsExact == Spec => []ConsistencyHolds
<1>1. TypeOK => ConsistencyHolds
  <2> SUFFICES ASSUME TypeOK, ConsistencyProof(1) # Error PROVE ConsistencyHolds
    BY DEF ConsistencyHolds
  <2> DEFINE n == Len(leaves)
             root == MerkleRoot[leaves]
             old(m) == SubSeq(leaves, 1, m)
             links(m, s) == Consistent(m, n, MerkleRoot[s], root, ConsistencyProof(m))
  <2>1. leaves \in Seq(Hashes) /\ n \in Nat
    BY Lengths DEF TypeOK
  <2>2. \A m : ConsistencyProof(m) = ConsistencyPath(leaves, m, n)
    BY DEF ConsistencyProof
  <2>3. ASSUME NEW m \in 1..n, NEW s \in Seq(Hashes), Len(s) = m
        PROVE  links(m, s) <=> s = old(m)
    <3>1. Consistent(m, Len(leaves), MerkleRoot[s], MerkleRoot[leaves], ConsistencyPath(leaves, m, Len(leaves)))
             <=> s = SubSeq(leaves, 1, m)
      BY <2>1, <2>3, LinksExactly
    <3>2. QED
      BY <2>2, <3>1
  <2> HIDE DEF links
  <2>4. ASSUME NEW m \in 1..n
        PROVE  /\ links(m, old(m))
               /\ \A i \in 1..m : \A h \in Hashes \ {leaves[i]} : ~links(m, [old(m) EXCEPT ![i] = h])
    <3> DEFINE s == old(m)
    <3>1. /\ s \in Seq(Hashes) /\ Len(s) = m
          /\ \A i \in 1..m : s[i] = leaves[i]
      <4>1. \A i \in 1..m : leaves[i] \in Hashes
        BY <2>1, ElementOfSeq
      <4>2. /\ s \in Seq(Hashes) /\ Len(s) = IF 1 <= m THEN m - 1 + 1 ELSE 0
            /\ \A i \in 1..(m - 1 + 1) : s[i] = leaves[1 + i - 1]
        BY <4>1, SubSeqProperties
      <4> HIDE DEF s
      <4>3. QED
        BY <4>2
    <3>2. links(m, s)
      BY <2>3, <3>1
    <3>3. ASSUME NEW i \in 1..m, NEW h \in Hashes \ {leaves[i]} PROVE ~links(m, [s EXCEPT ![i] = h])
      <4> DEFINE u == [s EXCEPT ![i] = h]
      <4> HIDE DEF s
      <4>1. u \in Seq(Hashes) /\ Len(u) = m /\ u[i] = h
        BY <3>1
      <4> HIDE DEF u
      <4>2. u # s
        BY <3>1, <4>1
      <4>3. ~links(m, u)
        BY <2>3, <4>1, <4>2 DEF s
      <4>4. QED
        BY <4>3 DEF u
    <3>4. QED
      BY <3>2, <3>3
  <2>5. QED
    BY <2>4 DEF ConsistencyHolds, links
<1>2. QED
  BY <1>1, TypeCorrect, PTL

-----------------------------------------------------------------------------
(* The trust profiles, whose receipts are about such trees.                  *)

\* The record sets that have been asked, after every query.
Asking ==
    {{"_ans"}, {"_ans", "_ans-badge"}, {"_ans", "_ans-badge", "SVCB"},
     {"_ans", "_ans-badge", "SVCB", "HTTPS"}}

\* View i is what its vantage has shown.
Observed(i) ==
    /\ DOMAIN views[i] \in Asking
    /\ i < Len(views) => Complete(views[i])
    /\ \A rr \in DOMAIN views[i] : views[i][rr] \in Answer[rr]
    /\ \A rr \in DOMAIN views[i] : views[i][rr] \in shown[ev.vantages[i]][rr]
    /\ status # "NOT_VERIFIED" =>
          \A rr \in DOMAIN views[i] : rr \in {"_ans", "_ans-badge"} => views[i][rr] # Bad

Watching ==
    /\ DOMAIN shown = Vantage
    /\ \A v \in Vantage : DOMAIN shown[v] = RR
    /\ pid = "ans-txt" => Len(views) <= Len(ev.vantages)
    /\ pid # "ans-txt" => views = <<>>
    /\ \A i \in DOMAIN views : Observed(i)

\* A verdict is that of its profile, on what the profile was given and has seen.
Decided ==
    status # "none" =>
        /\ pid \notin Registered => status = "NOT_VERIFIED"
        /\ pid \in Registered =>
              /\ pid = "ans-scitt" =>
                    status = ReceiptVerdict(ev.receipt, ev.key)
              /\ pid = "ed25519-agentcard" =>
                    status = CardVerdict(ev.payload, ev.sig, ev.key)
              /\ pid = "jws-catalog" => status = CatalogVerdict(ev)
              /\ pid = "dns-aid" => status = DnsAidVerdict(ev.dane, upstream)
              /\ pid = "ans-txt" /\ status # "NOT_VERIFIED" =>
                    views # <<>> /\ AllViews /\ status = ViewsVerdict

\* The record set that is asked next.
LEMMA AskedNext ==
    ASSUME NEW D, D = {} \/ D \in Asking, D # RR
    PROVE  \E rr \in RR \ D : /\ Order[Cardinality(D) + 1] = rr
                                       /\ D \cup {rr} \in Asking
<1>1. Cardinality(D) = Cardinality(D)
  BY DEF Cardinality, Cardinality
<1>2. CASE D = {}
  <2>1. Cardinality(D) = 0
    BY <1>2, FS_EmptySet
  <2>2. QED
    BY <1>1, <1>2, <2>1 DEF RR, Order, Asking
<1>3. IsFiniteSet({"_ans"}) /\ Cardinality({"_ans"}) = 1
  BY FS_Singleton
<1>4. /\ IsFiniteSet({"_ans", "_ans-badge"})
      /\ Cardinality({"_ans", "_ans-badge"}) = 2
  <2>1. {"_ans", "_ans-badge"} = {"_ans"} \cup {"_ans-badge"} /\ "_ans-badge" \notin {"_ans"}
    OBVIOUS
  <2>2. QED
    BY <1>3, <2>1, FS_AddElement
<1>5. Cardinality({"_ans", "_ans-badge", "SVCB"}) = 3
  <2>1. /\ {"_ans", "_ans-badge", "SVCB"} = {"_ans", "_ans-badge"} \cup {"SVCB"}
        /\ "SVCB" \notin {"_ans", "_ans-badge"}
    OBVIOUS
  <2>2. QED
    BY <1>4, <2>1, FS_AddElement
<1>6. CASE D = {"_ans"}
  BY <1>1, <1>3, <1>6 DEF RR, Order, Asking
<1>7. CASE D = {"_ans", "_ans-badge"}
  BY <1>1, <1>4, <1>7 DEF RR, Order, Asking
<1>8. CASE D = {"_ans", "_ans-badge", "SVCB"}
  BY <1>1, <1>5, <1>8 DEF RR, Order, Asking
<1>9. QED
  BY <1>2, <1>6, <1>7, <1>8 DEF Asking, RR

\* A query adds one answer to a view, that of the vantage as it is now.
LEMMA ViewGrows ==
    ASSUME NEW view, NEW v, DOMAIN view = {} \/ DOMAIN view \in Asking, ~Complete(view)
    PROVE  \E rr \in RR \ DOMAIN view :
              LET w == AskNext(view, v) IN
              /\ DOMAIN w = DOMAIN view \cup {rr} /\ DOMAIN w \in Asking
              /\ w[rr] = dns[v][rr]
              /\ \A r \in DOMAIN view : w[r] = view[r]
<1>1. PICK rr \in RR \ DOMAIN view :
        /\ Order[Cardinality(DOMAIN view) + 1] = rr
        /\ DOMAIN view \cup {rr} \in Asking
  BY AskedNext DEF Complete
<1>2. AskNext(view, v) =
        [r \in DOMAIN view \cup {rr} |-> IF r = rr THEN dns[v][rr] ELSE view[r]]
  BY <1>1 DEF AskNext
<1>3. QED
  BY <1>1, <1>2

Verifying == VerifyTypeOK /\ Watching /\ Decided

\* Nothing has been asked at the start.
LEMMA VerifyingInitially ==
    ASSUME VerifyInit
    PROVE  Verifying
<1>1. dns \in World
  BY WorldAssumption DEF VerifyInit
<1>2. IsZone(dns)
  BY <1>1, WorldAssumption
<1>3. views = <<>> /\ status = "none" /\ request \in Request /\ upstream = None /\ changes = 0
  BY DEF VerifyInit
<1>4. shown = [v \in Vantage |-> [rr \in RR |-> {dns[v][rr]}]]
  BY DEF VerifyInit
<1>5. IsSequence(views)
  BY <1>3 DEF IsSequence
<1>6. VerifyTypeOK
  BY <1>2, <1>3, <1>4, <1>5, ChangesAssumption DEF VerifyTypeOK, Status
<1>7. Len(views) <= Len(ev.vantages) \/ pid # "ans-txt"
  <2>1. pid = "ans-txt" => ev.vantages \in Seq(Vantage)
    BY <1>3, RequestAssumption DEF pid, ev
  <2>2. QED
    BY <1>3, <2>1
<1>8. Watching
  BY <1>3, <1>4, <1>7 DEF Watching
<1>9. QED
  BY <1>3, <1>6, <1>8 DEF Verifying, Decided

\* A verdict leaves the views alone.
LEMMA WatchingDecides ==
    ASSUME Verifying, status = "none", NEW v \in Status \ {"none"}, Decide(v)
    PROVE  VerifyTypeOK' /\ Watching' /\ status' = v
<1>1. /\ status' = v
      /\ request' = request /\ dns' = dns /\ views' = views /\ upstream' = upstream
      /\ shown' = shown /\ changes' = changes
  BY DEF Decide
<1>2. VerifyTypeOK'
  BY <1>1 DEF Verifying, VerifyTypeOK, IsZone, IsSequence, Range
<1>3. ASSUME NEW i \in DOMAIN views PROVE Observed(i)'
  <2>1. Observed(i)
    BY DEF Verifying, Watching
  <2>2. QED
    BY <1>1, <2>1 DEF Observed, ev, Complete
<1>4. Watching'
  BY <1>1, <1>3 DEF Verifying, Watching, ev, pid
<1>5. QED
  BY <1>1, <1>2, <1>4

\* So does the answer of the dns-aid package.
LEMMA WatchingAsksPackage ==
    ASSUME Verifying, AskDnsAid
    PROVE  VerifyTypeOK' /\ Watching' /\ status' = "none"
<1>1. /\ status = "none" /\ status' = status
      /\ upstream' \in UpstreamResult \cup {Bad}
      /\ request' = request /\ dns' = dns /\ views' = views
      /\ shown' = shown /\ changes' = changes
  BY DEF AskDnsAid, Running
<1>2. VerifyTypeOK'
  BY <1>1 DEF Verifying, VerifyTypeOK, IsZone, IsSequence, Range
<1>3. ASSUME NEW i \in DOMAIN views PROVE Observed(i)'
  <2>1. Observed(i)
    BY DEF Verifying, Watching
  <2>2. QED
    BY <1>1, <2>1 DEF Observed, ev, Complete
<1>4. Watching'
  BY <1>1, <1>3 DEF Verifying, Watching, ev, pid
<1>5. QED
  BY <1>1, <1>2, <1>4

\* A change of the records is added to what was shown.
LEMMA WatchingPublishes ==
    ASSUME Verifying, Publish
    PROVE  VerifyTypeOK' /\ Watching' /\ status' = "none"
<1>1. PICK v \in Vantage, rr \in RR : \E a \in Answer[rr] \ {dns[v][rr]} :
        /\ dns' = [dns EXCEPT ![v][rr] = a]
        /\ shown' = [shown EXCEPT ![v][rr] = @ \cup {a}]
  BY DEF Publish
<1>2. PICK a \in Answer[rr] \ {dns[v][rr]} :
        /\ dns' = [dns EXCEPT ![v][rr] = a]
        /\ shown' = [shown EXCEPT ![v][rr] = @ \cup {a}]
  BY <1>1
<1>3. /\ status = "none" /\ status' = status /\ changes' = changes + 1 /\ changes < MaxChanges
      /\ request' = request /\ views' = views /\ upstream' = upstream
  BY DEF Publish, Running
<1>4. /\ changes \in 0..MaxChanges /\ MaxChanges \in Nat /\ IsZone(dns)
      /\ DOMAIN shown = Vantage /\ \A x \in Vantage : DOMAIN shown[x] = RR
  BY ChangesAssumption DEF Verifying, VerifyTypeOK, Watching
<1>5. /\ DOMAIN dns' = Vantage /\ \A x \in Vantage : DOMAIN dns'[x] = RR
      /\ \A x \in Vantage : \A r \in RR :
            dns'[x][r] = IF x = v /\ r = rr THEN a ELSE dns[x][r]
  BY <1>2, <1>4 DEF IsZone
<1>6. IsZone(dns)'
  BY <1>4, <1>5 DEF IsZone
<1>7. /\ DOMAIN shown' = Vantage /\ \A x \in Vantage : DOMAIN shown'[x] = RR
      /\ \A x \in Vantage : \A r \in RR : shown[x][r] \subseteq shown'[x][r]
      /\ a \in shown'[v][rr]
  BY <1>2, <1>4
<1>8. \A x \in Vantage : \A r \in RR : dns'[x][r] \in shown'[x][r]
  <2>1. \A x \in Vantage : \A r \in RR : dns[x][r] \in shown[x][r]
    BY DEF Verifying, VerifyTypeOK
  <2>2. QED
    BY <1>5, <1>7, <2>1
<1>9. changes' \in 1..MaxChanges
  BY <1>3, <1>4
<1>10. VerifyTypeOK'
  BY <1>3, <1>6, <1>8, <1>9 DEF Verifying, VerifyTypeOK, IsSequence, Range
<1>11. ASSUME NEW i \in DOMAIN views PROVE Observed(i)'
  <2>1. Observed(i)
    BY DEF Verifying, Watching
  <2>2. ev.vantages[i] \in Vantage
    <3>1. pid = "ans-txt" /\ Len(views) <= Len(ev.vantages)
      BY DEF Verifying, Watching
    <3>2. ev.vantages \in Seq(Vantage)
      BY <3>1, RequestAssumption DEF Verifying, VerifyTypeOK, pid, ev
    <3>3. views \in Seq(Range(views))
      BY DEF Verifying, VerifyTypeOK, IsSequence
    <3>4. i \in 1..Len(ev.vantages)
      BY <3>1, <3>2, <3>3
    <3>5. QED
      BY <3>2, <3>4
  <2>3. ev' = ev
    BY <1>3 DEF ev
  <2>4. DOMAIN views[i] \subseteq RR
    BY DEF Verifying, VerifyTypeOK
  <2>5. \A r \in DOMAIN views[i] : views[i][r] \in shown'[ev.vantages[i]][r]
    BY <1>7, <2>1, <2>2, <2>4 DEF Observed
  <2>6. QED
    BY <1>3, <2>1, <2>3, <2>5 DEF Observed, Complete
<1>12. Watching'
  BY <1>3, <1>7, <1>11 DEF Verifying, Watching, ev, pid
<1>13. QED
  BY <1>3, <1>10, <1>12

\* A sequence over some set is one over its own elements.
LEMMA OwnElements ==
    ASSUME NEW S, NEW s \in Seq(S)
    PROVE  IsSequence(s) /\ Len(s) \in Nat /\ DOMAIN s = 1..Len(s)
<1>1. Len(s) \in Nat /\ DOMAIN s = 1..Len(s) /\ s \in [1..Len(s) -> S]
  BY LenProperties
<1>2. s \in [1..Len(s) -> Range(s)]
  BY <1>1 DEF Range
<1>3. s \in Seq(Range(s))
  BY <1>1, <1>2, SeqDef
<1>4. QED
  BY <1>1, <1>3 DEF IsSequence

\* View k has become w, by the answer to rr.
Queried(k, rr, w) ==
    /\ k = Len(views) \/ k = Len(views) + 1
    /\ DOMAIN w \in Asking /\ rr \in DOMAIN w
    /\ w[rr] = dns[ev.vantages[k]][rr]
    /\ \A r \in DOMAIN w \ {rr} : k = Len(views) /\ r \in DOMAIN views[k] /\ w[r] = views[k][r]
    /\ IsSequence(views') /\ Len(views') = k /\ DOMAIN views' = 1..k
    /\ views'[k] = w /\ Last(Asked) = w
    /\ \A i \in 1..(k - 1) : i \in DOMAIN views /\ views'[i] = views[i] /\ Complete(views[i])

\* What a query does to the views: the last one grows, or a new one begins.
LEMMA QueryAsks ==
    ASSUME Verifying, AskVantage
    PROVE  \E k \in 1..Len(ev.vantages) : \E rr \in RR : \E w : Queried(k, rr, w)
<1> DEFINE n == Len(views)
           vs == ev.vantages
<1>1. /\ pid = "ans-txt" /\ vs # <<>> /\ ~(views # <<>> /\ AllViews)
      /\ views' = Asked
  BY DEF AskVantage, Running
<1>2. vs \in Seq(Vantage)
  BY <1>1, RequestAssumption DEF Verifying, VerifyTypeOK, pid, ev
<1>3. views \in Seq(Range(views)) /\ n \in Nat /\ DOMAIN views = 1..n
  <2>1. views \in Seq(Range(views))
    BY DEF Verifying, VerifyTypeOK, IsSequence
  <2>2. QED
    BY <2>1, LenProperties
<1>4. Len(vs) \in Nat /\ Len(vs) # 0 /\ n <= Len(vs)
  BY <1>1, <1>2, EmptySeq, LenProperties DEF Verifying, Watching
<1>5. \A i \in 1..n : DOMAIN views[i] \in Asking /\ (i < n => Complete(views[i]))
  BY <1>3 DEF Verifying, Watching, Observed
<1>6. CASE n = 0 \/ Complete(Last(views))
  <2> DEFINE w == AskNext(<<>>, vs[n + 1])
  <2>1. views' = Append(views, w)
    BY <1>1, <1>6 DEF Asked
  <2>2. DOMAIN <<>> = {} /\ ~Complete(<<>>)
    BY DEF Complete, RR
  <2>3. PICK rr \in RR : /\ DOMAIN w = {rr} /\ DOMAIN w \in Asking
                                  /\ w[rr] = dns[vs[n + 1]][rr]
    <3> DEFINE none == <<>>
               u == vs[n + 1]
    <3>1. DOMAIN none = {} /\ ~Complete(none)
      BY <2>2
    <3> HIDE DEF none, u
    <3>2. \E rr \in RR \ DOMAIN none :
             LET q == AskNext(none, u) IN
             /\ DOMAIN q = DOMAIN none \cup {rr} /\ DOMAIN q \in Asking
             /\ q[rr] = dns[u][rr]
             /\ \A r \in DOMAIN none : q[r] = none[r]
      BY <3>1, ViewGrows
    <3>3. w = AskNext(none, u)
      BY DEF none, u
    <3> HIDE DEF w
    <3>4. \E rr \in RR : DOMAIN w = {rr} /\ DOMAIN w \in Asking /\ w[rr] = dns[u][rr]
      BY <3>1, <3>2, <3>3
    <3>5. QED
      BY <3>4 DEF u
  <2>4. n + 1 \in 1..Len(vs)
    <3>1. CASE n = 0
      BY <1>4, <3>1
    <3>2. CASE n # 0
      <4>1. views # <<>>
        BY <1>3, <3>2
      <4>2. n # Len(vs)
        BY <1>1, <1>6, <3>2, <4>1 DEF AllViews
      <4>3. QED
        BY <1>3, <1>4, <4>2
    <3>3. QED
      BY <3>1, <3>2
  <2> HIDE DEF w
  <2>5. /\ Append(views, w) \in Seq(Range(views) \cup {w})
        /\ Len(Append(views, w)) = n + 1
        /\ Append(views, w)[n + 1] = w
        /\ \A i \in 1..n : Append(views, w)[i] = views[i]
    <3>1. views \in Seq(Range(views) \cup {w})
      BY <1>3, SeqMonotonic
    <3>2. QED
      BY <3>1, AppendProperties
  <2>6. IsSequence(views') /\ Len(views') = n + 1 /\ DOMAIN views' = 1..(n + 1)
    BY <2>1, <2>5, OwnElements
  <2>7. Last(Asked) = w
    BY <1>1, <2>1, <2>5 DEF Last
  <2>8. \A i \in 1..n : i \in DOMAIN views /\ views'[i] = views[i] /\ Complete(views[i])
    <3>1. \A i \in 1..n : i < n \/ (i = n /\ n # 0)
      <4> HIDE DEF n
      <4> QED BY <1>3
    <3>2. \A i \in 1..n : Complete(views[i])
      BY <1>5, <1>6, <3>1 DEF Last
    <3>3. QED
      BY <1>3, <2>1, <2>5, <3>2
  <2>9. (n + 1) - 1 = n
    BY <1>3
  <2>10. \A r \in DOMAIN w \ {rr} : FALSE
    BY <2>3
  <2>11. QED
    <3>1. Queried(n + 1, rr, w)
      <4>1. rr \in DOMAIN w /\ views'[n + 1] = w
        BY <2>1, <2>3, <2>5
      <4> DEFINE k == n + 1
      <4>2. k = n \/ k = n + 1
        OBVIOUS
      <4>3. /\ DOMAIN w \in Asking /\ w[rr] = dns[vs[k]][rr]
            /\ IsSequence(views') /\ Len(views') = k /\ DOMAIN views' = 1..k
            /\ views'[k] = w
        BY <2>3, <2>6, <4>1
      <4>4. \A i \in 1..(k - 1) : i \in DOMAIN views /\ views'[i] = views[i] /\ Complete(views[i])
        BY <2>8, <2>9
      <4> HIDE DEF k
      <4>5. Queried(k, rr, w)
        BY <2>7, <2>10, <4>1, <4>2, <4>3, <4>4 DEF Queried
      <4>6. QED
        BY <4>5 DEF k
    <3>2. QED
      BY <2>4, <3>1
<1>7. CASE ~(n = 0 \/ Complete(Last(views)))
  <2> DEFINE w == AskNext(views[n], vs[n])
  <2>0. n \in 1..n /\ n \in 1..Len(vs)
    BY <1>3, <1>4, <1>7
  <2>1. views' = [views EXCEPT ![n] = w]
    BY <1>1, <1>7 DEF Asked, ReplaceAt
  <2>2. ~Complete(views[n]) /\ DOMAIN views[n] \in Asking
    BY <1>5, <1>7, <2>0 DEF Last
  <2>3. PICK rr \in RR \ DOMAIN views[n] :
          /\ DOMAIN w = DOMAIN views[n] \cup {rr} /\ DOMAIN w \in Asking
          /\ w[rr] = dns[vs[n]][rr]
          /\ \A r \in DOMAIN views[n] : w[r] = views[n][r]
    BY <2>2, ViewGrows
  <2> HIDE DEF w
  <2>4. views' \in Seq(Range(views) \cup {w}) /\ Len(views') = n
    <3>1. views \in [1..n -> Range(views) \cup {w}]
      BY <1>3 DEF Range
    <3>2. views' \in [1..n -> Range(views) \cup {w}]
      BY <2>1, <3>1
    <3>3. views' \in Seq(Range(views) \cup {w})
      BY <1>3, <3>2, SeqDef
    <3>4. DOMAIN views' = 1..n
      BY <3>2
    <3>5. QED
      BY <1>3, <3>3, <3>4, LenProperties
  <2>5. IsSequence(views') /\ DOMAIN views' = 1..n
    BY <2>4, OwnElements
  <2>6. views'[n] = w /\ \A i \in 1..(n - 1) : views'[i] = views[i]
    BY <1>3, <2>0, <2>1
  <2>7. Last(Asked) = w
    BY <1>1, <2>4, <2>6 DEF Last
  <2>8. \A i \in 1..(n - 1) : i \in DOMAIN views /\ Complete(views[i])
    BY <1>3, <1>5
  <2>9. \A r \in DOMAIN w \ {rr} : r \in DOMAIN views[n] /\ w[r] = views[n][r]
    BY <2>3
  <2>10. QED
    <3>1. Queried(n, rr, w)
      BY <2>3, <2>4, <2>5, <2>6, <2>7, <2>8, <2>9 DEF Queried
    <3>2. QED
      BY <2>0, <3>1
<1>8. QED
  BY <1>6, <1>7

\* The view that a query has extended is still what its vantage has shown.
LEMMA WatchingAsks ==
    ASSUME Verifying, AskVantage
    PROVE  VerifyTypeOK' /\ Watching' /\ status' \in {"none", "NOT_VERIFIED"}
<1> DEFINE vs == ev.vantages
<1>1. /\ status = "none" /\ pid = "ans-txt"
      /\ request' = request /\ dns' = dns /\ upstream' = upstream
      /\ shown' = shown /\ changes' = changes
      /\ status' = IF \E rr \in Mandatory \cap DOMAIN Last(Asked) :
                          Last(Asked)[rr] = Bad
                   THEN "NOT_VERIFIED" ELSE "none"
  BY DEF AskVantage, Running
<1>0. PICK k \in 1..Len(vs), rr \in RR : \E w : Queried(k, rr, w)
  BY QueryAsks
<1>q. PICK w : Queried(k, rr, w)
  BY <1>0
<1>2. /\ k \in 1..Len(vs) /\ rr \in RR
      /\ k = Len(views) \/ k = Len(views) + 1
      /\ DOMAIN w \in Asking /\ rr \in DOMAIN w
      /\ w[rr] = dns[vs[k]][rr]
      /\ \A r \in DOMAIN w \ {rr} : k = Len(views) /\ r \in DOMAIN views[k] /\ w[r] = views[k][r]
      /\ IsSequence(views') /\ Len(views') = k /\ DOMAIN views' = 1..k
      /\ views'[k] = w /\ Last(Asked) = w
      /\ \A i \in 1..(k - 1) : i \in DOMAIN views /\ views'[i] = views[i] /\ Complete(views[i])
  BY <1>q DEF Queried
<1>3. vs' = vs
  BY <1>1 DEF ev
<1>4. vs[k] \in Vantage
  <2>1. vs \in Seq(Vantage)
    BY <1>1, RequestAssumption DEF Verifying, VerifyTypeOK, pid, ev
  <2>2. QED
    BY <1>2, <2>1
<1>5. /\ \A r \in RR : dns[vs[k]][r] \in Answer[r]
      /\ \A r \in RR : dns[vs[k]][r] \in shown[vs[k]][r]
  BY <1>4 DEF Verifying, VerifyTypeOK, IsZone
<1>6. \A i \in 1..(k - 1) : Observed(i)
  BY <1>2 DEF Verifying, Watching
<1>7. \A i \in 1..(k - 1) : Observed(i)'
  BY <1>1, <1>2, <1>3, <1>6 DEF Observed, Complete
<1>8. (\E r \in DOMAIN w : r # rr) => Observed(k) /\ k \in DOMAIN views
  <2>1. ASSUME NEW r \in DOMAIN w, r # rr PROVE k \in DOMAIN views
    <3>1. k = Len(views)
      BY <1>2, <2>1
    <3>2. views \in Seq(Range(views))
      BY DEF Verifying, VerifyTypeOK, IsSequence
    <3>3. QED
      BY <1>2, <3>1, <3>2
  <2>2. QED
    BY <2>1 DEF Verifying, Watching
<1>9. "_ans" \in DOMAIN w /\ DOMAIN w \subseteq RR
  BY <1>2 DEF Asking, RR
<1>10. Observed(k)'
  <2>1. \A r \in DOMAIN w : w[r] \in Answer[r]
    BY <1>2, <1>5, <1>8 DEF Observed
  <2>2. \A r \in DOMAIN w : w[r] \in shown[vs[k]][r]
    BY <1>2, <1>5, <1>8, <1>9 DEF Observed
  <2>4. status' # "NOT_VERIFIED" => \A r \in DOMAIN w : r \in {"_ans", "_ans-badge"} => w[r] # Bad
    BY <1>1, <1>2 DEF Mandatory
  <2>5. views'[k] = w /\ ~(k < Len(views'))
    BY <1>2
  <2>6. QED
    BY <1>1, <1>2, <1>3, <2>1, <2>2, <2>4, <2>5 DEF Observed
<1>11. \A i \in DOMAIN views' : i \in 1..(k - 1) \/ i = k
  BY <1>2
<1>12. Watching'
  <2>1. Len(vs') \in Nat /\ Len(views') <= Len(vs')
    <3>1. vs \in Seq(Vantage)
      BY <1>1, RequestAssumption DEF Verifying, VerifyTypeOK, pid, ev
    <3>2. QED
      BY <1>2, <1>3, <3>1
  <2>2. pid' = "ans-txt"
    BY <1>1 DEF pid
  <2>3. QED
    BY <1>1, <1>7, <1>10, <1>11, <2>1, <2>2 DEF Verifying, Watching
<1>13. VerifyTypeOK'
  <2>1. \A i \in DOMAIN views' : DOMAIN views'[i] \subseteq RR
    BY <1>2, <1>6, <1>9, <1>11 DEF Complete
  <2>2. \A i \in 1..(Len(views') - 1) : DOMAIN views'[i] = RR
    BY <1>2 DEF Complete
  <2>3. QED
    BY <1>1, <1>2, <2>1, <2>2 DEF Verifying, VerifyTypeOK, IsZone, Status
<1>14. QED
  BY <1>1, <1>12, <1>13

\* Every profile answers with one of the verdicts.
LEMMA VerdictKinds ==
    /\ \A r, key : ReceiptVerdict(r, key) \in Status \ {"none"}
    /\ \A p, sig, key : CardVerdict(p, sig, key) \in Status \ {"none"}
    /\ \A c : CatalogVerdict(c) \in Status \ {"none"}
    /\ \A want, r : DnsAidVerdict(want, r) \in Status \ {"none"}
    /\ ViewsVerdict \in Status \ {"none"}
<1>1. \A r, key : ReceiptVerdict(r, key) \in Status \ {"none"}
  BY DEF ReceiptVerdict, Status
<1>2. \A p, sig, key : CardVerdict(p, sig, key) \in Status \ {"none"}
  BY DEF CardVerdict, Status
<1>3. \A c : CatalogVerdict(c) \in Status \ {"none"}
  BY DEF CatalogVerdict, Status
<1>4. \A want, r : DnsAidVerdict(want, r) \in Status \ {"none"}
  BY DEF DnsAidVerdict, Status
<1>5. ViewsVerdict \in Status \ {"none"}
  BY DEF ViewsVerdict, Status
<1>6. QED
  BY <1>1, <1>2, <1>3, <1>4, <1>5

\* Every step keeps the views true, and a verdict is that of its profile.
LEMMA VerifyingStep ==
    ASSUME Verifying, [VerifyNext]_verifyVars
    PROVE  Verifying'
<1>1. ASSUME NEW v \in Status \ {"none"}, status = "none", Decide(v)
      PROVE  /\ VerifyTypeOK' /\ Watching' /\ status' = v
             /\ request' = request /\ upstream' = upstream /\ views' = views
  BY <1>1, WatchingDecides DEF Decide
<1>2. CASE VerifyUnknown
  <2>1. status = "none" /\ pid \notin Registered /\ Decide("NOT_VERIFIED")
    BY <1>2 DEF VerifyUnknown
  <2>2. /\ VerifyTypeOK' /\ Watching' /\ status' = "NOT_VERIFIED" /\ request' = request
    BY <1>1, <2>1 DEF Status
  <2>3. Decided'
    BY <2>1, <2>2 DEF Decided, pid
  <2>4. QED
    BY <2>2, <2>3 DEF Verifying
<1>3. CASE VerifyReceipt
  <2> DEFINE v == ReceiptVerdict(ev.receipt, ev.key)
  <2>1. /\ status = "none" /\ pid = "ans-scitt" /\ pid \in Registered
        /\ Decide(v)
    BY <1>3 DEF VerifyReceipt, Running
  <2>2. /\ VerifyTypeOK' /\ Watching' /\ status' = v /\ request' = request
    BY <1>1, <2>1, VerdictKinds
  <2>3. v' = v
    BY <2>2 DEF ev
  <2>4. Decided'
    BY <2>1, <2>2, <2>3 DEF Decided, pid
  <2>5. QED
    BY <2>2, <2>4 DEF Verifying
<1>4. CASE VerifyCard
  <2> DEFINE v == CardVerdict(ev.payload, ev.sig, ev.key)
  <2>1. /\ status = "none" /\ pid = "ed25519-agentcard" /\ pid \in Registered
        /\ Decide(v)
    BY <1>4 DEF VerifyCard, Running
  <2>2. /\ VerifyTypeOK' /\ Watching' /\ status' = v /\ request' = request
    BY <1>1, <2>1, VerdictKinds
  <2>3. v' = v
    BY <2>2 DEF ev
  <2>4. Decided'
    BY <2>1, <2>2, <2>3 DEF Decided, pid
  <2>5. QED
    BY <2>2, <2>4 DEF Verifying
<1>5. CASE VerifyCatalog
  <2> DEFINE v == CatalogVerdict(ev)
  <2>1. /\ status = "none" /\ pid = "jws-catalog" /\ pid \in Registered
        /\ Decide(v)
    BY <1>5 DEF VerifyCatalog, Running
  <2>2. /\ VerifyTypeOK' /\ Watching' /\ status' = v /\ request' = request
    BY <1>1, <2>1, VerdictKinds
  <2>3. v' = v
    BY <2>2 DEF ev
  <2>4. Decided'
    BY <2>1, <2>2, <2>3 DEF Decided, pid
  <2>5. QED
    BY <2>2, <2>4 DEF Verifying
<1>6. CASE AskDnsAid
  <2>1. VerifyTypeOK' /\ Watching' /\ status' = "none"
    BY <1>6, WatchingAsksPackage
  <2>2. QED
    BY <2>1 DEF Verifying, Decided
<1>7. CASE VerifyDnsAid
  <2> DEFINE v == DnsAidVerdict(ev.dane, upstream)
  <2>1. /\ status = "none" /\ pid = "dns-aid" /\ pid \in Registered
        /\ Decide(v)
    BY <1>7 DEF VerifyDnsAid, Running
  <2>2. /\ VerifyTypeOK' /\ Watching' /\ status' = v /\ request' = request /\ upstream' = upstream
    BY <1>1, <2>1, VerdictKinds
  <2>3. v' = v
    BY <2>2 DEF ev
  <2>4. Decided'
    BY <2>1, <2>2, <2>3 DEF Decided, pid
  <2>5. QED
    BY <2>2, <2>4 DEF Verifying
<1>8. CASE RefuseHost
  <2>1. /\ status = "none" /\ pid = "ans-txt" /\ pid \in Registered
        /\ Decide("NOT_VERIFIED")
    BY <1>8 DEF RefuseHost, Running
  <2>2. /\ VerifyTypeOK' /\ Watching' /\ status' = "NOT_VERIFIED" /\ request' = request
    BY <1>1, <2>1 DEF Status
  <2>3. Decided'
    BY <2>1, <2>2 DEF Decided, pid
  <2>4. QED
    BY <2>2, <2>3 DEF Verifying
<1>9. CASE AskVantage
  <2>1. VerifyTypeOK' /\ Watching' /\ status' \in {"none", "NOT_VERIFIED"}
    BY <1>9, WatchingAsks
  <2>2. pid = "ans-txt" /\ pid \in Registered /\ request' = request
    BY <1>9 DEF AskVantage, Running
  <2>3. Decided'
    BY <2>1, <2>2 DEF Decided, pid
  <2>4. QED
    BY <2>1, <2>3 DEF Verifying
<1>10. CASE CompareViews
  <2> DEFINE v == ViewsVerdict
  <2>1. /\ status = "none" /\ pid = "ans-txt" /\ pid \in Registered
        /\ views # <<>> /\ AllViews
        /\ Decide(v)
    BY <1>10 DEF CompareViews, Running
  <2>2. /\ VerifyTypeOK' /\ Watching' /\ status' = v /\ request' = request /\ views' = views
    BY <1>1, <2>1, VerdictKinds
  <2>3. ev' = ev
    BY <2>2 DEF ev
  <2>4. v' = v /\ AllViews'
    BY <2>1, <2>2, <2>3 DEF ViewsVerdict, Views, AllViews, Range,
                            Endpoints, Complete, Last
  <2>5. Decided'
    BY <2>1, <2>2, <2>4 DEF Decided, pid
  <2>6. QED
    BY <2>2, <2>5 DEF Verifying
<1>11. CASE Publish
  <2>1. VerifyTypeOK' /\ Watching' /\ status' = "none"
    BY <1>11, WatchingPublishes
  <2>2. QED
    BY <2>1 DEF Verifying, Decided
<1>12. CASE UNCHANGED verifyVars
  <2>1. /\ request' = request /\ dns' = dns /\ views' = views /\ upstream' = upstream
        /\ status' = status /\ shown' = shown /\ changes' = changes
    BY <1>12 DEF verifyVars
  <2>2. ev' = ev /\ pid' = pid
    BY <2>1 DEF ev, pid
  <2>3. VerifyTypeOK'
    BY <2>1 DEF Verifying, VerifyTypeOK, IsZone, IsSequence, Range
  <2>4. Watching'
    BY <2>1, <2>2 DEF Verifying, Watching, Observed, Complete
  <2>5. AllViews' = AllViews /\ ViewsVerdict' = ViewsVerdict
    BY <2>1, <2>2 DEF ViewsVerdict, Views, AllViews, Range,
                      Endpoints, Complete, Last
  <2>6. /\ ReceiptVerdict(ev.receipt, ev.key)'
             = ReceiptVerdict(ev.receipt, ev.key)
        /\ CardVerdict(ev.payload, ev.sig, ev.key)'
             = CardVerdict(ev.payload, ev.sig, ev.key)
        /\ CatalogVerdict(ev)' = CatalogVerdict(ev)
        /\ DnsAidVerdict(ev.dane, upstream)' = DnsAidVerdict(ev.dane, upstream)
    BY <2>1, <2>2
  <2>7. Decided'
    BY <2>1, <2>2, <2>5, <2>6 DEF Verifying, Decided
  <2>8. QED
    BY <2>3, <2>4, <2>7 DEF Verifying
<1>13. QED
  BY <1>2, <1>3, <1>4, <1>5, <1>6, <1>7, <1>8, <1>9, <1>10, <1>11, <1>12 DEF VerifyNext

\* The views and the verdict are what the invariant says, in every behaviour.
LEMMA ProfilesInvariant == VerifySpec => []Verifying
<1>1. VerifyInit => Verifying
  BY VerifyingInitially
<1>2. Verifying /\ [VerifyNext]_verifyVars => Verifying'
  BY VerifyingStep
<1>3. QED
  BY <1>1, <1>2, PTL DEF VerifySpec

\* Types are preserved by every verification: what is shown stays shown, and only
\* the last view is ever incomplete.
THEOREM ProfilesTypeCorrect == VerifySpec => []VerifyTypeOK
<1>1. Verifying => VerifyTypeOK
  BY DEF Verifying
<1>2. QED
  BY <1>1, ProfilesInvariant, PTL

-----------------------------------------------------------------------------
(* What the verdicts mean. *)

\* A VERIFIED card carries a signature of its own content.
LEMMA CardIsSigned ==
    ASSUME NEW p, NEW sig, NEW key, CardVerdict(p, sig, key) = "VERIFIED"
    PROVE  /\ sig = [key |-> key, over |-> CardMessage(p)]
           /\ Canonicalizable(p)
BY DEF CardVerdict, Signs

\* One message has one content, up to the spelling of numbers.
LEMMA CardContent ==
    ASSUME NEW p, NEW q, CardMessage(p) = CardMessage(q),
           NEW f \in DOMAIN p \ {"signature"}
    PROVE  f \in DOMAIN q /\ SameNumber(p[f], q[f])
<1>1. DOMAIN CardMessage(p) = DOMAIN p \ {"signature"}
      /\ CardMessage(p)[f] = CanonicalValue(p[f])
  BY DEF CardMessage
<1>2. DOMAIN CardMessage(q) = DOMAIN q \ {"signature"}
  BY DEF CardMessage
<1>3. f \in DOMAIN q \ {"signature"}
  BY <1>1, <1>2
<1>4. CardMessage(q)[f] = CanonicalValue(q[f])
  BY <1>3 DEF CardMessage
<1>5. CanonicalValue(p[f]) = CanonicalValue(q[f])
  BY <1>1, <1>4
<1>6. QED
  BY <1>3, <1>5 DEF CanonicalValue, SameNumber

\* A VERIFIED catalog carries a signature by the selected key over its entries.
LEMMA CatalogIsSigned ==
    ASSUME NEW c, CatalogVerdict(c) = "VERIFIED"
    PROVE  LET key == SelectKey(c.public, c.jwks, c.jws.header.kid) IN
           /\ key # None /\ c.jws.header.alg = "ES256"
           /\ c.jws.sig = [key |-> key, over |-> SigningInput(c.jws.header, c.entries)]
BY DEF CatalogVerdict, VerifyEs256, Signs

\* A VERIFIED receipt carries a signature over its payload, and a path to its root.
LEMMA ReceiptIsSigned ==
    ASSUME NEW r, NEW key, ReceiptVerdict(r, key) = "VERIFIED"
    PROVE  /\ r \notin {None, Bad} /\ r.vdp # Bad
           /\ r.sig = [key |-> key, over |-> r.payload]
           /\ ReceiptRoot(r) = r.vdp.root /\ ReceiptRoot(r) # Error
BY DEF ReceiptVerdict, Signs, Parses, ProofExtracted

\* No content can be exchanged under a signature, for any set of requests.
THEOREM NoExchange == VerifySpec => []TamperIsNoticed
<1>1. Verifying => TamperIsNoticed
  <2> SUFFICES ASSUME Verifying, status = "VERIFIED" PROVE TamperIsNoticed
    BY DEF TamperIsNoticed
  <2>1. ASSUME pid = "ed25519-agentcard",
               NEW r \in Request, r[2].sig = ev.sig, r[2].key = ev.key,
               CardVerdict(r[2].payload, r[2].sig, r[2].key) = "VERIFIED",
               NEW f \in DOMAIN ev.payload \ {"signature"}
        PROVE  f \in DOMAIN r[2].payload /\ SameNumber(ev.payload[f], r[2].payload[f])
    <3>1. CardVerdict(ev.payload, ev.sig, ev.key) = "VERIFIED"
      BY <2>1 DEF Verifying, Decided
    <3>2. ev.sig = [key |-> ev.key, over |-> CardMessage(ev.payload)]
      BY <3>1, CardIsSigned
    <3>3. r[2].sig = [key |-> r[2].key, over |-> CardMessage(r[2].payload)]
      BY <2>1, CardIsSigned
    <3>4. CardMessage(ev.payload) = CardMessage(r[2].payload)
      <4> DEFINE m == CardMessage(ev.payload)
                 n == CardMessage(r[2].payload)
      <4>1. [key |-> ev.key, over |-> m] = [key |-> r[2].key, over |-> n]
        BY <2>1, <3>2, <3>3
      <4> HIDE DEF m, n
      <4>2. m = n
        BY <4>1
      <4>3. QED
        BY <4>2 DEF m, n
    <3>5. QED
      BY <2>1, <3>4, CardContent
  <2>2. ASSUME pid = "jws-catalog",
               NEW r \in Request, r[2].jws = ev.jws,
               CatalogVerdict(r[2]) = "VERIFIED"
        PROVE  SameNumber(ev.entries, r[2].entries)
    <3> DEFINE key(c) == SelectKey(c.public, c.jwks, c.jws.header.kid)
               input(c) == SigningInput(c.jws.header, c.entries)
    <3>1. CatalogVerdict(ev) = "VERIFIED"
      BY <2>2 DEF Verifying, Decided
    <3>2. ev.jws.sig = [key |-> key(ev), over |-> input(ev)]
      BY <3>1, CatalogIsSigned
    <3>3. r[2].jws.sig = [key |-> key(r[2]), over |-> input(r[2])]
      BY <2>2, CatalogIsSigned
    <3>4. input(ev) = input(r[2])
      <4> HIDE DEF key, input
      <4>1. [key |-> key(ev), over |-> input(ev)] = [key |-> key(r[2]), over |-> input(r[2])]
        BY <2>2, <3>2, <3>3
      <4>2. QED
        BY <4>1
    <3>5. CanonicalValue(ev.entries) = CanonicalValue(r[2].entries)
      BY <3>4 DEF SigningInput
    <3>6. QED
      BY <3>5 DEF CanonicalValue, SameNumber
  <2>3. ASSUME pid = "ans-scitt",
               NEW r \in Request, r[2].receipt.sig = ev.receipt.sig,
               ReceiptVerdict(r[2].receipt, r[2].key) = "VERIFIED"
        PROVE  r[2].receipt.payload = ev.receipt.payload
    <3>1. ReceiptVerdict(ev.receipt, ev.key) = "VERIFIED"
      BY <2>3 DEF Verifying, Decided
    <3>2. ev.receipt.sig = [key |-> ev.key, over |-> ev.receipt.payload]
      BY <3>1, ReceiptIsSigned
    <3>3. r[2].receipt.sig = [key |-> r[2].key, over |-> r[2].receipt.payload]
      BY <2>3, ReceiptIsSigned
    <3>4. QED
      BY <2>3, <3>2, <3>3
  <2>4. QED
    BY <2>1, <2>2, <2>3 DEF TamperIsNoticed
<1>2. QED
  BY <1>1, ProfilesInvariant, PTL

\* The views are complete when they are compared, one for each vantage that was named,
\* and hold what those vantages have shown.
LEMMA ViewsAreShown ==
    ASSUME Verifying, pid = "ans-txt", pid \in Registered, status \notin {"none", "NOT_VERIFIED"}
    PROVE  /\ status = ViewsVerdict
           /\ DOMAIN views = DOMAIN ev.vantages
           /\ Views = {views[i] : i \in DOMAIN ev.vantages}
           /\ \A i \in DOMAIN ev.vantages :
                 /\ DOMAIN views[i] = RR
                 /\ \A rr \in RR : /\ views[i][rr] \in Answer[rr]
                                   /\ views[i][rr] \in shown[ev.vantages[i]][rr]
                 /\ \A rr \in Mandatory : views[i][rr] # Bad
<1> DEFINE vs == ev.vantages
<1>1. views # <<>> /\ AllViews /\ status = ViewsVerdict
  BY DEF Verifying, Decided
<1>2. /\ vs \in Seq(Vantage) /\ DOMAIN vs = 1..Len(vs) /\ Len(vs) \in Nat
  <2>1. vs \in Seq(Vantage)
    BY RequestAssumption DEF Verifying, VerifyTypeOK, pid, ev
  <2>2. QED
    BY <2>1, LenProperties
<1>3. DOMAIN views = DOMAIN vs
  BY <1>1, <1>2 DEF Verifying, VerifyTypeOK, IsSequence, AllViews
<1>4. \A i \in DOMAIN vs : Observed(i) /\ DOMAIN views[i] = RR
  <2>1. \A i \in DOMAIN vs : Observed(i)
    BY <1>3 DEF Verifying, Watching
  <2>2. \A i \in DOMAIN vs : i < Len(views) \/ i = Len(views)
    BY <1>1, <1>2 DEF AllViews
  <2>3. QED
    BY <1>1, <2>1, <2>2 DEF Observed, Complete, AllViews, Last
<1>5. Views = {views[i] : i \in DOMAIN vs}
  BY <1>3 DEF Views, Range
<1>6. ASSUME NEW i \in DOMAIN vs
      PROVE  /\ \A rr \in RR : views[i][rr] \in Answer[rr] /\ views[i][rr] \in shown[vs[i]][rr]
             /\ \A rr \in Mandatory : views[i][rr] # Bad
  <2>1. Observed(i) /\ DOMAIN views[i] = RR
    BY <1>4
  <2>2. \A rr \in Mandatory : rr \in RR /\ rr \in {"_ans", "_ans-badge"}
    BY DEF RR, Mandatory
  <2>3. QED
    BY <2>1, <2>2 DEF Observed
<1>7. QED
  BY <1>1, <1>3, <1>4, <1>5, <1>6

\* Two views that differ in what they list differ in a url or in the services of a record.
LEMMA ViewsDiffer ==
    ASSUME NEW v, NEW w, DOMAIN v = RR, DOMAIN w = RR, Endpoints(v) # Endpoints(w)
    PROVE  \/ v["_ans"] # w["_ans"]
           \/ \E rr \in RR \ Mandatory : Services(v[rr]) # Services(w[rr])
<1> SUFFICES ASSUME v["_ans"] = w["_ans"],
                    \A rr \in RR \ Mandatory : Services(v[rr]) = Services(w[rr])
             PROVE  FALSE
  OBVIOUS
<1> DEFINE S(u) == {Services(u[rr]) : rr \in DOMAIN u \ Mandatory}
<1>1. S(v) = S(w)
  OBVIOUS
<1>2. Endpoints(v) = {v["_ans"]} \cup UNION S(v) /\ Endpoints(w) = {w["_ans"]} \cup UNION S(w)
  BY DEF Endpoints
<1> HIDE DEF S
<1>3. QED
  BY <1>1, <1>2

\* A rejection is about the subject, whatever the domain shows to whom and when: of
\* every profile, a FAILED rests on what was read, never on what is missing.
THEOREM RejectionsAreReal == VerifySpec => []RejectionIsReal
<1>1. Verifying => RejectionIsReal
  <2> SUFFICES ASSUME Verifying, status = "FAILED" PROVE RejectionIsReal
    BY DEF RejectionIsReal
  <2> DEFINE vs == ev.vantages
             Mismatch == /\ ev.expected # None
                         /\ \E i \in DOMAIN vs :
                               \E url \in shown[vs[i]]["_ans"] : url \notin {Bad, ev.expected}
             Urls(i, j) == \E x \in shown[vs[i]]["_ans"], y \in shown[vs[j]]["_ans"] :
                              x # y /\ Bad \notin {x, y}
             Served(i, j) == \E rr \in RR \ Mandatory :
                               \E x \in shown[vs[i]][rr], y \in shown[vs[j]][rr] :
                                  Services(x) # Services(y)
             Diverged == \E i, j \in DOMAIN vs : i # j /\ (Urls(i, j) \/ Served(i, j))
  <2>0. pid \in Registered /\ request \in Request
    BY DEF Verifying, Decided, VerifyTypeOK
  <2>1. ASSUME pid = "ans-txt"
        PROVE  (\A v \in Views : \A rr \in Mandatory : v[rr] # Bad) /\ (Mismatch \/ Diverged)
    <3>1. /\ ViewsVerdict = "FAILED"
          /\ Views = {views[i] : i \in DOMAIN vs}
          /\ \A i \in DOMAIN vs :
                /\ DOMAIN views[i] = RR
                /\ \A rr \in RR : views[i][rr] \in shown[vs[i]][rr]
                /\ \A rr \in Mandatory : views[i][rr] # Bad
      BY <2>0, <2>1, ViewsAreShown
    <3>2. "_ans" \in RR /\ "_ans" \in Mandatory
      BY DEF RR, Mandatory
    <3>3. CASE ev.expected # None /\ \E v \in Views : v["_ans"] # ev.expected
      <4>1. PICK i \in DOMAIN vs : views[i]["_ans"] # ev.expected
        BY <3>1, <3>3
      <4>2. views[i]["_ans"] \in shown[vs[i]]["_ans"] /\ views[i]["_ans"] # Bad
        BY <3>1, <3>2
      <4>3. QED
        BY <3>1, <3>3, <4>1, <4>2
    <3>4. CASE \E v, w \in Views : Endpoints(v) # Endpoints(w)
      <4>1. PICK i \in DOMAIN vs, j \in DOMAIN vs : Endpoints(views[i]) # Endpoints(views[j])
        BY <3>1, <3>4
      <4>2. i # j
        BY <4>1
      <4>3. \/ views[i]["_ans"] # views[j]["_ans"]
            \/ \E rr \in RR \ Mandatory : Services(views[i][rr]) # Services(views[j][rr])
        <5>1. DOMAIN views[i] = RR /\ DOMAIN views[j] = RR
          BY <3>1
        <5>2. QED
          BY <4>1, <5>1, ViewsDiffer
      <4>4. CASE views[i]["_ans"] # views[j]["_ans"]
        <5>1. Urls(i, j)
          BY <3>1, <3>2, <4>4
        <5> HIDE DEF Urls, Served
        <5>2. Diverged
          BY <4>2, <5>1
        <5>3. QED
          BY <3>1, <5>2
      <4>5. CASE \E rr \in RR \ Mandatory : Services(views[i][rr]) # Services(views[j][rr])
        <5>1. Served(i, j)
          BY <3>1, <4>5
        <5> HIDE DEF Urls, Served
        <5>2. Diverged
          BY <4>2, <5>1
        <5>3. QED
          BY <3>1, <5>2
      <4>6. QED
        BY <4>3, <4>4, <4>5
    <3>5. QED
      BY <3>1, <3>3, <3>4 DEF ViewsVerdict
  <2>2. ASSUME pid = "dns-aid" PROVE upstream \in UpstreamResult /\ upstream.exists
    <3>1. DnsAidVerdict(ev.dane, upstream) = "FAILED"
      BY <2>0, <2>2 DEF Verifying, Decided
    <3>2. upstream \in UpstreamResult \cup {None, Bad}
      BY DEF Verifying, VerifyTypeOK
    <3>3. upstream \notin {None, Bad} /\ upstream.exists
      BY <3>1, Zenon DEF DnsAidVerdict
    <3>4. QED
      BY <3>2, <3>3
  <2>3. ASSUME pid = "ans-scitt" PROVE ev.receipt \notin {None, Bad} /\ ev.key \notin {None, Bad}
    <3>1. ReceiptVerdict(ev.receipt, ev.key) = "FAILED"
      BY <2>0, <2>3 DEF Verifying, Decided
    <3>2. QED
      BY <3>1 DEF ReceiptVerdict, KeyLoads, Parses
  <2>4. ASSUME pid = "ed25519-agentcard"
        PROVE  ev.sig.over # CardMessage(ev.payload) \/ ev.sig.key # ev.key
    <3>1. CardVerdict(ev.payload, ev.sig, ev.key) = "FAILED"
      BY <2>0, <2>4 DEF Verifying, Decided
    <3>2. /\ ev.sig \notin {None, Bad}
          /\ ev.sig # [key |-> ev.key, over |-> CardMessage(ev.payload)]
      BY <3>1 DEF CardVerdict, Signs
    <3>3. ev.sig = [key |-> ev.sig.key, over |-> ev.sig.over]
      BY <2>0, <2>4, <3>2, RequestAssumption DEF pid, ev
    <3>4. QED
      BY <3>2, <3>3
  <2>5. ASSUME pid = "jws-catalog"
        PROVE  \/ ev.jws.header.crit
               \/ ev.jws.sig.key # CatalogKey
               \/ ev.jws.sig.over # SigningInput(ev.jws.header, ev.entries)
    <3> DEFINE input == SigningInput(ev.jws.header, ev.entries)
    <3>1. CatalogVerdict(ev) = "FAILED"
      BY <2>0, <2>5 DEF Verifying, Decided
    <3>2. /\ ev.jws \notin {None, Bad}
          /\ ev.jws.header.crit \/ ~VerifyEs256(ev.jws.header, ev.entries, ev.jws.sig, CatalogKey)
      BY <3>1 DEF CatalogVerdict, CatalogKey
    <3>3. /\ ev.jws.sig.key # Bad
          /\ ev.jws.sig = [key |-> ev.jws.sig.key, over |-> ev.jws.sig.over]
      BY <2>0, <2>5, <3>2, RequestAssumption DEF pid, ev
    <3>4. ~ev.jws.header.crit => CatalogKey = Bad \/ ev.jws.sig # [key |-> CatalogKey, over |-> input]
      BY <3>2 DEF VerifyEs256, KeyLoads, Signs
    <3> HIDE DEF input
    <3>5. ev.jws.header.crit \/ ev.jws.sig.key # CatalogKey \/ ev.jws.sig.over # input
      BY <3>3, <3>4
    <3>6. QED
      BY <3>5 DEF input
  <2> HIDE DEF Mismatch, Diverged
  <2>6. pid = "ans-txt" =>
          (\A v \in Views : \A rr \in Mandatory : v[rr] # Bad) /\ (Mismatch \/ Diverged)
    BY <2>1
  <2> USE DEF Mismatch, Diverged
  <2>7. QED
    BY <2>2, <2>3, <2>4, <2>5, <2>6, Zenon DEF RejectionIsReal
<1>2. QED
  BY <1>1, ProfilesInvariant, PTL

\* The levels of a hash, down to level d.
LevelsTo(hash, d, f) ==
    f = [i \in 0..d |-> IF i = 0 THEN {hash} ELSE UNION {Children(h) : h \in f[i - 1]}]

\* They exist, however deep.
LEMMA LevelsExist ==
    ASSUME NEW hash
    PROVE  \A d \in Nat : \E f : LevelsTo(hash, d, f)
<1> DEFINE G == {d \in Nat : \E f : LevelsTo(hash, d, f)}
           next(S) == UNION {Children(h) : h \in S}
<1>1. ASSUME NEW d \in Nat, \A k \in 0..(d - 1) : k \in G PROVE d \in G
  <2>1. CASE d = 0
    <3> DEFINE f == [i \in 0..0 |-> {hash}]
    <3>1. \A i \in 0..0 : i = 0
      OBVIOUS
    <3>2. LevelsTo(hash, 0, f)
      BY <3>1 DEF LevelsTo
    <3>3. QED
      BY <2>1, <3>2
  <2>2. CASE d > 0
    <3>1. d - 1 \in 0..(d - 1)
      BY <2>2
    <3>2. PICK g : LevelsTo(hash, d - 1, g)
      BY <1>1, <3>1
    <3> DEFINE f == [i \in 0..d |-> IF i = d THEN next(g[d - 1]) ELSE g[i]]
    <3>3. \A i \in 0..d : i # d => i \in 0..(d - 1) /\ (i # 0 => i - 1 \in 0..(d - 1))
      OBVIOUS
    <3>4. \A i \in 0..(d - 1) : i \in 0..d /\ i # d /\ f[i] = g[i]
      OBVIOUS
    <3>5. f[d] = next(g[d - 1]) /\ d # 0
      BY <2>2
    <3>6. \A i \in 0..(d - 1) : g[i] = IF i = 0 THEN {hash} ELSE next(g[i - 1])
      BY <3>2 DEF LevelsTo
    <3>7. f = [i \in 0..d |-> f[i]]
      OBVIOUS
    <3> HIDE DEF f, next
    <3>8. ASSUME NEW i \in 0..d PROVE f[i] = IF i = 0 THEN {hash} ELSE next(f[i - 1])
      <4>1. CASE i = d
        BY <3>1, <3>4, <3>5, <4>1
      <4>2. CASE i # d
        BY <3>3, <3>4, <3>6, <4>2
      <4>3. QED
        BY <4>1, <4>2
    <3>9. f = [i \in 0..d |-> IF i = 0 THEN {hash} ELSE next(f[i - 1])]
      BY <3>7, <3>8
    <3>10. LevelsTo(hash, d, f)
      BY <3>9 DEF LevelsTo, next
    <3>11. QED
      BY <3>10
  <2>3. QED
    BY <2>1, <2>2
<1>2. G = Nat
  <2>1. G \in SUBSET Nat
    OBVIOUS
  <2> HIDE DEF G
  <2> QED BY <1>1, <2>1, StrongInduction
<1>3. QED
  BY <1>2

\* Climbing n times from a hash ends n levels above it.
LEMMA ClimbedIsBelow ==
    ASSUME NEW n \in Nat, NEW r,
           \A k \in 1..n : \E p : r[k] = <<p, r[k - 1]>> \/ r[k] = <<r[k - 1], p>>
    PROVE  Below(r[n], r[0], n)
<1> DEFINE f == CHOOSE f : LevelsTo(r[n], n, f)
           G == {j \in Nat : j <= n => r[n - j] \in f[j]}
<1>1. LevelsTo(r[n], n, f)
  BY LevelsExist
<1>2. Below(r[n], r[0], n) <=> r[0] \in f[n]
  BY DEF Below, LevelsTo
<1> HIDE DEF f
<1>3. ASSUME NEW j \in Nat, \A k \in 0..(j - 1) : k \in G PROVE j \in G
  <2> SUFFICES ASSUME j <= n PROVE r[n - j] \in f[j]
    OBVIOUS
  <2>1. CASE j = 0
    <3>1. f[0] = {r[n]} /\ n - 0 = n
      BY <1>1 DEF LevelsTo
    <3>2. QED
      BY <2>1, <3>1
  <2>2. CASE j > 0
    <3> DEFINE k == n - j + 1
    <3>1. j - 1 \in 0..(j - 1) /\ j - 1 <= n /\ n - (j - 1) = k /\ k \in 1..n /\ k - 1 = n - j
      BY <2>2
    <3>2. r[k] \in f[j - 1]
      BY <1>3, <3>1
    <3> HIDE DEF k
    <3>3. PICK p : r[k] = <<p, r[k - 1]>> \/ r[k] = <<r[k - 1], p>>
      BY <3>1
    <3>4. r[k - 1] \in Children(r[k])
      BY <3>3 DEF Children
    <3>5. f[j] = UNION {Children(h) : h \in f[j - 1]}
      BY <1>1, <2>2 DEF LevelsTo
    <3>6. QED
      BY <3>1, <3>2, <3>4, <3>5
  <2>3. QED
    BY <2>1, <2>2
<1>4. G = Nat
  <2>1. G \in SUBSET Nat
    OBVIOUS
  <2> HIDE DEF G
  <2> QED BY <1>3, <2>1, StrongInduction
<1>5. n \in G /\ n - n = 0
  BY <1>4
<1>6. QED
  BY <1>2, <1>5

\* A climb joins the node reached and the element of the path.
LEMMA ClimbedRoot ==
    ASSUME NEW at, NEW p
    PROVE  Climb(at, p).root = NodeHash(p, at.root) \/ Climb(at, p).root = NodeHash(at.root, p)
<1> DEFINE joined == IF OnRight(at) THEN NodeHash(p, at.root) ELSE NodeHash(at.root, p)
           above == Above(at)
<1>1. Climb(at, p) = [fn |-> above.fn, sn |-> above.sn, root |-> joined]
  BY Zenon DEF Climb
<1>2. joined \in {NodeHash(p, at.root), NodeHash(at.root, p)}
  OBVIOUS
<1> HIDE DEF joined, above
<1>3. QED
  BY <1>1, <1>2

\* The payload of a receipt whose root is rebuilt lies below that root, at the depth
\* that the length of its path says.
LEMMA WalkIsAbove ==
    ASSUME NEW leaf, NEW index, NEW size, NEW path, NEW n \in Nat, DOMAIN path = 1..n
    PROVE  Below(Walk(leaf, index, size, path).root, leaf, n)
<1>0. PICK h : Climbs(leaf, index, size, path, n, h)
  BY WalkEquation
<1>1. /\ Walk(leaf, index, size, path) = h[n]
      /\ h[0] = [fn |-> index, sn |-> size - 1, root |-> leaf]
      /\ \A k \in 1..n : h[k] = Climb(h[k - 1], path[k])
  BY <1>0 DEF Climbs
<1> DEFINE r == [k \in 0..n |-> h[k].root]
<1>2. r[0] = leaf /\ r[n] = Walk(leaf, index, size, path).root
  BY <1>1
<1>3. ASSUME NEW k \in 1..n PROVE \E p : r[k] = <<p, r[k - 1]>> \/ r[k] = <<r[k - 1], p>>
  <2>1. k \in 0..n /\ k - 1 \in 0..n
    OBVIOUS
  <2>2. h[k].root = NodeHash(path[k], h[k - 1].root) \/ h[k].root = NodeHash(h[k - 1].root, path[k])
    <3>1. h[k] = Climb(h[k - 1], path[k])
      BY <1>1
    <3>2. QED
      BY <3>1, ClimbedRoot
  <2>3. QED
    BY <2>1, <2>2 DEF NodeHash
<1> HIDE DEF r
<1>4. QED
  BY <1>2, <1>3, ClimbedIsBelow

\* What a card signs is its content, the spelling of numbers apart.
LEMMA MessageIsContent ==
    ASSUME NEW p, Canonicalizable(p)
    PROVE  IsContentOf(CardMessage(p), p)
<1>1. DOMAIN CardMessage(p) = DOMAIN p \ {"signature"}
  BY DEF CardMessage
<1>2. ASSUME NEW f \in DOMAIN p \ {"signature"}
      PROVE  p[f] # Bad /\ SameNumber(CardMessage(p)[f], p[f])
  <2>1. CardMessage(p)[f] = CanonicalValue(p[f])
    BY DEF CardMessage
  <2>2. p[f] # Bad
    BY DEF Canonicalizable
  <2>3. QED
    BY <2>1, <2>2 DEF CanonicalValue, SameNumber
<1>3. QED
  BY <1>1, <1>2 DEF IsContentOf

\* Behind every VERIFIED there is the fact that it stands for.
THEOREM VerdictsAreReal == VerifySpec => []VerifiedIsReal
<1>1. Verifying => VerifiedIsReal
  <2> SUFFICES ASSUME Verifying, status = "VERIFIED" PROVE VerifiedIsReal
    BY DEF VerifiedIsReal
  <2> DEFINE vs == ev.vantages
  <2>0. pid \in Registered /\ request \in Request
    BY DEF Verifying, Decided, VerifyTypeOK
  <2>1. ASSUME pid = "ans-scitt"
        PROVE  /\ ev.receipt.sig = [key |-> ev.key, over |-> ev.receipt.payload]
               /\ Below(ev.receipt.vdp.root, LeafHash(ev.receipt.payload),
                                 Len(ev.receipt.vdp.path))
    <3> DEFINE r == ev.receipt
               path == r.vdp.path
               leaf == LeafHash(r.payload)
    <3>1. ReceiptVerdict(r, ev.key) = "VERIFIED"
      BY <2>0, <2>1 DEF Verifying, Decided
    <3>2. /\ r \notin {None, Bad} /\ r.vdp # Bad
          /\ r.sig = [key |-> ev.key, over |-> r.payload]
          /\ ReceiptRoot(r) = r.vdp.root /\ ReceiptRoot(r) # Error
      BY <3>1, ReceiptIsSigned
    <3>3. IsSequence(path)
      BY <2>0, <2>1, <3>2, RequestAssumption DEF pid, ev
    <3>4. Len(path) \in Nat /\ DOMAIN path = 1..Len(path)
      BY <3>3, OwnElements DEF IsSequence
    <3> HIDE DEF path, leaf
    <3>5. r.vdp.root = Walk(leaf, r.vdp.index, r.vdp.size, path).root
      BY <3>2 DEF ReceiptRoot, RootFromProof, path, leaf
    <3>6. r.vdp.root = Walk(leaf, r.vdp.index, r.vdp.size, path).root
      BY <3>5
    <3>7. Below(r.vdp.root, leaf, Len(path))
      BY <3>4, <3>6, WalkIsAbove
    <3>8. QED
      BY <3>2, <3>7 DEF path, leaf
  <2>2. ASSUME pid = "ed25519-agentcard"
        PROVE  ev.sig.key = ev.key /\ IsContentOf(ev.sig.over, ev.payload)
    <3> DEFINE message == CardMessage(ev.payload)
    <3>1. CardVerdict(ev.payload, ev.sig, ev.key) = "VERIFIED"
      BY <2>0, <2>2 DEF Verifying, Decided
    <3>2. ev.sig = [key |-> ev.key, over |-> message] /\ Canonicalizable(ev.payload)
      BY <3>1, CardIsSigned
    <3>3. IsContentOf(message, ev.payload)
      BY <3>2, MessageIsContent
    <3> HIDE DEF message
    <3>4. ev.sig.key = ev.key /\ ev.sig.over = message
      BY <3>2
    <3>5. QED
      BY <3>3, <3>4
  <2>3. ASSUME pid = "jws-catalog"
        PROVE  /\ ev.jws.header.alg = "ES256" /\ ~ev.jws.header.crit
               /\ ev.jws.sig.key = CatalogKey /\ ev.jws.sig.over.header = ev.jws.header
               /\ SameNumber(ev.jws.sig.over.payload, ev.entries)
    <3> DEFINE input == SigningInput(ev.jws.header, ev.entries)
    <3>1. CatalogVerdict(ev) = "VERIFIED"
      BY <2>0, <2>3 DEF Verifying, Decided
    <3>2. ev.jws.header.alg = "ES256" /\ ev.jws.sig = [key |-> CatalogKey, over |-> input]
      BY <3>1, CatalogIsSigned DEF CatalogKey
    <3>3. ~ev.jws.header.crit
      BY <3>1 DEF CatalogVerdict
    <3>4. input.header = ev.jws.header /\ SameNumber(input.payload, ev.entries)
      BY DEF SigningInput, CanonicalValue, SameNumber
    <3> HIDE DEF input
    <3>5. ev.jws.sig.key = CatalogKey /\ ev.jws.sig.over = input
      BY <3>2
    <3>6. QED
      BY <3>2, <3>3, <3>4, <3>5
  <2>4. ASSUME pid = "dns-aid"
        PROVE  /\ upstream.exists /\ upstream.dnssec = "valid" /\ upstream.svcb
               /\ ev.dane => upstream.dane # FALSE
    <3>1. DnsAidVerdict(ev.dane, upstream) = "VERIFIED"
      BY <2>0, <2>4 DEF Verifying, Decided
    <3>2. upstream \in UpstreamResult \cup {None, Bad}
      BY DEF Verifying, VerifyTypeOK
    <3>3. /\ upstream \notin {None, Bad} /\ upstream.exists /\ upstream.svcb
          /\ upstream.dnssec # "bogus" /\ upstream.dnssec # "unsigned"
          /\ ev.dane => upstream.dane # FALSE
      BY <3>1, Zenon DEF DnsAidVerdict
    <3>4. upstream.dnssec \in {"valid", "bogus", "unsigned"}
      BY <3>2, <3>3 DEF UpstreamResult
    <3>5. QED
      BY <3>3, <3>4, Zenon
  <2>5. ASSUME pid = "ans-txt"
        PROVE  \E url \in Answer["_ans"] \ {Bad} :
                  /\ ev.expected \in {None, url}
                  /\ \A i \in DOMAIN vs : url \in shown[vs[i]]["_ans"]
    <3>1. /\ ViewsVerdict = "VERIFIED"
          /\ Views = {views[i] : i \in DOMAIN vs}
          /\ \A i \in DOMAIN vs :
                /\ DOMAIN views[i] = RR
                /\ \A rr \in RR : views[i][rr] \in Answer[rr] /\ views[i][rr] \in shown[vs[i]][rr]
                /\ \A rr \in Mandatory : views[i][rr] # Bad
      BY <2>0, <2>5, ViewsAreShown
    <3>2. "_ans" \in RR /\ "_ans" \in Mandatory
      BY DEF RR, Mandatory
    <3>3. 1 \in DOMAIN vs
      <4>1. views # <<>> /\ views \in Seq(Range(views)) /\ DOMAIN views = DOMAIN vs
        BY <2>0, <2>5, ViewsAreShown DEF Verifying, Decided, VerifyTypeOK, IsSequence
      <4>2. QED
        BY <4>1, EmptySeq, LenProperties
    <3>4. \A i \in DOMAIN vs : ev.expected # None => views[i]["_ans"] = ev.expected
      BY <3>1 DEF ViewsVerdict
    <3>5. ASSUME NEW i \in DOMAIN vs, NEW j \in DOMAIN vs PROVE views[i]["_ans"] = views[j]["_ans"]
      <4>1. Endpoints(views[i]) = Endpoints(views[j])
        BY <3>1 DEF ViewsVerdict
      <4>2. views[i]["_ans"] \in Endpoints(views[j])
        BY <4>1 DEF Endpoints
      <4>3. ASSUME NEW rr \in RR \ Mandatory, views[i]["_ans"] \in Services(views[j][rr])
            PROVE  FALSE
        <5>1. views[j][rr] \in Answer[rr] \ {Bad} /\ views[i]["_ans"] \in views[j][rr]
          BY <3>1, <4>3 DEF Services
        <5>2. views[j][rr] \cap Answer["_ans"] = {}
          BY <5>1, UrlAssumption
        <5>3. views[i]["_ans"] \in Answer["_ans"]
          BY <3>1, <3>2
        <5>4. QED
          BY <5>1, <5>2, <5>3
      <4>4. DOMAIN views[j] = RR
        BY <3>1
      <4>5. QED
        BY <4>2, <4>3, <4>4 DEF Endpoints
    <3>6. /\ views[1]["_ans"] \in Answer["_ans"] \ {Bad}
          /\ ev.expected \in {None, views[1]["_ans"]}
      BY <3>1, <3>2, <3>3, <3>4
    <3>7. \A i \in DOMAIN vs : views[1]["_ans"] \in shown[vs[i]]["_ans"]
      BY <3>1, <3>2, <3>3, <3>5
    <3>8. QED
      BY <3>6, <3>7
  <2>6. QED
    BY <2>0, <2>1, <2>2, <2>3, <2>4, <2>5, Zenon DEF VerifiedIsReal
<1>2. QED
  BY <1>1, ProfilesInvariant, PTL
=============================================================================
