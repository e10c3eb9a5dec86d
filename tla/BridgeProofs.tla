----------------------------- MODULE BridgeProofs -----------------------------
(***************************************************************************)
(* Theorems about Bridge for any number of threads and agents, every way in  *)
(* which agents share slugs, every page size and count limit, and logs of    *)
(* every length.  No call is excluded: calls about one agent overlap, to_sm  *)
(* and the store raise, and agents change their visibility.                  *)
(***************************************************************************)
EXTENDS Bridge, FiniteSetTheorems, TLAPS

\* The keys of the dictionary are distinct.
UniqueIds(as) == \A i, j \in DOMAIN as : as[i].id = as[j].id => i = j

\* Two calls under way about one slug know of each other.
OverlapsAreMixed ==
    \A t, u \in Thread :
        t # u /\ pc[t] # "idle" /\ pc[u] # "idle" /\ Slug[arg[t].id] = Slug[arg[u].id]
            => t \in mixed

\* What the two halves of a call that overlapped none about its slug rely on: an agent
\* that was registered is still there when its delta is added, and one that was removed
\* is still gone.
HalvesFit ==
    \A t \in Thread \ mixed :
        /\ pc[t] = "upsert" => arg[t] \in Range(agents)
        /\ pc[t] = "delete" => arg[t].id \notin IdsOf(agents)

\* No call is under way about the slug of a settled agent.
SettledIsQuiet ==
    \A id \in settled : \A t \in Thread : pc[t] # "idle" => Slug[arg[t].id] # Slug[id]

\* The index files every delta under its agent, and none is newer than the last number
\* handed out.
IndexedById == \A id \in DOMAIN latest : latest[id].agent.id = id /\ latest[id].seq <= seq

IInv ==
    /\ TypeOK
    /\ OverlapsAreMixed
    /\ HalvesFit
    /\ SettledIsQuiet
    /\ IndexedById
    /\ CatalogAgrees

\* The agents at the first n places that the walk began with are among what it got.
Covered(n) ==
    \A i \in DOMAIN agents :
        i <= n /\ agents[i].id \in walk.from => agents[i].id \in walk.got

\* A walk that nothing disturbed: what it began with is still registered, nothing is
\* private, and the pages it read held every agent of its beginning that they cover.
WalkCovers ==
    disturbed = {} =>
        /\ \A i \in DOMAIN agents : agents[i].public
        /\ walk.from \subseteq IdsOf(agents)
        /\ walk.at = "page" => Covered(walk.offset)
        /\ walk.at = "total" => Covered(walk.offset + Limit)
        /\ walk.at = "done" => Covered(CountLimit)

-----------------------------------------------------------------------------
\* Registering: the record is filed, under a place of its own, and every other
\* record stays where it is.
LEMMA PutIs ==
    ASSUME agents \in Seq(SimpleAgent), UniqueIds(agents), NEW a \in SimpleAgent
    PROVE  /\ Put(a) \in Seq(SimpleAgent)
           /\ UniqueIds(Put(a))
           /\ Range(Put(a)) = {b \in Range(agents) : b.id # a.id} \cup {a}
           /\ DOMAIN agents \subseteq DOMAIN Put(a)
           /\ \A i \in DOMAIN agents : Put(a)[i].id = agents[i].id
           /\ \A i \in DOMAIN Put(a) :
                 i \in DOMAIN agents \/ (Put(a)[i] = a /\ a.id \notin IdsOf(agents))
           /\ \A i \in DOMAIN Put(a) : Put(a)[i] = a \/ (i \in DOMAIN agents /\ Put(a)[i] = agents[i])
<1>1. CASE a.id \in IdsOf(agents)
  <2> DEFINE new == [i \in DOMAIN agents |-> IF agents[i].id = a.id THEN a ELSE agents[i]]
  <2>1. Put(a) = new
    BY <1>1 DEF Put
  <2>2. new \in Seq(SimpleAgent) /\ DOMAIN new = DOMAIN agents
    OBVIOUS
  <2>3. \A i \in DOMAIN agents : new[i] = IF agents[i].id = a.id THEN a ELSE agents[i]
    OBVIOUS
  <2> HIDE DEF new
  <2>4. PICK k \in DOMAIN agents : agents[k].id = a.id
    BY <1>1 DEF IdsOf
  <2>5. Range(new) = {b \in Range(agents) : b.id # a.id} \cup {a}
    BY <2>2, <2>3, <2>4 DEF Range
  <2>6. UniqueIds(new)
    BY <2>2, <2>3 DEF UniqueIds
  <2>7. QED
    BY <2>1, <2>2, <2>3, <2>5, <2>6
<1>2. CASE a.id \notin IdsOf(agents)
  <2> DEFINE new == Append(agents, a)
             n == Len(agents)
  <2>1. Put(a) = new
    BY <1>2 DEF Put
  <2>2. /\ new \in Seq(SimpleAgent) /\ n \in Nat
        /\ DOMAIN agents = 1..n /\ DOMAIN new = 1..(n + 1) /\ new[n + 1] = a
        /\ \A i \in 1..n : new[i] = agents[i]
    OBVIOUS
  <2> HIDE DEF new, n
  <2>3. \A i \in 1..n : agents[i].id # a.id
    BY <1>2, <2>2 DEF IdsOf
  <2>4. \A i \in 1..(n + 1) : i \in 1..n \/ i = n + 1
    BY <2>2
  <2>5. n + 1 \in 1..(n + 1) /\ 1..n \subseteq 1..(n + 1)
    BY <2>2
  <2>6. Range(new) = {b \in Range(agents) : b.id # a.id} \cup {a}
    BY <2>2, <2>3, <2>4, <2>5 DEF Range
  <2>7. UniqueIds(new)
    BY <2>2, <2>3, <2>4 DEF UniqueIds
  <2>8. QED
    BY <1>2, <2>1, <2>2, <2>4, <2>5, <2>6, <2>7
<1>3. QED
  BY <1>1, <1>2

\* Unregistering: exactly the record under the id is gone.
LEMMA RemoveIs ==
    ASSUME agents \in Seq(SimpleAgent), UniqueIds(agents), NEW k \in DOMAIN agents
    PROVE  /\ RemoveAt(agents, k) \in Seq(SimpleAgent)
           /\ UniqueIds(RemoveAt(agents, k))
           /\ Range(RemoveAt(agents, k)) = {b \in Range(agents) : b.id # agents[k].id}
<1> DEFINE new == RemoveAt(agents, k)
           n == Len(agents)
<1>1. n \in Nat /\ DOMAIN agents = 1..n /\ k \in 1..n
  OBVIOUS
<1>2. /\ SubSeq(agents, 1, k - 1) \in Seq(SimpleAgent)
      /\ Len(SubSeq(agents, 1, k - 1)) = k - 1
      /\ \A i \in 1..(k - 1) : SubSeq(agents, 1, k - 1)[i] = agents[i]
  BY <1>1
<1>3. /\ SubSeq(agents, k + 1, n) \in Seq(SimpleAgent)
      /\ Len(SubSeq(agents, k + 1, n)) = n - k
      /\ \A i \in 1..(n - k) : SubSeq(agents, k + 1, n)[i] = agents[i + k]
  BY <1>1
<1>4. /\ new \in Seq(SimpleAgent)
      /\ DOMAIN new = 1..(n - 1)
      /\ \A i \in 1..(n - 1) : new[i] = IF i < k THEN agents[i] ELSE agents[i + 1]
  <2> DEFINE front == SubSeq(agents, 1, k - 1)
             back == SubSeq(agents, k + 1, n)
  <2>1. new = front \o back
    BY DEF RemoveAt
  <2> HIDE DEF new, front, back
  <2>2. front \in Seq(SimpleAgent) /\ back \in Seq(SimpleAgent)
    BY <1>2, <1>3 DEF front, back
  <2>3. Len(front) = k - 1 /\ Len(back) = n - k
    BY <1>2, <1>3 DEF front, back
  <2>4. /\ new \in Seq(SimpleAgent)
        /\ Len(new) = n - 1
        /\ \A i \in 1..(n - 1) : new[i] = IF i <= k - 1 THEN front[i] ELSE back[i - (k - 1)]
    <3>1. /\ new \in Seq(SimpleAgent)
          /\ Len(new) = Len(front) + Len(back)
          /\ \A i \in 1..(Len(front) + Len(back)) :
                new[i] = IF i <= Len(front) THEN front[i] ELSE back[i - Len(front)]
      BY <2>1, <2>2
    <3>2. Len(front) + Len(back) = n - 1
      BY <1>1, <2>3
    <3>3. QED
      BY <2>3, <3>1, <3>2
  <2>5. \A i \in 1..(n - 1) :
           IF i < k THEN i \in 1..(k - 1)
           ELSE i - (k - 1) \in 1..(n - k) /\ (i - (k - 1)) + k = i + 1
    BY <1>1
  <2>6. \A i \in 1..(n - 1) : new[i] = IF i < k THEN agents[i] ELSE agents[i + 1]
    <3>1. \A i \in 1..(k - 1) : front[i] = agents[i]
      BY <1>2 DEF front
    <3>2. \A i \in 1..(n - k) : back[i] = agents[i + k]
      BY <1>3 DEF back
    <3>3. ASSUME NEW i \in 1..(n - 1)
          PROVE  new[i] = IF i < k THEN agents[i] ELSE agents[i + 1]
      <4>1. CASE i < k
        BY <1>1, <2>4, <2>5, <3>1, <4>1
      <4>2. CASE ~(i < k)
        <5>1. ~(i <= k - 1)
          BY <1>1, <4>2
        <5>2. new[i] = back[i - (k - 1)]
          BY <2>4, <5>1
        <5>3. i - (k - 1) \in 1..(n - k) /\ (i - (k - 1)) + k = i + 1
          BY <2>5, <4>2
        <5>4. QED
          BY <3>2, <4>2, <5>2, <5>3
      <4>3. QED
        BY <4>1, <4>2
    <3>4. QED
      BY <3>3
  <2>7. QED
    BY <2>4, <2>6
<1>5. \A i \in 1..(n - 1) : \E j \in 1..n : j # k /\ new[i] = agents[j] /\ j = IF i < k THEN i ELSE i + 1
  <2> SUFFICES ASSUME NEW i \in 1..(n - 1)
               PROVE  \E j \in 1..n : j # k /\ new[i] = agents[j] /\ j = IF i < k THEN i ELSE i + 1
    OBVIOUS
  <2>1. (IF i < k THEN i ELSE i + 1) \in 1..n /\ (IF i < k THEN i ELSE i + 1) # k
    BY <1>1
  <2>2. QED
    BY <1>4, <2>1
<1> HIDE DEF new, n
<1>6. UniqueIds(new)
  <2> SUFFICES ASSUME NEW i \in 1..(n - 1), NEW j \in 1..(n - 1), new[i].id = new[j].id
               PROVE  i = j
    BY <1>4 DEF UniqueIds
  <2>1. PICK p \in 1..n : new[i] = agents[p] /\ p = IF i < k THEN i ELSE i + 1
    BY <1>5
  <2>2. PICK q \in 1..n : new[j] = agents[q] /\ q = IF j < k THEN j ELSE j + 1
    BY <1>5
  <2>3. p = q
    BY <1>1, <2>1, <2>2 DEF UniqueIds
  <2>4. QED
    BY <1>1, <2>1, <2>2, <2>3
<1>7. ASSUME NEW b \in Range(agents), b.id # agents[k].id PROVE b \in Range(new)
  <2>1. PICK j \in 1..n : b = agents[j]
    BY <1>1 DEF Range
  <2>2. j # k
    BY <1>7, <2>1
  <2>3. CASE j < k
    BY <1>1, <1>4, <2>1, <2>3 DEF Range
  <2>4. CASE j > k
    <3>1. j - 1 \in 1..(n - 1) /\ ~(j - 1 < k) /\ (j - 1) + 1 = j
      BY <1>1, <2>1, <2>4
    <3>2. QED
      BY <1>4, <2>1, <3>1 DEF Range
  <2>5. QED
    BY <1>1, <2>1, <2>2, <2>3, <2>4
<1>8. ASSUME NEW b \in Range(new) PROVE b \in Range(agents) /\ b.id # agents[k].id
  <2>1. PICK i \in 1..(n - 1) : b = new[i]
    BY <1>4 DEF Range
  <2>2. PICK j \in 1..n : j # k /\ b = agents[j]
    BY <1>5, <2>1
  <2>3. QED
    BY <1>1, <2>2 DEF Range, UniqueIds
<1>9. QED
  BY <1>4, <1>6, <1>7, <1>8 DEF new

\* The ids of a sequence of agents are those of its members.
LEMMA IdsAreOfRange == \A as : IdsOf(as) = {b.id : b \in Range(as)}
BY DEF IdsOf, Range

\* Pop leaves every record but those of the agent it is about.
LEMMA PopIs ==
    ASSUME TypeOK, NEW t \in Thread, Pop(t)
    PROVE  /\ agents' \in Seq(SimpleAgent) /\ UniqueIds(agents')
           /\ Range(agents') = {b \in Range(agents) : b.id # arg[t].id}
<1>1. agents \in Seq(SimpleAgent) /\ UniqueIds(agents)
  BY DEF TypeOK, UniqueIds
<1>2. CASE arg[t].id \in IdsOf(agents)
  <2>1. PICK i \in DOMAIN agents : agents[i].id = arg[t].id /\ agents' = RemoveAt(agents, i)
    BY <1>2 DEF Pop
  <2>2. QED
    BY <1>1, <2>1, RemoveIs
<1>3. CASE arg[t].id \notin IdsOf(agents)
  BY <1>1, <1>3, IdsAreOfRange DEF Pop
<1>4. QED
  BY <1>2, <1>3

\* What a call adds to the log: the newest delta of its agent, and no other.
LEMMA AddIs ==
    ASSUME TypeOK, NEW action \in Log!DeltaAction, NEW a \in SimpleAgent,
           Log!Add(action, ToSm(a))
    PROVE  /\ Log!TypeOK'
           /\ seq' = seq + 1
           /\ \E d \in Log!Delta :
                 /\ d.seq = seq + 1 /\ d.action = action /\ d.agent = ToSm(a)
                 /\ latest' = [b \in DOMAIN latest \cup {a.id} |-> IF b = a.id THEN d ELSE latest[b]]
<1> DEFINE d == Log!NewDelta(action, ToSm(a))
<1>1. /\ d \in Log!Delta
      /\ d.seq = seq + 1 /\ d.action = action /\ d.agent = ToSm(a)
  BY DEF Log!NewDelta, Log!Delta, TypeOK, Log!TypeOK
<1>2. ToSm(a).id = a.id /\ a.id \in AgentId
  BY AgentAssumption DEF ToSm
<1>3. seq' = seq + 1 /\ deltas' = Append(deltas, d)
  BY DEF Log!Add
<1>4. latest' = [b \in DOMAIN latest \cup {a.id} |-> IF b = a.id THEN d ELSE latest[b]]
  BY <1>1, <1>2 DEF Log!Add, Log!Index
<1> HIDE DEF d
<1>5. Log!TypeOK'
  BY <1>1, <1>2, <1>3, <1>4 DEF TypeOK, Log!TypeOK
<1>6. QED
  BY <1>1, <1>3, <1>4, <1>5

\* The smaller of two numbers.
LEMMA MinOfTwo ==
    ASSUME NEW x \in Nat, NEW y \in Nat
    PROVE  Min({x, y}) \in Nat /\ (Min({x, y}) = x \/ Min({x, y}) = y)
              /\ Min({x, y}) <= x /\ Min({x, y}) <= y
<1>1. \E m \in {x, y} : \A z \in {x, y} : m <= z
  <2>1. CASE x <= y
    BY <2>1
  <2>2. CASE ~(x <= y)
    BY <2>2
  <2>3. QED
    BY <2>1, <2>2
<1>2. Min({x, y}) \in {x, y} /\ \A z \in {x, y} : Min({x, y}) <= z
  BY <1>1 DEF Min
<1>3. QED
  BY <1>2

\* list_agents returns the agents at the limit places after the offset, in order.
LEMMA ListIs ==
    ASSUME TypeOK, NEW limit \in Nat, NEW offset \in Nat
    PROVE  LET page == ListAgents(limit, offset) IN
           /\ \A i \in DOMAIN page :
                 /\ i + offset \in DOMAIN agents /\ i <= limit
                 /\ page[i] = agents[i + offset]
           /\ \A j \in DOMAIN agents :
                 offset < j /\ j <= offset + limit => j - offset \in DOMAIN page
           /\ \E n \in Nat : DOMAIN page = 1..n
<1> DEFINE n == Len(agents)
           m == Min({offset + limit, n})
           page == SubSeq(agents, offset + 1, m)
<1>1. agents \in Seq(SimpleAgent) /\ n \in Nat /\ offset + limit \in Nat
  BY DEF TypeOK
<1>2. DOMAIN agents = 1..n
  BY <1>1
<1>3. m \in Nat /\ (m = offset + limit \/ m = n) /\ m <= offset + limit /\ m <= n
  BY <1>1, MinOfTwo
<1>4. page = ListAgents(limit, offset)
  BY DEF ListAgents
<1> HIDE DEF n, m
<1>5. CASE m <= offset
  <2>1. page = <<>> /\ DOMAIN page = 1..0
    BY <1>1, <1>3, <1>5
  <2> HIDE DEF page
  <2>2. ~\E j \in 1..n : offset < j /\ j <= offset + limit
    BY <1>1, <1>3, <1>5
  <2>3. ~\E i \in DOMAIN page : TRUE
    BY <2>1
  <2>4. QED
    BY <1>2, <1>4, <2>1, <2>2, <2>3
<1>6. CASE m > offset
  <2>1. /\ DOMAIN page = 1..(m - offset)
        /\ \A i \in 1..(m - offset) : page[i] = agents[i + offset]
    BY <1>1, <1>3, <1>6 DEF n
  <2> HIDE DEF page
  <2>2. m - offset \in Nat /\ \A i \in 1..(m - offset) : i + offset \in 1..n /\ i <= limit
    BY <1>1, <1>3, <1>6
  <2>3. \A j \in 1..n : offset < j /\ j <= offset + limit => j - offset \in 1..(m - offset)
    BY <1>1, <1>3, <1>6
  <2>4. QED
    BY <1>2, <1>4, <2>1, <2>2, <2>3
<1>7. m <= offset \/ m > offset
  BY <1>1, <1>3
<1>8. QED
  BY <1>5, <1>6, <1>7

\* So a page of list_agents holds agents that are registered.
LEMMA PageIsTyped ==
    ASSUME TypeOK, NEW limit \in Nat, NEW offset \in Nat
    PROVE  \A a \in Range(ListAgents(limit, offset)) : a \in SimpleAgent
<1> DEFINE page == ListAgents(limit, offset)
<1>1. \A i \in DOMAIN page : i + offset \in DOMAIN agents /\ page[i] = agents[i + offset]
  BY ListIs
<1>2. \A j \in DOMAIN agents : agents[j] \in SimpleAgent
  BY DEF TypeOK
<1> HIDE DEF page
<1>3. \A i \in DOMAIN page : page[i] \in SimpleAgent
  BY <1>1, <1>2
<1>4. \A a \in Range(page) : a \in SimpleAgent
  BY <1>3 DEF Range
<1>5. QED
  BY <1>4 DEF page

\* What begins and what ends a call.
LEMMA BeginIs ==
    ASSUME TypeOK, NEW t \in Thread, NEW a \in SimpleAgent, NEW at \in {"upsert", "pop"},
           Begin(t, a, at)
    PROVE  /\ pc[t] = "idle" /\ pc'[t] = at /\ arg'[t] = a
           /\ \A u \in Thread \ {t} : pc'[u] = pc[u] /\ arg'[u] = arg[u]
           /\ pc' \in [Thread -> {"idle", "upsert", "pop", "delete"}]
           /\ arg' \in [Thread -> SimpleAgent]
           /\ mixed \subseteq mixed' /\ mixed' \subseteq Thread
           /\ \A u \in Thread : pc[u] # "idle" /\ Slug[arg[u].id] = Slug[a.id]
                                    => u \in mixed' /\ t \in mixed'
           /\ settled' = {id \in settled : Slug[id] # Slug[a.id]}
<1>1. /\ pc[t] = "idle" /\ pc' = [pc EXCEPT ![t] = at] /\ arg' = [arg EXCEPT ![t] = a]
      /\ settled' = {id \in settled : Slug[id] # Slug[a.id]}
  BY DEF Begin
<1>2. mixed' = IF CallersFor(a.id) = {} THEN mixed ELSE mixed \cup CallersFor(a.id) \cup {t}
  BY DEF Begin
<1>3. CallersFor(a.id) = {u \in Thread : pc[u] # "idle" /\ Slug[arg[u].id] = Slug[a.id]}
  BY DEF CallersFor
<1>4. /\ mixed \subseteq mixed' /\ mixed' \subseteq Thread
      /\ \A u \in CallersFor(a.id) : u \in mixed' /\ t \in mixed'
  <2>1. mixed \subseteq Thread /\ CallersFor(a.id) \subseteq Thread
    BY <1>3 DEF TypeOK
  <2>2. QED
    BY <1>2, <2>1
<1>5. QED
  BY <1>1, <1>3, <1>4 DEF TypeOK

\* Ending a call frees its thread and changes nothing that is registered.
LEMMA EndIs ==
    ASSUME TypeOK, NEW t \in Thread, NEW returned \in BOOLEAN, End(t, returned)
    PROVE  /\ pc'[t] = "idle"
           /\ \A u \in Thread \ {t} : pc'[u] = pc[u]
           /\ pc' \in [Thread -> {"idle", "upsert", "pop", "delete"}]
           /\ mixed' = mixed \ {t}
           /\ settled' \subseteq AgentId
           /\ settled' \subseteq settled \cup {arg[t].id}
           /\ arg[t].id \in settled' =>
                arg[t].id \in settled \/ (returned /\ t \notin mixed /\ arg[t].public)
           /\ UNCHANGED <<agents, arg, walkVars>>
BY AgentAssumption DEF End, TypeOK

\* The log after a step of a call: its delta is added, or nothing is.
LogStep(t, action) == Log!Add(action, ToSm(arg[t])) \/ UNCHANGED logVars

\* How a call can end.
LEMMA CallEnds ==
    ASSUME TypeOK, NEW t \in Thread,
           ConversionFails(t) \/ RecordUpsert(t) \/ StoreFails(t) \/ RecordDelete(t)
    PROVE  \E action \in {"upsert", "delete"}, returned \in BOOLEAN :
               /\ pc[t] = action
               /\ LogStep(t, action)
               /\ End(t, returned)
               /\ returned /\ arg[t].public => Log!Add(action, ToSm(arg[t]))
<1>1. ASSUME ConversionFails(t) PROVE pc[t] = "upsert" /\ UNCHANGED logVars /\ End(t, FALSE)
  BY <1>1 DEF ConversionFails
<1>2. ASSUME NEW action \in {"upsert", "delete"}, Record(t, action)
      PROVE  /\ LogStep(t, action) /\ End(t, TRUE)
             /\ arg[t].public => Log!Add(action, ToSm(arg[t]))
  BY <1>2 DEF Record, LogStep
<1>3. ASSUME StoreFails(t)
      PROVE  pc[t] \in {"upsert", "delete"} /\ LogStep(t, pc[t]) /\ End(t, FALSE)
  BY <1>3 DEF StoreFails, LogStep
<1>4. CASE ConversionFails(t)
  BY <1>1, <1>4 DEF LogStep
<1>5. CASE RecordUpsert(t)
  BY <1>2, <1>5 DEF RecordUpsert
<1>6. CASE StoreFails(t)
  BY <1>3, <1>6
<1>7. CASE RecordDelete(t)
  BY <1>2, <1>7 DEF RecordDelete
<1>8. QED
  BY <1>4, <1>5, <1>6, <1>7

\* Types are preserved by every step.
LEMMA TypedStep == TypeOK /\ [Next]_vars => TypeOK'
<1> SUFFICES ASSUME TypeOK, [Next]_vars PROVE TypeOK'
  OBVIOUS
<1>1. agents \in Seq(SimpleAgent) /\ UniqueIds(agents)
  BY DEF TypeOK, UniqueIds
<1>2. ASSUME NEW t \in Thread, Register(t) PROVE TypeOK'
  <2>1. PICK a \in SimpleAgent :
          Begin(t, a, "upsert") /\ agents' = Put(a) /\ DisturbedBy(a) /\ UNCHANGED <<logVars, walk>>
    BY <1>2 DEF Register
  <2>2. agents' \in Seq(SimpleAgent) /\ UniqueIds(agents')
    BY <1>1, <2>1, PutIs
  <2>3. /\ pc' \in [Thread -> {"idle", "upsert", "pop", "delete"}]
        /\ arg' \in [Thread -> SimpleAgent]
        /\ mixed' \subseteq Thread /\ settled' \subseteq AgentId
    BY <2>1, BeginIs DEF TypeOK
  <2>4. disturbed' \subseteq {"removed", "private"}
    BY <2>1 DEF DisturbedBy, TypeOK
  <2>5. QED
    BY <2>1, <2>2, <2>3, <2>4 DEF TypeOK, UniqueIds, logVars, Log!TypeOK
<1>3. ASSUME NEW t \in Thread,
             ConversionFails(t) \/ RecordUpsert(t) \/ StoreFails(t) \/ RecordDelete(t)
      PROVE  TypeOK'
  <2>1. PICK action \in {"upsert", "delete"}, returned \in BOOLEAN :
          LogStep(t, action) /\ End(t, returned)
    BY <1>3, CallEnds
  <2>2. arg[t] \in SimpleAgent /\ action \in Log!DeltaAction
    BY DEF TypeOK, Log!DeltaAction
  <2>3. Log!TypeOK'
    <3>1. CASE Log!Add(action, ToSm(arg[t]))
      BY <2>2, <3>1, AddIs
    <3>2. CASE UNCHANGED logVars
      BY <3>2 DEF logVars, TypeOK, Log!TypeOK
    <3>3. QED
      BY <2>1, <3>1, <3>2 DEF LogStep
  <2>4. /\ pc' \in [Thread -> {"idle", "upsert", "pop", "delete"}]
        /\ mixed' = mixed \ {t} /\ settled' \subseteq AgentId
        /\ UNCHANGED <<agents, arg, walkVars>>
    BY <2>1, EndIs
  <2>5. QED
    BY <2>3, <2>4 DEF TypeOK, walkVars
<1>4. ASSUME NEW t \in Thread, Find(t) PROVE TypeOK'
  <2>1. PICK i \in DOMAIN agents : Begin(t, agents[i], "pop")
    BY <1>4 DEF Find
  <2>2. agents[i] \in SimpleAgent
    BY <1>1
  <2>3. /\ pc' \in [Thread -> {"idle", "upsert", "pop", "delete"}]
        /\ arg' \in [Thread -> SimpleAgent]
        /\ mixed' \subseteq Thread /\ settled' \subseteq AgentId
    BY <2>1, <2>2, BeginIs DEF TypeOK
  <2>4. UNCHANGED <<agents, logVars, walkVars>>
    BY <1>4 DEF Find
  <2>5. QED
    BY <2>3, <2>4 DEF TypeOK, logVars, walkVars, Log!TypeOK
<1>5. ASSUME NEW t \in Thread, Pop(t) PROVE TypeOK'
  <2>1. agents' \in Seq(SimpleAgent) /\ UniqueIds(agents')
    BY <1>5, PopIs
  <2>2. /\ pc' = [pc EXCEPT ![t] = "delete"] /\ disturbed' = disturbed \cup {"removed"}
        /\ UNCHANGED <<logVars, arg, mixed, settled, walk>>
    BY <1>5 DEF Pop
  <2>3. QED
    BY <2>1, <2>2 DEF TypeOK, UniqueIds, logVars, Log!TypeOK
<1>6. ASSUME ReadPage PROVE TypeOK'
  <2>1. {a.id : a \in Public(Page)} \subseteq AgentId
    <3>1. \A a \in Range(Page) : a \in SimpleAgent
      BY LimitAssumption, PageIsTyped DEF Page, TypeOK
    <3>2. QED
      BY <3>1, AgentAssumption DEF Public
  <2>2. walk' = [walk EXCEPT !.at = "total", !.got = @ \cup {a.id : a \in Public(Page)}]
    BY <1>6 DEF ReadPage
  <2>3. walk' \in [at : {"page", "total", "done", "failed"}, offset : Nat, got : SUBSET AgentId,
                   from : SUBSET AgentId]
    BY <2>1, <2>2 DEF TypeOK
  <2>4. QED
    BY <1>6, <2>3 DEF ReadPage, TypeOK, logVars, callVars, Log!TypeOK
<1>7. ASSUME ReadTotal PROVE TypeOK'
  <2>1. PICK at \in {"page", "done"} : walk' = [walk EXCEPT !.offset = walk.offset + Limit, !.at = at]
    BY <1>7 DEF ReadTotal
  <2>2. walk.offset + Limit \in Nat
    BY LimitAssumption DEF TypeOK
  <2>3. walk' \in [at : {"page", "total", "done", "failed"}, offset : Nat, got : SUBSET AgentId,
                   from : SUBSET AgentId]
    BY <2>1, <2>2 DEF TypeOK
  <2>4. QED
    BY <1>7, <2>3 DEF ReadTotal, TypeOK, logVars, callVars, Log!TypeOK
<1>8. ASSUME PageFails PROVE TypeOK'
  <2>1. walk' = [walk EXCEPT !.at = "failed"] /\ UNCHANGED <<agents, logVars, callVars, disturbed>>
    BY <1>8 DEF PageFails
  <2>2. QED
    BY <2>1 DEF TypeOK, logVars, callVars, Log!TypeOK
<1>9. ASSUME WalkAgain PROVE TypeOK'
  <2>1. IdsOf(agents) \subseteq AgentId
    BY <1>1, AgentAssumption DEF IdsOf
  <2>2. QED
    BY <1>9, <2>1 DEF WalkAgain, NewWalk, TypeOK, logVars, callVars, Log!TypeOK
<1>10. CASE UNCHANGED vars
  BY <1>10 DEF vars, logVars, callVars, walkVars, TypeOK, Log!TypeOK
<1>11. QED
  BY <1>2, <1>3, <1>4, <1>5, <1>6, <1>7, <1>8, <1>9, <1>10 DEF Next, Call

\* The bridge starts with well-typed, empty state.
LEMMA InitTyped == Init => TypeOK
<1> SUFFICES ASSUME Init PROVE TypeOK
  OBVIOUS
<1>1. agents \in Seq(SimpleAgent) /\ DOMAIN agents = {} /\ IdsOf(agents) = {}
  BY DEF Init, IdsOf
<1>2. Log!TypeOK
  BY DEF Init, Log!Init, Log!TypeOK
<1>3. walk \in [at : {"page", "total", "done", "failed"}, offset : Nat, got : SUBSET AgentId,
                from : SUBSET AgentId]
  BY <1>1 DEF Init, NewWalk
<1>4. QED
  BY <1>1, <1>2, <1>3 DEF Init, TypeOK

\* Types are preserved, and the converter's dictionary has one record per id.
THEOREM BridgeTypeCorrect == Spec => []TypeOK
BY InitTyped, TypedStep, PTL DEF Spec

-----------------------------------------------------------------------------
\* No delta of an agent with the slug of id is newer than the newest of id, and that one
\* is an upsert.
Leads(id) ==
    /\ id \in DOMAIN latest
    /\ latest[id].action = "upsert"
    /\ \A b \in DOMAIN latest : Slug[b] = Slug[id] => latest[b].seq <= latest[id].seq

\* The catalog lists an agent when no other has taken its slug since.
ListedBySlug ==
    \A id \in AgentId : Listing(id) = IF Leads(id) THEN {latest[id].agent} ELSE {}

LEMMA ListingIs == TypeOK /\ IndexedById => ListedBySlug
<1> SUFFICES ASSUME TypeOK, IndexedById, NEW id \in AgentId
             PROVE  Listing(id) = IF Leads(id) THEN {latest[id].agent} ELSE {}
  BY DEF ListedBySlug
<1>1. \A b \in DOMAIN latest :
        /\ latest[b].seq \in Nat /\ latest[b].agent.id = b /\ latest[b].agent.slug = Slug[b]
  BY DEF TypeOK, Log!TypeOK, Log!Delta, IndexedById, ToSm
<1>2. Log!Latest = {latest[b] : b \in DOMAIN latest}
  BY DEF Log!Latest
<1>3. {e \in Log!Listed(Log!Latest) : e.agent.id = id} = IF Leads(id) THEN {latest[id]} ELSE {}
  <2>1. ASSUME NEW e \in Log!Listed(Log!Latest), e.agent.id = id PROVE Leads(id) /\ e = latest[id]
    <3>1. PICK b \in DOMAIN latest : e = latest[b]
      BY <1>2, <2>1 DEF Log!Listed
    <3>2. b = id
      BY <1>1, <2>1, <3>1
    <3>3. /\ e.action = "upsert"
          /\ \A f \in Log!Latest : f.agent.slug = e.agent.slug => f.seq <= e.seq
      BY <2>1 DEF Log!Listed
    <3>4. \A c \in DOMAIN latest : Slug[c] = Slug[id] => latest[c].seq <= latest[id].seq
      BY <1>1, <1>2, <3>1, <3>2, <3>3
    <3>5. QED
      BY <3>1, <3>2, <3>3, <3>4 DEF Leads
  <2>2. ASSUME Leads(id) PROVE latest[id] \in Log!Listed(Log!Latest) /\ latest[id].agent.id = id
    <3>1. id \in DOMAIN latest /\ latest[id] \in Log!Latest /\ latest[id].action = "upsert"
      BY <1>2, <2>2 DEF Leads
    <3>2. \A f \in Log!Latest : f.agent.slug = latest[id].agent.slug => f.seq <= latest[id].seq
      <4> SUFFICES ASSUME NEW c \in DOMAIN latest, latest[c].agent.slug = latest[id].agent.slug
                   PROVE  latest[c].seq <= latest[id].seq
        BY <1>2
      <4>1. Slug[c] = Slug[id]
        BY <1>1, <3>1
      <4>2. QED
        BY <2>2, <4>1 DEF Leads
    <3>3. QED
      BY <1>1, <3>1, <3>2 DEF Log!Listed
  <2>3. QED
    BY <2>1, <2>2
<1>4. QED
  BY <1>3 DEF Listing

\* What is registered depends only on the members of the dictionary.
LEMMA RegisteredIs ==
    \A id : Registered(id) = {ToSm(a) : a \in {b \in Range(agents) : b.public /\ b.id = id}}
BY DEF Registered, Public

\* A step that does not touch the log leaves every listing as it is.
LEMMA ListingKept ==
    ASSUME UNCHANGED logVars
    PROVE  /\ \A id : Listing(id)' = Listing(id)
           /\ IndexedById => IndexedById'
BY DEF Listing, IndexedById, Log!Listed, Log!Latest, logVars

\* A new delta decides the listing of its agent and changes only listings of its slug.
LEMMA NewDeltaLists ==
    ASSUME TypeOK, TypeOK', IndexedById, NEW action \in {"upsert", "delete"},
           NEW a \in SimpleAgent, Log!Add(action, ToSm(a))
    PROVE  /\ IndexedById'
           /\ Listing(a.id)' = IF action = "upsert" THEN {ToSm(a)} ELSE {}
           /\ \A id \in AgentId : Slug[id] # Slug[a.id] => Listing(id)' = Listing(id)
<1>1. a.id \in AgentId
  BY AgentAssumption
<1>2. action \in Log!DeltaAction /\ seq \in Nat /\ seq' = seq + 1
  <2>1. action \in Log!DeltaAction /\ seq \in Nat
    BY DEF TypeOK, Log!TypeOK, Log!DeltaAction
  <2>2. QED
    BY <2>1, AddIs
<1>3. PICK d \in Log!Delta :
         /\ d.seq = seq + 1 /\ d.action = action /\ d.agent = ToSm(a)
         /\ latest' = [b \in DOMAIN latest \cup {a.id} |-> IF b = a.id THEN d ELSE latest[b]]
  BY <1>2, AddIs
<1>4. /\ DOMAIN latest' = DOMAIN latest \cup {a.id} /\ latest'[a.id] = d
      /\ \A b \in DOMAIN latest \ {a.id} : latest'[b] = latest[b]
  BY <1>3
<1>5. \A b \in DOMAIN latest : latest[b].seq \in Nat /\ latest[b].seq <= seq /\ latest[b].agent.id = b
  BY DEF TypeOK, Log!TypeOK, Log!Delta, IndexedById
<1>6. IndexedById'
  <2> SUFFICES ASSUME NEW b \in DOMAIN latest'
               PROVE  latest'[b].agent.id = b /\ latest'[b].seq <= seq'
    BY DEF IndexedById
  <2>1. CASE b = a.id
    BY <1>2, <1>3, <1>4, <2>1 DEF ToSm
  <2>2. CASE b # a.id
    BY <1>2, <1>4, <1>5, <2>2
  <2>3. QED
    BY <2>1, <2>2
<1>7. ListedBySlug'
  <2>1. (TypeOK /\ IndexedById)' => ListedBySlug'
    BY ListingIs, PTL
  <2>2. QED
    BY <1>6, <2>1
<1>8. ListedBySlug
  BY ListingIs
<1>9. Listing(a.id)' = IF action = "upsert" THEN {ToSm(a)} ELSE {}
  <2>1. Leads(a.id)' <=> action = "upsert"
    <3>1. \A b \in DOMAIN latest' : latest'[b].seq <= latest'[a.id].seq
      BY <1>2, <1>3, <1>4, <1>5
    <3>2. a.id \in DOMAIN latest' /\ latest'[a.id].action = action
      BY <1>3, <1>4
    <3>3. QED
      BY <3>1, <3>2 DEF Leads
  <2>2. latest'[a.id].agent = ToSm(a)
    BY <1>3, <1>4
  <2>3. QED
    BY <1>1, <1>7, <2>1, <2>2 DEF ListedBySlug
<1>10. ASSUME NEW id \in AgentId, Slug[id] # Slug[a.id] PROVE Listing(id)' = Listing(id)
  <2>1. Leads(id)' <=> Leads(id)
    <3>1. id # a.id /\ (id \in DOMAIN latest' <=> id \in DOMAIN latest)
      BY <1>4, <1>10
    <3>2. \A b \in DOMAIN latest' : Slug[b] = Slug[id] => b \in DOMAIN latest /\ latest'[b] = latest[b]
      BY <1>4, <1>10
    <3>3. \A b \in DOMAIN latest : Slug[b] = Slug[id] => b \in DOMAIN latest' /\ latest'[b] = latest[b]
      BY <1>4, <1>10
    <3>4. id \in DOMAIN latest => latest'[id] = latest[id]
      BY <3>3
    <3>5. QED
      BY <3>1, <3>2, <3>3, <3>4 DEF Leads
  <2>2. Leads(id) => latest'[id] = latest[id]
    BY <1>4, <1>10 DEF Leads
  <2>3. QED
    BY <1>7, <1>8, <2>1, <2>2 DEF ListedBySlug
<1>11. QED
  BY <1>6, <1>9, <1>10

\* Ending a call leaves its agent listed as it is registered, if it overlapped no call
\* about its slug, and disturbs no other agent that was settled.
LEMMA EndAgrees ==
    ASSUME IInv, NEW t \in Thread, NEW action \in {"upsert", "delete"}, NEW returned \in BOOLEAN,
           TypeOK', pc[t] = action, LogStep(t, action), End(t, returned),
           returned /\ arg[t].public => Log!Add(action, ToSm(arg[t]))
    PROVE  IInv'
<1>1. TypeOK /\ OverlapsAreMixed /\ HalvesFit /\ SettledIsQuiet /\ IndexedById /\ CatalogAgrees
  BY DEF IInv
<1>2. PICK a \in SimpleAgent : a = arg[t] /\ a.id \in AgentId
  BY <1>1, AgentAssumption DEF TypeOK
<1>3. /\ pc'[t] = "idle" /\ \A u \in Thread \ {t} : pc'[u] = pc[u]
      /\ mixed' = mixed \ {t}
      /\ settled' \subseteq AgentId /\ settled' \subseteq settled \cup {a.id}
      /\ a.id \in settled' => a.id \in settled \/ (returned /\ t \notin mixed /\ a.public)
      /\ agents' = agents /\ arg' = arg
  BY <1>1, <1>2, EndIs
<1>4. a.id \notin settled /\ \A id \in settled : Slug[id] # Slug[a.id]
  BY <1>1, <1>2 DEF SettledIsQuiet
<1>5. OverlapsAreMixed' /\ HalvesFit'
  <2>1. OverlapsAreMixed'
    BY <1>1, <1>3 DEF OverlapsAreMixed
  <2>2. HalvesFit'
    BY <1>1, <1>3 DEF HalvesFit, IdsOf
  <2>3. QED
    BY <2>1, <2>2
<1>6. SettledIsQuiet'
  <2> SUFFICES ASSUME NEW id \in settled', NEW u \in Thread, pc'[u] # "idle"
               PROVE  Slug[arg'[u].id] # Slug[id]
    BY DEF SettledIsQuiet
  <2>1. u # t /\ pc[u] # "idle" /\ arg'[u] = arg[u]
    BY <1>3
  <2>2. CASE id \in settled
    BY <1>1, <2>1, <2>2 DEF SettledIsQuiet
  <2>3. CASE id = a.id /\ t \notin mixed
    BY <1>1, <1>2, <2>1, <2>3 DEF OverlapsAreMixed
  <2>4. QED
    BY <1>3, <1>4, <2>2, <2>3
<1>7. /\ IndexedById'
      /\ \A id \in AgentId : Slug[id] # Slug[a.id] => Listing(id)' = Listing(id)
  <2>1. CASE Log!Add(action, ToSm(a))
    BY <1>1, <2>1, NewDeltaLists
  <2>2. CASE UNCHANGED logVars
    BY <1>1, <2>2, ListingKept
  <2>3. QED
    BY <1>2, <2>1, <2>2 DEF LogStep
<1>8. \A id : Registered(id)' = Registered(id)
  BY <1>3 DEF Registered, Public
<1>9. ASSUME a.id \in settled' PROVE Listing(a.id)' = Registered(a.id)
  <2>1. returned /\ t \notin mixed /\ a.public
    BY <1>3, <1>4, <1>9
  <2>2. Listing(a.id)' = IF action = "upsert" THEN {ToSm(a)} ELSE {}
    <3>1. Log!Add(action, ToSm(a))
      BY <1>2, <2>1
    <3>2. QED
      BY <1>1, <3>1, NewDeltaLists
  <2>3. CASE action = "upsert"
    <3>1. a \in Range(agents)
      BY <1>1, <1>2, <2>1, <2>3 DEF HalvesFit
    <3>2. \A b \in Range(agents) : b.id = a.id => b = a
      BY <1>1, <3>1 DEF TypeOK, Range
    <3>3. {b \in Range(agents) : b.public /\ b.id = a.id} = {a}
      BY <2>1, <3>1, <3>2
    <3>4. Registered(a.id) = {ToSm(a)}
      BY <3>3, RegisteredIs
    <3>5. QED
      BY <2>2, <2>3, <3>4
  <2>4. CASE action = "delete"
    <3>1. a.id \notin IdsOf(agents)
      BY <1>1, <1>2, <2>1, <2>4 DEF HalvesFit
    <3>2. {b \in Range(agents) : b.public /\ b.id = a.id} = {}
      BY <3>1, IdsAreOfRange
    <3>3. Registered(a.id) = {}
      BY <3>2, RegisteredIs
    <3>4. QED
      BY <2>2, <2>4, <3>3
  <2>5. QED
    BY <2>3, <2>4
<1>10. CatalogAgrees'
  <2> SUFFICES ASSUME NEW id \in settled' PROVE Listing(id)' = Registered(id)'
    BY DEF CatalogAgrees
  <2>1. CASE id = a.id
    BY <1>8, <1>9, <2>1
  <2>2. CASE id # a.id
    <3>1. id \in settled /\ id \in AgentId
      BY <1>3, <2>2
    <3>2. Listing(id)' = Listing(id)
      BY <1>4, <1>7, <3>1
    <3>3. QED
      BY <1>1, <1>8, <3>1, <3>2 DEF CatalogAgrees
  <2>3. QED
    BY <2>1, <2>2
<1>11. QED
  BY <1>5, <1>6, <1>7, <1>10 DEF IInv

\* A step that changes neither the log nor the listing of a settled agent.
LEMMA LogKept ==
    ASSUME IInv, TypeOK', UNCHANGED logVars, OverlapsAreMixed', HalvesFit', SettledIsQuiet',
           settled' \subseteq settled, \A id \in settled' : Registered(id)' = Registered(id)
    PROVE  IInv'
<1>1. IndexedById' /\ \A id : Listing(id)' = Listing(id)
  BY ListingKept DEF IInv
<1>2. CatalogAgrees'
  BY <1>1 DEF IInv, CatalogAgrees
<1>3. QED
  BY <1>1, <1>2 DEF IInv

\* The calls under way when one more begins.
LEMMA BeginOverlaps ==
    ASSUME TypeOK, OverlapsAreMixed, SettledIsQuiet, NEW t \in Thread, NEW a \in SimpleAgent,
           NEW at \in {"upsert", "pop"}, Begin(t, a, at)
    PROVE  OverlapsAreMixed' /\ SettledIsQuiet' /\ settled' \subseteq settled
<1>1. /\ pc[t] = "idle" /\ pc'[t] = at /\ arg'[t] = a
      /\ \A u \in Thread \ {t} : pc'[u] = pc[u] /\ arg'[u] = arg[u]
      /\ mixed \subseteq mixed'
      /\ \A u \in Thread : pc[u] # "idle" /\ Slug[arg[u].id] = Slug[a.id]
                               => u \in mixed' /\ t \in mixed'
      /\ settled' = {id \in settled : Slug[id] # Slug[a.id]}
  BY BeginIs
<1>2. OverlapsAreMixed'
  <2> SUFFICES ASSUME NEW u \in Thread, NEW v \in Thread, u # v, pc'[u] # "idle", pc'[v] # "idle",
                      Slug[arg'[u].id] = Slug[arg'[v].id]
               PROVE  u \in mixed'
    BY DEF OverlapsAreMixed
  <2>1. CASE u = t
    BY <1>1, <2>1
  <2>2. CASE v = t
    BY <1>1, <2>2
  <2>3. CASE u # t /\ v # t
    BY <1>1, <2>3 DEF OverlapsAreMixed
  <2>4. QED
    BY <2>1, <2>2, <2>3
<1>3. SettledIsQuiet'
  BY <1>1 DEF SettledIsQuiet
<1>4. QED
  BY <1>1, <1>2, <1>3

\* The catalog and the registration of a settled agent agree after every step.
LEMMA Inductive == IInv /\ [Next]_vars => IInv'
<1> SUFFICES ASSUME IInv, [Next]_vars PROVE IInv'
  OBVIOUS
<1>1. TypeOK /\ TypeOK'
  BY TypedStep DEF IInv
<1>2. agents \in Seq(SimpleAgent) /\ UniqueIds(agents)
  BY <1>1 DEF TypeOK, UniqueIds
<1>3. OverlapsAreMixed /\ HalvesFit /\ SettledIsQuiet
  BY DEF IInv
<1>4. ASSUME NEW t \in Thread, Register(t) PROVE IInv'
  <2>1. PICK a \in SimpleAgent :
          Begin(t, a, "upsert") /\ agents' = Put(a) /\ UNCHANGED logVars
    BY <1>4 DEF Register
  <2>2. Range(agents') = {b \in Range(agents) : b.id # a.id} \cup {a}
    BY <1>2, <2>1, PutIs
  <2>3. OverlapsAreMixed' /\ SettledIsQuiet' /\ settled' \subseteq settled
    BY <1>1, <1>3, <2>1, BeginOverlaps
  <2>4. /\ pc'[t] = "upsert" /\ arg'[t] = a
        /\ \A u \in Thread \ {t} : pc'[u] = pc[u] /\ arg'[u] = arg[u]
        /\ mixed \subseteq mixed'
        /\ \A u \in Thread : pc[u] # "idle" /\ Slug[arg[u].id] = Slug[a.id] => u \in mixed'
        /\ settled' = {id \in settled : Slug[id] # Slug[a.id]}
    BY <1>1, <2>1, BeginIs
  <2>5. HalvesFit'
    <3> SUFFICES ASSUME NEW u \in Thread \ mixed'
                 PROVE  /\ pc'[u] = "upsert" => arg'[u] \in Range(agents')
                        /\ pc'[u] = "delete" => arg'[u].id \notin IdsOf(agents')
      BY DEF HalvesFit
    <3>1. CASE u = t
      BY <2>2, <2>4, <3>1
    <3>2. CASE u # t /\ pc[u] # "idle"
      <4>1. pc'[u] = pc[u] /\ arg'[u] = arg[u] /\ u \notin mixed /\ arg[u].id # a.id
        BY <2>4, <3>2
      <4>2. QED
        BY <1>3, <2>2, <4>1, IdsAreOfRange DEF HalvesFit
    <3>3. CASE u # t /\ pc[u] = "idle"
      BY <2>4, <3>3
    <3>4. QED
      BY <3>1, <3>2, <3>3
  <2>6. ASSUME NEW id \in settled' PROVE Registered(id)' = Registered(id)
    <3>1. id # a.id
      BY <2>4
    <3>2. Registered(id)' = {ToSm(b) : b \in {c \in Range(agents') : c.public /\ c.id = id}}
      BY DEF Registered, Public
    <3>3. QED
      BY <2>2, <3>1, <3>2, RegisteredIs
  <2>7. QED
    BY <1>1, <2>1, <2>3, <2>5, <2>6, LogKept
<1>5. ASSUME NEW t \in Thread,
             ConversionFails(t) \/ RecordUpsert(t) \/ StoreFails(t) \/ RecordDelete(t)
      PROVE  IInv'
  <2>1. PICK action \in {"upsert", "delete"}, returned \in BOOLEAN :
               /\ pc[t] = action
               /\ LogStep(t, action)
               /\ End(t, returned)
               /\ returned /\ arg[t].public => Log!Add(action, ToSm(arg[t]))
    BY <1>1, <1>5, CallEnds
  <2>2. QED
    BY <1>1, <2>1, EndAgrees
<1>6. ASSUME NEW t \in Thread, Find(t) PROVE IInv'
  <2>1. PICK i \in DOMAIN agents : Begin(t, agents[i], "pop") /\ UNCHANGED <<agents, logVars>>
    BY <1>6 DEF Find
  <2>2. agents[i] \in SimpleAgent
    BY <1>2
  <2>3. OverlapsAreMixed' /\ SettledIsQuiet' /\ settled' \subseteq settled
    BY <1>1, <1>3, <2>1, <2>2, BeginOverlaps
  <2>4. /\ pc'[t] = "pop" /\ \A u \in Thread \ {t} : pc'[u] = pc[u] /\ arg'[u] = arg[u]
        /\ mixed \subseteq mixed'
    BY <1>1, <2>1, <2>2, BeginIs
  <2>5. HalvesFit'
    BY <1>3, <2>1, <2>4 DEF HalvesFit, IdsOf
  <2>6. \A id : Registered(id)' = Registered(id)
    BY <2>1 DEF Registered, Public
  <2>7. QED
    BY <1>1, <2>1, <2>3, <2>5, <2>6, LogKept
<1>7. ASSUME NEW t \in Thread, Pop(t) PROVE IInv'
  <2>1. /\ pc[t] = "pop" /\ pc' = [pc EXCEPT ![t] = "delete"]
        /\ arg' = arg /\ mixed' = mixed /\ settled' = settled /\ UNCHANGED logVars
    BY <1>7 DEF Pop
  <2>2. Range(agents') = {b \in Range(agents) : b.id # arg[t].id}
    BY <1>1, <1>7, PopIs
  <2>3. pc'[t] = "delete" /\ \A u \in Thread \ {t} : pc'[u] = pc[u]
    BY <1>1, <2>1 DEF TypeOK
  <2>4. OverlapsAreMixed' /\ SettledIsQuiet'
    <3>1. \A u \in Thread : pc'[u] # "idle" => pc[u] # "idle"
      BY <2>1, <2>3
    <3>2. QED
      BY <1>3, <2>1, <3>1 DEF OverlapsAreMixed, SettledIsQuiet
  <2>5. HalvesFit'
    <3> SUFFICES ASSUME NEW u \in Thread \ mixed
                 PROVE  /\ pc'[u] = "upsert" => arg[u] \in Range(agents')
                        /\ pc'[u] = "delete" => arg[u].id \notin IdsOf(agents')
      BY <2>1 DEF HalvesFit
    <3>1. CASE u = t
      BY <2>2, <2>3, <3>1, IdsAreOfRange
    <3>2. CASE u # t /\ pc[u] # "idle"
      <4>1. arg[u].id # arg[t].id
        BY <1>3, <2>1, <3>2 DEF OverlapsAreMixed
      <4>2. QED
        BY <1>3, <2>2, <2>3, <3>2, <4>1, IdsAreOfRange DEF HalvesFit
    <3>3. CASE u # t /\ pc[u] = "idle"
      BY <2>3, <3>3
    <3>4. QED
      BY <3>1, <3>2, <3>3
  <2>6. ASSUME NEW id \in settled' PROVE Registered(id)' = Registered(id)
    <3>1. id # arg[t].id
      BY <1>3, <2>1 DEF SettledIsQuiet
    <3>2. Registered(id)' = {ToSm(b) : b \in {c \in Range(agents') : c.public /\ c.id = id}}
      BY DEF Registered, Public
    <3>3. QED
      BY <2>2, <3>1, <3>2, RegisteredIs
  <2>7. QED
    BY <1>1, <2>1, <2>4, <2>5, <2>6, LogKept
<1>8. CASE ReadPage \/ PageFails \/ ReadTotal \/ WalkAgain \/ UNCHANGED vars
  <2>1. UNCHANGED <<agents, logVars, callVars>>
    BY <1>8 DEF ReadPage, PageFails, ReadTotal, WalkAgain, vars
  <2>2. OverlapsAreMixed' /\ HalvesFit' /\ SettledIsQuiet'
    BY <1>3, <2>1 DEF OverlapsAreMixed, HalvesFit, SettledIsQuiet, IdsOf, callVars
  <2>3. settled' = settled /\ \A id : Registered(id)' = Registered(id)
    BY <2>1 DEF Registered, Public, callVars
  <2>4. QED
    BY <1>1, <2>1, <2>2, <2>3, LogKept
<1>9. QED
  BY <1>4, <1>5, <1>6, <1>7, <1>8 DEF Next, Call

\* A call about a public agent that overlapped no call about its slug and returned leaves
\* the agent listed as it is registered, and it stays so until the next call about its
\* slug, whatever calls overlap, raise or changed the agent before.
THEOREM CatalogAgreement == Spec => []CatalogAgrees
<1>1. Init => IInv
  <2> SUFFICES ASSUME Init PROVE IInv
    OBVIOUS
  <2>1. TypeOK
    BY InitTyped
  <2>2. (\A t \in Thread : pc[t] = "idle") /\ DOMAIN latest = {} /\ settled = {}
    BY DEF Init, Log!Init
  <2>3. QED
    BY <2>1, <2>2 DEF IInv, OverlapsAreMixed, HalvesFit, SettledIsQuiet, IndexedById, CatalogAgrees
<1>2. IInv => CatalogAgrees
  BY DEF IInv
<1>3. QED
  BY <1>1, <1>2, Inductive, PTL DEF Spec

-----------------------------------------------------------------------------
\* While every agent is public, total_count reaches every agent it is counted from.
LEMMA TotalReaches ==
    ASSUME TypeOK, \A i \in DOMAIN agents : agents[i].public
    PROVE  /\ Total \in Nat
           /\ \A i \in DOMAIN agents : i <= CountLimit => i <= Total
<1> DEFINE page == ListAgents(CountLimit, 0)
<1>1. CountLimit \in Nat
  BY LimitAssumption
<1>2. \A i \in DOMAIN page : i + 0 \in DOMAIN agents /\ page[i] = agents[i + 0]
  BY <1>1, ListIs
<1>3. \A j \in DOMAIN agents : 0 < j /\ j <= 0 + CountLimit => j - 0 \in DOMAIN page
  BY <1>1, ListIs
<1>4. PICK n \in Nat : DOMAIN page = 1..n
  BY <1>1, ListIs
<1>5. DOMAIN agents \subseteq Nat \ {0} /\ UniqueIds(agents)
  BY DEF TypeOK, UniqueIds
<1> HIDE DEF page
<1>6. \A i \in 1..n : i \in DOMAIN agents /\ page[i] = agents[i]
  BY <1>2, <1>4
<1>7. Public(page) = {page[i] : i \in 1..n}
  BY <1>4, <1>6 DEF Public, Range
<1>8. Cardinality({page[i] : i \in 1..n}) = n
  <2> DEFINE f == [i \in 1..n |-> page[i]]
             S == {page[i] : i \in 1..n}
  <2>1. f \in Injection(1..n, S)
    BY <1>5, <1>6 DEF Injection, IsInjective, UniqueIds
  <2>2. f \in Surjection(1..n, S)
    BY DEF Surjection
  <2>3. ExistsBijection(1..n, S)
    BY <2>1, <2>2 DEF ExistsBijection, Bijection
  <2>4. IsFiniteSet(1..n) /\ Cardinality(1..n) = n
    <3>1. 1 \in Int /\ n \in Int /\ (IF 1 > n THEN 0 ELSE n - 1 + 1) = n
      OBVIOUS
    <3>2. QED
      BY <3>1, FS_Interval
  <2> HIDE DEF S
  <2>5. Cardinality(S) = n
    BY <2>3, <2>4, FS_Bijection
  <2>6. QED
    BY <2>5 DEF S
<1>9. Total = n
  BY <1>7, <1>8 DEF Total, page
<1>10. \A i \in DOMAIN agents : i <= CountLimit => i \in 1..n
  BY <1>1, <1>3, <1>4, <1>5
<1>11. QED
  BY <1>9, <1>10

\* Every step of the walk, and every change under it, keeps what the walk covers.
LEMMA WalkStep == TypeOK /\ WalkCovers /\ [Next]_vars => WalkCovers'
<1> SUFFICES ASSUME TypeOK, WalkCovers, [Next]_vars, disturbed' = {} PROVE WalkCovers'
  BY DEF WalkCovers
<1>1. agents \in Seq(SimpleAgent) /\ UniqueIds(agents)
  BY DEF TypeOK, UniqueIds
<1>2. walk.offset \in Nat /\ Limit \in Nat \ {0} /\ CountLimit \in Nat
  BY LimitAssumption DEF TypeOK
<1>3. ASSUME NEW t \in Thread, Register(t) PROVE WalkCovers'
  <2>1. PICK a \in SimpleAgent : agents' = Put(a) /\ DisturbedBy(a)
    BY <1>3 DEF Register
  <2>2. walk' = walk
    BY <1>3 DEF Register
  <2>3. a.public /\ disturbed = {}
    BY <2>1 DEF DisturbedBy
  <2>4. /\ DOMAIN agents \subseteq DOMAIN agents'
        /\ \A i \in DOMAIN agents : agents'[i].id = agents[i].id
        /\ \A i \in DOMAIN agents' :
              i \in DOMAIN agents \/ (agents'[i] = a /\ a.id \notin IdsOf(agents))
        /\ \A i \in DOMAIN agents' : agents'[i] = a \/ (i \in DOMAIN agents /\ agents'[i] = agents[i])
    BY <1>1, <2>1, PutIs
  <2>5. \A i \in DOMAIN agents' : agents'[i].public
    BY <2>3, <2>4 DEF WalkCovers
  <2>6. walk.from \subseteq IdsOf(agents) /\ IdsOf(agents) \subseteq IdsOf(agents')
    BY <2>3, <2>4 DEF WalkCovers, IdsOf
  <2>7. \A i \in DOMAIN agents' : agents'[i].id \in walk.from => i \in DOMAIN agents
    BY <2>4, <2>6
  <2>8. \A i \in DOMAIN agents' :
          agents'[i].id \in walk.from => i \in DOMAIN agents /\ agents'[i].id = agents[i].id
    BY <2>4, <2>7
  <2>9. /\ walk.at = "page" => Covered(walk.offset)'
        /\ walk.at = "total" => Covered(walk.offset + Limit)'
        /\ walk.at = "done" => Covered(CountLimit)'
    BY <2>2, <2>3, <2>8 DEF WalkCovers, Covered
  <2>10. QED
    BY <2>2, <2>5, <2>6, <2>9 DEF WalkCovers
<1>4. ASSUME NEW t \in Thread,
             ConversionFails(t) \/ RecordUpsert(t) \/ StoreFails(t) \/ RecordDelete(t) \/ Find(t)
      PROVE  WalkCovers'
  <2>1. UNCHANGED <<agents, walkVars>>
    <3>1. CASE Find(t)
      BY <3>1 DEF Find
    <3>2. CASE ~Find(t)
      BY <1>4, <3>2, CallEnds, EndIs
    <3>3. QED
      BY <3>1, <3>2
  <2>2. QED
    BY <2>1 DEF WalkCovers, Covered, IdsOf, walkVars
<1>5. ASSUME NEW t \in Thread, Pop(t) PROVE WalkCovers'
  BY <1>5 DEF Pop
<1>6. CASE ReadPage
  <2>1. /\ walk.at = "page" /\ agents' = agents /\ disturbed' = disturbed
        /\ walk' = [walk EXCEPT !.at = "total", !.got = @ \cup {a.id : a \in Public(Page)}]
    BY <1>6 DEF ReadPage
  <2>2. /\ walk'.at = "total" /\ walk'.offset = walk.offset /\ walk'.from = walk.from
        /\ walk'.got = walk.got \cup {a.id : a \in Public(Page)}
    BY <2>1 DEF TypeOK
  <2>3. /\ \A i \in DOMAIN agents : agents[i].public
        /\ walk.from \subseteq IdsOf(agents)
        /\ Covered(walk.offset)
    BY <2>1 DEF WalkCovers
  <2>4. ASSUME NEW i \in DOMAIN agents, walk.offset < i, i <= walk.offset + Limit
        PROVE  agents[i] \in Public(Page)
    <3>1. /\ \A k \in DOMAIN Page : Page[k] = agents[k + walk.offset]
          /\ i - walk.offset \in DOMAIN Page
      BY <1>2, <2>4, ListIs DEF Page
    <3>2. (i - walk.offset) + walk.offset = i
      BY <1>1, <1>2
    <3>3. Page[i - walk.offset] = agents[i]
      BY <3>1, <3>2
    <3>4. QED
      BY <2>3, <3>1, <3>3 DEF Public, Range
  <2>5. ASSUME NEW i \in DOMAIN agents, i <= walk.offset + Limit, agents[i].id \in walk.from
        PROVE  agents[i].id \in walk'.got
    <3>1. CASE i <= walk.offset
      BY <2>2, <2>3, <2>5, <3>1 DEF Covered
    <3>2. CASE walk.offset < i
      BY <2>2, <2>4, <2>5, <3>2
    <3>3. QED
      BY <1>1, <1>2, <3>1, <3>2
  <2>6. Covered(walk.offset + Limit)'
    BY <2>1, <2>2, <2>5 DEF Covered
  <2>7. QED
    BY <2>1, <2>2, <2>3, <2>6 DEF WalkCovers, Covered, IdsOf
<1>7. CASE ReadTotal
  <2> DEFINE next == walk.offset + Limit
  <2>1. /\ walk.at = "total" /\ agents' = agents /\ disturbed' = disturbed
        /\ walk'.offset = next /\ walk'.from = walk.from /\ walk'.got = walk.got
        /\ walk'.at = IF next < Total THEN "page" ELSE "done"
    BY <1>7 DEF ReadTotal, TypeOK
  <2>2. /\ \A i \in DOMAIN agents : agents[i].public
        /\ walk.from \subseteq IdsOf(agents)
        /\ Covered(next)
    BY <2>1 DEF WalkCovers
  <2>3. Covered(walk.offset)'
    BY <2>1, <2>2 DEF Covered
  <2>4. ASSUME ~(next < Total) PROVE Covered(CountLimit)
    <3>1. Total \in Nat /\ \A i \in DOMAIN agents : i <= CountLimit => i <= Total
      BY <2>2, TotalReaches
    <3>2. \A i \in DOMAIN agents : i <= CountLimit => i <= next
      BY <1>1, <1>2, <2>4, <3>1
    <3>3. QED
      BY <2>2, <3>2 DEF Covered
  <2> HIDE DEF next
  <2>5. walk'.at = "done" => Covered(CountLimit)'
    BY <2>1, <2>4 DEF Covered
  <2>6. walk'.at \in {"page", "done"}
    BY <2>1
  <2>7. QED
    BY <2>1, <2>2, <2>3, <2>5, <2>6 DEF WalkCovers, Covered, IdsOf
<1>8. CASE PageFails
  <2>1. /\ agents' = agents /\ disturbed' = disturbed
        /\ walk'.at = "failed" /\ walk'.from = walk.from
    BY <1>8 DEF PageFails, TypeOK
  <2>2. QED
    BY <2>1 DEF WalkCovers, IdsOf
<1>9. CASE WalkAgain
  <2>1. /\ agents' = agents /\ walk'.at = "page" /\ walk'.offset = 0
        /\ walk'.from = IdsOf(agents) /\ \A a \in Range(agents) : a.public
    BY <1>9 DEF WalkAgain, NewWalk
  <2>2. \A i \in DOMAIN agents : ~(i <= 0) /\ agents[i].public
    BY <1>1, <2>1 DEF Range
  <2>3. QED
    BY <2>1, <2>2 DEF WalkCovers, Covered, IdsOf
<1>10. CASE UNCHANGED vars
  BY <1>10 DEF vars, walkVars, WalkCovers, Covered, IdsOf
<1>11. QED
  BY <1>3, <1>4, <1>5, <1>6, <1>7, <1>8, <1>9, <1>10 DEF Next, Call

\* A walk over the index that no removal and no private agent disturbed misses no agent
\* that was registered when it began and stands among the first CountLimit, for every
\* page size and however many agents are registered or replaced while it runs.
THEOREM WalkCompleteness == Spec => []WalkIsComplete
<1>1. Init => WalkCovers
  BY DEF Init, NewWalk, WalkCovers, Covered, IdsOf
<1>2. WalkCovers => WalkIsComplete
  BY DEF WalkCovers, WalkIsComplete, Covered
<1>3. QED
  BY <1>1, <1>2, WalkStep, BridgeTypeCorrect, PTL DEF Spec

=============================================================================
