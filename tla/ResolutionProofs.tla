-------------------------- MODULE ResolutionProofs --------------------------
(***************************************************************************)
(* Proofs about Resolution for any set of agents, identifiers, registries     *)
(* and concurrent requests.                                                 *)
(***************************************************************************)
EXTENDS Resolution, FiniteSetTheorems, SequenceTheorems, WellFoundedInduction, TLAPS

\* A request that waits has read one public agent, which was registered then, and
\* waits for a profile that is registered.
Waits(r) ==
    req[r].at = "verify" =>
        \E a \in req[r].read :
            req[r].read = {a} /\ {a} \in seen[r] /\ a.public /\ a.evidence \in profiles

\* What AnswerWasTrue says of one answer, given what was seen and the profiles.
Truth(read, status, name, proof, sn, ps) ==
    /\ status = "200" =>
          \E a \in read :
              /\ read = {a} /\ {a} \in sn /\ a.public
              /\ proof \in {"VERIFIED", "FAILED"} => a.evidence \in ps
    /\ status = "404" /\ name = {} => {} \in sn
    /\ status = "403" => \E held \in sn : \E a \in held : ~a.public

True(r) ==
    req[r].at = "done" =>
        Truth(req[r].read, req[r].status, req[r].name, req[r].proof, seen[r], profiles)

Shape ==
    /\ req = [r \in Request |-> req[r]]
    /\ seen = [r \in Request |-> seen[r]]
    /\ \A a \in agents : Held(agents, a.id) = {a}
    /\ delegated \subseteq entry /\ entry \subseteq RegistryName

IInv ==
    /\ Shape
    /\ \A r \in Request : Waits(r) /\ True(r)

\* No request has read anything at the start.
LEMMA Initially == Init => IInv
<1> SUFFICES ASSUME Init PROVE IInv
  OBVIOUS
<1>1. Shape
  BY DEF Init, Shape
<1>2. \A r \in Request : req[r].at = "idle"
  BY DEF Init, Idle
<1>3. QED
  BY <1>1, <1>2 DEF IInv, Waits, True

\* A request that a step leaves alone stays true when more is seen and registered.
LEMMA Kept ==
    ASSUME NEW r \in Request, Waits(r), True(r), req'[r] = req[r],
           seen[r] \subseteq seen'[r], profiles \subseteq profiles'
    PROVE  Waits(r)' /\ True(r)'
BY DEF Waits, True, Truth

\* An answer that is true when it is given.
LEMMA Answered ==
    ASSUME IInv, NEW r \in Request, NEW id, NEW name, NEW read, NEW status, NEW proof,
           Answer(r, id, name, read, status, proof), profiles' = profiles, agents' = agents,
           status = "200" => \E a \in Held(agents, id) :
               read = {a} /\ a.public /\ proof \notin {"VERIFIED", "FAILED"},
           status = "404" /\ name = {} => Held(agents, id) = {},
           status = "403" => \E a \in Held(agents, id) : ~a.public
    PROVE  \A q \in Request : Waits(q)' /\ True(q)'
<1>1. /\ req'[r] = [at |-> "done", id |-> id, name |-> name, read |-> read,
                    status |-> status, proof |-> proof]
      /\ seen'[r] = {Held(agents, id)}
      /\ \A q \in Request \ {r} : req'[q] = req[q] /\ seen'[q] = seen[q]
  BY DEF Answer, IInv, Shape
<1>2. \A q \in Request \ {r} : Waits(q)' /\ True(q)'
  BY <1>1, Kept DEF IInv
<1>3. \A a \in Held(agents, id) : Held(agents, id) = {a}
  BY DEF IInv, Shape, Held
<1>4. Waits(r)' /\ True(r)'
  <2>1. /\ req'[r].at = "done" /\ req'[r].status = status /\ req'[r].name = name
        /\ req'[r].read = read /\ req'[r].proof = proof
    <3>1. req'[r] = [at |-> "done", id |-> id, name |-> name, read |-> read,
                     status |-> status, proof |-> proof]
      BY <1>1
    <3>2. QED
      BY <3>1
  <2>2. Truth(read, status, name, proof, seen'[r], profiles')
    BY <1>1, <1>3 DEF Truth
  <2>5. Waits(r)'
    BY <2>1 DEF Waits
  <2>6. True(r)'
    BY <2>1, <2>2 DEF True
  <2>7. QED
    BY <2>5, <2>6
<1>5. QED
  BY <1>2, <1>4

\* An answer of Prove keeps what is known of every request.
LEMMA Proved ==
    ASSUME IInv, NEW r \in Request, NEW id, NEW name, NEW a \in Held(agents, id), a.public,
           Prove(r, id, name, a), profiles' = profiles, agents' = agents
    PROVE  \A q \in Request : Waits(q)' /\ True(q)'
<1>1. CASE TrustEnabled /\ a.evidence \in profiles
  <2>1. /\ req'[r] = [at |-> "verify", id |-> id, name |-> name, read |-> {a}, status |-> "", proof |-> ""]
        /\ seen'[r] = {{a}}
        /\ \A q \in Request \ {r} : req'[q] = req[q] /\ seen'[q] = seen[q]
    BY <1>1 DEF Prove, IInv, Shape
  <2>2. \A q \in Request \ {r} : Waits(q)' /\ True(q)'
    BY <2>1, Kept DEF IInv
  <2>3. req'[r].at = "verify" /\ req'[r].read = {a} /\ {a} \in seen'[r]
    <3>2. req'[r].at = "verify" /\ req'[r].read = {a}
      <4> DEFINE one == {a}
                 none == ""
                 wait == "verify"
      <4>1. req'[r] = [at |-> wait, id |-> id, name |-> name, read |-> one,
                       status |-> none, proof |-> none]
        BY <2>1
      <4> HIDE DEF one, none, wait
      <4>2. req'[r].at = wait /\ req'[r].read = one
        BY <4>1
      <4>3. QED
        BY <4>2 DEF one, wait
    <3>3. {a} \in seen'[r]
      BY <2>1
    <3>4. QED
      BY <3>2, <3>3
  <2>4. Waits(r)'
    BY <1>1, <2>3 DEF Waits
  <2>5. True(r)'
    BY <2>3 DEF True
  <2>6. QED
    BY <2>2, <2>4, <2>5
<1>2. CASE ~(TrustEnabled /\ a.evidence \in profiles)
  <2>1. PICK p \in {"NOT_VERIFIED", "legacy"} : Answer(r, id, name, {a}, "200", p)
    BY <1>2 DEF Prove
  <2>2. QED
    BY <2>1, Answered
<1>3. QED
  BY <1>1, <1>2

\* A step of a request changes no register, so their shape stays.
LEMMA ServeShape ==
    ASSUME Shape, NEW r \in Request, UNCHANGED <<agents, entry>>,
           NEW q, req' = [req EXCEPT ![r] = q],
           seen' = seen \/ \E s : seen' = [seen EXCEPT ![r] = s],
           delegated' \subseteq entry
    PROVE  Shape'
BY DEF Shape, Held

\* An answer or the begin of a wait changes one request.
LEMMA ProveShape ==
    ASSUME NEW r \in Request, NEW id, NEW name, NEW a, Prove(r, id, name, a)
    PROVE  \E q, s : req' = [req EXCEPT ![r] = q] /\ seen' = [seen EXCEPT ![r] = s]
<1>1. CASE TrustEnabled /\ a.evidence \in profiles
  BY <1>1 DEF Prove
<1>2. CASE ~(TrustEnabled /\ a.evidence \in profiles)
  BY <1>2 DEF Prove, Answer
<1>3. QED
  BY <1>1, <1>2

\* Every step keeps what waiting and answered requests have read.
LEMMA Inductive == IInv /\ [Next]_vars => IInv'
<1> SUFFICES ASSUME IInv, [Next]_vars PROVE IInv'
  OBVIOUS
<1>a. Shape /\ \A r \in Request : Waits(r) /\ True(r)
  BY DEF IInv
<1>1. ASSUME NEW as, Agents(as), \A a \in as : Held(as, a.id) = {a} PROVE IInv'
  <2>1. /\ agents' = as /\ UNCHANGED <<entry, profiles, req, delegated>>
        /\ seen' = [r \in Request |-> IF req[r].at = "verify" THEN seen[r] \cup {Held(as, req[r].id)}
                                      ELSE seen[r]]
    BY <1>1 DEF Agents
  <2>2. Shape'
    BY <1>a, <1>1, <2>1 DEF Shape
  <2>3. \A r \in Request : seen[r] \subseteq seen'[r]
    BY <2>1
  <2>4. \A r \in Request : Waits(r)' /\ True(r)'
    BY <1>a, <2>1, <2>3, Kept
  <2>5. QED
    BY <2>2, <2>4 DEF IInv
<1>2. CASE Register
  <2>1. PICK a \in SimpleAgent : Agents((agents \ Held(agents, a.id)) \cup {a})
    BY <1>2 DEF Register
  <2> DEFINE as == (agents \ Held(agents, a.id)) \cup {a}
  <2>2. \A b \in as : Held(as, b.id) = {b}
    BY <1>a DEF Shape, Held
  <2>3. QED
    BY <1>1, <2>1, <2>2
<1>3. CASE Unregister
  <2>1. PICK a \in agents : Agents(agents \ {a})
    BY <1>3 DEF Unregister
  <2>2. \A b \in agents \ {a} : Held(agents \ {a}, b.id) = {b}
    BY <1>a DEF Shape, Held
  <2>3. QED
    BY <1>1, <2>1, <2>2
<1>4. ASSUME UNCHANGED <<agents, req, seen, delegated>>, profiles \subseteq profiles',
             entry \subseteq entry', entry' \subseteq RegistryName
      PROVE  IInv'
  <2>1. Shape'
    BY <1>a, <1>4 DEF Shape, Held
  <2>2. \A r \in Request : Waits(r)' /\ True(r)'
    BY <1>a, <1>4, Kept
  <2>3. QED
    BY <2>1, <2>2 DEF IInv
<1>5. CASE RegisterProfile \/ AddRegistry \/ AddHosting \/ UNCHANGED vars
  BY <1>a, <1>4, <1>5 DEF RegisterProfile, AddRegistry, AddHosting, vars, served, Shape
<1>6. ASSUME NEW r \in Request, NEW id, NEW name, NEW read, NEW status, NEW proof,
             Answer(r, id, name, read, status, proof), UNCHANGED <<served, profiles>>,
             delegated' \subseteq entry,
             status = "200" => \E a \in Held(agents, id) :
                 read = {a} /\ a.public /\ proof \notin {"VERIFIED", "FAILED"},
             status = "404" /\ name = {} => Held(agents, id) = {},
             status = "403" => \E a \in Held(agents, id) : ~a.public
      PROVE  IInv'
  <2>1. UNCHANGED <<agents, entry, profiles>>
    BY <1>6 DEF served
  <2>2. \A q \in Request : Waits(q)' /\ True(q)'
    BY <1>6, <2>1, Answered
  <2>3. Shape'
    BY <1>a, <1>6, <2>1, ServeShape DEF Answer
  <2>4. QED
    BY <2>2, <2>3 DEF IInv
<1>7. ASSUME NEW r \in Request, NEW id, NEW name, NEW a \in Held(agents, id), a.public,
             Prove(r, id, name, a), UNCHANGED <<served, profiles, delegated>>
      PROVE  IInv'
  <2>1. UNCHANGED <<agents, entry, profiles>> /\ delegated' \subseteq entry
    BY <1>a, <1>7 DEF served, Shape
  <2>2. \A q \in Request : Waits(q)' /\ True(q)'
    BY <1>7, <2>1, Proved
  <2>3. Shape'
    BY <1>a, <1>7, <2>1, ProveShape, ServeShape
  <2>4. QED
    BY <2>2, <2>3 DEF IInv
<1>8. ASSUME NEW r \in Request, Resolve(r) PROVE IInv'
  <2>1. PICK v \in Asked :
            \/ Answer(r, <<>>, {}, {}, "400", "")
            \/ \E id \in Parse(v) : Held(agents, id) = {} /\ Answer(r, id, {}, {}, "404", "")
            \/ \E id \in Parse(v) : \E a \in Held(agents, id) :
                  IF a.public THEN Prove(r, id, {}, a) ELSE Answer(r, id, {}, {}, "403", "")
    BY <1>8 DEF Resolve
  <2>2. UNCHANGED <<served, profiles, delegated>> /\ delegated' \subseteq entry
    BY <1>a, <1>8 DEF Resolve, Shape
  <2>3. CASE Answer(r, <<>>, {}, {}, "400", "")
    BY <1>6, <2>2, <2>3
  <2>4. ASSUME NEW id \in Parse(v), Held(agents, id) = {}, Answer(r, id, {}, {}, "404", "") PROVE IInv'
    BY <1>6, <2>2, <2>4
  <2>5. ASSUME NEW id \in Parse(v), NEW a \in Held(agents, id),
               IF a.public THEN Prove(r, id, {}, a) ELSE Answer(r, id, {}, {}, "403", "")
        PROVE  IInv'
    <3>1. CASE a.public
      BY <1>7, <2>2, <2>5, <3>1
    <3>2. CASE ~a.public
      BY <1>6, <2>2, <2>5, <3>2
    <3>3. QED
      BY <3>1, <3>2
  <2>6. QED
    BY <2>1, <2>3, <2>4, <2>5
<1>9. ASSUME NEW r \in Request, Switch(r) PROVE IInv'
  <2>1. PICK n \in RegistryName, v \in Asked :
            \/ n \in entry /\ Delegate(r, n, v)
            \/ Host(r, n, v)
            \/ Answer(r, v, {n}, {}, "404", "") /\ UNCHANGED delegated /\ n \notin entry \cup hosting
    BY <1>9 DEF Switch
  <2>2. UNCHANGED <<served, profiles>>
    BY <1>9 DEF Switch
  <2>3. CASE n \in entry /\ Delegate(r, n, v)
    <3>1. Answer(r, v, {n}, {}, "delegated", "") /\ delegated' \subseteq entry
      BY <1>a, <2>3 DEF Delegate, Shape
    <3>2. QED
      BY <1>6, <2>2, <3>1
  <2>4. ASSUME Answer(r, v, {n}, {}, "404", ""), UNCHANGED delegated PROVE IInv'
    <3>1. delegated' \subseteq entry
      BY <1>a, <2>4 DEF Shape
    <3>2. QED
      BY <1>6, <2>2, <2>4, <3>1
  <2>5. CASE Host(r, n, v)
    <3>1. UNCHANGED delegated
      BY <2>5 DEF Host
    <3>2. ASSUME NEW a \in Held(agents, v), a.public, Prove(r, v, {n}, a) PROVE IInv'
      BY <1>7, <2>2, <3>1, <3>2
    <3>3. QED
      BY <2>4, <2>5, <3>1, <3>2 DEF Host
  <2>6. QED
    BY <2>1, <2>3, <2>4, <2>5
<1>10. ASSUME NEW r \in Request, Resume(r) \/ Fail(r) PROVE IInv'
  <2>1. /\ req[r].at = "verify" /\ UNCHANGED <<served, profiles, seen, delegated>>
        /\ \E q : req' = [req EXCEPT ![r] = q]
        /\ \A q \in Request \ {r} : req'[q] = req[q]
    BY <1>a, <1>10 DEF Resume, Fail, Shape
  <2>2. req'[r].at = "done" /\ req'[r].read = req[r].read /\ req'[r].status \in {"200", "500"}
    <3>1. CASE Resume(r)
      <4>1. PICK verdict \in Verdict :
                req' = [req EXCEPT ![r].at = "done", ![r].status = "200", ![r].proof = verdict]
        BY <3>1 DEF Resume
      <4>2. req'[r] = [req[r] EXCEPT !.at = "done", !.status = "200", !.proof = verdict]
        BY <1>a, <4>1 DEF Shape
      <4>3. QED
        BY <4>2
    <3>2. CASE Fail(r)
      <4>1. req'[r] = [req[r] EXCEPT !.at = "done", !.status = "500"]
        BY <1>a, <3>2 DEF Fail, Shape
      <4>2. QED
        BY <4>1
    <3>3. QED
      BY <1>10, <3>1, <3>2
  <2>3. Shape'
    BY <1>a, <2>1, ServeShape DEF served, Shape
  <2>4. Waits(r)' /\ True(r)'
    BY <1>a, <2>1, <2>2 DEF Waits, True, Truth
  <2>5. \A q \in Request \ {r} : Waits(q)' /\ True(q)'
    BY <1>a, <2>1, Kept
  <2>6. QED
    BY <2>3, <2>4, <2>5 DEF IInv
<1>11. QED
  BY <1>2, <1>3, <1>5, <1>8, <1>9, <1>10 DEF Next, Change, Serve

\* What a request has read is among what was registered during it, always.
THEOREM Invariant == Spec => []IInv
BY Initially, Inductive, PTL DEF Spec

\* Every answer was true at some moment of its request, for any set of agents and
\* profiles and any number of concurrent requests.
THEOREM AnswersAreTrue == Spec => []AnswerWasTrue
<1>1. IInv => AnswerWasTrue
  BY DEF IInv, True, Truth, AnswerWasTrue
<1>2. QED
  BY <1>1, Invariant, PTL

-----------------------------------------------------------------------------
(* Delegation wins. *)

Delegating(r) ==
    req'[r] # req[r] /\ req[r].at # "verify" /\ req'[r].name \cap delegated # {} =>
        req'[r].status = "delegated"

\* What a handler says before it waits names what it was asked for.
LEMMA AnswerNames ==
    ASSUME IInv, NEW r \in Request, NEW id, NEW name, NEW read, NEW status, NEW proof,
           Answer(r, id, name, read, status, proof)
    PROVE  req'[r].name = name /\ req'[r].status = status
<1>1. req'[r] = [at |-> "done", id |-> id, name |-> name, read |-> read,
                 status |-> status, proof |-> proof]
  BY DEF Answer, IInv, Shape
<1>2. QED
  BY <1>1

\* A request that reached an agent keeps the name it asked for.
LEMMA ProveNames ==
    ASSUME IInv, NEW r \in Request, NEW id, NEW name, NEW a, Prove(r, id, name, a)
    PROVE  req'[r].name = name
<1>1. CASE TrustEnabled /\ a.evidence \in profiles
  <2>1. PICK read, wait, none : read = {a} /\ wait = "verify" /\ none = ""
    OBVIOUS
  <2>2. req'[r] = [at |-> wait, id |-> id, name |-> name, read |-> read,
                   status |-> none, proof |-> none]
    BY <1>1, <2>1 DEF Prove, IInv, Shape
  <2>3. QED
    BY <2>2
<1>2. CASE ~(TrustEnabled /\ a.evidence \in profiles)
  <2>1. PICK p \in {"NOT_VERIFIED", "legacy"} : Answer(r, id, name, {a}, "200", p)
    BY <1>2 DEF Prove
  <2>2. QED
    BY <2>1, AnswerNames
<1>3. QED
  BY <1>1, <1>2

\* A request for a delegated name is answered by the delegation.
LEMMA ServeDelegates ==
    ASSUME IInv, NEW r \in Request, Serve(r)
    PROVE  Delegating(r)
<1>1. CASE Resolve(r)
  <2>1. PICK v \in Asked :
            \/ Answer(r, <<>>, {}, {}, "400", "")
            \/ \E id \in Parse(v) : Answer(r, id, {}, {}, "404", "") \/ Answer(r, id, {}, {}, "403", "")
            \/ \E id \in Parse(v) : \E a \in Held(agents, id) : Prove(r, id, {}, a)
    BY <1>1, Zenon DEF Resolve
  <2>2. req'[r].name = {}
    BY <2>1, AnswerNames, ProveNames
  <2>3. QED
    BY <2>2 DEF Delegating
<1>2. CASE Switch(r)
  <2>1. PICK n \in RegistryName, v \in Asked :
            \/ n \in entry /\ Delegate(r, n, v)
            \/ n \in hosting \ entry /\ Host(r, n, v)
            \/ n \notin entry \cup hosting /\ Answer(r, v, {n}, {}, "404", "")
    BY <1>2, Zenon DEF Switch
  <2>2. CASE n \in entry /\ Delegate(r, n, v)
    BY <2>2, AnswerNames DEF Delegate, Delegating
  <2>3. CASE n \notin entry
    <3>1. req'[r].name = {n}
      BY <2>1, <2>3, AnswerNames, ProveNames DEF Host
    <3>2. n \notin delegated
      BY <2>3 DEF IInv, Shape
    <3>3. QED
      BY <3>1, <3>2 DEF Delegating
  <2>4. QED
    BY <2>1, <2>2, <2>3
<1>3. CASE Resume(r) \/ Fail(r)
  BY <1>3 DEF Resume, Fail, Delegating
<1>4. QED
  BY <1>1, <1>2, <1>3 DEF Serve

\* A step changes the request it serves and no other.
LEMMA ServeOne ==
    ASSUME IInv, NEW r \in Request, NEW q \in Request \ {r}, Serve(r)
    PROVE  req'[q] = req[q]
<1>1. PICK x : req' = [req EXCEPT ![r] = x]
  <2>1. CASE Resume(r) \/ Fail(r)
    BY <2>1 DEF Resume, Fail
  <2>2. CASE Resolve(r) \/ Switch(r)
    <3>1. \/ \E id, name, read, status, proof : Answer(r, id, name, read, status, proof)
          \/ \E id, name, a : Prove(r, id, name, a)
      BY <2>2, Zenon DEF Resolve, Switch, Delegate, Host
    <3>2. QED
      BY <3>1, ProveShape DEF Answer
  <2>3. QED
    BY <2>1, <2>2 DEF Serve
<1>2. QED
  BY <1>1 DEF IInv, Shape

\* A name that was answered by delegation is never answered from a hosted converter
\* again, whatever registries are added and however requests overlap.
THEOREM DelegationWins == Spec => OnceDelegatedAlways
<1>1. IInv /\ [Next]_vars =>
        [\A r \in Request :
            req'[r] # req[r] /\ req[r].at # "verify" /\ req'[r].name \cap delegated # {} =>
                req'[r].status = "delegated"]_vars
  <2> SUFFICES ASSUME IInv, Next PROVE \A r \in Request : Delegating(r)
    BY DEF Delegating
  <2>1. CASE Change \/ RegisterProfile
    <3>1. req' = req
      BY <2>1 DEF Change, Register, Unregister, Agents, AddRegistry, AddHosting, RegisterProfile
    <3>2. QED
      BY <3>1 DEF Delegating
  <2>2. ASSUME NEW q \in Request, Serve(q) PROVE \A r \in Request : Delegating(r)
    BY <2>2, ServeDelegates, ServeOne DEF Delegating
  <2>3. QED
    BY <2>1, <2>2 DEF Next
<1>2. QED
  BY <1>1, Invariant, PTL DEF Spec, OnceDelegatedAlways

-----------------------------------------------------------------------------
(* The names and the facts of an agent. *)

AgentsAreSimple == agents \subseteq SimpleAgent

\* Only Register adds agents.
LEMMA AgentsStaySimple == Spec => []AgentsAreSimple
<1>1. Init => AgentsAreSimple
  BY DEF Init, AgentsAreSimple
<1>2. AgentsAreSimple /\ [Next]_vars => AgentsAreSimple'
  <2> SUFFICES ASSUME AgentsAreSimple, [Next]_vars PROVE AgentsAreSimple'
    OBVIOUS
  <2>1. CASE Register \/ Unregister
    BY <2>1 DEF Register, Unregister, Agents, AgentsAreSimple, Held
  <2>2. ASSUME UNCHANGED agents PROVE AgentsAreSimple'
    BY <2>2 DEF AgentsAreSimple
  <2>3. ASSUME NEW r \in Request, Serve(r) PROVE UNCHANGED agents
    BY <2>3 DEF Serve, Resolve, Switch, Resume, Fail, served
  <2>4. QED
    BY <2>1, <2>2, <2>3 DEF Next, Change, AddRegistry, AddHosting, RegisterProfile, vars, served
<1>3. QED
  BY <1>1, <1>2, PTL DEF Spec


-----------------------------------------------------------------------------
(* Strings. *)

\* Every nonempty set of numbers has a least one: the initial intervals of the
\* naturals are finite sets, and these are well-founded under strict inclusion.
LEMMA LeastNumber ==
    ASSUME NEW B \in SUBSET Nat, B # {}
    PROVE  \E m \in B : \A k \in B : m <= k
<1> DEFINE T == {1..n : n \in B}
<1>1. IsWellFoundedOn(StrictSubsetOrdering(Nat), FiniteSubsetsOf(Nat))
  BY FS_StrictSubsetOrderingWellFounded
<1>2. T \subseteq FiniteSubsetsOf(Nat) /\ T # {}
  <2>1. \A n \in B : 1..n \in SUBSET Nat /\ IsFiniteSet(1..n)
    BY FS_Interval
  <2>2. QED
    BY <2>1 DEF FiniteSubsetsOf
<1>3. PICK t \in T : \A u \in T : ~(<<u, t>> \in StrictSubsetOrdering(Nat))
  <2> HIDE DEF T
  <2> QED BY <1>1, <1>2, WFMin
<1>4. PICK m \in B : t = 1..m
  OBVIOUS
<1>5. ASSUME NEW k \in B, k < m PROVE FALSE
  <2>1. m \in 1..m /\ m \notin 1..k /\ 1..k \subseteq 1..m
    BY <1>5
  <2>2. <<1..k, 1..m>> \in StrictSubsetOrdering(Nat)
    BY <2>1 DEF StrictSubsetOrdering
  <2>3. QED
    BY <1>3, <1>4, <2>2
<1>6. QED
  BY <1>5

\* A nonempty set of numbers with a bound has a greatest one, and Max is it.
LEMMA MaxOfBounded ==
    ASSUME NEW S \in SUBSET Nat, S # {}, NEW n \in Nat, \A k \in S : k <= n
    PROVE  Max(S) \in S /\ \A k \in S : k <= Max(S)
<1> DEFINE B == {n - k : k \in S}
<1>1. B \in SUBSET Nat /\ B # {}
  <2>1. \A k \in S : n - k \in Nat
    OBVIOUS
  <2>2. QED
    BY <2>1
<1>2. PICK m \in B : \A k \in B : m <= k
  <2> HIDE DEF B
  <2> QED BY <1>1, LeastNumber
<1>3. PICK x \in S : m = n - x
  OBVIOUS
<1>4. \A k \in S : x >= k
  BY <1>2, <1>3
<1>5. QED
  BY <1>3, <1>4 DEF Max

\* The first and the last place of a character, in a string that has it.
LEMMA Places ==
    ASSUME NEW s \in Seq(Token), NEW c, Contains(s, c)
    PROVE  /\ FirstAt(s, c) \in 1..Len(s) /\ s[FirstAt(s, c)] = c
           /\ \A i \in 1..Len(s) : s[i] = c => FirstAt(s, c) <= i
           /\ LastAt(s, c) \in 1..Len(s) /\ s[LastAt(s, c)] = c
           /\ \A i \in 1..Len(s) : s[i] = c => i <= LastAt(s, c)
<1> DEFINE I == {i \in 1..Len(s) : s[i] = c}
<1>1. I \in SUBSET Nat /\ I # {} /\ Len(s) \in Nat /\ \A i \in I : i <= Len(s)
  BY DEF Contains
<1>2. FirstAt(s, c) = Min(I) /\ LastAt(s, c) = Max(I)
  BY <1>1 DEF FirstAt, LastAt, SelectInSeq, SelectLastInSeq
<1>3. Min(I) \in I /\ \A k \in I : Min(I) <= k
  <2> HIDE DEF I
  <2> QED BY <1>1, LeastNumber DEF Min
<1>4. Max(I) \in I /\ \A k \in I : k <= Max(I)
  <2> HIDE DEF I
  <2> QED BY <1>1, MaxOfBounded
<1>5. QED
  BY <1>2, <1>3, <1>4

\* x is the n characters of s that follow the first k.
Slice(x, s, k, n) == x \in Seq(Token) /\ Len(x) = n /\ \A i \in 1..n : x[i] = s[k + i]

\* A slice is the string that it has the place and length of.
LEMMA SliceIsOne ==
    ASSUME NEW s, NEW k, NEW n, NEW x, NEW y, Slice(x, s, k, n), Slice(y, s, k, n)
    PROVE  x = y
<1>1. x \in Seq(Token) /\ y \in Seq(Token) /\ Len(x) = Len(y) /\ \A i \in 1..Len(x) : x[i] = y[i]
  BY DEF Slice
<1>2. QED
  BY <1>1, SeqEqual

\* A slice of a slice is a slice.
LEMMA SliceOfSlice ==
    ASSUME NEW v, NEW j \in Nat, NEW l \in Nat, NEW s, Slice(s, v, j, l),
           NEW k \in Nat, NEW n \in Nat, k + n <= l, NEW x, Slice(x, s, k, n)
    PROVE  Slice(x, v, j + k, n)
<1>1. ASSUME NEW i \in 1..n PROVE x[i] = v[(j + k) + i]
  <2>1. k + i \in 1..l /\ j + (k + i) = (j + k) + i
    OBVIOUS
  <2>2. x[i] = s[k + i] /\ s[k + i] = v[j + (k + i)]
    BY <2>1 DEF Slice
  <2>3. QED
    BY <2>1, <2>2
<1>2. QED
  BY <1>1 DEF Slice

\* The first characters of a string are a slice.
LEMMA SliceTo ==
    ASSUME NEW s \in Seq(Token), NEW n \in 0..Len(s)
    PROVE  Slice(SubSeq(s, 1, n), s, 0, n)
<1>1. /\ SubSeq(s, 1, n) \in Seq(Token) /\ Len(SubSeq(s, 1, n)) = n
      /\ \A i \in 1..n : SubSeq(s, 1, n)[i] = s[i] /\ 0 + i = i
  OBVIOUS
<1>2. QED
  BY <1>1 DEF Slice

\* The rest of a string is a slice.
LEMMA SliceFrom ==
    ASSUME NEW s \in Seq(Token), NEW k \in Nat, k <= Len(s)
    PROVE  Slice(SubSeq(s, k + 1, Len(s)), s, k, Len(s) - k)
<1>1. /\ SubSeq(s, k + 1, Len(s)) \in Seq(Token) /\ Len(SubSeq(s, k + 1, Len(s))) = Len(s) - k
      /\ \A i \in 1..Len(s) - k : SubSeq(s, k + 1, Len(s))[i] = s[k + i]
  OBVIOUS
<1>2. QED
  BY <1>1 DEF Slice

\* What a string without a character is cut into, and where one that has it is cut.
LEMMA Parts ==
    ASSUME NEW s \in Seq(Token), NEW c
    PROVE  /\ ~Contains(s, c) => Before(s, c) = s /\ After(s, c) = s /\ LastPart(s, c) = s
           /\ Contains(s, c) => /\ Slice(Before(s, c), s, 0, FirstAt(s, c) - 1)
                                /\ Slice(After(s, c), s, FirstAt(s, c), Len(s) - FirstAt(s, c))
                                /\ Slice(LastPart(s, c), s, LastAt(s, c), Len(s) - LastAt(s, c))
<1>1. ASSUME Contains(s, c)
      PROVE  /\ Slice(Before(s, c), s, 0, FirstAt(s, c) - 1)
             /\ Slice(After(s, c), s, FirstAt(s, c), Len(s) - FirstAt(s, c))
             /\ Slice(LastPart(s, c), s, LastAt(s, c), Len(s) - LastAt(s, c))
  <2> DEFINE f == FirstAt(s, c)
             l == LastAt(s, c)
  <2>1. f \in 1..Len(s) /\ l \in 1..Len(s)
    BY <1>1, Places
  <2>2. /\ Before(s, c) = SubSeq(s, 1, f - 1) /\ After(s, c) = SubSeq(s, f + 1, Len(s))
        /\ LastPart(s, c) = SubSeq(s, l + 1, Len(s))
    BY <1>1 DEF Before, After, LastPart
  <2> HIDE DEF f, l
  <2>3. /\ Slice(SubSeq(s, 1, f - 1), s, 0, f - 1) /\ Slice(SubSeq(s, f + 1, Len(s)), s, f, Len(s) - f)
        /\ Slice(SubSeq(s, l + 1, Len(s)), s, l, Len(s) - l)
    <3>1. Len(s) \in Nat /\ f - 1 \in 0..Len(s) /\ f \in Nat /\ l \in Nat /\ f <= Len(s) /\ l <= Len(s)
      BY <2>1
    <3>2. QED
      BY <3>1, SliceTo, SliceFrom
  <2>4. QED
    BY <2>2, <2>3 DEF f, l
<1>2. ASSUME ~Contains(s, c) PROVE Before(s, c) = s /\ After(s, c) = s /\ LastPart(s, c) = s
  <2>1. FirstAt(s, c) = 0 /\ LastAt(s, c) = 0
    BY <1>2 DEF Contains, FirstAt, LastAt, SelectInSeq, SelectLastInSeq
  <2>2. SubSeq(s, 1, Len(s)) = s
    BY SubSeqFull
  <2>3. QED
    BY <1>2, <2>1, <2>2 DEF Before, After, LastPart
<1>3. QED
  BY <1>1, <1>2

\* Parts of a string are strings and no longer, and shorter if something was cut off.
LEMMA PartLengths ==
    ASSUME NEW s \in Seq(Token), NEW c
    PROVE  /\ Before(s, c) \in Seq(Token) /\ After(s, c) \in Seq(Token) /\ LastPart(s, c) \in Seq(Token)
           /\ Len(After(s, c)) <= Len(s) /\ Len(LastPart(s, c)) <= Len(s)
           /\ Contains(s, c) => /\ Len(Before(s, c)) < Len(s) /\ Len(After(s, c)) < Len(s)
                                /\ Len(LastPart(s, c)) < Len(s)
<1>1. CASE ~Contains(s, c)
  <2>1. Len(s) <= Len(s)
    OBVIOUS
  <2>2. QED
    BY <1>1, <2>1, Parts
<1>2. CASE Contains(s, c)
  <2>1. /\ Slice(Before(s, c), s, 0, FirstAt(s, c) - 1)
        /\ Slice(After(s, c), s, FirstAt(s, c), Len(s) - FirstAt(s, c))
        /\ Slice(LastPart(s, c), s, LastAt(s, c), Len(s) - LastAt(s, c))
    BY <1>2, Parts
  <2>2. FirstAt(s, c) \in 1..Len(s) /\ LastAt(s, c) \in 1..Len(s) /\ Len(s) \in Nat
    BY <1>2, Places
  <2>3. /\ Before(s, c) \in Seq(Token) /\ After(s, c) \in Seq(Token) /\ LastPart(s, c) \in Seq(Token)
        /\ Len(Before(s, c)) = FirstAt(s, c) - 1 /\ Len(After(s, c)) = Len(s) - FirstAt(s, c)
        /\ Len(LastPart(s, c)) = Len(s) - LastAt(s, c)
    BY <2>1 DEF Slice
  <2>4. /\ FirstAt(s, c) - 1 < Len(s) /\ Len(s) - FirstAt(s, c) < Len(s) /\ Len(s) - LastAt(s, c) < Len(s)
        /\ Len(s) - FirstAt(s, c) <= Len(s) /\ Len(s) - LastAt(s, c) <= Len(s)
    BY <2>2
  <2>5. /\ Len(Before(s, c)) < Len(s) /\ Len(After(s, c)) < Len(s) /\ Len(LastPart(s, c)) < Len(s)
        /\ Len(After(s, c)) <= Len(s) /\ Len(LastPart(s, c)) <= Len(s)
    BY <2>3, <2>4
  <2>6. QED
    BY <2>3, <2>5
<1>3. QED
  BY <1>1, <1>2

\* What two strings make together.
LEMMA Joined ==
    ASSUME NEW s \in Seq(Token), NEW w \in Seq(Token)
    PROVE  /\ s \o w \in Seq(Token) /\ Len(s \o w) = Len(s) + Len(w)
           /\ \A i \in 1..Len(s) : (s \o w)[i] = s[i]
           /\ \A i \in 1..Len(w) : (s \o w)[Len(s) + i] = w[i]
<1>1. /\ s \o w \in Seq(Token) /\ Len(s \o w) = Len(s) + Len(w)
      /\ \A i \in 1..Len(s) + Len(w) : (s \o w)[i] = IF i <= Len(s) THEN s[i] ELSE w[i - Len(s)]
  BY ConcatProperties
<1>2. Len(s) \in Nat /\ Len(w) \in Nat
  OBVIOUS
<1>3. ASSUME NEW i \in 1..Len(w) PROVE (s \o w)[Len(s) + i] = w[i]
  <2>1. Len(s) + i \in 1..Len(s) + Len(w) /\ ~(Len(s) + i <= Len(s)) /\ Len(s) + i - Len(s) = i
    BY <1>2
  <2>2. QED
    BY <1>1, <2>1
<1>4. ASSUME NEW i \in 1..Len(s) PROVE (s \o w)[i] = s[i]
  <2>1. i \in 1..Len(s) + Len(w) /\ i <= Len(s)
    BY <1>2
  <2>2. QED
    BY <1>1, <2>1
<1>5. QED
  BY <1>1, <1>3, <1>4

\* Each of two strings is a slice of both together.
LEMMA JoinedSlices ==
    ASSUME NEW s \in Seq(Token), NEW w \in Seq(Token)
    PROVE  Slice(s, s \o w, 0, Len(s)) /\ Slice(w, s \o w, Len(s), Len(w))
<1>1. Len(s) \in Nat /\ Len(w) \in Nat /\ \A i \in 1..Len(s) : 0 + i = i
  OBVIOUS
<1>2. QED
  BY <1>1, Joined DEF Slice

\* Two slices that meet are one.
LEMMA SlicesMeet ==
    ASSUME NEW s \in Seq(Token), NEW w \in Seq(Token), NEW v, NEW k \in Nat,
           Slice(s, v, k, Len(s)), Slice(w, v, k + Len(s), Len(w))
    PROVE  Slice(s \o w, v, k, Len(s) + Len(w))
<1>0. Len(s) \in Nat /\ Len(w) \in Nat
  OBVIOUS
<1>1. ASSUME NEW i \in 1..Len(s) + Len(w) PROVE (s \o w)[i] = v[k + i]
  <2>1. CASE i <= Len(s)
    <3>1. i \in 1..Len(s)
      BY <1>0, <2>1
    <3>2. QED
      BY <3>1, Joined DEF Slice
  <2>2. CASE ~(i <= Len(s))
    <3>1. i - Len(s) \in 1..Len(w) /\ Len(s) + (i - Len(s)) = i /\ (k + Len(s)) + (i - Len(s)) = k + i
      BY <1>0, <2>2
    <3>2. (s \o w)[Len(s) + (i - Len(s))] = w[i - Len(s)]
      BY <3>1, Joined
    <3>3. w[i - Len(s)] = v[(k + Len(s)) + (i - Len(s))]
      BY <3>1 DEF Slice
    <3>4. QED
      BY <3>1, <3>2, <3>3
  <2>3. QED
    BY <2>1, <2>2
<1>2. QED
  BY <1>1, Joined DEF Slice

\* A character is in two strings together if it is in one of them, and where.
LEMMA JoinedPlaces ==
    ASSUME NEW s \in Seq(Token), NEW w \in Seq(Token), NEW c
    PROVE  /\ Contains(s \o w, c) <=> Contains(s, c) \/ Contains(w, c)
           /\ Contains(s, c) => FirstAt(s \o w, c) = FirstAt(s, c)
           /\ ~Contains(s, c) /\ Contains(w, c) => FirstAt(s \o w, c) = Len(s) + FirstAt(w, c)
           /\ Contains(w, c) => LastAt(s \o w, c) = Len(s) + LastAt(w, c)
<1> DEFINE v == s \o w
           m == Len(s)
           n == Len(w)
<1>1. v \in Seq(Token) /\ Len(v) = m + n /\ (\A i \in 1..m : v[i] = s[i]) /\ (\A i \in 1..n : v[m + i] = w[i])
  BY Joined
<1>2. m \in Nat /\ n \in Nat
  OBVIOUS
<1>3. ASSUME NEW i \in 1..m + n PROVE i \in 1..m \/ (i - m \in 1..n /\ m + (i - m) = i)
  BY <1>2
<1>4. (\A i \in 1..m : i \in 1..m + n) /\ (\A i \in 1..n : m + i \in 1..m + n)
  BY <1>2
<1> HIDE DEF v
<1>5. Contains(v, c) <=> Contains(s, c) \/ Contains(w, c)
  <2>1. ASSUME Contains(v, c) PROVE Contains(s, c) \/ Contains(w, c)
    <3>1. PICK i \in 1..m + n : v[i] = c
      BY <1>1, <2>1 DEF Contains
    <3>2. CASE i \in 1..m
      BY <1>1, <3>1, <3>2 DEF Contains
    <3>3. CASE i - m \in 1..n /\ m + (i - m) = i
      BY <1>1, <3>1, <3>3 DEF Contains
    <3>4. QED
      BY <1>3, <3>2, <3>3
  <2>2. ASSUME Contains(s, c) PROVE Contains(v, c)
    BY <1>1, <1>4, <2>2 DEF Contains
  <2>3. ASSUME Contains(w, c) PROVE Contains(v, c)
    BY <1>1, <1>4, <2>3 DEF Contains
  <2>4. QED
    BY <2>1, <2>2, <2>3
<1>6. ASSUME Contains(s, c) PROVE FirstAt(v, c) = FirstAt(s, c)
  <2> DEFINE f == FirstAt(s, c)
             g == FirstAt(v, c)
  <2>1. f \in 1..m /\ s[f] = c /\ \A i \in 1..m : s[i] = c => f <= i
    BY <1>6, Places
  <2>2. g \in 1..m + n /\ v[g] = c /\ \A i \in 1..m + n : v[i] = c => g <= i
    BY <1>1, <1>5, <1>6, Places
  <2> HIDE DEF f, g
  <2>3. g <= f
    BY <1>1, <1>4, <2>1, <2>2
  <2>4. g \in 1..m
    BY <1>2, <2>1, <2>2, <2>3
  <2>5. f <= g
    BY <1>1, <2>1, <2>2, <2>4
  <2>6. f = g
    BY <1>2, <2>1, <2>2, <2>3, <2>5
  <2>7. QED
    BY <2>6 DEF f, g
<1>7. ASSUME ~Contains(s, c), Contains(w, c) PROVE FirstAt(v, c) = m + FirstAt(w, c)
  <2> DEFINE f == FirstAt(w, c)
             g == FirstAt(v, c)
  <2>1. f \in 1..n /\ w[f] = c /\ \A i \in 1..n : w[i] = c => f <= i
    BY <1>7, Places
  <2>2. g \in 1..m + n /\ v[g] = c /\ \A i \in 1..m + n : v[i] = c => g <= i
    BY <1>1, <1>5, <1>7, Places
  <2> HIDE DEF f, g
  <2>3. g <= m + f
    BY <1>1, <1>4, <2>1, <2>2
  <2>4. g \notin 1..m
    BY <1>1, <1>7, <2>2 DEF Contains
  <2>5. g - m \in 1..n /\ m + (g - m) = g
    BY <1>3, <2>2, <2>4
  <2>6. f <= g - m
    BY <1>1, <2>1, <2>2, <2>5
  <2>7. g = m + f
    <3>1. g \in Nat /\ f \in Nat
      BY <1>2, <2>1, <2>2
    <3>2. m + f <= g
      BY <1>2, <2>6, <3>1
    <3>3. QED
      BY <1>2, <2>3, <3>1, <3>2
  <2>8. QED
    BY <2>7 DEF f, g
<1>8. ASSUME Contains(w, c) PROVE LastAt(v, c) = m + LastAt(w, c)
  <2> DEFINE f == LastAt(w, c)
             g == LastAt(v, c)
  <2>1. f \in 1..n /\ w[f] = c /\ \A i \in 1..n : w[i] = c => i <= f
    BY <1>8, Places
  <2>2. g \in 1..m + n /\ v[g] = c /\ \A i \in 1..m + n : v[i] = c => i <= g
    BY <1>1, <1>5, <1>8, Places
  <2> HIDE DEF f, g
  <2>3. m + f <= g
    BY <1>1, <1>4, <2>1, <2>2
  <2>4. g - m \in 1..n /\ m + (g - m) = g
    BY <1>2, <2>1, <2>2, <2>3
  <2>5. g - m <= f
    BY <1>1, <2>1, <2>2, <2>4
  <2>6. g = m + f
    <3>1. g \in Nat /\ f \in Nat
      BY <1>2, <2>1, <2>2
    <3>2. g <= m + f
      BY <1>2, <2>5, <3>1
    <3>3. QED
      BY <1>2, <2>3, <3>1, <3>2
  <2>7. QED
    BY <2>6 DEF f, g
<1>9. QED
  BY <1>5, <1>6, <1>7, <1>8 DEF v

\* Where a string that is continued is cut: as before if it had the character, and
\* in the continuation if not.
LEMMA Cut ==
    ASSUME NEW s \in Seq(Token), NEW w \in Seq(Token), NEW c
    PROVE  /\ Contains(s, c) => Before(s \o w, c) = Before(s, c) /\ After(s \o w, c) = After(s, c) \o w
           /\ ~Contains(s, c) => Before(s \o w, c) = s \o Before(w, c)
           /\ ~Contains(s, c) /\ Contains(w, c) => After(s \o w, c) = After(w, c)
           /\ Contains(w, c) => LastPart(s \o w, c) = LastPart(w, c)
<1> DEFINE v == s \o w
           m == Len(s)
           n == Len(w)
<1>1. v \in Seq(Token) /\ Len(v) = m + n /\ (\A i \in 1..m : v[i] = s[i]) /\ (\A i \in 1..n : v[m + i] = w[i])
  BY Joined
<1>2. m \in Nat /\ n \in Nat
  OBVIOUS
<1>3. /\ Contains(v, c) <=> Contains(s, c) \/ Contains(w, c)
      /\ Contains(s, c) => FirstAt(v, c) = FirstAt(s, c)
      /\ ~Contains(s, c) /\ Contains(w, c) => FirstAt(v, c) = m + FirstAt(w, c)
      /\ Contains(w, c) => LastAt(v, c) = m + LastAt(w, c)
  BY JoinedPlaces
<1> HIDE DEF v
<1>4. Slice(s, v, 0, m) /\ Slice(w, v, m, n)
  BY JoinedSlices DEF v
<1>5. ASSUME Contains(s, c) PROVE Before(v, c) = Before(s, c) /\ After(v, c) = After(s, c) \o w
  <2> DEFINE f == FirstAt(s, c)
             b == Before(s, c)
             e == After(s, c)
  <2>1. f \in 1..m /\ FirstAt(v, c) = f
    BY <1>3, <1>5, Places
  <2>2. Slice(b, s, 0, f - 1) /\ Slice(e, s, f, m - f) /\ e \in Seq(Token)
    BY <1>5, Parts, PartLengths
  <2>3. Slice(Before(v, c), v, 0, f - 1) /\ Slice(After(v, c), v, f, (m + n) - f)
    BY <1>1, <1>3, <1>5, <2>1, Parts
  <2> HIDE DEF f, b, e
  <2>4. f - 1 \in Nat /\ f \in Nat /\ m - f \in Nat /\ f + (m - f) = m /\ (m - f) + n = (m + n) - f
    BY <1>2, <2>1
  <2>5. Slice(b, v, 0, f - 1) /\ Slice(e, v, f, m - f)
    <3>1. 0 + (f - 1) <= m /\ f + (m - f) <= m /\ 0 + 0 = 0 /\ 0 + f = f
      BY <1>2, <2>1
    <3>2. Slice(b, v, 0 + 0, f - 1)
      BY <1>2, <1>4, <2>2, <2>4, <3>1, SliceOfSlice
    <3>3. Slice(e, v, 0 + f, m - f)
      BY <1>2, <1>4, <2>2, <2>4, <3>1, SliceOfSlice
    <3>4. QED
      BY <3>1, <3>2, <3>3
  <2>6. Slice(e \o w, v, f, (m + n) - f)
    <3>1. Len(e) = m - f
      BY <2>2 DEF Slice
    <3>2. Slice(w, v, f + Len(e), n) /\ Slice(e, v, f, Len(e))
      BY <1>4, <2>4, <2>5, <3>1
    <3>3. Slice(e \o w, v, f, Len(e) + n)
      BY <2>2, <2>4, <3>2, SlicesMeet
    <3>4. QED
      BY <2>4, <3>1, <3>3
  <2>7. Before(v, c) = b /\ After(v, c) = e \o w
    BY <2>3, <2>5, <2>6, SliceIsOne
  <2>8. QED
    BY <2>7 DEF b, e
<1>6. ASSUME ~Contains(s, c) PROVE Before(v, c) = s \o Before(w, c)
  <2>1. CASE ~Contains(w, c)
    BY <1>1, <1>3, <1>6, <2>1, Parts DEF v
  <2>2. CASE Contains(w, c)
    <3> DEFINE f == FirstAt(w, c)
               b == Before(w, c)
    <3>1. f \in 1..n /\ FirstAt(v, c) = m + f
      BY <1>3, <1>6, <2>2, Places
    <3>2. Slice(b, w, 0, f - 1) /\ b \in Seq(Token)
      BY <2>2, Parts, PartLengths
    <3>3. Slice(Before(v, c), v, 0, (m + f) - 1)
      BY <1>1, <1>3, <2>2, <3>1, Parts
    <3> HIDE DEF f, b
    <3>4. f - 1 \in Nat /\ 0 + (f - 1) <= n /\ m + 0 = m /\ 0 + m = m /\ m + (f - 1) = (m + f) - 1
      BY <1>2, <3>1
    <3>5. Slice(b, v, m + 0, f - 1)
      BY <1>2, <1>4, <3>2, <3>4, SliceOfSlice
    <3>6. Len(b) = f - 1
      BY <3>2 DEF Slice
    <3>7. Slice(b, v, 0 + m, Len(b))
      BY <3>4, <3>5, <3>6
    <3>8. Slice(s \o b, v, 0, m + Len(b))
      BY <1>2, <1>4, <3>2, <3>7, SlicesMeet
    <3>9. Before(v, c) = s \o b
      BY <3>3, <3>4, <3>6, <3>8, SliceIsOne
    <3>10. QED
      BY <3>9 DEF b
  <2>3. QED
    BY <2>1, <2>2
<1>7. ASSUME NEW f \in 1..n, NEW x, NEW y, Slice(x, w, f, n - f), Slice(y, v, m + f, (m + n) - (m + f))
      PROVE  y = x
  <2>1. f \in Nat /\ n - f \in Nat /\ f + (n - f) <= n /\ (m + n) - (m + f) = n - f
    BY <1>2
  <2>2. Slice(x, v, m + f, n - f)
    BY <1>2, <1>4, <1>7, <2>1, SliceOfSlice
  <2>3. QED
    BY <1>7, <2>1, <2>2, SliceIsOne
<1>8. ASSUME ~Contains(s, c), Contains(w, c) PROVE After(v, c) = After(w, c)
  <2>1. FirstAt(w, c) \in 1..n /\ FirstAt(v, c) = m + FirstAt(w, c) /\ Contains(v, c)
    BY <1>3, <1>8, Places
  <2>2. Slice(After(w, c), w, FirstAt(w, c), n - FirstAt(w, c))
    BY <1>8, Parts
  <2>3. Slice(After(v, c), v, FirstAt(v, c), Len(v) - FirstAt(v, c))
    BY <1>1, <2>1, Parts
  <2>4. Slice(After(v, c), v, m + FirstAt(w, c), (m + n) - (m + FirstAt(w, c)))
    BY <1>1, <2>1, <2>3
  <2>5. QED
    BY <1>7, <2>1, <2>2, <2>4
<1>9. ASSUME Contains(w, c) PROVE LastPart(v, c) = LastPart(w, c)
  <2>1. LastAt(w, c) \in 1..n /\ LastAt(v, c) = m + LastAt(w, c) /\ Contains(v, c)
    BY <1>3, <1>9, Places
  <2>2. Slice(LastPart(w, c), w, LastAt(w, c), n - LastAt(w, c))
    BY <1>9, Parts
  <2>3. Slice(LastPart(v, c), v, LastAt(v, c), Len(v) - LastAt(v, c))
    BY <1>1, <2>1, Parts
  <2>4. Slice(LastPart(v, c), v, m + LastAt(w, c), (m + n) - (m + LastAt(w, c)))
    BY <1>1, <2>1, <2>3
  <2>5. QED
    BY <1>7, <2>1, <2>2, <2>4
<1>10. QED
  BY <1>5, <1>6, <1>8, <1>9 DEF v

\* One character as a string.
LEMMA OneCharacter ==
    ASSUME NEW c \in Token, NEW w \in Seq(Token)
    PROVE  /\ <<c>> \in Seq(Token) /\ Len(<<c>>) = 1 /\ <<c>>[1] = c
           /\ <<c>> \o w \in Seq(Token) /\ Len(<<c>> \o w) = 1 + Len(w) /\ (<<c>> \o w)[1] = c
           /\ \A d : Contains(<<c>>, d) <=> c = d
           /\ \A d : Contains(<<c>> \o w, d) <=> c = d \/ Contains(w, d)
<1>1. <<c>> \in Seq(Token) /\ Len(<<c>>) = 1 /\ <<c>>[1] = c /\ 1..1 = {1}
  OBVIOUS
<1>2. \A d : Contains(<<c>>, d) <=> c = d
  BY <1>1 DEF Contains
<1>3. <<c>> \o w \in Seq(Token) /\ Len(<<c>> \o w) = 1 + Len(w) /\ (<<c>> \o w)[1] = c
  <2> DEFINE one == <<c>>
  <2>1. one \in Seq(Token) /\ Len(one) = 1 /\ one[1] = c /\ 1 \in 1..1
    BY <1>1
  <2> HIDE DEF one
  <2>2. /\ one \o w \in Seq(Token) /\ Len(one \o w) = Len(one) + Len(w)
        /\ \A i \in 1..Len(one) : (one \o w)[i] = one[i]
    BY <2>1, Joined, Zenon
  <2>3. one \o w \in Seq(Token) /\ Len(one \o w) = 1 + Len(w) /\ (one \o w)[1] = c
    BY <2>1, <2>2
  <2>4. QED
    BY <2>3 DEF one
<1>4. \A d : Contains(<<c>> \o w, d) <=> c = d \/ Contains(w, d)
  <2>1. ASSUME NEW d PROVE Contains(<<c>> \o w, d) <=> Contains(<<c>>, d) \/ Contains(w, d)
    BY <1>1, JoinedPlaces
  <2>2. QED
    BY <1>2, <2>1
<1>5. QED
  BY <1>1, <1>2, <1>3, <1>4

\* A string is cut at its first separator, and its last part is that of what follows
\* any separator.
LEMMA CutAt ==
    ASSUME NEW s \in Seq(Token), NEW w \in Seq(Token), NEW c \in Token
    PROVE  /\ Before(s \o (<<c>> \o w), c) = Before(s, c)
           /\ ~Contains(s, c) => After(s \o (<<c>> \o w), c) = w
           /\ Contains(s, c) => Len(After(s \o (<<c>> \o w), c)) > Len(w)
           /\ LastPart(s \o (<<c>> \o w), c) = LastPart(w, c)
<1> DEFINE one == <<c>>
           cw == one \o w
<1>1. /\ one \in Seq(Token) /\ Len(one) = 1 /\ Contains(one, c)
      /\ cw \in Seq(Token) /\ Len(cw) = 1 + Len(w) /\ cw[1] = c /\ Contains(cw, c)
  BY OneCharacter
<1>2. /\ Contains(one, c) => Before(cw, c) = Before(one, c) /\ After(cw, c) = After(one, c) \o w
      /\ Contains(w, c) => LastPart(cw, c) = LastPart(w, c)
  <2> HIDE DEF one
  <2> QED BY <1>1, Cut
<1> HIDE DEF one
<1>3. Before(one, c) = <<>> /\ After(one, c) = <<>>
  <2>1. /\ Before(one, c) \in Seq(Token) /\ After(one, c) \in Seq(Token)
        /\ Len(Before(one, c)) < 1 /\ Len(After(one, c)) < 1
    BY <1>1, PartLengths
  <2>2. \A x \in Seq(Token) : Len(x) < 1 => x = <<>>
    BY EmptySeq
  <2>3. QED
    BY <2>1, <2>2
<1>4. Before(cw, c) = <<>> /\ After(cw, c) = w
  <2>1. <<>> \o w = w
    BY ConcatEmptySeq
  <2>2. QED
    BY <1>1, <1>2, <1>3, <2>1
<1>5. LastPart(cw, c) = LastPart(w, c)
  <2>1. CASE Contains(w, c)
    BY <1>2, <2>1
  <2>2. CASE ~Contains(w, c)
    <3>1. Slice(w, cw, 1, Len(w))
      BY <1>1, JoinedSlices
    <3>2. Slice(LastPart(cw, c), cw, LastAt(cw, c), Len(cw) - LastAt(cw, c))
      BY <1>1, Parts
    <3>3. LastAt(cw, c) = 1
      <4>1. LastAt(cw, c) \in 1..1 + Len(w) /\ cw[LastAt(cw, c)] = c
        BY <1>1, Places
      <4>2. ASSUME NEW i \in 1..Len(w) PROVE cw[1 + i] # c
        BY <1>1, <2>2, Joined DEF Contains
      <4>3. LastAt(cw, c) # 1 => LastAt(cw, c) - 1 \in 1..Len(w) /\ 1 + (LastAt(cw, c) - 1) = LastAt(cw, c)
        BY <4>1
      <4>4. QED
        BY <4>1, <4>2, <4>3
    <3>4. Len(cw) - 1 = Len(w)
      BY <1>1
    <3>5. LastPart(cw, c) = w
      BY <3>1, <3>2, <3>3, <3>4, SliceIsOne
    <3>6. QED
      BY <2>2, <3>5, Parts
  <2>3. QED
    BY <2>1, <2>2
<1> HIDE DEF cw
<1>6. /\ Contains(s, c) => Before(s \o cw, c) = Before(s, c) /\ After(s \o cw, c) = After(s, c) \o cw
      /\ ~Contains(s, c) => Before(s \o cw, c) = s \o Before(cw, c)
      /\ ~Contains(s, c) => After(s \o cw, c) = After(cw, c)
      /\ LastPart(s \o cw, c) = LastPart(cw, c)
  <2>1. cw \in Seq(Token) /\ Contains(cw, c)
    BY <1>1
  <2>2. Contains(s, c) => Before(s \o cw, c) = Before(s, c) /\ After(s \o cw, c) = After(s, c) \o cw
    BY <2>1, Cut
  <2>3. ~Contains(s, c) => Before(s \o cw, c) = s \o Before(cw, c)
    BY <2>1, Cut
  <2>4. ~Contains(s, c) => After(s \o cw, c) = After(cw, c)
    BY <2>1, Cut
  <2>5. LastPart(s \o cw, c) = LastPart(cw, c)
    BY <2>1, Cut
  <2>6. QED
    BY <2>2, <2>3, <2>4, <2>5
<1>7. Before(s \o cw, c) = Before(s, c)
  <2>1. CASE Contains(s, c)
    BY <1>6, <2>1
  <2>2. CASE ~Contains(s, c)
    <3>1. s \o <<>> = s
      BY ConcatEmptySeq
    <3>2. Before(s, c) = s
      BY <2>2, Parts
    <3>3. QED
      BY <1>4, <1>6, <2>2, <3>1, <3>2
  <2>3. QED
    BY <2>1, <2>2
<1>8. Contains(s, c) => Len(After(s \o cw, c)) > Len(w)
  <2> SUFFICES ASSUME Contains(s, c) PROVE Len(After(s, c) \o cw) > Len(w)
    BY <1>6
  <2>1. After(s, c) \in Seq(Token) /\ Len(After(s, c)) \in Nat /\ Len(w) \in Nat
    BY PartLengths
  <2>2. Len(After(s, c) \o cw) = Len(After(s, c)) + Len(cw)
    BY <1>1, <2>1, Joined
  <2>3. QED
    BY <1>1, <2>1, <2>2
<1>9. LastPart(s \o cw, c) = LastPart(w, c) /\ (~Contains(s, c) => After(s \o cw, c) = w)
  BY <1>4, <1>5, <1>6
<1>10. QED
  BY <1>7, <1>8, <1>9, Zenon DEF cw, one

\* What a string begins with, and what is left when that is skipped.
LEMMA PrefixFacts ==
    ASSUME NEW p \in Seq(Token), NEW v \in Seq(Token)
    PROVE  /\ IsPrefix(p, v) <=> Slice(p, v, 0, Len(p)) /\ Len(p) <= Len(v)
           /\ Len(p) <= Len(v) => Skip(v, Len(p)) \in Seq(Token) /\ Len(Skip(v, Len(p))) = Len(v) - Len(p)
           /\ IsPrefix(p, v) => v = p \o Skip(v, Len(p))
<1>1. Len(p) \in Nat /\ Len(v) \in Nat
  OBVIOUS
<1>2. ASSUME Len(p) <= Len(v)
      PROVE  Slice(SubSeq(v, 1, Len(p)), v, 0, Len(p)) /\ Slice(Skip(v, Len(p)), v, Len(p), Len(v) - Len(p))
  BY <1>1, <1>2, SliceTo, SliceFrom DEF Skip
<1>3. IsPrefix(p, v) <=> Slice(p, v, 0, Len(p)) /\ Len(p) <= Len(v)
  <2>1. SubSeq(p, 1, Len(p)) = p
    BY SubSeqFull
  <2>2. ASSUME Len(p) <= Len(v), Slice(p, v, 0, Len(p)) PROVE p = SubSeq(v, 1, Len(p))
    BY <1>2, <2>2, SliceIsOne
  <2>3. QED
    BY <1>2, <2>1, <2>2 DEF IsPrefix
<1>4. ASSUME IsPrefix(p, v) PROVE v = p \o Skip(v, Len(p))
  <2> DEFINE w == Skip(v, Len(p))
  <2>1. Slice(p, v, 0, Len(p)) /\ Slice(w, v, Len(p), Len(v) - Len(p)) /\ Len(p) <= Len(v)
    BY <1>2, <1>3, <1>4
  <2> HIDE DEF w
  <2>2. w \in Seq(Token) /\ Len(w) = Len(v) - Len(p)
    BY <2>1 DEF Slice
  <2>3. 0 + Len(p) = Len(p) /\ Len(p) + Len(w) = Len(v)
    BY <1>1, <2>1, <2>2
  <2>4. Slice(p \o w, v, 0, Len(v))
    BY <2>1, <2>2, <2>3, SlicesMeet
  <2>5. Slice(v, v, 0, Len(v))
    BY <1>1 DEF Slice
  <2>6. QED
    BY <2>4, <2>5, SliceIsOne DEF w
<1>5. QED
  BY <1>2, <1>3, <1>4 DEF Slice

\* Two strings together begin with the first, and skipping it leaves the second.
LEMMA PrefixOfJoined ==
    ASSUME NEW p \in Seq(Token), NEW w \in Seq(Token)
    PROVE  IsPrefix(p, p \o w) /\ Skip(p \o w, Len(p)) = w
<1> DEFINE v == p \o w
<1>1. v \in Seq(Token) /\ Len(v) = Len(p) + Len(w) /\ Slice(p, v, 0, Len(p)) /\ Slice(w, v, Len(p), Len(w))
  BY Joined, JoinedSlices
<1>2. Len(p) \in Nat /\ Len(w) \in Nat
  OBVIOUS
<1> HIDE DEF v
<1>3. Len(p) <= Len(v) /\ Len(v) - Len(p) = Len(w)
  BY <1>1, <1>2
<1>4. IsPrefix(p, v)
  BY <1>1, <1>3, PrefixFacts
<1>5. Slice(Skip(v, Len(p)), v, Len(p), Len(w))
  <2>1. Slice(SubSeq(v, Len(p) + 1, Len(v)), v, Len(p), Len(v) - Len(p))
    BY <1>1, <1>2, <1>3, SliceFrom
  <2>2. QED
    BY <1>3, <2>1 DEF Skip
<1>6. QED
  BY <1>1, <1>4, <1>5, SliceIsOne DEF v

\* A URL that is stripped of its last slashes.
LEMMA StrippedOf ==
    ASSUME NEW s \in Seq(Token)
    PROVE  /\ Stripped(s) \in Seq(Token)
           /\ Stripped(s) = s \/ \E w \in Seq(Token) : s = Stripped(s) \o (<<"/">> \o w)
<1> DEFINE I == {i \in 1..Len(s) : s[i] # "/"}
           k == SelectLastInSeq(s, LAMBDA t : t # "/")
<1>1. I \in SUBSET Nat /\ Len(s) \in Nat /\ \A i \in I : i <= Len(s)
  OBVIOUS
<1>2. k = IF I # {} THEN Max(I) ELSE 0
  BY <1>1 DEF SelectLastInSeq
<1>3. k \in 0..Len(s) /\ \A i \in I : i <= k
  <2>1. CASE I = {}
    BY <1>1, <1>2, <2>1
  <2>2. CASE I # {}
    <3>1. Max(I) \in I /\ \A i \in I : i <= Max(I)
      <4> HIDE DEF I
      <4> QED BY <1>1, <2>2, MaxOfBounded
    <3>2. k = Max(I)
      BY <1>2, <2>2
    <3> HIDE DEF k
    <3>3. k \in I /\ \A i \in I : i <= k
      BY <3>1, <3>2
    <3>4. QED
      BY <1>1, <3>3
  <2>3. QED
    BY <2>1, <2>2
<1>4. Stripped(s) = SubSeq(s, 1, k)
  BY DEF Stripped
<1> HIDE DEF k
<1>5. Slice(SubSeq(s, 1, k), s, 0, k) /\ SubSeq(s, 1, k) \in Seq(Token) /\ Len(SubSeq(s, 1, k)) = k
  BY <1>1, <1>3, SliceTo, SliceFrom DEF Slice
<1>6. CASE k = Len(s)
  <2>1. SubSeq(s, 1, k) = s
    BY <1>6, SubSeqFull
  <2>2. QED
    BY <1>4, <2>1
<1>7. CASE k # Len(s)
  <2> DEFINE w == SubSeq(s, (k + 1) + 1, Len(s))
             slash == <<"/">>
             head == SubSeq(s, 1, k)
  <2>1. k + 1 \in 1..Len(s) /\ k + 1 \in Nat /\ k + 1 <= Len(s)
    BY <1>1, <1>3, <1>7
  <2>2. s[k + 1] = "/"
    BY <1>1, <1>3, <2>1
  <2>3. Slice(w, s, k + 1, Len(s) - (k + 1)) /\ w \in Seq(Token) /\ Len(w) = Len(s) - (k + 1)
    <3>1. Slice(w, s, k + 1, Len(s) - (k + 1))
      BY <1>1, <2>1, SliceTo, SliceFrom
    <3>2. QED
      BY <3>1 DEF Slice
  <2>4. slash \in Seq(Token) /\ Len(slash) = 1 /\ slash[1] = "/"
    BY TokenAssumption DEF Fixed
  <2> HIDE DEF w, slash, head
  <2>5. Slice(slash, s, k, 1)
    <3>1. 1..1 = {1}
      OBVIOUS
    <3>2. QED
      BY <2>2, <2>4, <3>1 DEF Slice
  <2>6. Slice(slash \o w, s, k, 1 + (Len(s) - (k + 1)))
    <3>1. Slice(slash, s, k, Len(slash)) /\ Slice(w, s, k + Len(slash), Len(w)) /\ k \in Nat
      BY <1>3, <2>3, <2>4, <2>5
    <3>2. Slice(slash \o w, s, k, Len(slash) + Len(w))
      BY <2>3, <2>4, <3>1, SlicesMeet
    <3>3. QED
      BY <2>3, <2>4, <3>2
  <2>7. slash \o w \in Seq(Token) /\ Len(slash \o w) = 1 + (Len(s) - (k + 1))
    <3>1. slash \o w \in Seq(Token) /\ Len(slash \o w) = Len(slash) + Len(w)
      BY <2>3, <2>4, Joined
    <3>2. QED
      BY <2>3, <2>4, <3>1
  <2>8. head \in Seq(Token) /\ Len(head) = k /\ Slice(head, s, 0, k) /\ 0 + k = k
    BY <1>3, <1>5 DEF head
  <2>9. Slice(head \o (slash \o w), s, 0, k + (1 + (Len(s) - (k + 1))))
    <3> DEFINE sw == slash \o w
    <3>1. sw \in Seq(Token) /\ Len(sw) = 1 + (Len(s) - (k + 1)) /\ Slice(sw, s, k, Len(sw))
      BY <2>6, <2>7
    <3> HIDE DEF sw
    <3>2. Slice(head, s, 0, Len(head)) /\ Slice(sw, s, 0 + Len(head), Len(sw))
      BY <2>8, <3>1
    <3>3. Slice(head \o sw, s, 0, Len(head) + Len(sw))
      BY <2>8, <3>1, <3>2, SlicesMeet
    <3>4. QED
      BY <2>8, <3>1, <3>3 DEF sw
  <2>10. Slice(s, s, 0, Len(s)) /\ k + (1 + (Len(s) - (k + 1))) = Len(s)
    BY <1>1, <1>3 DEF Slice
  <2>11. s = head \o (slash \o w)
    BY <2>9, <2>10, SliceIsOne
  <2>12. QED
    BY <1>4, <2>3, <2>8, <2>11, Zenon DEF head, slash
<1>8. QED
  BY <1>4, <1>5, <1>6, <1>7

\* The host of a URL is before any port or path, and its slashes do not matter.
LEMMA Hosts ==
    ASSUME NEW s \in Seq(Token)
    PROVE  /\ \A w \in Seq(Token) : HostOf(s \o (<<":">> \o w)) = HostOf(s)
           /\ HostOf(Stripped(s)) = HostOf(s)
           /\ HostOf(s) = s => ~Contains(s, "/")
<1>1. ":" \in Token /\ "/" \in Token
  BY TokenAssumption DEF Fixed
<1>2. ASSUME NEW w \in Seq(Token) PROVE HostOf(s \o (<<":">> \o w)) = HostOf(s)
  <2> DEFINE cw == <<":">> \o w
             bw == Before(w, "/")
  <2>1. cw \in Seq(Token)
    BY <1>1, OneCharacter
  <2>2. CASE Contains(s, "/")
    <3> HIDE DEF cw
    <3>1. Before(s \o cw, "/") = Before(s, "/")
      BY <2>1, <2>2, Cut
    <3>2. QED
      BY <3>1 DEF HostOf, cw
  <2>3. CASE ~Contains(s, "/")
    <3>1. Before(cw, "/") = <<":">> \o bw
      <4> DEFINE colon == <<":">>
      <4>1. colon \in Seq(Token) /\ ~Contains(colon, "/")
        BY <1>1, OneCharacter
      <4> HIDE DEF colon
      <4>2. Before(colon \o w, "/") = colon \o Before(w, "/")
        BY <4>1, Cut
      <4>3. QED
        BY <4>2 DEF colon
    <3>2. bw \in Seq(Token)
      BY PartLengths
    <3> HIDE DEF cw, bw
    <3>3. Before(s \o cw, "/") = s \o (<<":">> \o bw)
      <4>1. Before(s \o cw, "/") = s \o Before(cw, "/")
        BY <2>1, <2>3, Cut
      <4>2. QED
        BY <3>1, <4>1
    <3>4. Before(s \o (<<":">> \o bw), ":") = Before(s, ":")
      BY <1>1, <3>2, CutAt
    <3>5. Before(s, "/") = s
      BY <2>3, Parts
    <3>6. QED
      BY <3>3, <3>4, <3>5, Zenon DEF HostOf, cw
  <2>4. QED
    BY <2>2, <2>3
<1>3. HostOf(Stripped(s)) = HostOf(s)
  <2> DEFINE t == Stripped(s)
  <2>1. t \in Seq(Token) /\ (t = s \/ \E w \in Seq(Token) : s = t \o (<<"/">> \o w))
    BY StrippedOf
  <2> HIDE DEF t
  <2>2. \A w \in Seq(Token) : Before(t \o (<<"/">> \o w), "/") = Before(t, "/")
    BY <1>1, <2>1, CutAt
  <2>3. ASSUME NEW w \in Seq(Token), s = t \o (<<"/">> \o w) PROVE Before(s, "/") = Before(t, "/")
    BY <2>2, <2>3, Zenon
  <2>4. Before(s, "/") = Before(t, "/")
    BY <2>1, <2>3, Zenon
  <2>5. QED
    BY <2>4, Zenon DEF HostOf, t
<1>4. ASSUME HostOf(s) = s, Contains(s, "/") PROVE FALSE
  <2>1. Before(s, "/") \in Seq(Token) /\ Len(Before(s, "/")) < Len(s)
    BY <1>4, PartLengths
  <2>2. Len(Before(Before(s, "/"), ":")) <= Len(Before(s, "/"))
    BY <2>1, PartLengths, Parts
  <2>3. Len(s) \in Nat /\ Len(Before(s, "/")) \in Nat
    BY <2>1
  <2>4. QED
    BY <1>4, <2>1, <2>2, <2>3 DEF HostOf
<1>5. QED
  BY <1>2, <1>3, <1>4

-----------------------------------------------------------------------------
(* What an identifier is reduced to. *)

\* The characters of names.
LEMMA FixedTokens ==
    /\ {"@", ":", "/", "did", "web", "urn", "air", "agent", "agents"} \subseteq Token
    /\ \A t \in {"@", ":", "/", "did", "web", "urn", "air", "agent", "agents"} : Lower[t] = t
BY TokenAssumption DEF Fixed

\* The lower case of a string.
LEMMA Lowered ==
    ASSUME NEW s \in Seq(Token)
    PROVE  LowerOf(s) \in Seq(Token) /\ Len(LowerOf(s)) = Len(s) /\ \A i \in 1..Len(s) : LowerOf(s)[i] = Lower[s[i]]
<1>1. Len(s) \in Nat /\ DOMAIN s = 1..Len(s) /\ \A i \in 1..Len(s) : s[i] \in Token
  OBVIOUS
<1>2. \A t \in Token : Lower[t] \in Token
  BY TokenAssumption
<1>3. LowerOf(s) = [i \in 1..Len(s) |-> Lower[s[i]]]
  BY <1>1 DEF LowerOf
<1>4. \A i \in 1..Len(s) : Lower[s[i]] \in Token
  BY <1>1, <1>2
<1>5. QED
  BY <1>1, <1>3, <1>4

\* The forms of an identifier, by its first characters.
LEMMA Forms ==
    ASSUME NEW v \in Seq(Token)
    PROVE  /\ IsHandle(v) => Len(v) >= 1 /\ v[1] = "@"
           /\ IsDid(v) => Len(v) >= 2 /\ v[1] = "did"
           /\ IsUrn(v) => Len(v) >= 2 /\ Lower[v[1]] = "urn"
           /\ IsAir(v) => Len(v) >= 4 /\ IsUrn(v)
<1> DEFINE at == <<"@">>
           did == <<"did", ":">>
           urn == <<"urn", ":">>
           air == <<"urn", ":", "air", ":">>
           l == LowerOf(v)
<1>1. /\ at \in Seq(Token) /\ Len(at) = 1 /\ at[1] = "@"
      /\ did \in Seq(Token) /\ Len(did) = 2 /\ did[1] = "did"
      /\ urn \in Seq(Token) /\ Len(urn) = 2 /\ urn[1] = "urn" /\ urn[2] = ":"
      /\ air \in Seq(Token) /\ Len(air) = 4 /\ air[1] = "urn" /\ air[2] = ":"
  BY FixedTokens
<1>2. l \in Seq(Token) /\ Len(l) = Len(v) /\ \A i \in 1..Len(v) : l[i] = Lower[v[i]]
  BY Lowered
<1> HIDE DEF at, did, urn, air, l
<1>3. IsPrefix(at, v) => Len(v) >= 1 /\ v[1] = "@"
  <2>1. IsPrefix(at, v) => Slice(at, v, 0, Len(at)) /\ Len(at) <= Len(v)
    BY <1>1, PrefixFacts
  <2>2. 1 \in 1..1 /\ 0 + 1 = 1
    OBVIOUS
  <2>3. QED
    BY <1>1, <2>1, <2>2 DEF Slice
<1>4. IsPrefix(did, v) => Len(v) >= 2 /\ v[1] = "did"
  <2>1. IsPrefix(did, v) => Slice(did, v, 0, Len(did)) /\ Len(did) <= Len(v)
    BY <1>1, PrefixFacts
  <2>2. 1 \in 1..2 /\ 0 + 1 = 1
    OBVIOUS
  <2>3. QED
    BY <1>1, <2>1, <2>2 DEF Slice
<1>5. IsPrefix(urn, l) <=> Len(l) >= 2 /\ l[1] = "urn" /\ l[2] = ":"
  <2>1. IsPrefix(urn, l) <=> Slice(urn, l, 0, Len(urn)) /\ Len(urn) <= Len(l)
    BY <1>1, <1>2, PrefixFacts
  <2>2. \A i \in 1..2 : (i = 1 \/ i = 2) /\ 0 + i = i
    OBVIOUS
  <2>3. 1 \in 1..2 /\ 2 \in 1..2
    OBVIOUS
  <2>4. Slice(urn, l, 0, 2) <=> \A i \in 1..2 : urn[i] = l[0 + i]
    BY <1>1 DEF Slice
  <2>5. (\A i \in 1..2 : urn[i] = l[0 + i]) <=> urn[1] = l[1] /\ urn[2] = l[2]
    BY <2>2, <2>3
  <2>6. QED
    BY <1>1, <1>2, <2>1, <2>4, <2>5
<1>6. IsPrefix(air, l) => Len(l) >= 4 /\ l[1] = "urn" /\ l[2] = ":"
  <2>1. IsPrefix(air, l) => Slice(air, l, 0, Len(air)) /\ Len(air) <= Len(l)
    BY <1>1, <1>2, PrefixFacts
  <2>2. 1 \in 1..4 /\ 2 \in 1..4 /\ 0 + 1 = 1 /\ 0 + 2 = 2
    OBVIOUS
  <2>3. QED
    BY <1>1, <2>1, <2>2 DEF Slice
<1>7. (IsHandle(v) <=> IsPrefix(at, v)) /\ (IsDid(v) <=> IsPrefix(did, v))
  BY DEF IsHandle, IsDid, at, did
<1>8. (IsUrn(v) <=> IsPrefix(urn, l)) /\ (IsAir(v) <=> IsPrefix(air, l))
  BY DEF IsUrn, IsAir, urn, air, l
<1>9. Len(v) \in Nat
  OBVIOUS
<1>10. IsUrn(v) => Len(v) >= 2 /\ Lower[v[1]] = "urn"
  BY <1>2, <1>5, <1>8, <1>9
<1>11. IsAir(v) => Len(v) >= 4 /\ IsUrn(v)
  BY <1>2, <1>5, <1>6, <1>8, <1>9
<1>12. QED
  BY <1>3, <1>4, <1>7, <1>10, <1>11

\* Each form is reduced in its way, and what has none of them is taken whole.
LEMMA ParseCases ==
    ASSUME NEW v \in Seq(Token)
    PROVE  /\ v = <<>> => Parse(v) = {}
           /\ IsHandle(v) => Parse(v) = ParseHandle(Tail(v))
           /\ IsDid(v) => Parse(v) = ParseDid(v)
           /\ IsAir(v) => Parse(v) = ParseAir(Skip(v, 4))
           /\ IsUrn(v) /\ ~IsAir(v) => Parse(v) = {}
           /\ v # <<>> /\ ~IsHandle(v) /\ ~IsDid(v) /\ ~IsUrn(v) => Parse(v) = {v}
<1>1. v = <<>> => ~IsHandle(v) /\ ~IsDid(v) /\ ~IsUrn(v)
  <2>1. v = <<>> => ~(Len(v) >= 1) /\ ~(Len(v) >= 2)
    OBVIOUS
  <2>2. QED
    BY <2>1, Forms, Zenon
<1>2. ~(IsHandle(v) /\ IsDid(v)) /\ ~(IsHandle(v) /\ IsUrn(v)) /\ ~(IsDid(v) /\ IsUrn(v))
  BY Forms, FixedTokens
<1>3. IsAir(v) => IsUrn(v)
  BY Forms
<1>4. QED
  BY <1>1, <1>2, <1>3 DEF Parse

\* What is reduced is shorter than the identifier, if that has one of the forms.
LEMMA Shorter ==
    ASSUME NEW v \in Seq(Token), IsHandle(v) \/ IsDid(v) \/ IsUrn(v), NEW x \in Parse(v)
    PROVE  Len(x) < Len(v)
<1>1. Len(v) \in Nat /\ v # <<>> /\ Len(v) >= 1
  <2>1. Len(v) \in Nat /\ (v = <<>> => ~(Len(v) >= 1))
    OBVIOUS
  <2>2. Len(v) >= 1
    <3>1. IsHandle(v) => Len(v) >= 1
      BY Forms
    <3>2. IsDid(v) \/ IsUrn(v) => Len(v) >= 2
      BY Forms
    <3>3. QED
      BY <2>1, <3>1, <3>2
  <2>3. QED
    BY <2>1, <2>2
<1>2. \A y, z : y \in OrNone(z) => y = z
  BY DEF OrNone
<1>3. CASE IsHandle(v)
  <2> DEFINE b == Tail(v)
  <2>1. b \in Seq(Token) /\ Len(b) < Len(v) /\ Len(b) \in Nat
    BY <1>1
  <2>2. x \in ParseHandle(b)
    BY <1>3, ParseCases
  <2> HIDE DEF b
  <2>3. x = b \/ x = After(b, "/")
    BY <1>2, <2>2 DEF ParseHandle
  <2>4. Len(After(b, "/")) <= Len(b) /\ After(b, "/") \in Seq(Token)
    BY <2>1, PartLengths
  <2>5. Len(After(b, "/")) \in Nat
    BY <2>4
  <2>6. QED
    BY <1>1, <2>1, <2>3, <2>4, <2>5
<1>4. CASE IsDid(v)
  <2> DEFINE pre == DidPrefix("web", Stripped(Home.provider))
             w == Skip(v, Len(pre))
  <2>1. pre \in Seq(Token) /\ Len(pre) \in Nat /\ Len(pre) > 0
    <3> DEFINE four == <<"did", ":", "web", ":">>
               colon == <<":">>
               host == Stripped(Home.provider)
    <3>1. four \in Seq(Token) /\ Len(four) = 4 /\ colon \in Seq(Token) /\ Len(colon) = 1
      BY FixedTokens
    <3>2. host \in Seq(Token) /\ Len(host) \in Nat
      BY StrippedOf, RegistryAssumption
    <3>3. pre = (four \o host) \o colon
      BY DEF DidPrefix
    <3> HIDE DEF four, colon, host, pre
    <3> DEFINE fh == four \o host
    <3>4. four \in Seq(Token) /\ host \in Seq(Token)
      BY <3>1, <3>2
    <3>5. fh \in Seq(Token)
      BY <3>4, Joined
    <3>6. Len(fh) = Len(four) + Len(host)
      BY <3>4, Joined
    <3> HIDE DEF fh
    <3>7. colon \in Seq(Token)
      BY <3>1
    <3>8. fh \o colon \in Seq(Token)
      BY <3>5, <3>7, Joined
    <3>9. Len(fh \o colon) = Len(fh) + Len(colon)
      BY <3>5, <3>7, Joined
    <3>10. pre = fh \o colon
      BY <3>3 DEF fh
    <3>11. pre \in Seq(Token) /\ Len(pre) = Len(four) + Len(host) + Len(colon)
      BY <3>6, <3>8, <3>9, <3>10
    <3>12. QED
      BY <3>1, <3>2, <3>11
  <2>2. IsPrefix(pre, v) /\ x = LastPart(w, ":")
    BY <1>2, <1>4, ParseCases DEF ParseDid
  <2> HIDE DEF pre
  <2>3. Len(pre) <= Len(v) /\ w \in Seq(Token) /\ Len(w) = Len(v) - Len(pre)
    BY <2>1, <2>2, PrefixFacts
  <2> HIDE DEF w
  <2>4. Len(LastPart(w, ":")) <= Len(w) /\ LastPart(w, ":") \in Seq(Token)
    BY <2>3, PartLengths
  <2>5. Len(LastPart(w, ":")) \in Nat
    BY <2>4
  <2>6. QED
    BY <1>1, <2>1, <2>2, <2>3, <2>4, <2>5
<1>5. CASE IsAir(v)
  <2> DEFINE r == Skip(v, 4)
             d == After(r, ":")
  <2>1. Len(v) >= 4
    BY <1>5, Forms
  <2>2. r \in Seq(Token) /\ Len(r) = Len(v) - 4
    <3>1. Slice(SubSeq(v, 4 + 1, Len(v)), v, 4, Len(v) - 4)
      BY <2>1, SliceFrom
    <3>2. QED
      BY <3>1 DEF Slice, Skip
  <2>3. x = LastPart(d, ":")
    BY <1>2, <1>5, ParseCases DEF ParseAir
  <2> HIDE DEF r
  <2>4. d \in Seq(Token) /\ Len(d) <= Len(r)
    BY <2>2, PartLengths
  <2> HIDE DEF d
  <2>5. Len(LastPart(d, ":")) <= Len(d) /\ LastPart(d, ":") \in Seq(Token)
    BY <2>4, PartLengths
  <2>6. Len(d) \in Nat /\ Len(LastPart(d, ":")) \in Nat
    BY <2>4, <2>5
  <2>7. QED
    BY <1>1, <2>1, <2>2, <2>3, <2>4, <2>5, <2>6
<1>6. CASE IsUrn(v) /\ ~IsAir(v)
  BY <1>6, ParseCases
<1>7. QED
  BY <1>3, <1>4, <1>5, <1>6

\* A bare identifier stands for itself unless it has the form of another name.
LEMMA BareName ==
    ASSUME NEW v \in Seq(Token)
    PROVE  Parse(v) = {v} <=> v # <<>> /\ ~IsHandle(v) /\ ~IsDid(v) /\ ~IsUrn(v)
<1>1. ASSUME IsHandle(v) \/ IsDid(v) \/ IsUrn(v) PROVE Parse(v) # {v}
  <2>1. v \in Parse(v) => Len(v) < Len(v)
    BY <1>1, Shorter
  <2>2. ~(Len(v) < Len(v))
    OBVIOUS
  <2>3. QED
    BY <2>1, <2>2
<1>2. QED
  BY <1>1, ParseCases

\* Concatenation is associative.
LEMMA Associative ==
    ASSUME NEW s \in Seq(Token), NEW t \in Seq(Token), NEW u \in Seq(Token)
    PROVE  (s \o t) \o u = s \o (t \o u)
BY ConcatAssociative

\* Strings under concatenation, without what they are made of.
Text == Seq(Token)
Cat(s, w) == s \o w

\* Texts make a text, and it does not matter from which side they are joined.
LEMMA CatIsText ==
    /\ \A s, w \in Text : Cat(s, w) \in Text
    /\ \A s, w, u \in Text : Cat(Cat(s, w), u) = Cat(s, Cat(w, u))
BY Joined, Associative DEF Text, Cat

\* The pieces of a handle, joined in the ways that it is cut.
LEMMA FivePieces ==
    ASSUME NEW i \in Text, NEW c \in Text, NEW n \in Text, NEW h \in Text, NEW d \in Text, NEW at \in Text,
           NEW y, y = Cat(i, Cat(c, n)), NEW b, b = Cat(Cat(Cat(Cat(i, c), n), h), d)
    PROVE  /\ y \in Text /\ b \in Text /\ Cat(n, Cat(h, d)) \in Text /\ Cat(at, y) \in Text
           /\ b = Cat(y, Cat(h, d)) /\ b = Cat(i, Cat(c, Cat(n, Cat(h, d))))
           /\ Cat(at, b) = Cat(Cat(at, y), Cat(h, d))
<1> DEFINE hd == Cat(h, d)
           cn == Cat(c, n)
<1>1. cn \in Text /\ hd \in Text /\ y \in Text /\ Cat(n, hd) \in Text /\ Cat(at, y) \in Text /\ Cat(y, hd) \in Text
  BY CatIsText
<1>2. b = Cat(y, hd)
  <2>1. Cat(Cat(i, c), n) = y
    BY CatIsText
  <2>2. Cat(Cat(y, h), d) = Cat(y, hd)
    BY <1>1, CatIsText
  <2>3. QED
    BY <2>1, <2>2
<1>3. Cat(y, hd) = Cat(i, Cat(c, Cat(n, hd)))
  <2>1. Cat(cn, hd) = Cat(c, Cat(n, hd))
    BY <1>1, CatIsText
  <2> HIDE DEF cn
  <2>2. Cat(Cat(i, cn), hd) = Cat(i, Cat(cn, hd))
    BY <1>1, CatIsText
  <2>3. QED
    BY <2>1, <2>2, Zenon DEF cn
<1>4. Cat(at, Cat(y, hd)) = Cat(Cat(at, y), hd)
  BY <1>1, CatIsText
<1>5. QED
  BY <1>1, <1>2, <1>3, <1>4

\* The handle of an id d in namespace n of registry i, without its first character:
\* what its scope and its id are.
LEMMA HandleBody ==
    ASSUME NEW i \in Seq(Token), NEW n \in Seq(Token), NEW d \in Seq(Token),
           NEW b, b = Cat(Cat(Cat(Cat(i, <<":">>), n), <<"/">>), d)
    PROVE  /\ b \in Seq(Token) /\ HostOf(b) = HostOf(i) /\ Contains(b, "/")
           /\ ~Contains(i, "/") /\ ~Contains(n, "/") => After(b, "/") = d
           /\ Contains(n, "/") => Len(After(b, "/")) > Len(d)
           /\ LastPart(<<"@">> \o b, "/") = LastPart(d, "/")
           /\ Contains(<<"@">> \o b, "/")
<1> DEFINE colon == <<":">>
           slash == <<"/">>
           at == <<"@">>
           cn == colon \o n
           y == i \o cn
           sd == slash \o d
<1>1. colon \in Seq(Token) /\ slash \in Seq(Token) /\ at \in Seq(Token)
  BY FixedTokens
<1>2. cn \in Seq(Token) /\ sd \in Seq(Token) /\ Contains(sd, "/") /\ (Contains(cn, "/") <=> Contains(n, "/"))
  <2>1. ":" \in Token /\ "/" \in Token /\ ":" # "/"
    BY FixedTokens
  <2>2. cn \in Seq(Token) /\ (Contains(cn, "/") <=> ":" = "/" \/ Contains(n, "/"))
    BY <2>1, OneCharacter
  <2>3. sd \in Seq(Token) /\ (Contains(sd, "/") <=> "/" = "/" \/ Contains(d, "/"))
    BY <2>1, OneCharacter
  <2>4. QED
    BY <2>1, <2>2, <2>3
<1>3. i \in Seq(Token) /\ n \in Seq(Token) /\ d \in Seq(Token) /\ b = Cat(Cat(Cat(Cat(i, colon), n), slash), d)
  OBVIOUS
<1> HIDE DEF colon, slash, at
<1>4. /\ y \in Seq(Token) /\ n \o sd \in Seq(Token) /\ b \in Seq(Token) /\ at \o y \in Seq(Token)
      /\ b = y \o sd /\ b = i \o (colon \o (n \o sd)) /\ at \o b = (at \o y) \o sd
  <2>1. /\ i \in Text /\ colon \in Text /\ n \in Text /\ slash \in Text /\ d \in Text /\ at \in Text
        /\ y = Cat(i, Cat(colon, n)) /\ b = Cat(Cat(Cat(Cat(i, colon), n), slash), d)
    BY <1>1, <1>3, Zenon DEF Text, Cat
  <2> HIDE DEF y
  <2>2. /\ y \in Text /\ b \in Text /\ Cat(n, Cat(slash, d)) \in Text /\ Cat(at, y) \in Text
        /\ b = Cat(y, Cat(slash, d)) /\ b = Cat(i, Cat(colon, Cat(n, Cat(slash, d))))
        /\ Cat(at, b) = Cat(Cat(at, y), Cat(slash, d))
    BY <2>1, FivePieces
  <2>3. QED
    BY <2>2, Zenon DEF sd, Text, Cat
<1> HIDE DEF cn, sd
<1>5. cn \in Seq(Token) /\ sd \in Seq(Token)
  BY <1>2
<1>6. b = y \o sd
  BY <1>4
<1>7. y \in Seq(Token)
  BY <1>4
<1>8. Contains(y, "/") <=> Contains(i, "/") \/ Contains(n, "/")
  <2>1. Contains(i \o cn, "/") <=> Contains(i, "/") \/ Contains(cn, "/")
    BY <1>5, JoinedPlaces
  <2>2. QED
    BY <1>2, <2>1
<1> HIDE DEF y
<1>9. b \in Seq(Token) /\ HostOf(b) = HostOf(i)
  <2>2. \A w \in Seq(Token) : HostOf(i \o (colon \o w)) = HostOf(i)
    BY Hosts DEF colon
  <2>3. HostOf(i \o (colon \o (n \o sd))) = HostOf(i)
    BY <1>4, <2>2, Zenon
  <2>4. QED
    BY <1>4, <2>3, Zenon
<1>10. "/" \in Token
  BY FixedTokens
<1>11. /\ ~Contains(y, "/") => After(y \o sd, "/") = d
       /\ Contains(y, "/") => Len(After(y \o sd, "/")) > Len(d)
  BY <1>7, <1>10, CutAt DEF sd, slash
<1>12. Contains(b, "/")
  <2>1. Contains(y \o sd, "/") <=> Contains(y, "/") \/ Contains(sd, "/")
    BY <1>7, <1>5, JoinedPlaces
  <2>2. QED
    BY <1>2, <1>6, <2>1
<1>13. LastPart((at \o y) \o sd, "/") = LastPart(d, "/") /\ Contains((at \o y) \o sd, "/")
  <2> DEFINE z == at \o y
  <2>1. z \in Seq(Token)
    BY <1>4
  <2> HIDE DEF z
  <2>2. LastPart(z \o sd, "/") = LastPart(d, "/")
    BY <2>1, <1>10, CutAt DEF sd, slash
  <2>3. Contains(z \o sd, "/") <=> Contains(z, "/") \/ Contains(sd, "/")
    BY <2>1, <1>5, JoinedPlaces
  <2>4. Contains(z \o sd, "/")
    BY <1>2, <2>3
  <2>5. QED
    BY <2>2, <2>4 DEF z
<1>14. LastPart(at \o b, "/") = LastPart(d, "/") /\ Contains(at \o b, "/")
  BY <1>4, <1>13, Zenon
<1>15. /\ ~Contains(i, "/") /\ ~Contains(n, "/") => After(b, "/") = d
       /\ Contains(n, "/") => Len(After(b, "/")) > Len(d)
  BY <1>6, <1>8, <1>11
<1>16. QED
  BY <1>9, <1>12, <1>14, <1>15 DEF at

\* What follows the first character.
LEMMA TailOf ==
    ASSUME NEW c \in Token, NEW w \in Seq(Token)
    PROVE  Tail(<<c>> \o w) = w
<1> DEFINE v == <<c>> \o w
           one == <<c>>
<1>1. one \in Seq(Token) /\ Len(one) = 1
  BY OneCharacter
<1> HIDE DEF one
<1>2. /\ v \in Seq(Token) /\ Len(v) = Len(one) + Len(w)
      /\ \A i \in 1..Len(w) : v[Len(one) + i] = w[i]
  BY <1>1, Joined DEF one
<1>3. Len(w) \in Nat
  OBVIOUS
<1> HIDE DEF v
<1>4. v # <<>> /\ Len(v) = 1 + Len(w) /\ \A i \in 1..Len(w) : v[i + 1] = w[i]
  BY <1>1, <1>2, <1>3
<1>5. Tail(v) \in Seq(Token) /\ Len(Tail(v)) = Len(w) /\ \A i \in 1..Len(w) : Tail(v)[i] = v[i + 1]
  BY <1>2, <1>3, <1>4
<1>6. Tail(v) = w
  BY <1>4, <1>5, SeqEqual
<1>7. QED
  BY <1>6 DEF v

\* What a handle is reduced to.
LEMMA HandleName ==
    ASSUME NEW i \in Seq(Token), NEW n \in Seq(Token), NEW d \in Seq(Token),
           NEW b, b = Cat(Cat(Cat(Cat(i, <<":">>), n), <<"/">>), d)
    PROVE  Parse(<<"@">> \o b) = IF HostOf(i) = Home.id THEN OrNone(After(b, "/")) ELSE {}
<1> DEFINE v == <<"@">> \o b
           at == <<"@">>
<1>1. b \in Seq(Token) /\ HostOf(b) = HostOf(i) /\ Contains(b, "/")
  BY HandleBody
<1>2. "@" \in Token /\ at \in Seq(Token)
  BY FixedTokens
<1>3. Tail(v) = b /\ v \in Seq(Token)
  BY <1>1, <1>2, TailOf, OneCharacter
<1>4. IsPrefix(at, at \o b)
  BY <1>1, <1>2, PrefixOfJoined
<1>5. IsHandle(v)
  BY <1>4 DEF IsHandle
<1> HIDE DEF v, at
<1>6. Parse(v) = ParseHandle(b)
  BY <1>3, <1>5, ParseCases
<1>7. QED
  BY <1>1, <1>6 DEF ParseHandle, v

\* A set of what may be no id is that of an id if it is that id.
LEMMA OneId ==
    ASSUME NEW x, NEW d
    PROVE  OrNone(x) = {d} <=> x = d /\ d # <<>>
BY DEF OrNone

\* The handle of an agent is reduced to its id unless it is cut elsewhere.
LEMMA OwnHandle ==
    ASSUME NEW n \in Seq(Token), NEW d \in Seq(Token),
           NEW b, b = Cat(Cat(Cat(Cat(Home.id, <<":">>), n), <<"/">>), d)
    PROVE  Parse(<<"@">> \o b) = {d} <=> d # <<>> /\ ~Contains(n, "/") /\ HostOf(Home.id) = Home.id
<1>1. Home.id \in Seq(Token)
  BY RegistryAssumption
<1>2. Parse(<<"@">> \o b) = IF HostOf(Home.id) = Home.id THEN OrNone(After(b, "/")) ELSE {}
  BY <1>1, HandleName
<1>3. /\ ~Contains(Home.id, "/") /\ ~Contains(n, "/") => After(b, "/") = d
      /\ Contains(n, "/") => Len(After(b, "/")) > Len(d)
  BY <1>1, HandleBody
<1>4. HostOf(Home.id) = Home.id => ~Contains(Home.id, "/")
  BY <1>1, Hosts
<1>5. ~(Len(d) > Len(d))
  OBVIOUS
<1>6. Contains(n, "/") => After(b, "/") # d
  BY <1>3, <1>5
<1>7. HostOf(Home.id) = Home.id => (After(b, "/") = d <=> ~Contains(n, "/"))
  BY <1>3, <1>4, <1>6
<1>8. QED
  BY <1>2, <1>7, OneId

\* Of two strings that are prefix and whole, so are what follows beginnings of one length,
\* and these are the same.
LEMMA PrefixCancel ==
    ASSUME NEW p \in Seq(Token), NEW q \in Seq(Token), NEW x \in Seq(Token), NEW t \in Seq(Token),
           Len(p) = Len(q), IsPrefix(p \o x, q \o t)
    PROVE  p = q /\ t = x \o Skip(t, Len(x)) /\ Skip(t, Len(x)) \in Seq(Token)
<1> DEFINE px == p \o x
           v == q \o t
           k == Len(p)
           m == Len(x)
           n == Len(t)
<1>1. px \in Seq(Token) /\ Len(px) = k + m /\ (\A i \in 1..k : px[i] = p[i]) /\ (\A i \in 1..m : px[k + i] = x[i])
  BY Joined
<1>2. v \in Seq(Token) /\ Len(v) = Len(q) + n /\ (\A i \in 1..Len(q) : v[i] = q[i])
      /\ (\A i \in 1..n : v[Len(q) + i] = t[i])
  BY Joined
<1>3. k \in Nat /\ m \in Nat /\ n \in Nat /\ Len(q) = k
  OBVIOUS
<1>4. IsPrefix(px, v)
  OBVIOUS
<1> HIDE DEF px, v, k, m, n
<1>5. Slice(px, v, 0, Len(px)) /\ Len(px) <= Len(v)
  BY <1>1, <1>2, <1>4, PrefixFacts
<1>6. \A i \in 1..k + m : px[i] = v[0 + i] /\ 0 + i = i
  BY <1>1, <1>3, <1>5 DEF Slice
<1>7. m <= n
  BY <1>1, <1>2, <1>3, <1>5
<1>8. p = q
  <2>1. ASSUME NEW i \in 1..k PROVE p[i] = q[i]
    <3>1. i \in 1..k + m
      BY <1>3
    <3>2. px[i] = v[i] /\ px[i] = p[i] /\ v[i] = q[i]
      BY <1>1, <1>2, <1>3, <1>6, <3>1
    <3>3. QED
      BY <3>2
  <2>2. QED
    BY <1>3, <2>1, SeqEqual DEF k
<1>9. Slice(x, t, 0, m)
  <2>1. ASSUME NEW i \in 1..m PROVE x[i] = t[0 + i]
    <3>1. k + i \in 1..k + m /\ i \in 1..n /\ 0 + i = i
      BY <1>3, <1>7
    <3>2. px[k + i] = v[k + i] /\ px[k + i] = x[i] /\ v[k + i] = t[i]
      BY <1>1, <1>2, <1>3, <1>6, <3>1
    <3>3. QED
      BY <3>1, <3>2
  <2>2. QED
    BY <2>1 DEF Slice, m
<1>10. IsPrefix(x, t)
  BY <1>7, <1>9, PrefixFacts DEF m, n
<1>11. t = x \o Skip(t, m) /\ Skip(t, m) \in Seq(Token)
  BY <1>7, <1>10, PrefixFacts DEF m, n
<1>12. QED
  BY <1>8, <1>11 DEF m

\* A DID is its scheme and method, its authority, and what follows the next colon.
LEMMA DidPieces ==
    ASSUME NEW m \in Token, NEW u \in Seq(Token), NEW r \in Seq(Token)
    PROVE  /\ <<"did", ":", m, ":">> \in Seq(Token) /\ <<":">> \in Seq(Token)
           /\ Cat(u, Cat(<<":">>, r)) \in Seq(Token) /\ DidPrefix(m, u) \in Seq(Token)
           /\ DidPrefix(m, u) = Cat(<<"did", ":", m, ":">>, Cat(u, <<":">>))
           /\ DidPrefix(m, u) \o r = Cat(<<"did", ":", m, ":">>, Cat(u, Cat(<<":">>, r)))
<1> DEFINE four == <<"did", ":", m, ":">>
           colon == <<":">>
<1>1. four \in Seq(Token) /\ colon \in Seq(Token)
  BY FixedTokens
<1>2. DidPrefix(m, u) = Cat(Cat(four, u), colon) /\ DidPrefix(m, u) \o r = Cat(Cat(Cat(four, u), colon), r)
  BY Zenon DEF DidPrefix, Cat
<1> HIDE DEF four, colon
<1>3. four \in Text /\ colon \in Text /\ u \in Text /\ r \in Text
  BY <1>1 DEF Text
<1>4. /\ Cat(u, Cat(colon, r)) \in Text /\ Cat(Cat(four, u), colon) \in Text
      /\ Cat(Cat(four, u), colon) = Cat(four, Cat(u, colon))
  BY <1>3, CatIsText
<1>5. Cat(Cat(Cat(four, u), colon), r) = Cat(four, Cat(u, Cat(colon, r)))
  <2>1. Cat(u, colon) \in Text
    BY <1>3, CatIsText
  <2>2. Cat(Cat(four, Cat(u, colon)), r) = Cat(four, Cat(Cat(u, colon), r))
    BY <1>3, <2>1, CatIsText
  <2>3. Cat(Cat(u, colon), r) = Cat(u, Cat(colon, r))
    BY <1>3, CatIsText
  <2>4. QED
    BY <1>4, <2>2, <2>3, Zenon
<1>6. QED
  BY <1>1, <1>2, <1>4, <1>5, Zenon DEF Text, four, colon

\* A DID has the form of one.
LEMMA DidForm ==
    ASSUME NEW m \in Token, NEW t \in Seq(Token)
    PROVE  IsDid(Cat(<<"did", ":", m, ":">>, t)) /\ Cat(<<"did", ":", m, ":">>, t) \in Seq(Token)
<1> DEFINE four == <<"did", ":", m, ":">>
           did == <<"did", ":">>
           v == four \o t
<1>1. four \in Seq(Token) /\ Len(four) = 4 /\ four[1] = "did" /\ four[2] = ":"
  BY FixedTokens
<1>2. did \in Seq(Token) /\ Len(did) = 2 /\ did[1] = "did" /\ did[2] = ":"
  BY FixedTokens
<1> HIDE DEF four, did
<1>3. v \in Seq(Token) /\ Len(v) = Len(four) + Len(t) /\ \A i \in 1..Len(four) : v[i] = four[i]
  BY <1>1, Joined
<1> HIDE DEF v
<1>4. v[1] = "did" /\ v[2] = ":" /\ Len(did) <= Len(v)
  <2>1. Len(t) \in Nat /\ 1 \in 1..4 /\ 2 \in 1..4
    OBVIOUS
  <2>2. QED
    BY <1>1, <1>2, <1>3, <2>1
<1>5. \A i \in 1..Len(did) : did[i] = v[0 + i]
  <2>1. \A i \in 1..2 : i = 1 \/ i = 2
    OBVIOUS
  <2>2. 0 + 1 = 1 /\ 0 + 2 = 2
    OBVIOUS
  <2>3. QED
    BY <1>2, <1>4, <2>1, <2>2
<1>6. IsPrefix(did, v)
  BY <1>2, <1>3, <1>4, <1>5, PrefixFacts DEF Slice
<1>7. QED
  BY <1>3, <1>6 DEF IsDid, did, four, v, Cat

\* A DID that the registry reduces is of did:web, and its authority, which may be followed
\* by more, begins with the registry's own.
LEMMA DidNeeds ==
    ASSUME NEW m \in Token, NEW u \in Seq(Token), NEW r \in Seq(Token),
           Parse(DidPrefix(m, u) \o r) # {}
    PROVE  m = "web" /\ \E y \in Seq(Token) :
               Cat(u, Cat(<<":">>, r)) = Cat(Stripped(Home.provider), Cat(<<":">>, y))
<1> DEFINE us == Stripped(Home.provider)
           v == DidPrefix(m, u) \o r
           p == <<"did", ":", "web", ":">>
           q == <<"did", ":", m, ":">>
           colon == <<":">>
           x == us \o colon
           t == Cat(u, Cat(colon, r))
<1>1. us \in Seq(Token) /\ "web" \in Token
  BY RegistryAssumption, StrippedOf, FixedTokens
<1>2. q \in Seq(Token) /\ colon \in Seq(Token) /\ t \in Seq(Token) /\ v = q \o t
  BY DidPieces DEF Cat
<1>3. p \in Seq(Token) /\ DidPrefix("web", us) = p \o x
  <2> HIDE DEF us
  <2> QED BY <1>1, DidPieces DEF Cat
<1>4. Len(p) = Len(q) /\ (p = q => m = "web")
  <2>1. Len(p) = 4 /\ Len(q) = 4 /\ p[3] = "web" /\ q[3] = m
    OBVIOUS
  <2> HIDE DEF p, q
  <2>2. QED
    BY <2>1
<1>5. x \in Seq(Token)
  <2> HIDE DEF us, colon
  <2> QED BY <1>1, <1>2, Joined
<1>6. IsDid(v) /\ v \in Seq(Token)
  BY <1>2, DidForm DEF Cat
<1> HIDE DEF p, q, x, t
<1>7. IsPrefix(p \o x, v)
  <2>1. Parse(v) = ParseDid(v) /\ Parse(v) # {}
    BY <1>6, ParseCases
  <2> HIDE DEF v, us
  <2>2. IsPrefix(DidPrefix("web", us), v)
    BY <2>1 DEF ParseDid, us
  <2>3. QED
    BY <1>3, <2>2
<1>8. IsPrefix(p \o x, q \o t)
  BY <1>2, <1>7, Zenon
<1> HIDE DEF v
<1>9. p = q /\ \E y \in Seq(Token) : t = x \o y
  <2>1. p \in Seq(Token) /\ q \in Seq(Token) /\ x \in Seq(Token) /\ t \in Seq(Token) /\ Len(p) = Len(q)
    BY <1>2, <1>3, <1>4, <1>5
  <2>2. p = q
    BY <1>8, <2>1, PrefixCancel
  <2>3. t = x \o Skip(t, Len(x))
    BY <1>8, <2>1, PrefixCancel
  <2>4. Skip(t, Len(x)) \in Seq(Token)
    BY <1>8, <2>1, PrefixCancel
  <2>5. QED
    BY <2>2, <2>3, <2>4, Zenon
<1>10. PICK y \in Seq(Token) : t = x \o y
  BY <1>9, Zenon
<1>11. (us \o colon) \o y = us \o (colon \o y)
  <2>1. us \in Text /\ colon \in Text /\ y \in Text
    BY <1>1, <1>2 DEF Text
  <2> HIDE DEF us, colon
  <2>2. Cat(Cat(us, colon), y) = Cat(us, Cat(colon, y))
    BY <2>1, CatIsText
  <2>3. QED
    BY <2>2, Zenon DEF Cat
<1>12. t = Cat(us, Cat(colon, y))
  BY <1>10, <1>11, Zenon DEF x, Cat
<1>13. QED
  BY <1>4, <1>9, <1>12, Zenon DEF t, us, colon

\* A DID of a provider of another host is not reduced.
LEMMA PeerDid ==
    ASSUME NEW m \in Token, NEW u \in Seq(Token), NEW r \in Seq(Token), HostOf(u) # HostOf(Home.provider)
    PROVE  Parse(DidPrefix(m, u) \o r) = {}
<1> SUFFICES ASSUME Parse(DidPrefix(m, u) \o r) # {} PROVE FALSE
  OBVIOUS
<1> DEFINE us == Stripped(Home.provider)
<1>1. us \in Seq(Token) /\ HostOf(us) = HostOf(Home.provider)
  BY RegistryAssumption, StrippedOf, Hosts
<1>2. PICK y \in Seq(Token) : Cat(u, Cat(<<":">>, r)) = Cat(us, Cat(<<":">>, y))
  BY DidNeeds
<1> HIDE DEF us
<1>3. HostOf(Cat(u, Cat(<<":">>, r))) = HostOf(u)
  BY Hosts DEF Cat
<1>4. HostOf(Cat(us, Cat(<<":">>, y))) = HostOf(us)
  BY <1>1, Hosts DEF Cat
<1>5. QED
  BY <1>1, <1>2, <1>3, <1>4, Zenon

\* The registry's own DIDs are not reduced if they are not of did:web, or their authority
\* ends in a slash.
LEMMA OwnDidNeeds ==
    ASSUME NEW r \in Seq(Token), Parse(DidPrefix(Home.method, Home.provider) \o r) # {}
    PROVE  Home.method = "web" /\ Stripped(Home.provider) = Home.provider
<1> DEFINE u == Home.provider
           us == Stripped(u)
           colon == <<":">>
           slash == <<"/">>
<1>1. /\ u \in Seq(Token) /\ us \in Seq(Token) /\ colon \in Seq(Token) /\ slash \in Seq(Token)
      /\ Home.method \in Token /\ colon[1] = ":" /\ slash[1] = "/" /\ Len(colon) = 1 /\ Len(slash) = 1
  BY RegistryAssumption, StrippedOf, FixedTokens
<1>2. Home.method = "web"
  BY <1>1, DidNeeds
<1>3. PICK y \in Seq(Token) : Cat(u, Cat(colon, r)) = Cat(us, Cat(colon, y))
  BY <1>1, DidNeeds
<1>4. ASSUME NEW w \in Seq(Token), u = us \o (slash \o w) PROVE FALSE
  <2> HIDE DEF u, us, colon, slash
  <2>1. colon \in Text /\ slash \in Text /\ us \in Text /\ r \in Text /\ w \in Text /\ y \in Text
    BY <1>1 DEF Text
  <2>2. u = Cat(us, Cat(slash, w))
    BY <1>4 DEF Cat
  <2> DEFINE cr == Cat(colon, r)
             sw == Cat(slash, w)
             cy == Cat(colon, y)
             rest == Cat(slash, Cat(w, cr))
  <2>3. cr \in Text /\ sw \in Text /\ cy \in Text /\ Cat(w, cr) \in Text /\ rest \in Text
    BY <2>1, CatIsText
  <2>4. Cat(sw, cr) = rest
    BY <2>1, <2>3, CatIsText
  <2> HIDE DEF cr, sw, cy, rest
  <2>5. Cat(Cat(us, sw), cr) = Cat(us, Cat(sw, cr))
    BY <2>1, <2>3, CatIsText
  <2>6. Cat(us, cy) = Cat(us, rest)
    BY <1>3, <2>2, <2>4, <2>5 DEF cr, sw, cy
  <2>7. cy = rest
    <3>1. cy \in Seq(Token) /\ rest \in Seq(Token)
      BY <2>3 DEF Text
    <3>2. Skip(us \o cy, Len(us)) = cy /\ Skip(us \o rest, Len(us)) = rest
      BY <1>1, <3>1, PrefixOfJoined
    <3>3. us \o cy = us \o rest
      BY <2>6, Zenon DEF Cat
    <3>4. QED
      BY <3>2, <3>3, Zenon
  <2>8. cy[1] = ":" /\ rest[1] = "/"
    <3>1. Cat(w, cr) \in Seq(Token) /\ ":" \in Token /\ "/" \in Token
      BY <2>3, FixedTokens DEF Text
    <3>2. Cat(colon, y)[1] = ":"
      BY <3>1, OneCharacter DEF Cat, colon
    <3>3. Cat(slash, Cat(w, cr))[1] = "/"
      <4> DEFINE z == Cat(w, cr)
      <4>1. z \in Seq(Token)
        BY <3>1
      <4> HIDE DEF z
      <4>2. Cat(slash, z)[1] = "/"
        BY <3>1, <4>1, OneCharacter DEF Cat, slash
      <4>3. QED
        BY <4>2 DEF z
    <3>4. QED
      BY <3>2, <3>3 DEF cy, rest
  <2>9. QED
    BY <2>7, <2>8
<1>5. QED
  BY <1>1, <1>2, <1>4, StrippedOf

\* The last part of a string is the string if it has no separator, and shorter if it has.
LEMMA WholePart ==
    ASSUME NEW d \in Seq(Token), NEW c
    PROVE  LastPart(d, c) = d <=> ~Contains(d, c)
<1>1. Contains(d, c) => Len(LastPart(d, c)) < Len(d)
  BY PartLengths
<1>2. ~(Len(d) < Len(d))
  OBVIOUS
<1>3. ~Contains(d, c) => LastPart(d, c) = d
  BY Parts
<1>4. QED
  BY <1>1, <1>2, <1>3

\* The DID of an agent is reduced to its id if it is of did:web, the provider's URL does
\* not end in a slash and the id has no colon.
LEMMA OwnDid ==
    ASSUME NEW n \in Seq(Token), NEW d \in Seq(Token),
           NEW r, r = Cat(Cat(Cat(<<"agents", ":">>, n), <<":">>), d)
    PROVE  /\ r \in Seq(Token)
           /\ Parse(DidPrefix(Home.method, Home.provider) \o r) = {d} <=>
                 d # <<>> /\ ~Contains(d, ":") /\ Home.method = "web" /\ Stripped(Home.provider) = Home.provider
<1> DEFINE u == Home.provider
           ag == <<"agents", ":">>
           colon == <<":">>
           agn == Cat(ag, n)
           cd == Cat(colon, d)
<1>1. u \in Seq(Token) /\ Home.method \in Token /\ ":" \in Token
  BY RegistryAssumption, FixedTokens
<1>2. ag \in Seq(Token) /\ colon \in Seq(Token)
  BY FixedTokens
<1> HIDE DEF u, ag, colon
<1>3. agn \in Text /\ cd \in Text /\ Cat(agn, cd) \in Text /\ Cat(Cat(agn, colon), d) = Cat(agn, cd)
  <2>1. ag \in Text /\ colon \in Text /\ n \in Text /\ d \in Text
    BY <1>2 DEF Text
  <2>2. agn \in Text /\ cd \in Text
    BY <2>1, CatIsText
  <2> HIDE DEF agn
  <2>3. Cat(agn, cd) \in Text /\ Cat(Cat(agn, colon), d) = Cat(agn, cd)
    BY <2>1, <2>2, CatIsText
  <2>4. QED
    BY <2>2, <2>3
<1>4. r = Cat(agn, cd)
  BY <1>3, Zenon DEF ag, colon
<1> HIDE DEF agn, cd
<1>5. r \in Seq(Token)
  BY <1>3, <1>4 DEF Text
<1>6. LastPart(r, ":") = LastPart(d, ":")
  <2>1. agn \in Seq(Token)
    BY <1>3 DEF Text
  <2>2. LastPart(agn \o (<<":">> \o d), ":") = LastPart(d, ":")
    BY <1>1, <2>1, CutAt
  <2>3. QED
    BY <1>4, <2>2, Zenon DEF cd, colon, Cat
<1>7. ASSUME Home.method = "web", Stripped(u) = u
      PROVE  Parse(DidPrefix(Home.method, u) \o r) = OrNone(LastPart(r, ":"))
  <2> DEFINE p == DidPrefix("web", u)
             v == p \o r
  <2>1. p \in Seq(Token) /\ v = Cat(<<"did", ":", "web", ":">>, Cat(u, Cat(<<":">>, r)))
    <3>1. u \in Seq(Token) /\ r \in Seq(Token) /\ "web" \in Token
      BY <1>1, <1>5, FixedTokens
    <3>2. DidPrefix("web", u) \in Seq(Token)
      BY <3>1, DidPieces
    <3>3. DidPrefix("web", u) \o r = Cat(<<"did", ":", "web", ":">>, Cat(u, Cat(<<":">>, r)))
      BY <3>1, DidPieces
    <3>4. QED
      BY <3>2, <3>3, Zenon
  <2>2. Cat(u, Cat(<<":">>, r)) \in Seq(Token)
    BY <1>1, <1>5, <1>7, DidPieces
  <2>3. IsDid(v) /\ v \in Seq(Token)
    BY <1>1, <1>7, <2>1, <2>2, DidForm
  <2>4. IsPrefix(p, v) /\ Skip(v, Len(p)) = r
    <3> HIDE DEF p
    <3> QED BY <1>5, <2>1, PrefixOfJoined
  <2>5. Parse(v) = ParseDid(v)
    BY <2>3, ParseCases
  <2>6. DidPrefix("web", Stripped(Home.provider)) = p
    BY <1>7 DEF u
  <2> HIDE DEF v, p
  <2>7. ParseDid(v) = OrNone(LastPart(r, ":"))
    BY <2>4, <2>6 DEF ParseDid
  <2>8. QED
    BY <1>7, <2>5, <2>7 DEF v, p
<1>8. Parse(DidPrefix(Home.method, u) \o r) = {d} => Home.method = "web" /\ Stripped(u) = u
  <2>1. Parse(DidPrefix(Home.method, u) \o r) = {d} => Parse(DidPrefix(Home.method, u) \o r) # {}
    OBVIOUS
  <2>2. QED
    BY <1>5, <2>1, OwnDidNeeds DEF u
<1>9. OrNone(LastPart(r, ":")) = {d} <=> d # <<>> /\ ~Contains(d, ":")
  <2>1. OrNone(LastPart(r, ":")) = {d} <=> LastPart(d, ":") = d /\ d # <<>>
    BY <1>6, OneId, Zenon
  <2>2. QED
    BY <2>1, WholePart
<1>10. QED
  BY <1>5, <1>7, <1>8, <1>9 DEF u

\* The identifier of a card has the form of one, and is a domain and what follows.
LEMMA AirForm ==
    ASSUME NEW t \in Seq(Token)
    PROVE  Parse(Cat(<<"urn", ":", "air", ":">>, t)) = ParseAir(t)
<1> DEFINE four == <<"urn", ":", "air", ":">>
           v == four \o t
           l == LowerOf(v)
<1>1. /\ four \in Seq(Token) /\ Len(four) = 4
      /\ four[1] = "urn" /\ four[2] = ":" /\ four[3] = "air" /\ four[4] = ":"
  BY FixedTokens
<1>2. \A i \in 1..4 : Lower[four[i]] = four[i]
  <2>1. \A i \in 1..4 : i = 1 \/ i = 2 \/ i = 3 \/ i = 4
    OBVIOUS
  <2>2. Lower["urn"] = "urn" /\ Lower[":"] = ":" /\ Lower["air"] = "air"
    BY FixedTokens
  <2> HIDE DEF four
  <2>3. QED
    BY <1>1, <2>1, <2>2
<1> HIDE DEF four
<1>3. /\ v \in Seq(Token) /\ Len(v) = Len(four) + Len(t) /\ (\A i \in 1..Len(four) : v[i] = four[i])
      /\ Skip(v, Len(four)) = t
  BY <1>1, Joined, PrefixOfJoined
<1> HIDE DEF v
<1>4. l \in Seq(Token) /\ Len(l) = Len(v) /\ \A i \in 1..Len(v) : l[i] = Lower[v[i]]
  BY <1>3, Lowered
<1> HIDE DEF l
<1>5. Len(four) <= Len(l) /\ \A i \in 1..Len(four) : four[i] = l[0 + i]
  <2>1. Len(t) \in Nat
    OBVIOUS
  <2>2. Len(v) = 4 + Len(t)
    BY <1>1, <1>3
  <2>3. ASSUME NEW i \in 1..4 PROVE four[i] = l[0 + i]
    <3>1. i \in 1..Len(v) /\ 0 + i = i /\ i \in 1..Len(four)
      BY <1>1, <2>1, <2>2
    <3>2. l[i] = Lower[v[i]] /\ v[i] = four[i] /\ Lower[four[i]] = four[i]
      BY <1>2, <1>3, <1>4, <3>1
    <3>3. QED
      BY <3>1, <3>2
  <2>4. QED
    BY <1>1, <1>4, <2>1, <2>2, <2>3
<1>6. IsPrefix(four, l)
  BY <1>1, <1>4, <1>5, PrefixFacts DEF Slice
<1>7. IsAir(v)
  BY <1>6 DEF IsAir, four, l
<1>8. Parse(v) = ParseAir(Skip(v, 4))
  BY <1>3, <1>7, ParseCases
<1>9. QED
  BY <1>1, <1>3, <1>8 DEF four, v, Cat

\* Two characters, one after the other.
LEMMA Pair ==
    ASSUME NEW c \in Token, NEW e \in Token
    PROVE  <<c>> \o <<e>> = <<c, e>>
<1> DEFINE one == <<c>>
           two == <<e>>
           both == <<c, e>>
           v == one \o two
<1>1. /\ one \in Seq(Token) /\ two \in Seq(Token) /\ both \in Seq(Token) /\ Len(one) = 1 /\ Len(two) = 1
      /\ Len(both) = 2 /\ one[1] = c /\ two[1] = e /\ both[1] = c /\ both[2] = e
  OBVIOUS
<1> HIDE DEF one, two, both
<1>2. /\ v \in Seq(Token) /\ Len(v) = Len(one) + Len(two)
      /\ \A i \in 1..Len(one) : v[i] = one[i]
      /\ \A i \in 1..Len(two) : v[Len(one) + i] = two[i]
  BY <1>1, Joined
<1> HIDE DEF v
<1>3. Len(v) = 2 /\ v[1] = c /\ v[2] = e
  <2>1. 1 \in 1..1 /\ 1 + 1 = 2
    OBVIOUS
  <2>2. QED
    BY <1>1, <1>2, <2>1
<1>4. \A i \in 1..2 : i = 1 \/ i = 2
  OBVIOUS
<1>5. \A i \in 1..Len(v) : v[i] = both[i]
  BY <1>1, <1>3, <1>4
<1>6. v = both
  BY <1>1, <1>2, <1>3, <1>5, SeqEqual
<1>7. QED
  BY <1>6 DEF v, one, two, both

\* The identifier of a card is reduced to the last part of the slug, if its domain is the
\* registry's.
LEMMA AirName ==
    ASSUME NEW l \in Seq(Token), NEW slug \in Seq(Token),
           NEW t, t = Cat(Cat(l, <<":">>), Cat(<<"agent", ":">>, slug))
    PROVE  /\ t \in Seq(Token)
           /\ ParseAir(t) = IF Anchored(l) THEN OrNone(LastPart(slug, ":")) ELSE {}
<1> DEFINE colon == <<":">>
           ag == <<"agent">>
           cs == Cat(colon, slug)
           x == Cat(ag, cs)
           cx == Cat(colon, x)
<1>1. ":" \in Token /\ colon \in Text /\ ag \in Text /\ slug \in Text /\ l \in Text
  BY FixedTokens DEF Text
<1>2. Cat(ag, colon) = <<"agent", ":">>
  <2>1. "agent" \in Token /\ ":" \in Token
    BY FixedTokens
  <2>2. QED
    BY <2>1, Pair, Zenon DEF Cat
<1> HIDE DEF colon, ag
<1>3. cs \in Text /\ x \in Text /\ cx \in Text /\ Cat(l, cx) \in Text
  <2>1. cs \in Text
    BY <1>1, CatIsText
  <2> HIDE DEF cs
  <2>2. x \in Text
    BY <1>1, <2>1, CatIsText
  <2> HIDE DEF x
  <2>3. cx \in Text
    BY <1>1, <2>2, CatIsText
  <2> HIDE DEF cx
  <2>4. Cat(l, cx) \in Text
    BY <1>1, <2>3, CatIsText
  <2>5. QED
    BY <2>1, <2>2, <2>3, <2>4
<1>4. t = Cat(l, cx)
  <2>1. Cat(Cat(ag, colon), slug) = x
    BY <1>1, CatIsText
  <2>2. Cat(Cat(l, colon), x) = Cat(l, Cat(colon, x))
    <3> HIDE DEF x
    <3> QED BY <1>1, <1>3, CatIsText
  <2>3. t = Cat(Cat(l, colon), Cat(Cat(ag, colon), slug))
    BY <1>2 DEF colon
  <2>4. QED
    BY <2>1, <2>2, <2>3, Zenon
<1>5. Before(t, ":") = Before(l, ":") /\ (~Contains(l, ":") => After(t, ":") = x)
  <2>1. x \in Seq(Token)
    BY <1>3 DEF Text
  <2> HIDE DEF x
  <2>2. Before(l \o (<<":">> \o x), ":") = Before(l, ":")
    BY <1>1, <2>1, CutAt
  <2>3. ~Contains(l, ":") => After(l \o (<<":">> \o x), ":") = x
    BY <1>1, <2>1, CutAt
  <2>4. t = l \o (<<":">> \o x)
    BY <1>4, Zenon DEF cx, Cat, colon
  <2>5. QED
    BY <2>2, <2>3, <2>4, Zenon
<1>6. Contains(l, ":") => After(t, ":") = Cat(After(l, ":"), cx)
  <2>1. cx \in Seq(Token)
    BY <1>3 DEF Text
  <2> HIDE DEF cx
  <2>2. Contains(l, ":") => After(l \o cx, ":") = After(l, ":") \o cx
    BY <2>1, Cut
  <2>3. QED
    BY <1>4, <2>2, Zenon DEF Cat
<1>7. PICK z \in Text : After(t, ":") = Cat(z, cs)
  <2>1. CASE ~Contains(l, ":")
    BY <1>1, <1>5, <2>1
  <2>2. CASE Contains(l, ":")
    <3> DEFINE y == Cat(After(l, ":"), Cat(colon, ag))
    <3>1. After(l, ":") \in Text /\ cs \in Text
      BY <1>3, PartLengths DEF Text
    <3> HIDE DEF cs
    <3>2. Cat(colon, ag) \in Text /\ y \in Text
      BY <1>1, <3>1, CatIsText
    <3>3. Cat(y, cs) = Cat(After(l, ":"), Cat(Cat(colon, ag), cs))
      BY <1>1, <3>1, <3>2, CatIsText
    <3>4. Cat(Cat(colon, ag), cs) = Cat(colon, Cat(ag, cs))
      BY <1>1, <3>1, CatIsText
    <3>5. After(t, ":") = Cat(y, cs)
      BY <1>6, <2>2, <3>3, <3>4, Zenon
    <3>6. QED
      BY <3>2, <3>5
  <2>3. QED
    BY <2>1, <2>2
<1>8. Contains(After(t, ":"), ":") /\ LastPart(After(t, ":"), ":") = LastPart(slug, ":")
  <2>1. z \in Seq(Token) /\ cs \in Seq(Token)
    BY <1>3 DEF Text
  <2>2. LastPart(z \o (<<":">> \o slug), ":") = LastPart(slug, ":")
    BY <1>1, <2>1, CutAt
  <2>3. Contains(<<":">> \o slug, ":")
    BY <1>1, OneCharacter
  <2>4. Contains(cs, ":")
    BY <2>3, Zenon DEF cs, colon, Cat
  <2>5. LastPart(Cat(z, cs), ":") = LastPart(slug, ":")
    BY <2>2, Zenon DEF cs, colon, Cat
  <2> HIDE DEF cs
  <2>6. Contains(z \o cs, ":")
    BY <2>1, <2>4, JoinedPlaces
  <2>7. QED
    BY <1>7, <2>5, <2>6, Zenon DEF Cat
<1>9. t \in Seq(Token)
  BY <1>3, <1>4, Zenon DEF Text
<1>10. Anchored(t) <=> Anchored(l)
  BY <1>5, Zenon DEF Anchored
<1> HIDE DEF x, cs, cx
<1>11. QED
  BY <1>8, <1>9, <1>10, Zenon DEF ParseAir

\* The slug of an agent is its id after the last slash, and the identifier of its card is
\* reduced to the id if that has no separators and the domain is the registry's.
LEMMA OwnAir ==
    ASSUME NEW d \in Seq(Token), NEW slug, slug = LastPart(d, "/")
    PROVE  OrNone(LastPart(slug, ":")) = {d} <=> d # <<>> /\ ~Contains(d, ":") /\ ~Contains(d, "/")
<1>1. slug \in Seq(Token) /\ Len(slug) <= Len(d) /\ (Contains(d, "/") => Len(slug) < Len(d))
  BY PartLengths
<1>2. Len(LastPart(slug, ":")) <= Len(slug) /\ LastPart(slug, ":") \in Seq(Token)
  BY <1>1, PartLengths
<1>3. Len(slug) \in Nat /\ Len(d) \in Nat /\ Len(LastPart(slug, ":")) \in Nat
  BY <1>1, <1>2
<1>4. Contains(d, "/") => Len(LastPart(slug, ":")) < Len(d)
  BY <1>1, <1>2, <1>3
<1>5. Contains(d, "/") => LastPart(slug, ":") # d
  <2>1. ~(Len(d) < Len(d))
    BY <1>3
  <2>2. QED
    BY <1>4, <2>1
<1>6. ~Contains(d, "/") => slug = d
  BY WholePart
<1>7. LastPart(d, ":") = d <=> ~Contains(d, ":")
  BY WholePart
<1>8. LastPart(slug, ":") = d <=> ~Contains(d, ":") /\ ~Contains(d, "/")
  BY <1>5, <1>6, <1>7
<1>9. QED
  BY <1>8, OneId

HandleText(i, a) == Cat(Cat(Cat(Cat(i, <<":">>), a.namespace), <<"/">>), a.id)
DidText(a) == Cat(Cat(Cat(<<"agents", ":">>, a.namespace), <<":">>), a.id)

\* The names of an agent, as they are cut.
LEMMA NamesAre ==
    ASSUME NEW reg, NEW a
    PROVE  /\ Handle(reg, a) = <<"@">> \o HandleText(reg.id, a)
           /\ Did(reg, a) = DidPrefix(reg.method, reg.provider) \o DidText(a)
<1>1. Handle(reg, a) = <<"@">> \o HandleText(reg.id, a)
  BY Zenon DEF Handle, HandleText, Cat
<1>2. Did(reg, a) = DidPrefix(reg.method, reg.provider) \o DidText(a)
  BY Zenon DEF Did, DidText, Cat
<1>3. QED
  BY <1>1, <1>2

\* The identifier of a card is reduced to the last part of its slug, if its domain is this
\* registry's.
LEMMA CardName ==
    ASSUME NEW domain \in Seq(Token), NEW slug \in Seq(Token)
    PROVE  Parse(AirUrn(domain, slug)) =
               IF Anchored(LowerOf(domain)) THEN OrNone(LastPart(slug, ":")) ELSE {}
<1> DEFINE l == LowerOf(domain)
           t == Cat(Cat(l, <<":">>), Cat(<<"agent", ":">>, slug))
           u == Cat(l, Cat(<<":">>, Cat(<<"agent", ":">>, slug)))
<1>1. l \in Seq(Token)
  BY Lowered
<1>2. t \in Seq(Token) /\ ParseAir(t) = IF Anchored(l) THEN OrNone(LastPart(slug, ":")) ELSE {}
  <2> HIDE DEF l
  <2> QED BY <1>1, AirName
<1>3. AirUrn(domain, slug) = Cat(<<"urn", ":", "air", ":">>, t)
  BY Zenon DEF AirUrn, Cat
<1> HIDE DEF t, l
<1>4. Parse(Cat(<<"urn", ":", "air", ":">>, t)) = ParseAir(t)
  BY <1>2, AirForm
<1>5. QED
  BY <1>2, <1>3, <1>4, Zenon DEF l

\* The slug of an agent is what follows the last slash of its id.
LEMMA SlugOf ==
    ASSUME NEW a \in SimpleAgent
    PROVE  DefaultSlug(ToSm(a)) = LastPart(a.id, "/") /\ LastPart(a.id, "/") \in Seq(Token)
<1> DEFINE b == HandleText(Home.id, a)
<1>1. a.id \in Seq(Token) /\ a.namespace \in Seq(Token) /\ Home.id \in Seq(Token)
  BY AgentAssumption, RegistryAssumption
<1>2. LastPart(<<"@">> \o b, "/") = LastPart(a.id, "/") /\ Contains(<<"@">> \o b, "/")
  BY <1>1, HandleBody DEF HandleText
<1>3. ToSm(a).handle = <<"@">> \o b
  BY NamesAre DEF ToSm
<1>4. DefaultSlug(ToSm(a)) = LastPart(a.id, "/")
  BY <1>2, <1>3, Zenon DEF DefaultSlug
<1>5. LastPart(a.id, "/") \in Seq(Token)
  BY <1>1, PartLengths
<1>6. QED
  BY <1>4, <1>5

\* Which names of an agent are reduced to its id.
LEMMA NamesOfAgent ==
    ASSUME NEW a \in SimpleAgent, NEW f, f = ToSm(a)
    PROVE  LET simple == a.id # <<>> /\ ~Contains(a.id, ":")
           IN /\ Parse(a.id) = {a.id} <=> a.id # <<>> /\ ~IsHandle(a.id) /\ ~IsDid(a.id) /\ ~IsUrn(a.id)
              /\ Parse(f.handle) = {a.id} <=>
                    a.id # <<>> /\ ~Contains(a.namespace, "/") /\ HostOf(Home.id) = Home.id
              /\ Parse(f.id) = {a.id} <=>
                    simple /\ Home.method = "web" /\ Stripped(Home.provider) = Home.provider
              /\ Parse(Card(f).identifier) = {a.id} <=>
                    simple /\ ~Contains(a.id, "/") /\ Anchored(LowerOf(Home.domain))
<1>1. a.id \in Seq(Token) /\ a.namespace \in Seq(Token) /\ Home.domain \in Seq(Token)
  BY AgentAssumption, RegistryAssumption
<1>2. Parse(a.id) = {a.id} <=> a.id # <<>> /\ ~IsHandle(a.id) /\ ~IsDid(a.id) /\ ~IsUrn(a.id)
  BY <1>1, BareName
<1>3. Parse(f.handle) = {a.id} <=>
          a.id # <<>> /\ ~Contains(a.namespace, "/") /\ HostOf(Home.id) = Home.id
  <2>1. f.handle = <<"@">> \o HandleText(Home.id, a)
    BY NamesAre DEF ToSm
  <2>2. Parse(<<"@">> \o HandleText(Home.id, a)) = {a.id} <=>
            a.id # <<>> /\ ~Contains(a.namespace, "/") /\ HostOf(Home.id) = Home.id
    BY <1>1, OwnHandle DEF HandleText
  <2>3. QED
    BY <2>1, <2>2, Zenon
<1>4. Parse(f.id) = {a.id} <=>
          a.id # <<>> /\ ~Contains(a.id, ":") /\ Home.method = "web" /\ Stripped(Home.provider) = Home.provider
  <2>1. f.id = DidPrefix(Home.method, Home.provider) \o DidText(a)
    BY NamesAre DEF ToSm
  <2>2. Parse(DidPrefix(Home.method, Home.provider) \o DidText(a)) = {a.id} <=>
            a.id # <<>> /\ ~Contains(a.id, ":") /\ Home.method = "web" /\ Stripped(Home.provider) = Home.provider
    BY <1>1, OwnDid DEF DidText
  <2>3. QED
    BY <2>1, <2>2, Zenon
<1>5. Parse(Card(f).identifier) = {a.id} <=>
          a.id # <<>> /\ ~Contains(a.id, ":") /\ ~Contains(a.id, "/") /\ Anchored(LowerOf(Home.domain))
  <2> DEFINE slug == LastPart(a.id, "/")
  <2>1. Card(f).identifier = AirUrn(Home.domain, slug) /\ slug \in Seq(Token)
    BY SlugOf DEF Card
  <2>2. OrNone(LastPart(slug, ":")) = {a.id} <=> a.id # <<>> /\ ~Contains(a.id, ":") /\ ~Contains(a.id, "/")
    BY <1>1, OwnAir
  <2> HIDE DEF slug
  <2>3. Parse(AirUrn(Home.domain, slug)) =
            IF Anchored(LowerOf(Home.domain)) THEN OrNone(LastPart(slug, ":")) ELSE {}
    BY <1>1, <2>1, CardName
  <2>4. QED
    BY <2>1, <2>2, <2>3
<1>6. QED
  BY <1>2, <1>3, <1>4, <1>5

\* Which names of an agent elsewhere are reduced to none.
LEMMA NamesOfPeer ==
    ASSUME NEW a \in SimpleAgent, NEW p \in Peer
    PROVE  /\ HostOf(p.id) # Home.id => Parse(Handle(p, a)) = {}
           /\ HostOf(p.provider) # HostOf(Home.provider) => Parse(Did(p, a)) = {}
           /\ ~Anchored(LowerOf(p.domain)) => Parse(AirUrn(p.domain, DefaultSlug(ToSm(a)))) = {}
<1>1. /\ a.id \in Seq(Token) /\ a.namespace \in Seq(Token)
      /\ p.id \in Seq(Token) /\ p.provider \in Seq(Token) /\ p.domain \in Seq(Token) /\ p.method \in Token
  BY AgentAssumption, RegistryAssumption
<1>2. HostOf(p.id) # Home.id => Parse(Handle(p, a)) = {}
  <2>1. Parse(<<"@">> \o HandleText(p.id, a)) =
            IF HostOf(p.id) = Home.id THEN OrNone(After(HandleText(p.id, a), "/")) ELSE {}
    BY <1>1, HandleName DEF HandleText
  <2>2. QED
    BY <2>1, NamesAre
<1>3. HostOf(p.provider) # HostOf(Home.provider) => Parse(Did(p, a)) = {}
  <2>1. DidText(a) \in Seq(Token)
    BY <1>1, OwnDid DEF DidText
  <2>2. HostOf(p.provider) # HostOf(Home.provider) =>
            Parse(DidPrefix(p.method, p.provider) \o DidText(a)) = {}
    BY <1>1, <2>1, PeerDid
  <2>3. QED
    BY <2>2, NamesAre
<1>4. ~Anchored(LowerOf(p.domain)) => Parse(AirUrn(p.domain, DefaultSlug(ToSm(a)))) = {}
  BY <1>1, SlugOf, CardName
<1>5. QED
  BY <1>2, <1>3, <1>4

\* Which of the names that the registry publishes of an agent lead back to it, for any
\* agents, registry and strings.
THEOREM EveryNameReduces == Spec => []NamesReduce
<1>1. AgentsAreSimple => NamesReduce
  BY NamesOfAgent DEF AgentsAreSimple, NamesReduce
<1>2. QED
  BY <1>1, AgentsStaySimple, PTL

\* No name of another registry is taken for one of this registry's, if the two differ in
\* what the name says of them, for any agents, registries and strings.
THEOREM OthersLeadNowhere == Spec => []OthersAreRefused
<1>1. AgentsAreSimple => OthersAreRefused
  BY NamesOfPeer DEF AgentsAreSimple, OthersAreRefused
<1>2. QED
  BY <1>1, AgentsStaySimple, PTL

-----------------------------------------------------------------------------
(* The facts and their provenance. *)

\* The paths: of a field, and of field k of skill i.
Field(s) == <<s>>
SkillField(i, k) == <<"skills", i, k>>

\* The paths are told apart, and what they end in.
LEMMA Paths ==
    /\ \A s, t : Field(s) = Field(t) => s = t
    /\ \A i, k, j, l : SkillField(i, k) = SkillField(j, l) => i = j /\ k = l
    /\ \A s, i, k : Field(s) # SkillField(i, k)
    /\ \A s : Last(Field(s)) = s
    /\ \A i, k : Last(SkillField(i, k)) = k
<1>1. \A s : Len(Field(s)) = 1 /\ Field(s)[1] = s
  BY DEF Field
<1>2. \A i, k : Len(SkillField(i, k)) = 3 /\ SkillField(i, k)[2] = i /\ SkillField(i, k)[3] = k
  BY DEF SkillField
<1>3. QED
  BY <1>1, <1>2 DEF Last

\* Who supplied a value is told apart too.
LEMMA Marks ==
    /\ Made # Given /\ Made # Absent /\ \A k : From(k) # Made /\ From(k) # Given /\ From(k) # Absent
    /\ \A k, l : From(k) = From(l) => k = l
<1>1. /\ Made[1] = "bridge" /\ Given[1] = "source" /\ Absent[1] = "none" /\ Len(Given) = 1
      /\ \A k : Len(From(k)) = 2 /\ From(k)[1] = "source" /\ From(k)[2] = k
  BY DEF Made, Given, Absent, From
<1>2. QED
  BY <1>1

\* What a skill's fields come from: which of its keys are held by a field, and which fields
\* the bridge made up.
LEMMA SkillOf ==
    ASSUME NEW s, s.text => s.keys = {}
    PROVE  /\ DOMAIN Skill(s) = SkillKeys \ {"name"}
           /\ \A k \in s.keys \ {"name"} : From(k) \in Range(Skill(s)) <=> k \in SkillKeys
           /\ \A k \in SkillKeys \ {"name"} :
                 Skill(s)[k] = Made /\ k \notin Unlisted <=>
                     /\ ~s.text
                     /\ \/ k = "description" /\ "description" \notin s.keys
                        \/ k = "id" /\ s.keys \cap {"id", "name"} = {}
<1> DEFINE D == SkillKeys \ {"name"}
<1>1. \A k \in D : Skill(s)[k] =
          IF s.text /\ k \in {"id", "description"} THEN Given
          ELSE IF k \in s.keys THEN From(k)
          ELSE IF k = "id" /\ "name" \in s.keys THEN From("name")
          ELSE IF k \in Optional THEN Absent ELSE Made
  BY DEF Skill
<1>2. DOMAIN Skill(s) = D
  BY DEF Skill
<1>3. ASSUME NEW k \in s.keys \ {"name"} PROVE From(k) \in Range(Skill(s)) <=> k \in SkillKeys
  <2>1. ~s.text
    BY <1>3
  <2>2. ASSUME k \in SkillKeys PROVE From(k) \in Range(Skill(s))
    <3>1. k \in D /\ Skill(s)[k] = From(k)
      BY <1>1, <2>1, <2>2
    <3>2. QED
      BY <1>2, <3>1 DEF Range
  <2>3. ASSUME NEW l \in D, Skill(s)[l] = From(k) PROVE k \in SkillKeys
    <3>1. CASE l \in s.keys
      BY <1>1, <2>1, <2>3, <3>1, Marks
    <3>2. CASE l \notin s.keys
      BY <1>1, <2>1, <2>3, <3>2, Marks
    <3>3. QED
      BY <3>1, <3>2
  <2>4. QED
    BY <1>2, <2>2, <2>3 DEF Range
<1>4. ASSUME NEW k \in D
      PROVE  Skill(s)[k] = Made /\ k \notin Unlisted <=>
                 /\ ~s.text
                 /\ \/ k = "description" /\ "description" \notin s.keys
                    \/ k = "id" /\ s.keys \cap {"id", "name"} = {}
  <2>1. Skill(s)[k] = Made <=>
            /\ ~(s.text /\ k \in {"id", "description"}) /\ k \notin s.keys
            /\ ~(k = "id" /\ "name" \in s.keys) /\ k \notin Optional
    BY <1>1, Marks
  <2>2. /\ k \in {"id", "description"} \/ k \in {"inputModes", "outputModes"} \/ k \in Optional
        /\ "id" \notin Optional /\ "description" \notin Optional
    BY DEF SkillKeys, Optional
  <2>3. k \in Unlisted <=> k \in {"inputModes", "outputModes"}
    BY DEF SkillKeys, Unlisted, Frame
  <2>4. QED
    BY <2>1, <2>2, <2>3
<1>5. QED
  BY <1>2, <1>3, <1>4

\* The skills of the facts, for a source that has some.
LEMMA SkillsOf ==
    ASSUME NEW a \in SimpleAgent, NEW f, f = ToSm(a), a.skills # <<>>
    PROVE  /\ DOMAIN f.skills = DOMAIN a.skills
           /\ \A i \in DOMAIN a.skills : f.skills[i] = Skill(a.skills[i])
BY DEF ToSm, Skills

\* The made up fields that are recorded: those of the agent, and those of its skills.
PlainFields(a) ==
    {"id", "provider.did"} \cup (IF a.labels = <<>> THEN {"label"} ELSE {})
    \cup (IF a.endpoints = <<>> THEN {"endpoints.static"} ELSE {})
    \cup (IF a.skills = <<>> THEN {"skills"} ELSE {})

Unnamed(s) == ~s.text /\ s.keys \cap {"id", "name"} = {}
Undescribed(s) == ~s.text /\ "description" \notin s.keys

OfSkills(a, p) ==
    \E i \in DOMAIN a.skills :
        \/ p = SkillField(i, "id") /\ Unnamed(a.skills[i])
        \/ p = SkillField(i, "description") /\ Undescribed(a.skills[i])

\* What provenance records as made up.
LEMMA DeclaredAre ==
    ASSUME NEW a \in SimpleAgent, NEW f, f = ToSm(a), NEW p
    PROVE  p \in Declared(f) <=> (\E s \in PlainFields(a) : p = Field(s)) \/ OfSkills(a, p)
<1>1. Declared(f) = Invented(a) \cup Defaulted(a)
  BY DEF Declared, ToSm
<1>2. p \in Invented(a) <=>
          \/ p = Field("id") \/ p = Field("provider.did")
          \/ a.endpoints = <<>> /\ p = Field("endpoints.static")
          \/ a.skills = <<>> /\ p = Field("skills")
  BY DEF Invented, Field
<1>3. p \in Defaulted(a) <=> OfSkills(a, p) \/ (a.labels = <<>> /\ p = Field("label"))
  BY DEF Defaulted, Dictionaries, Field, SkillField, OfSkills, Unnamed, Undescribed
<1>4. (\E s \in PlainFields(a) : p = Field(s)) <=>
          \/ p = Field("id") \/ p = Field("provider.did")
          \/ a.endpoints = <<>> /\ p = Field("endpoints.static")
          \/ a.skills = <<>> /\ p = Field("skills")
          \/ a.labels = <<>> /\ p = Field("label")
  BY DEF PlainFields
<1>5. QED
  BY <1>1, <1>2, <1>3, <1>4

\* What the bridge made up, apart from what is never recorded.
LEMMA FilledAre ==
    ASSUME NEW a \in SimpleAgent, NEW f, f = ToSm(a), NEW p
    PROVE  p \in FilledIn(a, f) /\ Last(p) \notin Unlisted <=>
               (\E s \in PlainFields(a) : p = Field(s)) \/ OfSkills(a, p)
<1> DEFINE skillPart == UNION {{SkillField(i, k) : k \in {l \in DOMAIN f.skills[i] : f.skills[i][l] = Made}} :
                                  i \in DOMAIN f.skills}
<1>1. p \in FilledIn(a, f) <=>
          \/ p \in {Field("id"), Field("handle"), Field("provider.did"), Field("provider.name"), Field("provider.url")}
          \/ f.label = Made /\ p = Field("label")
          \/ Made \in Range(f.static) /\ p = Field("endpoints.static")
          \/ f.policies = Made /\ p = Field("endpoints.adaptive_resolver.policies")
          \/ f.issuer = Made /\ p = Field("certification.issuer")
          \/ a.skills = <<>> /\ p = Field("skills")
          \/ a.skills # <<>> /\ p \in skillPart
  BY DEF FilledIn, Field, SkillField
<1>2. f.label = Made <=> a.labels = <<>>
  BY Marks DEF ToSm, Label
<1>3. Made \in Range(f.static) <=> a.endpoints = <<>>
  <2>1. f.static = Static(a)
    BY DEF ToSm
  <2>2. CASE a.endpoints = <<>>
    <3>1. Static(a) = <<Made>>
      BY <2>2 DEF Static
    <3>2. 1 \in DOMAIN Static(a) /\ Static(a)[1] = Made
      BY <3>1
    <3>3. QED
      BY <2>1, <2>2, <3>2 DEF Range
  <2>3. CASE a.endpoints # <<>>
    BY <2>1, <2>3, Marks DEF Static, Range
  <2>4. QED
    BY <2>2, <2>3
<1>4. ASSUME NEW s PROVE Last(Field(s)) = s
  BY Paths
<1>5. /\ {"handle", "provider.name", "provider.url", "endpoints.adaptive_resolver.policies",
           "certification.issuer"} \subseteq Unlisted
      /\ {"id", "provider.did", "label", "endpoints.static", "skills"} \cap Unlisted = {}
  BY DEF Unlisted, Frame
<1>6. a.skills # <<>> => (p \in skillPart /\ Last(p) \notin Unlisted <=> OfSkills(a, p))
  <2> SUFFICES ASSUME a.skills # <<>>
               PROVE  p \in skillPart /\ Last(p) \notin Unlisted <=> OfSkills(a, p)
    OBVIOUS
  <2>1. \A i \in DOMAIN a.skills : a.skills[i].text => a.skills[i].keys = {}
    BY AgentAssumption
  <2>2. p \in skillPart <=>
            \E i \in DOMAIN a.skills : \E k \in SkillKeys \ {"name"} :
                p = SkillField(i, k) /\ Skill(a.skills[i])[k] = Made
    <3>1. \A i \in DOMAIN a.skills : f.skills[i] = Skill(a.skills[i])
                                     /\ DOMAIN Skill(a.skills[i]) = SkillKeys \ {"name"}
      <4>1. \A i \in DOMAIN a.skills : f.skills[i] = Skill(a.skills[i])
        BY SkillsOf
      <4>2. \A t : DOMAIN Skill(t) = SkillKeys \ {"name"}
        BY DEF Skill
      <4>3. QED
        BY <4>1, <4>2, Zenon
    <3>2. DOMAIN f.skills = DOMAIN a.skills
      BY SkillsOf
    <3>3. p \in skillPart <=>
              \E i \in DOMAIN f.skills : \E k \in DOMAIN f.skills[i] : p = SkillField(i, k) /\ f.skills[i][k] = Made
      OBVIOUS
    <3>4. QED
      BY <3>1, <3>2, <3>3
  <2>3. \A i \in DOMAIN a.skills : \A k \in SkillKeys \ {"name"} :
            Skill(a.skills[i])[k] = Made /\ k \notin Unlisted <=>
                (k = "description" /\ Undescribed(a.skills[i])) \/ (k = "id" /\ Unnamed(a.skills[i]))
    <3> TAKE i \in DOMAIN a.skills
    <3> DEFINE s == a.skills[i]
    <3>1. s.text => s.keys = {}
      BY <2>1
    <3> HIDE DEF s
    <3>2. \A k \in SkillKeys \ {"name"} :
              Skill(s)[k] = Made /\ k \notin Unlisted <=>
                  (k = "description" /\ Undescribed(s)) \/ (k = "id" /\ Unnamed(s))
      BY <3>1, SkillOf DEF Unnamed, Undescribed
    <3>3. QED
      BY <3>2 DEF s
  <2>4. "id" \in SkillKeys \ {"name"} /\ "description" \in SkillKeys \ {"name"}
    BY DEF SkillKeys
  <2>5. \A i, k : Last(SkillField(i, k)) = k
    BY Paths
  <2> HIDE DEF skillPart
  <2>6. ASSUME p \in skillPart, Last(p) \notin Unlisted PROVE OfSkills(a, p)
    <3>1. PICK i \in DOMAIN a.skills, k \in SkillKeys \ {"name"} :
              p = SkillField(i, k) /\ Skill(a.skills[i])[k] = Made
      BY <2>2, <2>6
    <3>2. k \notin Unlisted
      BY <2>5, <2>6, <3>1
    <3>3. QED
      BY <2>3, <3>1, <3>2 DEF OfSkills
  <2>7. ASSUME OfSkills(a, p) PROVE p \in skillPart /\ Last(p) \notin Unlisted
    <3>1. PICK i \in DOMAIN a.skills, k \in {"id", "description"} :
              /\ p = SkillField(i, k)
              /\ (k = "description" /\ Undescribed(a.skills[i])) \/ (k = "id" /\ Unnamed(a.skills[i]))
      BY <2>7 DEF OfSkills
    <3>2. Skill(a.skills[i])[k] = Made /\ k \notin Unlisted
      BY <2>3, <2>4, <3>1
    <3>3. QED
      BY <2>2, <2>4, <2>5, <3>1, <3>2
  <2>8. QED
    BY <2>6, <2>7
<1>7. a.skills = <<>> => ~OfSkills(a, p)
  BY DEF OfSkills
<1>8. \A s : (\E t \in PlainFields(a) : Field(s) = Field(t)) <=> s \in PlainFields(a)
  BY Paths
<1>9. (\E s \in PlainFields(a) : p = Field(s)) <=>
          \/ p = Field("id") \/ p = Field("provider.did")
          \/ a.endpoints = <<>> /\ p = Field("endpoints.static")
          \/ a.skills = <<>> /\ p = Field("skills")
          \/ a.labels = <<>> /\ p = Field("label")
  BY DEF PlainFields
<1> HIDE DEF skillPart
<1>10. QED
  BY <1>1, <1>2, <1>3, <1>4, <1>5, <1>6, <1>7, <1>9

\* What provenance records as dropped is what no field holds, but a name.
LEMMA DroppedAre ==
    ASSUME NEW a \in SimpleAgent, NEW f, f = ToSm(a), NEW p
    PROVE  p \in f.provenance.dropped <=> p \in Lost(a, f) /\ Last(p) # "name"
<1>1. p \in f.provenance.dropped <=>
          \E i \in DOMAIN a.skills : ~a.skills[i].text /\
              \E k \in a.skills[i].keys \ SkillKeys : p = SkillField(i, k)
  <2>1. f.provenance.dropped = Dropped(a)
    BY DEF ToSm
  <2>2. QED
    BY <2>1 DEF Dropped, Dictionaries, SkillField
<1>2. p \in Lost(a, f) <=>
          \E i \in DOMAIN a.skills : \E k \in a.skills[i].keys :
              p = SkillField(i, k) /\ From(k) \notin Range(f.skills[i])
  BY DEF Lost, SkillField
<1>3. \A i \in DOMAIN a.skills : a.skills[i].text => a.skills[i].keys = {}
  BY AgentAssumption
<1>4. \A i \in DOMAIN a.skills : f.skills[i] = Skill(a.skills[i])
  <2>1. CASE a.skills = <<>>
    BY <2>1
  <2>2. CASE a.skills # <<>>
    BY <2>2, SkillsOf
  <2>3. QED
    BY <2>1, <2>2
<1>5. \A i \in DOMAIN a.skills : \A k \in a.skills[i].keys \ {"name"} :
          From(k) \in Range(f.skills[i]) <=> k \in SkillKeys
  BY <1>3, <1>4, SkillOf
<1>6. "name" \in SkillKeys
  BY DEF SkillKeys
<1>7. \A i, k : Last(SkillField(i, k)) = k
  BY Paths
<1>8. ASSUME NEW i \in DOMAIN a.skills, ~a.skills[i].text, NEW k \in a.skills[i].keys \ SkillKeys,
             p = SkillField(i, k)
      PROVE  p \in Lost(a, f) /\ Last(p) # "name"
  BY <1>2, <1>5, <1>6, <1>7, <1>8
<1>9. ASSUME NEW i \in DOMAIN a.skills, NEW k \in a.skills[i].keys, p = SkillField(i, k),
             From(k) \notin Range(f.skills[i]), Last(p) # "name"
      PROVE  ~a.skills[i].text /\ k \notin SkillKeys
  BY <1>3, <1>5, <1>7, <1>9
<1>10. QED
  BY <1>1, <1>2, <1>8, <1>9

\* Provenance records what the bridge filled in and dropped, apart from what it never
\* records, for any source agents.
THEOREM FactsOwnUp == Spec => []ProvenanceIsTrue
<1>1. ASSUME NEW a \in SimpleAgent, NEW f, f = ToSm(a)
      PROVE  /\ Declared(f) = {p \in FilledIn(a, f) : Last(p) \notin Unlisted}
             /\ f.provenance.dropped = {p \in Lost(a, f) : Last(p) # "name"}
             /\ f.metadata["provenance"] = Made /\ "synthesized" \notin DOMAIN f.metadata
  <2>1. \A p : p \in Declared(f) <=> p \in FilledIn(a, f) /\ Last(p) \notin Unlisted
    BY <1>1, DeclaredAre, FilledAre
  <2>2. \A p : p \in f.provenance.dropped <=> p \in Lost(a, f) /\ Last(p) # "name"
    BY <1>1, DroppedAre
  <2>3. f.metadata["provenance"] = Made /\ "synthesized" \notin DOMAIN f.metadata
    <3>1. f.metadata = Metadata(a)
      BY <1>1 DEF ToSm
    <3>2. QED
      BY <3>1 DEF Metadata
  <2>4. QED
    BY <2>1, <2>2, <2>3
<1>2. AgentsAreSimple => ProvenanceIsTrue
  BY <1>1 DEF AgentsAreSimple, ProvenanceIsTrue
<1>3. QED
  BY <1>2, AgentsStaySimple, PTL
=============================================================================
