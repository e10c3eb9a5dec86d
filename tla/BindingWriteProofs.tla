------------------------- MODULE BindingWriteProofs -------------------------
(***************************************************************************)
(* Theorems about BindingWrite for any number of handlers, signers, stores,  *)
(* nonces, subjects and request bodies.                                      *)
(***************************************************************************)
EXTENDS BindingWrite, FiniteSetTheorems, TLAPS

\* A handler that has applied its write holds a version of the record.
Counted == \A h \in Handler : InFlight(h) => version[h] \in Nat \ {0}

\* Every step of a request, a checkpoint or the system keeps the types.
LEMMA TypedStep == TypeOK /\ Counted /\ [Next]_vars => TypeOK'
<1> SUFFICES ASSUME TypeOK, Counted, [Next]_vars PROVE TypeOK'
  OBVIOUS
<1> USE DEF TypeOK
<1>1. ASSUME NEW h \in Handler, Handle(h) PROVE TypeOK'
  <2>1. h \in Actor
    BY DEF Actor
  <2>2. \A r \in Refusal : [status |-> r] \in Answer
    BY DEF Answer
  <2>3. CASE Receive(h)
    <3>1. body' \in [Handler -> BodyType]
      BY <2>3, BodyAssumption DEF Receive
    <3>2. pc' \in [Actor -> HandlerPc]
      BY <2>1, <2>3 DEF Receive, Refuse, HandlerPc
    <3>3. answer' \in [Actor -> Answer]
      BY <2>1, <2>2, <2>3 DEF Receive, Refuse, Refusal, Answer
    <3>4. QED
      BY <2>3, <3>1, <3>2, <3>3 DEF Receive, logVars
  <2>4. CASE NonceGuard(h)
    <3>1. Key(body[h]) \in Store \X Nonce
      BY DEF Key, BodyType
    <3>2. pc' \in [Actor -> HandlerPc]
      BY <2>1, <2>4 DEF NonceGuard, Refuse, HandlerPc
    <3>3. answer' \in [Actor -> Answer]
      BY <2>1, <2>2, <2>4 DEF NonceGuard, Refuse, Refusal
    <3>4. seen' \subseteq Store \X Nonce
      BY <2>4, <3>1 DEF NonceGuard
    <3>5. QED
      BY <2>4, <3>2, <3>3, <3>4 DEF NonceGuard, logVars
  <2>5. CASE Authorize(h)
    <3>1. pc' \in [Actor -> HandlerPc]
      BY <2>1, <2>5 DEF Authorize, Refuse, HandlerPc
    <3>2. answer' \in [Actor -> Answer]
      BY <2>1, <2>2, <2>5 DEF Authorize, Refuse, Refusal
    <3>3. QED
      BY <2>5, <3>1, <3>2 DEF Authorize, logVars
  <2>6. CASE ApplyRecord(h)
    <3>1. Applied(records[body[h].subject], body[h]) \in Record
      BY DEF Applied, Record, Lifecycle, BodyType
    <3>2. records' \in [Subject -> Record]
      BY <2>6, <3>1 DEF ApplyRecord
    <3>3. version' \in [Handler -> Nat]
      BY <2>6, <3>2 DEF ApplyRecord, Record, BodyType
    <3>4. pc' \in [Actor -> HandlerPc]
      BY <2>1, <2>6 DEF ApplyRecord, HandlerPc
    <3>5. QED
      BY <2>6, <3>2, <3>3, <3>4 DEF ApplyRecord, logVars
  <2>7. InFlight(h) => EntryOf(h) \in Entry
    BY DEF Counted, EntryOf, Entry, BodyType
  <2>8. CASE AppendEntry(h)
    <3>1. EntryOf(h) \in Entry
      BY <2>7, <2>8 DEF AppendEntry, InFlight
    <3>2. entries' \in Seq(Entry)
      BY <2>8, <3>1 DEF AppendEntry
    <3>3. pc' \in [Actor -> HandlerPc]
      BY <2>1, <2>8 DEF AppendEntry, HandlerPc
    <3>4. QED
      BY <2>8, <3>2, <3>3 DEF AppendEntry
  <2>9. CASE AppendLeaf(h)
    <3>1. EntryOf(h) \in Entry
      BY <2>7, <2>9 DEF AppendLeaf, InFlight
    <3>2. leaves' \in Seq(Entry)
      BY <2>9, <3>1 DEF AppendLeaf
    <3>3. pc' \in [Actor -> HandlerPc]
      BY <2>1, <2>9 DEF AppendLeaf, HandlerPc
    <3>4. QED
      BY <2>9, <3>2, <3>3 DEF AppendLeaf
  <2>10. QED
    BY <1>1, <2>3, <2>4, <2>5, <2>6, <2>8, <2>9 DEF Handle
<1>2. ASSUME NEW a \in Actor, Publish(a) PROVE TypeOK'
  <2>1. CASE ReadSize(a)
    BY <2>1 DEF ReadSize, HandlerPc, logVars
  <2>2. CASE ReadLeft(a)
    BY <2>2 DEF ReadLeft, HandlerPc, logVars
  <2>3. CASE Respond(a)
    <3>1. RootRead(a) \in Root
      BY DEF RootRead, Root
    <3>2. answer' \in [Actor -> Answer]
      BY <2>3, <3>1 DEF Respond, Answer
    <3>3. QED
      BY <2>3, <3>2 DEF Respond, HandlerPc, logVars
  <2>4. QED
    BY <1>2, <2>1, <2>2, <2>3 DEF Publish
<1>3. CASE UNCHANGED vars
  BY <1>3 DEF vars, logVars
<1>4. QED
  BY <1>1, <1>2, <1>3 DEF Next

\* A write in flight has the positive version that apply gave it.
LEMMA CountedStep == TypeOK /\ Counted /\ [Next]_vars => Counted'
<1> SUFFICES ASSUME TypeOK, Counted, [Next]_vars, NEW g \in Handler, InFlight(g)'
             PROVE  version'[g] \in Nat \ {0}
  BY DEF Counted
<1> USE DEF TypeOK, InFlight
<1>0. Handler \subseteq Actor
  BY DEF Actor
<1>1. ASSUME NEW h \in Handler, Handle(h) PROVE version'[g] \in Nat \ {0}
  <2>1. CASE Receive(h)
    BY <1>0, <2>1 DEF Receive, Refuse, Counted
  <2>2. CASE NonceGuard(h)
    BY <1>0, <2>2 DEF NonceGuard, Refuse, Counted
  <2>3. CASE Authorize(h)
    BY <1>0, <2>3 DEF Authorize, Refuse, Counted
  <2>4. CASE ApplyRecord(h)
    <3>1. body[h].subject \in Subject
      BY DEF BodyType
    <3>2. records'[body[h].subject].version = records[body[h].subject].version + 1
      BY <2>4, <3>1 DEF ApplyRecord, Applied
    <3>3. records[body[h].subject].version \in Nat
      BY <3>1 DEF Record
    <3>4. CASE g = h
      BY <2>4, <3>2, <3>3, <3>4 DEF ApplyRecord
    <3>5. CASE g # h
      BY <1>0, <2>4, <3>5 DEF ApplyRecord, Counted
    <3>6. QED
      BY <3>4, <3>5
  <2>5. CASE AppendEntry(h)
    BY <1>0, <2>5 DEF AppendEntry, Counted
  <2>6. CASE AppendLeaf(h)
    BY <1>0, <2>6 DEF AppendLeaf, Counted
  <2>7. QED
    BY <1>1, <2>1, <2>2, <2>3, <2>4, <2>5, <2>6 DEF Handle
<1>2. ASSUME NEW a \in Actor, Publish(a) PROVE version'[g] \in Nat \ {0}
  BY <1>0, <1>2 DEF Publish, ReadSize, ReadLeft, Respond, Counted
<1>3. CASE UNCHANGED vars
  BY <1>3 DEF vars, Counted
<1>4. QED
  BY <1>1, <1>2, <1>3 DEF Next

\* Types and versions hold in every reachable state.
LEMMA AlwaysTyped == Spec => [](TypeOK /\ Counted)
<1>1. Init => TypeOK /\ Counted
  <2> SUFFICES ASSUME Init PROVE TypeOK /\ Counted
    OBVIOUS
  <2>1. records \in [Subject -> Record]
    BY DEF Init, Record
  <2>2. body \in [Handler -> BodyType]
    BY BodyAssumption DEF Init
  <2>3. <<>> \in Seq(Entry)
    OBVIOUS
  <2>4. entries \in Seq(Entry) /\ leaves \in Seq(Entry)
    BY <2>3 DEF Init
  <2>5. answer \in [Actor -> Answer]
    BY DEF Init, Answer
  <2>6. pc \in [Actor -> HandlerPc]
    BY DEF Init, HandlerPc
  <2>7. Counted
    BY DEF Init, Counted, InFlight, Actor
  <2>8. QED
    BY <2>7, <2>1, <2>2, <2>4, <2>5, <2>6 DEF Init, TypeOK
<1>2. QED
  BY <1>1, TypedStep, CountedStep, PTL DEF Spec

\* The state of the endpoint, the log and its threads keeps its types in every
\* interleaving of requests and checkpoints.
THEOREM BindingTypeCorrect == Spec => []TypeOK
BY AlwaysTyped, PTL

-----------------------------------------------------------------------------
(* A pair is claimed by the handler that took it and has not logged it, and by *)
(* the handler whose last write with it was refused.                           *)

Refused(h) == answer[h].status = "refused"

Claims(h) == Owns(h) \/ Refused(h)

NonceInv ==
    /\ NonceLoggedOnce
    /\ \A i \in DOMAIN leaves : Key(leaves[i]) \in seen
    /\ \A h \in Handler : Refused(h) => pc[h] = "idle"
    /\ \A h \in Handler : Claims(h) => Key(body[h]) \in seen
    /\ \A h \in Handler : Claims(h) => \A i \in DOMAIN leaves : Key(leaves[i]) # Key(body[h])
    /\ \A h, g \in Handler : Claims(h) /\ Claims(g) /\ Key(body[h]) = Key(body[g]) => h = g

\* Nothing that matters to NonceInv changes for handlers other than h, and h
\* claims no pair that it did not claim before.
LEMMA KeepsClaims ==
    ASSUME TypeOK, NonceInv, leaves' = leaves, seen' = seen,
           \A h \in Handler : Claims(h)' => Claims(h) /\ body'[h] = body[h],
           \A h \in Handler : Refused(h)' => pc'[h] = "idle"
    PROVE  NonceInv'
<1>1. NonceLoggedOnce' /\ \A i \in DOMAIN leaves' : Key(leaves'[i]) \in seen'
  BY DEF NonceInv, NonceLoggedOnce
<1>2. \A h \in Handler : Claims(h)' => Key(body'[h]) \in seen'
  BY DEF NonceInv
<1>3. \A h \in Handler : Claims(h)' => \A i \in DOMAIN leaves' : Key(leaves'[i]) # Key(body'[h])
  BY DEF NonceInv
<1>4. \A h, g \in Handler : Claims(h)' /\ Claims(g)' /\ Key(body'[h]) = Key(body'[g]) => h = g
  BY DEF NonceInv
<1>5. QED
  BY <1>1, <1>2, <1>3, <1>4 DEF NonceInv, Key

\* Every step keeps the claims on (store, nonce) pairs.
LEMMA NonceStep == TypeOK /\ NonceInv /\ [Next]_vars => NonceInv'
<1> SUFFICES ASSUME TypeOK, NonceInv, [Next]_vars PROVE NonceInv'
  OBVIOUS
<1>0. Handler \subseteq Actor
  BY DEF Actor
<1> DEFINE SameOthers(h) ==
        \A g \in Handler : g # h => pc'[g] = pc[g] /\ answer'[g] = answer[g] /\ body'[g] = body[g]
<1>1. ASSUME NEW h \in Handler, Handle(h) PROVE NonceInv'
  <2>1. CASE Receive(h)
    <3>1. SameOthers(h)
      BY <1>0, <2>1 DEF Receive, Refuse, TypeOK
    <3>2. ~Claims(h)'
      BY <1>0, <2>1 DEF Receive, Refuse, TypeOK, Claims, Owns, Refused, NoAnswer
    <3>3. leaves' = leaves /\ seen' = seen
      BY <2>1 DEF Receive, logVars
    <3>4. \A g \in Handler : Claims(g)' => Claims(g) /\ body'[g] = body[g]
      BY <3>1, <3>2 DEF Claims, Owns, Refused
    <3>5. \A g \in Handler : Refused(g)' => pc'[g] = "idle"
      BY <3>1, <3>2 DEF Claims, Refused, NonceInv
    <3>6. QED
      BY <3>3, <3>4, <3>5, KeepsClaims
  <2>2. CASE NonceGuard(h) /\ Key(body[h]) \in seen
    <3>1. SameOthers(h)
      BY <1>0, <2>2 DEF NonceGuard, Refuse, TypeOK
    <3>2. ~Claims(h)'
      BY <1>0, <2>2 DEF NonceGuard, Refuse, TypeOK, Claims, Owns, Refused
    <3>3. leaves' = leaves /\ seen' = seen
      BY <2>2 DEF NonceGuard, logVars
    <3>4. \A g \in Handler : Claims(g)' => Claims(g) /\ body'[g] = body[g]
      BY <3>1, <3>2 DEF Claims, Owns, Refused
    <3>5. \A g \in Handler : Refused(g)' => pc'[g] = "idle"
      BY <3>1, <3>2 DEF Claims, Refused, NonceInv
    <3>6. QED
      BY <3>3, <3>4, <3>5, KeepsClaims
  <2>3. CASE NonceGuard(h) /\ Key(body[h]) \notin seen
    <3>1. leaves' = leaves /\ body' = body /\ answer' = answer
          /\ seen' = seen \cup {Key(body[h])}
      BY <2>3 DEF NonceGuard, logVars
    <3>2. pc'[h] = "authorize" /\ pc[h] = "guard" /\ \A g \in Handler : g # h => pc'[g] = pc[g]
      BY <1>0, <2>3 DEF NonceGuard, TypeOK
    <3>3. ~Refused(h)
      BY <3>2 DEF NonceInv
    <3>4. \A g \in Handler : Claims(g)' => g = h \/ Claims(g)
      BY <3>1, <3>2 DEF Claims, Owns, Refused
    <3>5. \A g \in Handler : Refused(g)' => pc'[g] = "idle"
      BY <3>1, <3>2, <3>3 DEF Refused, NonceInv
    <3>6. NonceLoggedOnce' /\ \A i \in DOMAIN leaves' : Key(leaves'[i]) \in seen'
      BY <3>1 DEF NonceInv, NonceLoggedOnce
    <3>7. \A g \in Handler : Claims(g)' => Key(body'[g]) \in seen'
      BY <3>1, <3>4 DEF NonceInv
    <3>8. \A g \in Handler : Claims(g)' =>
              \A i \in DOMAIN leaves' : Key(leaves'[i]) # Key(body'[g])
      BY <2>3, <3>1, <3>4 DEF NonceInv
    <3>9. \A f, g \in Handler : Claims(f)' /\ Claims(g)' /\ Key(body'[f]) = Key(body'[g]) => f = g
      BY <2>3, <3>1, <3>4 DEF NonceInv
    <3>10. QED
      BY <3>5, <3>6, <3>7, <3>8, <3>9 DEF NonceInv, Key
  <2>4. CASE Authorize(h) \/ ApplyRecord(h) \/ AppendEntry(h)
    <3>1. SameOthers(h) /\ body' = body
      BY <1>0, <2>4 DEF Authorize, ApplyRecord, AppendEntry, Refuse, TypeOK
    <3>2. Owns(h)
      BY <2>4 DEF Authorize, ApplyRecord, AppendEntry, Owns
    <3>3. leaves' = leaves /\ seen' = seen
      BY <2>4 DEF Authorize, ApplyRecord, AppendEntry, logVars
    <3>4. \A g \in Handler : Claims(g)' => Claims(g) /\ body'[g] = body[g]
      BY <3>1, <3>2 DEF Claims, Owns, Refused
    <3>5. Refused(h)' => pc'[h] = "idle"
      <4>1. ~Refused(h)
        BY <3>2 DEF NonceInv, Owns
      <4>2. CASE Authorize(h)
        BY <1>0, <2>4, <4>1, <4>2 DEF Authorize, Refuse, Refused, TypeOK
      <4>3. CASE ApplyRecord(h) \/ AppendEntry(h)
        BY <4>1, <4>3 DEF ApplyRecord, AppendEntry, Refused
      <4>4. QED
        BY <2>4, <4>2, <4>3
    <3>6. \A g \in Handler : Refused(g)' => pc'[g] = "idle"
      BY <3>1, <3>5 DEF Refused, NonceInv
    <3>7. QED
      BY <3>3, <3>4, <3>6, KeepsClaims
  <2>5. CASE AppendLeaf(h)
    <3>1. leaves' = Append(leaves, EntryOf(h)) /\ seen' = seen /\ body' = body /\ answer' = answer
      BY <2>5 DEF AppendLeaf
    <3>2. pc[h] = "leaf" /\ pc'[h] = "size" /\ \A g \in Handler : g # h => pc'[g] = pc[g]
      BY <1>0, <2>5 DEF AppendLeaf, TypeOK
    <3>3. Key(EntryOf(h)) = Key(body[h])
      BY DEF Key, EntryOf
    <3>4. Claims(h) /\ ~Refused(h)
      BY <3>2 DEF Claims, Owns, NonceInv
    <3>5. \A g \in Handler : Claims(g)' => g # h /\ Claims(g)
      BY <3>1, <3>2, <3>4 DEF Claims, Owns, Refused
    <3>6. \A i \in DOMAIN leaves' :
              \/ Key(leaves'[i]) = Key(body[h]) /\ i = Len(leaves) + 1
              \/ i \in DOMAIN leaves /\ leaves'[i] = leaves[i]
      BY <3>1, <3>3 DEF TypeOK
    <3>7. NonceLoggedOnce'
      <4> SUFFICES ASSUME NEW i \in DOMAIN leaves', NEW j \in DOMAIN leaves',
                          Key(leaves'[i]) = Key(leaves'[j])
                   PROVE  i = j
        BY DEF NonceLoggedOnce, Key
      <4>1. \A k \in DOMAIN leaves : Key(leaves[k]) # Key(body[h])
        BY <3>4 DEF NonceInv
      <4>2. QED
        BY <3>6, <4>1 DEF NonceInv, NonceLoggedOnce
    <3>8. \A i \in DOMAIN leaves' : Key(leaves'[i]) \in seen'
      BY <3>1, <3>4, <3>6 DEF NonceInv
    <3>9. \A g \in Handler : Claims(g)' => Key(body'[g]) \in seen'
      BY <3>1, <3>5 DEF NonceInv
    <3>10. \A g \in Handler : Claims(g)' =>
               \A i \in DOMAIN leaves' : Key(leaves'[i]) # Key(body'[g])
      BY <3>1, <3>4, <3>5, <3>6 DEF NonceInv
    <3>11. \A f, g \in Handler : Claims(f)' /\ Claims(g)' /\ Key(body'[f]) = Key(body'[g]) => f = g
      BY <3>1, <3>5 DEF NonceInv
    <3>12. \A g \in Handler : Refused(g)' => pc'[g] = "idle"
      BY <3>1, <3>2, <3>4 DEF Refused, NonceInv
    <3>13. QED
      BY <3>7, <3>8, <3>9, <3>10, <3>11, <3>12 DEF NonceInv, Key
  <2>6. QED
    BY <1>1, <2>1, <2>2, <2>3, <2>4, <2>5 DEF Handle
<1>2. ASSUME NEW a \in Actor, Publish(a) PROVE NonceInv'
  <2>1. leaves' = leaves /\ seen' = seen /\ body' = body
    BY <1>2 DEF Publish, ReadSize, ReadLeft, Respond, logVars
  <2>2. \A g \in Handler : Owns(g)' => Owns(g)
    BY <1>0, <1>2, ThreadAssumption DEF Publish, ReadSize, ReadLeft, Respond, Owns, TypeOK
  <2>3. \A g \in Handler : Refused(g)' => Refused(g) /\ (pc'[g] = "idle" \/ g = a)
    BY <1>0, <1>2 DEF Publish, ReadSize, ReadLeft, Respond, Refused, NonceInv, TypeOK
  <2>4. a \in Handler /\ Refused(a) => pc'[a] = "idle"
    BY <1>2, ThreadAssumption DEF Publish, ReadSize, ReadLeft, Respond, NonceInv, TypeOK
  <2>5. \A g \in Handler : Claims(g)' => Claims(g) /\ body'[g] = body[g]
    BY <2>1, <2>2, <2>3 DEF Claims
  <2>6. QED
    BY <2>1, <2>3, <2>4, <2>5, KeepsClaims
<1>3. CASE UNCHANGED vars
  <2>1. \A g \in Handler : /\ Claims(g)' => Claims(g) /\ body'[g] = body[g]
                           /\ Refused(g)' => pc'[g] = "idle"
    BY <1>3 DEF vars, Claims, Owns, Refused, NonceInv
  <2>2. QED
    BY <1>3, <2>1, KeepsClaims DEF vars, logVars
<1>4. QED
  BY <1>1, <1>2, <1>3 DEF Next

\* The claims on pairs hold in every reachable state.
LEMMA AlwaysNonceInv == Spec => []NonceInv
<1>1. Init => NonceInv
  BY DEF Init, NonceInv, NonceLoggedOnce, Claims, Owns, Refused, NoAnswer, Actor
<1>2. QED
  BY <1>1, NonceStep, BindingTypeCorrect, PTL DEF Spec

\* Whatever overlaps, at most one leaf of the log carries a (store, nonce) pair.
THEOREM NonceSingleUse == Spec => []NonceLoggedOnce
<1>1. NonceInv => NonceLoggedOnce
  BY DEF NonceInv
<1>2. QED
  BY <1>1, AlwaysNonceInv, PTL

\* A write that the authorizer refused is not in the log and is never added to
\* it: its pair stays claimed.
THEOREM RefusalIsFinal == Spec => []RefusedStaysRefused
<1>1. NonceInv => RefusedStaysRefused
  BY DEF NonceInv, RefusedStaysRefused, Claims, Refused
<1>2. QED
  BY <1>1, AlwaysNonceInv, PTL

-----------------------------------------------------------------------------
(* The versions of a subject: each was given out once, to a handler that still *)
(* has to log it or to one leaf.                                               *)

\* The leaf i, or the write that handler h still has to log, is version v of s.
LeafIs(i, s, v) == leaves[i].subject = s /\ leaves[i].version = v
FlightIs(h, s, v) == InFlight(h) /\ body[h].subject = s /\ version[h] = v

LedgerInv ==
    /\ \A i, j \in DOMAIN leaves :
          leaves[i].subject = leaves[j].subject /\ leaves[i].version = leaves[j].version => i = j
    /\ \A h, g \in Handler :
          InFlight(h) /\ InFlight(g) /\ body[h].subject = body[g].subject
              /\ version[h] = version[g] => h = g
    /\ \A i \in DOMAIN leaves, h \in Handler : InFlight(h) =>
          ~(leaves[i].subject = body[h].subject /\ leaves[i].version = version[h])
    /\ \A i \in DOMAIN leaves : leaves[i].version <= records[leaves[i].subject].version
    /\ \A h \in Handler : InFlight(h) => version[h] <= records[body[h].subject].version
    /\ \A s \in Subject : \A v \in 1..records[s].version :
          \/ \E i \in DOMAIN leaves : LeafIs(i, s, v)
          \/ \E h \in Handler : FlightIs(h, s, v)

\* A record is what the leaves of its subject and the writes in flight make it.
ReplayInv ==
    \A s \in Subject :
        /\ \A f : f \in records[s].fields <=>
              \/ \E i \in DOMAIN leaves : leaves[i].subject = s /\ f \in leaves[i].fields
              \/ \E h \in Handler : InFlight(h) /\ body[h].subject = s /\ f \in body[h].fields
        /\ \A i \in DOMAIN leaves : LeafIs(i, s, records[s].version) =>
              records[s].lifecycle = Lifecycle(leaves[i].op)
        /\ \A h \in Handler : FlightIs(h, s, records[s].version) =>
              records[s].lifecycle = Lifecycle(body[h].op)

\* Steps of the guard, of the authorizer, of the entry and of the readers change
\* no record, no leaf and no write in flight.
LEMMA WritesKept ==
    ASSUME LedgerInv, ReplayInv, leaves' = leaves, records' = records,
           \A h \in Handler : InFlight(h)' <=> InFlight(h),
           \A h \in Handler : InFlight(h) => body'[h] = body[h] /\ version'[h] = version[h]
    PROVE  LedgerInv' /\ ReplayInv'
<1>1. \A h \in Handler : \A s, v : FlightIs(h, s, v)' <=> FlightIs(h, s, v)
  BY DEF FlightIs
<1>2. \A i \in DOMAIN leaves : \A s, v : LeafIs(i, s, v)' <=> LeafIs(i, s, v)
  BY DEF LeafIs
<1>3. LedgerInv'
  BY <1>1, <1>2 DEF LedgerInv
<1>4. ReplayInv'
  <2> SUFFICES ASSUME NEW s \in Subject
               PROVE  /\ \A f : f \in records'[s].fields <=>
                            \/ \E i \in DOMAIN leaves' : leaves'[i].subject = s /\ f \in leaves'[i].fields
                            \/ \E h \in Handler : InFlight(h)' /\ body'[h].subject = s /\ f \in body'[h].fields
                      /\ \A i \in DOMAIN leaves' : LeafIs(i, s, records[s].version)' =>
                            records'[s].lifecycle = Lifecycle(leaves'[i].op)
                      /\ \A h \in Handler : FlightIs(h, s, records[s].version)' =>
                            records'[s].lifecycle = Lifecycle(body'[h].op)
    BY DEF ReplayInv
  <2>1. \A f : f \in records'[s].fields <=>
          \/ \E i \in DOMAIN leaves' : leaves'[i].subject = s /\ f \in leaves'[i].fields
          \/ \E h \in Handler : InFlight(h)' /\ body'[h].subject = s /\ f \in body'[h].fields
    BY DEF ReplayInv
  <2>2. \A i \in DOMAIN leaves' : LeafIs(i, s, records[s].version)' =>
          records'[s].lifecycle = Lifecycle(leaves'[i].op)
    BY DEF ReplayInv, LeafIs
  <2>3. \A h \in Handler : FlightIs(h, s, records[s].version)' =>
          records'[s].lifecycle = Lifecycle(body'[h].op)
    BY DEF ReplayInv, FlightIs
  <2>4. QED
    BY <2>1, <2>2, <2>3
<1>5. QED
  BY <1>3, <1>4

\* A write takes the version after the last one of its subject.
LEMMA ApplyCounts ==
    ASSUME TypeOK, LedgerInv, ReplayInv, NEW h \in Handler, ApplyRecord(h)
    PROVE  LedgerInv' /\ ReplayInv'
<1> DEFINE b == body[h]
           t == b.subject
           n == records[t].version
<1>1. h \in Actor /\ t \in Subject /\ n \in Nat /\ b.fields \subseteq Field
  BY DEF Actor, TypeOK, BodyType, Record
<1>2. pc[h] = "apply" /\ pc' = [pc EXCEPT ![h] = "entry"] /\ leaves' = leaves /\ body' = body
  BY DEF ApplyRecord, logVars
<1>3. records' = [records EXCEPT ![t] = Applied(records[t], b)]
  BY DEF ApplyRecord
<1>4. /\ records'[t].version = n + 1
      /\ records'[t].lifecycle = Lifecycle(b.op)
      /\ records'[t].fields = records[t].fields \cup b.fields
      /\ \A s \in Subject : s # t => records'[s] = records[s]
  BY <1>1, <1>3 DEF TypeOK, Applied
<1>5. version' = [version EXCEPT ![h] = n + 1]
  BY <1>4 DEF ApplyRecord
<1>6. /\ ~InFlight(h) /\ InFlight(h)' /\ version'[h] = n + 1
      /\ \A g \in Handler : g # h => (InFlight(g)' <=> InFlight(g)) /\ version'[g] = version[g]
  BY <1>1, <1>2, <1>5 DEF InFlight, TypeOK, Actor
<1>7. /\ \A i \in DOMAIN leaves : leaves[i].subject \in Subject /\ leaves[i].version \in Nat \ {0}
      /\ \A g \in Handler : body[g].subject \in Subject /\ version[g] \in Nat
      /\ \A s \in Subject : records[s].version \in Nat
  <2>1. \A i \in DOMAIN leaves : leaves[i] \in Entry
    BY DEF TypeOK
  <2>2. \A g \in Handler : body[g] \in BodyType /\ version[g] \in Nat
    BY DEF TypeOK
  <2>3. \A s \in Subject : records[s] \in Record
    BY DEF TypeOK
  <2>4. \A i \in DOMAIN leaves : leaves[i].subject \in Subject /\ leaves[i].version \in Nat \ {0}
    BY <2>1 DEF Entry
  <2>5. QED
    BY <2>2, <2>3, <2>4 DEF BodyType, Record
<1> HIDE DEF b, t, n
<1>8. b = body[h] /\ body[h].subject = t /\ records[t].version = n
  BY DEF b, t, n
<1>9. /\ \A i \in DOMAIN leaves : leaves[i].subject = t => leaves[i].version <= n
      /\ \A g \in Handler : InFlight(g) /\ body[g].subject = t => version[g] <= n
  BY <1>8 DEF LedgerInv
<1>10. ~(n + 1 <= n)
  BY <1>1
<1>11. \A i, j \in DOMAIN leaves' :
          leaves'[i].subject = leaves'[j].subject /\ leaves'[i].version = leaves'[j].version => i = j
  BY <1>2 DEF LedgerInv
<1>12. ASSUME NEW f \in Handler, NEW g \in Handler, InFlight(f)', InFlight(g)',
              body'[f].subject = body'[g].subject, version'[f] = version'[g]
       PROVE  f = g
  <2>1. CASE f = h /\ g # h
    BY <1>2, <1>6, <1>8, <1>9, <1>10, <1>12, <2>1
  <2>2. CASE g = h /\ f # h
    BY <1>2, <1>6, <1>8, <1>9, <1>10, <1>12, <2>2
  <2>3. CASE f # h /\ g # h
    BY <1>2, <1>6, <1>12, <2>3 DEF LedgerInv
  <2>4. QED
    BY <2>1, <2>2, <2>3
<1>13. ASSUME NEW i \in DOMAIN leaves', NEW g \in Handler, InFlight(g)',
              leaves'[i].subject = body'[g].subject, leaves'[i].version = version'[g]
       PROVE  FALSE
  <2>1. CASE g = h
    BY <1>2, <1>6, <1>8, <1>9, <1>10, <1>13, <2>1
  <2>2. CASE g # h
    BY <1>2, <1>6, <1>13, <2>2 DEF LedgerInv
  <2>3. QED
    BY <2>1, <2>2
<1>14. \A s \in Subject : records[s].version <= records'[s].version
  BY <1>1, <1>4, <1>7, <1>8
<1>15. \A i \in DOMAIN leaves' : leaves'[i].version <= records'[leaves'[i].subject].version
  <2> SUFFICES ASSUME NEW i \in DOMAIN leaves
               PROVE  leaves[i].version <= records'[leaves[i].subject].version
    BY <1>2
  <2>1. leaves[i].version <= records[leaves[i].subject].version
    BY DEF LedgerInv
  <2>2. CASE leaves[i].subject = t
    BY <1>1, <1>4, <1>7, <1>8, <2>1, <2>2
  <2>3. CASE leaves[i].subject # t
    BY <1>4, <1>7, <2>1, <2>3
  <2>4. QED
    BY <2>2, <2>3
<1>16. ASSUME NEW g \in Handler, InFlight(g)'
       PROVE  version'[g] <= records'[body'[g].subject].version
  <2>1. CASE g = h
    BY <1>1, <1>2, <1>4, <1>6, <1>8, <2>1
  <2>2. CASE g # h
    <3>1. version'[g] = version[g] /\ body'[g] = body[g] /\ version[g] <= records[body[g].subject].version
      BY <1>2, <1>6, <1>16, <2>2 DEF LedgerInv
    <3>2. CASE body[g].subject = t
      BY <1>1, <1>4, <1>7, <1>8, <3>1, <3>2
    <3>3. CASE body[g].subject # t
      BY <1>4, <1>7, <3>1, <3>3
    <3>4. QED
      BY <3>2, <3>3
  <2>3. QED
    BY <2>1, <2>2
<1>17. ASSUME NEW s \in Subject, NEW v \in 1..records'[s].version
       PROVE  \/ \E i \in DOMAIN leaves' : LeafIs(i, s, v)'
              \/ \E g \in Handler : FlightIs(g, s, v)'
  <2>1. CASE s = t /\ v = n + 1
    BY <1>2, <1>6, <1>8, <2>1 DEF FlightIs
  <2>2. CASE ~(s = t /\ v = n + 1)
    <3>1. v \in 1..records[s].version
      BY <1>1, <1>4, <1>8, <2>2
    <3>2. CASE \E i \in DOMAIN leaves : LeafIs(i, s, v)
      BY <1>2, <3>2 DEF LeafIs
    <3>3. CASE \E g \in Handler : FlightIs(g, s, v)
      BY <1>2, <1>6, <3>3 DEF FlightIs
    <3>4. QED
      BY <3>1, <3>2, <3>3 DEF LedgerInv
  <2>3. QED
    BY <2>1, <2>2
<1>18. LedgerInv'
  BY <1>11, <1>12, <1>13, <1>15, <1>16, <1>17 DEF LedgerInv
<1>19. ReplayInv'
  <2> SUFFICES ASSUME NEW s \in Subject
               PROVE  /\ \A f : f \in records'[s].fields <=>
                            \/ \E i \in DOMAIN leaves' : leaves'[i].subject = s /\ f \in leaves'[i].fields
                            \/ \E g \in Handler : InFlight(g)' /\ body'[g].subject = s /\ f \in body'[g].fields
                      /\ \A i \in DOMAIN leaves' : LeafIs(i, s, records[s].version)' =>
                            records'[s].lifecycle = Lifecycle(leaves'[i].op)
                      /\ \A g \in Handler : FlightIs(g, s, records[s].version)' =>
                            records'[s].lifecycle = Lifecycle(body'[g].op)
    BY DEF ReplayInv
  <2>1. ASSUME NEW f
        PROVE  f \in records'[s].fields <=>
                 \/ \E i \in DOMAIN leaves' : leaves'[i].subject = s /\ f \in leaves'[i].fields
                 \/ \E g \in Handler : InFlight(g)' /\ body'[g].subject = s /\ f \in body'[g].fields
    <3>1. f \in records'[s].fields <=> f \in records[s].fields \/ (s = t /\ f \in b.fields)
      BY <1>4
    <3>2. f \in records[s].fields <=>
            \/ \E i \in DOMAIN leaves : leaves[i].subject = s /\ f \in leaves[i].fields
            \/ \E g \in Handler : InFlight(g) /\ body[g].subject = s /\ f \in body[g].fields
      BY DEF ReplayInv
    <3>3. (\E g \in Handler : InFlight(g)' /\ body'[g].subject = s /\ f \in body'[g].fields)
            <=> \/ \E g \in Handler : InFlight(g) /\ body[g].subject = s /\ f \in body[g].fields
                \/ s = t /\ f \in b.fields
      BY <1>2, <1>6, <1>8
    <3>4. QED
      BY <1>2, <3>1, <3>2, <3>3
  <2>2. CASE s = t
    <3>1. \A i \in DOMAIN leaves' : ~LeafIs(i, s, records[s].version)'
      BY <1>2, <1>4, <1>9, <1>10, <2>2 DEF LeafIs
    <3>2. \A g \in Handler : FlightIs(g, s, records[s].version)' => g = h
      BY <1>2, <1>4, <1>6, <1>9, <1>10, <2>2 DEF FlightIs
    <3>3. records'[s].lifecycle = Lifecycle(body'[h].op)
      BY <1>2, <1>4, <1>8, <2>2
    <3>4. QED
      BY <2>1, <3>1, <3>2, <3>3
  <2>3. CASE s # t
    <3>1. records'[s] = records[s]
      BY <1>4, <2>3
    <3>2. \A i \in DOMAIN leaves' : LeafIs(i, s, records[s].version)' =>
            records'[s].lifecycle = Lifecycle(leaves'[i].op)
      BY <1>2, <3>1 DEF ReplayInv, LeafIs
    <3>3. \A g \in Handler : FlightIs(g, s, records[s].version)' =>
            FlightIs(g, s, records[s].version)
      BY <1>2, <1>6, <1>8, <2>3, <3>1 DEF FlightIs
    <3>4. \A g \in Handler : FlightIs(g, s, records[s].version)' =>
            records'[s].lifecycle = Lifecycle(body'[g].op)
      BY <1>2, <3>1, <3>3 DEF ReplayInv
    <3>5. QED
      BY <2>1, <3>2, <3>4
  <2>4. QED
    BY <2>2, <2>3
<1>20. QED
  BY <1>18, <1>19

\* The leaf of a write takes its place among the versions of the subject.
LEMMA LeafCounts ==
    ASSUME TypeOK, LedgerInv, ReplayInv, NEW h \in Handler, AppendLeaf(h)
    PROVE  LedgerInv' /\ ReplayInv'
<1> DEFINE e == EntryOf(h)
           t == body[h].subject
           w == version[h]
           k == Len(leaves) + 1
<1>1. h \in Actor /\ t \in Subject
  BY DEF Actor, TypeOK, BodyType
<1>2. /\ pc[h] = "leaf" /\ pc' = [pc EXCEPT ![h] = "size"]
      /\ leaves' = Append(leaves, e)
      /\ records' = records /\ body' = body /\ version' = version
  BY DEF AppendLeaf
<1>3. InFlight(h) /\ \A g \in Handler : InFlight(g)' <=> InFlight(g) /\ g # h
  BY <1>1, <1>2 DEF InFlight, TypeOK, Actor
<1>4. e.subject = t /\ e.version = w /\ e.op = body[h].op /\ e.fields = body[h].fields
  BY DEF EntryOf
<1> HIDE DEF e
<1>5. /\ k \in DOMAIN leaves' /\ leaves'[k] = e /\ k \notin DOMAIN leaves
      /\ \A i \in DOMAIN leaves : i \in DOMAIN leaves' /\ leaves'[i] = leaves[i]
      /\ \A i \in DOMAIN leaves' : i = k \/ i \in DOMAIN leaves
  BY <1>2 DEF TypeOK
<1> HIDE DEF t, w, k
<1>6. \A i \in DOMAIN leaves : ~(leaves[i].subject = t /\ leaves[i].version = w)
  BY <1>3 DEF LedgerInv, t, w
<1>7. \A i, j \in DOMAIN leaves' :
          leaves'[i].subject = leaves'[j].subject /\ leaves'[i].version = leaves'[j].version => i = j
  BY <1>4, <1>5, <1>6 DEF LedgerInv
<1>8. \A f, g \in Handler :
          InFlight(f)' /\ InFlight(g)' /\ body'[f].subject = body'[g].subject
              /\ version'[f] = version'[g] => f = g
  BY <1>2, <1>3 DEF LedgerInv
<1>9. \A g \in Handler : InFlight(g)' => ~(body[g].subject = t /\ version[g] = w)
  BY <1>3 DEF LedgerInv, t, w
<1>10. \A i \in DOMAIN leaves', g \in Handler : InFlight(g)' =>
          ~(leaves'[i].subject = body'[g].subject /\ leaves'[i].version = version'[g])
  BY <1>2, <1>3, <1>4, <1>5, <1>9 DEF LedgerInv
<1>11. w <= records[t].version
  BY <1>3 DEF LedgerInv, t, w
<1>12. \A i \in DOMAIN leaves' : leaves'[i].version <= records'[leaves'[i].subject].version
  BY <1>2, <1>4, <1>5, <1>11 DEF LedgerInv
<1>13. \A g \in Handler : InFlight(g)' => version'[g] <= records'[body'[g].subject].version
  BY <1>2, <1>3 DEF LedgerInv
<1>14. ASSUME NEW s \in Subject, NEW v \in 1..records'[s].version
       PROVE  \/ \E i \in DOMAIN leaves' : LeafIs(i, s, v)'
              \/ \E g \in Handler : FlightIs(g, s, v)'
  <2>1. CASE \E i \in DOMAIN leaves : LeafIs(i, s, v)
    BY <1>5, <2>1 DEF LeafIs
  <2>2. CASE s = t /\ v = w
    BY <1>4, <1>5, <2>2 DEF LeafIs
  <2>3. ASSUME NEW g \in Handler, FlightIs(g, s, v), ~(s = t /\ v = w)
        PROVE  FlightIs(g, s, v)'
    BY <1>2, <1>3, <2>3 DEF FlightIs, t, w
  <2>4. QED
    BY <1>2, <2>1, <2>2, <2>3 DEF LedgerInv
<1>15. LedgerInv'
  BY <1>7, <1>8, <1>10, <1>12, <1>13, <1>14 DEF LedgerInv
<1>16. ReplayInv'
  <2> SUFFICES ASSUME NEW s \in Subject
               PROVE  /\ \A f : f \in records'[s].fields <=>
                            \/ \E i \in DOMAIN leaves' : leaves'[i].subject = s /\ f \in leaves'[i].fields
                            \/ \E g \in Handler : InFlight(g)' /\ body'[g].subject = s /\ f \in body'[g].fields
                      /\ \A i \in DOMAIN leaves' : LeafIs(i, s, records[s].version)' =>
                            records'[s].lifecycle = Lifecycle(leaves'[i].op)
                      /\ \A g \in Handler : FlightIs(g, s, records[s].version)' =>
                            records'[s].lifecycle = Lifecycle(body'[g].op)
    BY DEF ReplayInv
  <2>1. ASSUME NEW f
        PROVE  f \in records'[s].fields <=>
                 \/ \E i \in DOMAIN leaves' : leaves'[i].subject = s /\ f \in leaves'[i].fields
                 \/ \E g \in Handler : InFlight(g)' /\ body'[g].subject = s /\ f \in body'[g].fields
    <3>1. f \in records[s].fields <=>
            \/ \E i \in DOMAIN leaves : leaves[i].subject = s /\ f \in leaves[i].fields
            \/ \E g \in Handler : InFlight(g) /\ body[g].subject = s /\ f \in body[g].fields
      BY DEF ReplayInv
    <3>2. (\E i \in DOMAIN leaves' : leaves'[i].subject = s /\ f \in leaves'[i].fields)
            <=> \/ \E i \in DOMAIN leaves : leaves[i].subject = s /\ f \in leaves[i].fields
                \/ t = s /\ f \in body[h].fields
      BY <1>4, <1>5
    <3>3. (\E g \in Handler : InFlight(g) /\ body[g].subject = s /\ f \in body[g].fields)
            <=> \/ \E g \in Handler : InFlight(g)' /\ body'[g].subject = s /\ f \in body'[g].fields
                \/ t = s /\ f \in body[h].fields
      BY <1>2, <1>3 DEF t
    <3>4. QED
      BY <1>2, <3>1, <3>2, <3>3
  <2>2. ASSUME NEW i \in DOMAIN leaves', LeafIs(i, s, records[s].version)'
        PROVE  records'[s].lifecycle = Lifecycle(leaves'[i].op)
    <3>1. CASE i = k
      <4>1. FlightIs(h, s, records[s].version)
        BY <1>2, <1>3, <1>4, <1>5, <2>2, <3>1 DEF LeafIs, FlightIs, t, w
      <4>2. QED
        BY <1>2, <1>4, <1>5, <3>1, <4>1 DEF ReplayInv
    <3>2. CASE i \in DOMAIN leaves
      BY <1>2, <1>5, <2>2, <3>2 DEF LeafIs, ReplayInv
    <3>3. QED
      BY <1>5, <3>1, <3>2
  <2>3. ASSUME NEW g \in Handler, FlightIs(g, s, records[s].version)'
        PROVE  records'[s].lifecycle = Lifecycle(body'[g].op)
    BY <1>2, <1>3, <2>3 DEF FlightIs, ReplayInv
  <2>4. QED
    BY <2>1, <2>2, <2>3
<1>17. QED
  BY <1>15, <1>16

\* Every step of every thread keeps the account of versions and of fields.
LEMMA WritesStep ==
    TypeOK /\ LedgerInv /\ ReplayInv /\ [Next]_vars => LedgerInv' /\ ReplayInv'
<1> SUFFICES ASSUME TypeOK, LedgerInv, ReplayInv, [Next]_vars PROVE LedgerInv' /\ ReplayInv'
  OBVIOUS
<1>1. Handler \subseteq Actor
  BY DEF Actor
<1>2. ASSUME NEW h \in Handler, Handle(h) PROVE LedgerInv' /\ ReplayInv'
  <2>1. CASE Receive(h) \/ NonceGuard(h) \/ Authorize(h) \/ AppendEntry(h)
    <3>1. leaves' = leaves /\ records' = records
      BY <2>1 DEF Receive, NonceGuard, Authorize, AppendEntry, logVars
    <3>2. \A g \in Handler : InFlight(g)' <=> InFlight(g)
      BY <1>1, <2>1 DEF Receive, NonceGuard, Authorize, AppendEntry, Refuse, InFlight, TypeOK
    <3>3. \A g \in Handler : InFlight(g) => body'[g] = body[g] /\ version'[g] = version[g]
      BY <2>1 DEF Receive, NonceGuard, Authorize, AppendEntry, InFlight, TypeOK
    <3>4. QED
      BY <3>1, <3>2, <3>3, WritesKept
  <2>2. CASE ApplyRecord(h)
    BY <2>2, ApplyCounts
  <2>3. CASE AppendLeaf(h)
    BY <2>3, LeafCounts
  <2>4. QED
    BY <1>2, <2>1, <2>2, <2>3 DEF Handle
<1>3. ASSUME NEW a \in Actor, Publish(a) PROVE LedgerInv' /\ ReplayInv'
  <2>1. leaves' = leaves /\ records' = records /\ body' = body /\ version' = version
    BY <1>3 DEF Publish, ReadSize, ReadLeft, Respond, logVars
  <2>2. \A g \in Handler : InFlight(g)' <=> InFlight(g)
    BY <1>1, <1>3 DEF Publish, ReadSize, ReadLeft, Respond, InFlight, TypeOK
  <2>3. QED
    BY <2>1, <2>2, WritesKept
<1>4. CASE UNCHANGED vars
  BY <1>4, WritesKept DEF vars, InFlight
<1>5. QED
  BY <1>2, <1>3, <1>4 DEF Next

\* The accounts of versions and of fields hold in every reachable state.
LEMMA AlwaysAccounted == Spec => [](LedgerInv /\ ReplayInv)
<1>1. Init => LedgerInv /\ ReplayInv
  <2> SUFFICES ASSUME Init PROVE LedgerInv /\ ReplayInv
    OBVIOUS
  <2>1. DOMAIN leaves = {} /\ \A h \in Handler : ~InFlight(h)
    BY DEF Init, InFlight, Actor
  <2>2. \A s \in Subject : records[s].version = 0 /\ records[s].fields = {}
    BY DEF Init
  <2>3. \A s \in Subject : 1..records[s].version = {}
    BY <2>2
  <2>4. QED
    BY <2>1, <2>2, <2>3 DEF LedgerInv, ReplayInv, FlightIs
<1>2. QED
  BY <1>1, WritesStep, BindingTypeCorrect, PTL DEF Spec

\* Each version that a record went through belongs to exactly one leaf, or to one
\* handler that has still to log it, for any number of handlers and subjects.
THEOREM EveryVersionLogged == Spec => []VersionsAccounted
<1>1. TypeOK /\ LedgerInv => VersionsAccounted
  <2> SUFFICES ASSUME TypeOK, LedgerInv, NEW s \in Subject
               PROVE  LET logged(v) == {i \in DOMAIN leaves : leaves[i].subject = s /\ leaves[i].version = v}
                          flying(v) == {h \in Handler : InFlight(h) /\ body[h].subject = s /\ version[h] = v}
                      IN  /\ \A v \in 1..records[s].version :
                                Cardinality(logged(v)) + Cardinality(flying(v)) = 1
                          /\ \A i \in DOMAIN leaves :
                                leaves[i].subject = s => leaves[i].version \in 1..records[s].version
    BY DEF VersionsAccounted
  <2> DEFINE logged(v) == {i \in DOMAIN leaves : leaves[i].subject = s /\ leaves[i].version = v}
             flying(v) == {h \in Handler : InFlight(h) /\ body[h].subject = s /\ version[h] = v}
  <2>1. ASSUME NEW v \in 1..records[s].version
        PROVE  Cardinality(logged(v)) + Cardinality(flying(v)) = 1
    <3>1. CASE \E i \in DOMAIN leaves : LeafIs(i, s, v)
      <4>1. PICK i \in DOMAIN leaves : LeafIs(i, s, v)
        BY <3>1
      <4>2. logged(v) = {i} /\ flying(v) = {}
        BY <4>1 DEF LedgerInv, LeafIs
      <4> HIDE DEF logged, flying
      <4>3. Cardinality(logged(v)) = 1 /\ Cardinality(flying(v)) = 0
        BY <4>2, FS_Singleton, FS_EmptySet
      <4>4. QED
        BY <4>3
    <3>2. CASE \E h \in Handler : FlightIs(h, s, v)
      <4>1. PICK h \in Handler : FlightIs(h, s, v)
        BY <3>2
      <4>2. logged(v) = {} /\ flying(v) = {h}
        BY <4>1 DEF LedgerInv, FlightIs
      <4> HIDE DEF logged, flying
      <4>3. Cardinality(logged(v)) = 0 /\ Cardinality(flying(v)) = 1
        BY <4>2, FS_Singleton, FS_EmptySet
      <4>4. QED
        BY <4>3
    <3>3. QED
      BY <3>1, <3>2 DEF LedgerInv
  <2>2. \A i \in DOMAIN leaves :
          leaves[i].subject = s => leaves[i].version \in 1..records[s].version
    <3>1. \A i \in DOMAIN leaves : leaves[i] \in Entry
      BY DEF TypeOK
    <3>2. \A i \in DOMAIN leaves : leaves[i].version \in Nat \ {0}
      BY <3>1 DEF Entry
    <3>3. records[s].version \in Nat
      BY DEF TypeOK, Record
    <3>4. QED
      BY <3>2, <3>3 DEF LedgerInv
  <2>3. QED
    BY <2>1, <2>2
<1>2. QED
  BY <1>1, AlwaysAccounted, BindingTypeCorrect, PTL

\* Once no write is under way, every record is the one its leaves describe: all
\* the fields logged, and the lifecycle of the highest version.
THEOREM LogRestoresRecords == Spec => []RecordIsReplayOfLog
<1>1. ReplayInv => RecordIsReplayOfLog
  <2> SUFFICES ASSUME ReplayInv, \A h \in Handler : ~InFlight(h), NEW s \in Subject
               PROVE  LET own == {i \in DOMAIN leaves : leaves[i].subject = s} IN
                      /\ records[s].fields = UNION {leaves[i].fields : i \in own}
                      /\ \A i \in own : leaves[i].version = records[s].version =>
                             records[s].lifecycle = Lifecycle(leaves[i].op)
    BY DEF RecordIsReplayOfLog
  <2> DEFINE own == {i \in DOMAIN leaves : leaves[i].subject = s}
  <2>1. \A f : f \in records[s].fields <=> \E i \in own : f \in leaves[i].fields
    BY DEF ReplayInv
  <2>2. \A f : f \in records[s].fields <=> f \in UNION {leaves[i].fields : i \in own}
    BY <2>1
  <2>3. records[s].fields = UNION {leaves[i].fields : i \in own}
    BY <2>2
  <2>4. QED
    BY <2>3 DEF ReplayInv, LeafIs
<1>2. QED
  BY <1>1, AlwaysAccounted, PTL

-----------------------------------------------------------------------------
\* The write of handler h is among the first n leaves.
Holds(h, n) == n <= Len(leaves) /\ \E i \in 1..n : leaves[i] = EntryOf(h)

\* What the threads between the log and their answers know of the log.
TreeInv ==
    /\ \A h \in Handler :
          /\ pc[h] = "size" => Holds(h, Len(leaves))
          /\ pc[h] \in {"root", "right"} => Holds(h, size[h])
          /\ answer[h].status = "applied" => pc[h] = "idle" /\ Holds(h, answer[h].size)
    /\ \A a \in Actor :
          /\ pc[a] = "root" => size[a] <= Len(leaves)
          /\ pc[a] = "right" => size[a] <= rootLen[a] /\ rootLen[a] <= Len(leaves)
          /\ answer[a].status \in {"applied", "signed"} => answer[a].size <= Len(leaves)
    /\ CurrentTreeIsExact

\* The write of a handler stays where it is in a log that grows at its end.
LEMMA HoldsStays ==
    ASSUME TypeOK, leaves' = leaves \/ \E e \in Entry : leaves' = Append(leaves, e),
           NEW h \in Handler, EntryOf(h)' = EntryOf(h)
    PROVE  /\ Len(leaves) \in Nat /\ Len(leaves) <= Len(leaves')
           /\ \A n \in Nat : Holds(h, n) => Holds(h, n)'
<1>1. Len(leaves) \in Nat /\ DOMAIN leaves = 1..Len(leaves)
  BY DEF TypeOK
<1>2. Len(leaves') \in Nat /\ Len(leaves) <= Len(leaves')
  BY <1>1 DEF TypeOK
<1>3. \A i \in 1..Len(leaves) : leaves'[i] = leaves[i]
  <2>1. ASSUME NEW e \in Entry, leaves' = Append(leaves, e), NEW i \in 1..Len(leaves)
        PROVE  leaves'[i] = leaves[i]
    BY <2>1 DEF TypeOK
  <2>2. QED
    BY <2>1
<1>4. ASSUME NEW n \in Nat, Holds(h, n) PROVE Holds(h, n)'
  <2>1. PICK i \in 1..n : leaves[i] = EntryOf(h)
    BY <1>4 DEF Holds
  <2>2. n <= Len(leaves) /\ n <= Len(leaves') /\ i \in 1..Len(leaves)
    BY <1>1, <1>2, <1>4 DEF Holds
  <2>3. leaves'[i] = EntryOf(h)'
    BY <1>3, <2>1, <2>2
  <2>4. QED
    BY <2>2, <2>3 DEF Holds
<1>5. QED
  BY <1>1, <1>2, <1>4

\* Every step keeps what the threads know of the log: an answer that names a size
\* below a new length is no longer current.
LEMMA TreeStep == TypeOK /\ Counted /\ TreeInv /\ [Next]_vars => TreeInv'
<1> SUFFICES ASSUME TypeOK, Counted, TreeInv, [Next]_vars PROVE TreeInv'
  OBVIOUS
<1>1. Handler \subseteq Actor
  BY DEF Actor
<1>2. \A a \in Actor : answer[a].status \in {"applied", "signed"} => answer[a].size \in Nat
  <2>1. \A r \in Answer : r.status \in {"applied", "signed"} => r.size \in Nat
    BY DEF Answer, NoAnswer, Refusal
  <2>2. QED
    BY <2>1 DEF TypeOK
<1>3. \A a \in Actor : size[a] \in Nat /\ rootLen[a] \in Nat
  BY DEF TypeOK
<1>4. Len(leaves) \in Nat
  BY DEF TypeOK
<1>5. ASSUME NEW h \in Handler, Handle(h) PROVE TreeInv'
  <2>1. leaves' = leaves \/ \E e \in Entry : leaves' = Append(leaves, e)
    <3>1. InFlight(h) => EntryOf(h) \in Entry
      BY DEF Counted, EntryOf, Entry, BodyType, TypeOK
    <3>2. QED
      BY <1>5, <3>1 DEF Handle, Receive, NonceGuard, Authorize, ApplyRecord, AppendEntry,
                        AppendLeaf, logVars, InFlight
  <2>2. UNCHANGED <<size, rootLen>>
    BY <1>5 DEF Handle, Receive, NonceGuard, Authorize, ApplyRecord, AppendEntry, AppendLeaf
  <2>3. \A a \in Actor : a # h => pc'[a] = pc[a] /\ answer'[a] = answer[a]
    BY <1>1, <1>5 DEF Handle, Receive, NonceGuard, Authorize, ApplyRecord, AppendEntry,
                      AppendLeaf, Refuse, TypeOK
  <2>4. \A g \in Handler : g # h => EntryOf(g)' = EntryOf(g)
    BY <1>5 DEF Handle, Receive, NonceGuard, Authorize, ApplyRecord, AppendEntry,
                AppendLeaf, EntryOf, TypeOK
  <2>5. pc[h] \in {"idle", "guard", "authorize", "apply", "entry", "leaf"}
    BY <1>5 DEF Handle, Receive, NonceGuard, Authorize, ApplyRecord, AppendEntry, AppendLeaf
  <2>6. pc'[h] \in {"idle", "guard", "authorize", "apply", "entry", "leaf", "size"}
    BY <1>1, <1>5 DEF Handle, Receive, NonceGuard, Authorize, ApplyRecord, AppendEntry,
                      AppendLeaf, Refuse, TypeOK
  <2>7. answer'[h].status \notin {"applied", "signed"} \/ (answer'[h] = answer[h] /\ pc[h] # "idle")
    BY <1>1, <1>5 DEF Handle, Receive, NonceGuard, Authorize, ApplyRecord, AppendEntry,
                      AppendLeaf, Refuse, TypeOK, NoAnswer
  <2>8. answer'[h].status # "applied"
    BY <2>7 DEF TreeInv
  <2>9. pc'[h] = "size" => Holds(h, Len(leaves))'
    <3> SUFFICES ASSUME pc'[h] = "size" PROVE Holds(h, Len(leaves))'
      OBVIOUS
    <3>1. AppendLeaf(h)
      BY <1>1, <1>5 DEF Handle, Receive, NonceGuard, Authorize, ApplyRecord, AppendEntry, Refuse, TypeOK
    <3>2. leaves' = Append(leaves, EntryOf(h)) /\ EntryOf(h)' = EntryOf(h)
      BY <3>1 DEF AppendLeaf, EntryOf
    <3>3. Len(leaves') = Len(leaves) + 1 /\ leaves'[Len(leaves) + 1] = EntryOf(h)'
      BY <3>2 DEF TypeOK
    <3>4. QED
      BY <1>4, <3>3 DEF Holds
  <2>10. ASSUME NEW g \in Handler
         PROVE  /\ pc'[g] = "size" => Holds(g, Len(leaves))'
                /\ pc'[g] \in {"root", "right"} => Holds(g, size[g])'
                /\ answer'[g].status = "applied" => pc'[g] = "idle" /\ Holds(g, answer[g].size)'
    <3>1. CASE g = h
      BY <2>6, <2>8, <2>9, <3>1
    <3>2. CASE g # h
      <4>1. /\ Len(leaves) <= Len(leaves')
            /\ \A n \in Nat : Holds(g, n) => (n <= Len(leaves') /\ \E i \in 1..n : leaves'[i] = EntryOf(g)')
        BY <2>1, <2>4, <3>2, HoldsStays DEF Holds
      <4>2. pc'[g] = "size" => Holds(g, Len(leaves))'
        <5>1. Len(leaves') \in Nat
          BY <2>1, <1>4 DEF TypeOK
        <5>2. QED
          BY <1>1, <1>4, <2>3, <3>2, <4>1, <5>1 DEF TreeInv, Holds
      <4>3. pc'[g] \in {"root", "right"} => Holds(g, size[g])'
        BY <1>1, <1>3, <2>2, <2>3, <3>2, <4>1 DEF TreeInv, Holds
      <4>4. answer'[g].status = "applied" => pc'[g] = "idle" /\ Holds(g, answer[g].size)'
        BY <1>1, <1>2, <2>3, <3>2, <4>1 DEF TreeInv, Holds
      <4>5. QED
        BY <4>2, <4>3, <4>4
    <3>3. QED
      BY <3>1, <3>2
  <2>11. Len(leaves') \in Nat /\ Len(leaves) <= Len(leaves')
    BY <1>4, <2>1 DEF TypeOK
  <2>12. ASSUME NEW a \in Actor
         PROVE  /\ pc'[a] = "root" => size'[a] <= Len(leaves')
                /\ pc'[a] = "right" => size'[a] <= rootLen'[a] /\ rootLen'[a] <= Len(leaves')
                /\ answer'[a].status \in {"applied", "signed"} =>
                      answer[a].status \in {"applied", "signed"} /\ answer'[a] = answer[a]
                         /\ answer[a].size <= Len(leaves)
    <3>1. CASE a = h
      BY <2>6, <2>7, <3>1 DEF TreeInv
    <3>2. CASE a # h
      BY <1>3, <1>4, <2>2, <2>3, <2>11, <3>2 DEF TreeInv
    <3>3. QED
      BY <3>1, <3>2
  <2>13. leaves' # leaves => Len(leaves) < Len(leaves')
    BY <1>4, <2>1 DEF TypeOK
  <2>14. ASSUME NEW a \in Actor, answer'[a].status \in {"applied", "signed"}
         PROVE  /\ answer'[a].size <= Len(leaves')
                /\ answer'[a].size = Len(leaves') => IsRootOf(answer'[a].root, answer'[a].size)
    <3>1. answer'[a] = answer[a] /\ answer[a].size \in Nat /\ answer[a].size <= Len(leaves)
      BY <1>2, <2>12, <2>14
    <3>2. answer[a].size <= Len(leaves')
      BY <1>4, <2>11, <3>1
    <3>3. ASSUME answer'[a].size = Len(leaves') PROVE leaves' = leaves
      BY <1>4, <2>11, <2>13, <3>1, <3>3
    <3>4. answer[a].status \in {"applied", "signed"}
      BY <2>14, <3>1
    <3>5. QED
      BY <3>1, <3>2, <3>3, <3>4 DEF TreeInv, CurrentTreeIsExact
  <2>15. CurrentTreeIsExact'
    BY <2>14 DEF CurrentTreeIsExact, IsRootOf
  <2>16. QED
    BY <2>10, <2>12, <2>14, <2>15 DEF TreeInv
<1>6. ASSUME NEW a \in Actor, Publish(a) PROVE TreeInv'
  <2>1. leaves' = leaves /\ \A g \in Handler : EntryOf(g)' = EntryOf(g)
    BY <1>6 DEF Publish, ReadSize, ReadLeft, Respond, logVars, EntryOf
  <2>2. \A g \in Handler : \A n : Holds(g, n) => (n <= Len(leaves') /\ \E i \in 1..n : leaves'[i] = EntryOf(g)')
    BY <2>1 DEF Holds
  <2>3. \A b \in Actor : b # a => /\ pc'[b] = pc[b] /\ answer'[b] = answer[b]
                                  /\ size'[b] = size[b] /\ rootLen'[b] = rootLen[b]
    BY <1>6 DEF Publish, ReadSize, ReadLeft, Respond, TypeOK
  <2>4. CASE ReadSize(a)
    <3>1. /\ pc'[a] = "root" /\ size'[a] = Len(leaves)
          /\ answer' = answer /\ rootLen' = rootLen
      BY <2>4 DEF ReadSize, TypeOK
    <3>2. a \in Handler => pc[a] = "size"
      BY <2>4, ThreadAssumption DEF ReadSize
    <3>3. ASSUME NEW g \in Handler
          PROVE  /\ pc'[g] = "size" => Holds(g, Len(leaves))'
                 /\ pc'[g] \in {"root", "right"} => Holds(g, size[g])'
                 /\ answer'[g].status = "applied" => pc'[g] = "idle" /\ Holds(g, answer[g].size)'
      <4>1. CASE g = a
        BY <2>1, <2>2, <3>1, <3>2, <4>1 DEF TreeInv, Holds
      <4>2. CASE g # a
        BY <1>1, <2>1, <2>2, <2>3, <4>2 DEF TreeInv, Holds
      <4>3. QED
        BY <4>1, <4>2
    <3>4. ASSUME NEW b \in Actor
          PROVE  /\ pc'[b] = "root" => size'[b] <= Len(leaves')
                 /\ pc'[b] = "right" => size'[b] <= rootLen'[b] /\ rootLen'[b] <= Len(leaves')
                 /\ answer'[b].status \in {"applied", "signed"} => answer'[b].size <= Len(leaves')
      BY <1>4, <2>1, <2>3, <3>1 DEF TreeInv
    <3>5. CurrentTreeIsExact'
      BY <2>1, <3>1 DEF TreeInv, CurrentTreeIsExact, IsRootOf
    <3>6. QED
      BY <3>3, <3>4, <3>5 DEF TreeInv
  <2>5. CASE ReadLeft(a)
    <3>1. /\ pc[a] = "root" /\ pc'[a] = "right" /\ rootLen'[a] = Len(leaves)
          /\ answer' = answer /\ size' = size
      BY <2>5 DEF ReadLeft, TypeOK
    <3>2. ASSUME NEW g \in Handler
          PROVE  /\ pc'[g] = "size" => Holds(g, Len(leaves))'
                 /\ pc'[g] \in {"root", "right"} => Holds(g, size[g])'
                 /\ answer'[g].status = "applied" => pc'[g] = "idle" /\ Holds(g, answer[g].size)'
      <4>1. CASE g = a
        BY <2>1, <2>2, <3>1, <4>1 DEF TreeInv, Holds
      <4>2. CASE g # a
        BY <1>1, <2>1, <2>2, <2>3, <4>2 DEF TreeInv, Holds
      <4>3. QED
        BY <4>1, <4>2
    <3>3. ASSUME NEW b \in Actor
          PROVE  /\ pc'[b] = "root" => size'[b] <= Len(leaves')
                 /\ pc'[b] = "right" => size'[b] <= rootLen'[b] /\ rootLen'[b] <= Len(leaves')
                 /\ answer'[b].status \in {"applied", "signed"} => answer'[b].size <= Len(leaves')
      BY <1>4, <2>1, <2>3, <3>1 DEF TreeInv
    <3>4. CurrentTreeIsExact'
      BY <2>1, <3>1 DEF TreeInv, CurrentTreeIsExact, IsRootOf
    <3>5. QED
      BY <3>2, <3>3, <3>4 DEF TreeInv
  <2>6. CASE Respond(a)
    <3>1. /\ pc[a] = "right" /\ pc'[a] = "idle"
          /\ answer'[a].size = size[a] /\ answer'[a].root = RootRead(a)
      BY <2>6 DEF Respond, TypeOK
    <3>2. size[a] <= rootLen[a] /\ rootLen[a] <= Len(leaves)
      BY <3>1 DEF TreeInv
    <3>3. ASSUME NEW g \in Handler
          PROVE  /\ pc'[g] = "size" => Holds(g, Len(leaves))'
                 /\ pc'[g] \in {"root", "right"} => Holds(g, size[g])'
                 /\ answer'[g].status = "applied" => pc'[g] = "idle" /\ Holds(g, answer[g].size)'
      <4>1. CASE g = a
        BY <2>1, <2>2, <3>1, <4>1 DEF TreeInv, Holds
      <4>2. CASE g # a
        BY <1>1, <2>1, <2>2, <2>3, <4>2 DEF TreeInv, Holds
      <4>3. QED
        BY <4>1, <4>2
    <3>4. ASSUME NEW b \in Actor
          PROVE  /\ pc'[b] = "root" => size'[b] <= Len(leaves')
                 /\ pc'[b] = "right" => size'[b] <= rootLen'[b] /\ rootLen'[b] <= Len(leaves')
                 /\ answer'[b].status \in {"applied", "signed"} => answer'[b].size <= Len(leaves')
      <4>1. CASE b = a
        BY <1>3, <1>4, <2>1, <3>1, <3>2, <4>1
      <4>2. CASE b # a
        BY <2>1, <2>3, <4>2 DEF TreeInv
      <4>3. QED
        BY <4>1, <4>2
    <3>5. size[a] = Len(leaves) => RootRead(a) = [len |-> size[a], total |-> size[a]]
      <4>1. size[a] = Len(leaves) => rootLen[a] = size[a]
        BY <1>3, <1>4, <3>2
      <4>2. QED
        BY <4>1 DEF RootRead
    <3>6. size[a] = Len(leaves) => IsRootOf(RootRead(a), size[a])
      BY <3>5 DEF IsRootOf
    <3>7. CurrentTreeIsExact'
      <4> SUFFICES ASSUME NEW b \in Actor, answer'[b].status \in {"applied", "signed"},
                          answer'[b].size = Len(leaves')
                   PROVE  IsRootOf(answer'[b].root, answer'[b].size)
        BY DEF CurrentTreeIsExact, IsRootOf
      <4>1. CASE b = a
        BY <2>1, <3>1, <3>6, <4>1
      <4>2. CASE b # a
        BY <2>1, <2>3, <4>2 DEF TreeInv, CurrentTreeIsExact
      <4>3. QED
        BY <4>1, <4>2
    <3>8. QED
      BY <3>3, <3>4, <3>7 DEF TreeInv
  <2>7. QED
    BY <1>6, <2>4, <2>5, <2>6 DEF Publish
<1>7. CASE UNCHANGED vars
  <2>1. \A g \in Handler : \A n : Holds(g, n)' <=> Holds(g, n)
    BY <1>7 DEF vars, Holds, EntryOf
  <2>2. QED
    BY <1>7 DEF vars, TreeInv, CurrentTreeIsExact, IsRootOf, Holds, EntryOf
<1>8. QED
  BY <1>5, <1>6, <1>7 DEF Next

\* What is known of the log holds in every reachable state.
LEMMA AlwaysTreeInv == Spec => []TreeInv
<1>1. Init => TreeInv
  BY DEF Init, TreeInv, CurrentTreeIsExact, NoAnswer, Actor
<1>2. QED
  BY <1>1, TreeStep, AlwaysTyped, PTL DEF Spec

\* Every "applied" that a client is told names a tree that holds its write, now
\* and after any number of later writes.
THEOREM AppliedIsLogged == Spec => []AnsweredTreeHoldsWrite
<1>1. TypeOK /\ TreeInv => AnsweredTreeHoldsWrite
  <2> SUFFICES ASSUME TypeOK, TreeInv, NEW h \in Handler, answer[h].status = "applied"
               PROVE  /\ answer[h].size \in 1..Len(leaves)
                      /\ \E i \in 1..answer[h].size : leaves[i] = EntryOf(h)
    BY DEF AnsweredTreeHoldsWrite
  <2>1. h \in Actor /\ answer[h] \in Answer
    BY DEF TypeOK, Actor
  <2>2. answer[h].size \in Nat
    BY <2>1 DEF Answer, NoAnswer, Refusal
  <2>3. answer[h].size <= Len(leaves) /\ \E i \in 1..answer[h].size : leaves[i] = EntryOf(h)
    BY DEF TreeInv, Holds
  <2>4. QED
    BY <2>2, <2>3
<1>2. QED
  BY <1>1, AlwaysTreeInv, BindingTypeCorrect, PTL

\* As long as nothing was appended since a thread read the size, the root it
\* answers or signs is that of the tree of that size.
THEOREM CurrentTreeExact == Spec => []CurrentTreeIsExact
<1>1. TreeInv => CurrentTreeIsExact
  BY DEF TreeInv
<1>2. QED
  BY <1>1, AlwaysTreeInv, PTL
=============================================================================
