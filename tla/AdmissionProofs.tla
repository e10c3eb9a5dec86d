--------------------------- MODULE AdmissionProofs ---------------------------
(***************************************************************************)
(* Proofs about Admission for any number of sources and of overlapping calls. *)
(***************************************************************************)
EXTENDS Admission, TLAPS

\* A strict call that has not raised.
Vouching(t) == HasTrust /\ task[t].strict /\ task[t].at \in {"sweep", "verify", "returned"}

\* The list of a vouching call names the sources it has passed, in order, and all
\* that have a hook were VERIFIED.
Passed(t) ==
    /\ \A i \in DOMAIN task[t].listed :
          /\ task[t].listed[i].source = Entries[i]
          /\ Entries[i] \in HasHook => task[t].listed[i].proof = "VERIFIED"
    /\ task[t].at = "returned" => Len(task[t].listed) = Len(Entries)

IInv ==
    /\ TypeOK
    /\ \A t \in Task : Vouching(t) => Passed(t)

Item == [source : Source, proof : Verdict \cup {"none"}]

\* What type correctness says of one sweep.
LEMMA TaskType ==
    ASSUME TypeOK, NEW t \in Task
    PROVE  /\ task[t] \in TaskState
           /\ task[t].listed \in Seq(Item)
           /\ task[t].strict \in BOOLEAN
           /\ Len(task[t].listed) \in Nat
           /\ Len(Entries) \in Nat
           /\ Len(task[t].listed) <= Len(Entries)
<1>1. task[t] \in TaskState
  BY DEF TypeOK
<1>2. task[t].listed \in Seq(Item) /\ task[t].strict \in BOOLEAN
  BY <1>1 DEF TaskState, Item
<1>3. Len(task[t].listed) \in Nat /\ Len(Entries) \in Nat
  BY <1>2, SourceAssumption
<1>4. QED
  BY <1>1, <1>2, <1>3 DEF TypeOK

\* A sweep in progress looks at a source of its list.
LEMMA CurrentType ==
    ASSUME TypeOK, NEW t \in Task, task[t].at \in {"sweep", "verify"}
    PROVE  Current(t) \in Source /\ Len(task[t].listed) + 1 \in DOMAIN Entries
BY TaskType, SourceAssumption DEF TypeOK, Current

\* No sweep has listed anything at the start.
LEMMA Initially == Init => IInv
<1> SUFFICES ASSUME Init PROVE IInv
  OBVIOUS
<1>1. Idle \in TaskState
  BY DEF Idle, TaskState
<1>2. \A t \in Task : task[t] = Idle
  BY DEF Init
<1>3. Len(Entries) \in Nat
  BY SourceAssumption
<1>4. TypeOK
  BY <1>1, <1>2, <1>3 DEF Init, TypeOK, Idle
<1>5. QED
  BY <1>2, <1>4 DEF IInv, Vouching, Idle

\* Appending the current source keeps the shape of a task.
LEMMA ListedType ==
    ASSUME TypeOK, NEW t \in Task, task[t].at \in {"sweep", "verify"},
           NEW pr \in [Source -> Verdict \cup {"none"}], ListCurrent(t, pr)
    PROVE  /\ task' \in [Task -> TaskState]
           /\ \A u \in Task \ {t} : task'[u] = task[u]
           /\ task'[t].strict = task[t].strict
           /\ task'[t].listed = Append(task[t].listed, Entry(Current(t), pr))
           /\ Len(task'[t].listed) = Len(task[t].listed) + 1
           /\ Len(task'[t].listed) <= Len(Entries)
           /\ task'[t].at \in {"sweep", "returned"}
           /\ task'[t].at = "sweep" => Len(task'[t].listed) < Len(Entries)
           /\ task'[t].at = "returned" => Len(task'[t].listed) = Len(Entries)
<1> DEFINE longer == Append(task[t].listed, Entry(Current(t), pr))
           after == [task[t] EXCEPT !.listed = longer,
                                    !.at = IF Len(longer) = Len(Entries) THEN "returned" ELSE "sweep"]
<1>1. task' = [task EXCEPT ![t] = after]
  BY DEF ListCurrent, TypeOK
<1>2. Entry(Current(t), pr) \in Item
  BY CurrentType DEF Entry, Item
<1>3. longer \in Seq(Item) /\ Len(longer) = Len(task[t].listed) + 1 /\ Len(longer) <= Len(Entries)
  BY <1>2, TaskType, CurrentType DEF TypeOK
<1> HIDE DEF longer
<1>4. after \in TaskState /\ after.strict = task[t].strict /\ after.listed = longer
      /\ after.at = (IF Len(longer) = Len(Entries) THEN "returned" ELSE "sweep")
  BY <1>3, TaskType DEF TaskState, Item
<1>5. Len(longer) \in Nat /\ Len(Entries) \in Nat
  BY <1>3, SourceAssumption
<1> HIDE DEF after
<1>6. task'[t] = after /\ task' \in [Task -> TaskState] /\ \A u \in Task \ {t} : task'[u] = task[u]
  BY <1>1, <1>4 DEF TypeOK
<1>7. after.at \in {"sweep", "returned"}
      /\ (after.at = "sweep" => Len(longer) < Len(Entries))
      /\ (after.at = "returned" => Len(longer) = Len(Entries))
  BY <1>3, <1>4, <1>5
<1>8. QED
  BY <1>3, <1>4, <1>6, <1>7 DEF longer

\* A task state in which nothing but at has changed.
LEMMA MovedType ==
    ASSUME TypeOK, NEW t \in Task, NEW where \in {"verify", "raised"},
           task' = [task EXCEPT ![t].at = where]
    PROVE  /\ task' \in [Task -> TaskState]
           /\ \A u \in Task \ {t} : task'[u] = task[u]
           /\ task'[t].at = where /\ task'[t].listed = task[t].listed
           /\ task'[t].strict = task[t].strict
BY TaskType DEF TypeOK, TaskState

\* A call that appends its current source still lists what it has seen VERIFIED.
LEMMA PassedGrows ==
    ASSUME TypeOK, NEW t \in Task, task[t].at \in {"sweep", "verify"},
           NEW pr \in [Source -> Verdict \cup {"none"}], ListCurrent(t, pr),
           Vouching(t) => Passed(t), task[t].strict,
           Current(t) \in HasHook => pr[Current(t)] = "VERIFIED",
           HasTrust
    PROVE  Passed(t)'
<1> DEFINE n == Len(task[t].listed)
<1>1. Passed(t) /\ n \in Nat /\ task[t].listed \in Seq(Item)
  BY TaskType DEF Vouching
<1>2. /\ task'[t].listed = Append(task[t].listed, Entry(Current(t), pr))
      /\ task'[t].at = "returned" => Len(task'[t].listed) = Len(Entries)
  BY ListedType
<1>3. /\ DOMAIN task'[t].listed = 1..(n+1)
      /\ \A i \in 1..n : task'[t].listed[i] = task[t].listed[i]
      /\ task'[t].listed[n+1] = Entry(Current(t), pr)
  BY <1>1, <1>2
<1>4. \A i \in 1..(n+1) : i \in DOMAIN Entries /\ Entries[i] \in Source
  BY <1>1, CurrentType, SourceAssumption
<1>5. ASSUME NEW i \in 1..n
      PROVE  /\ task'[t].listed[i].source = Entries[i]
             /\ Entries[i] \in HasHook => task'[t].listed[i].proof = "VERIFIED"
  <2>1. i \in DOMAIN task[t].listed /\ i \in 1..(n+1)
    BY <1>1
  <2>2. QED
    BY <1>1, <1>3, <1>4, <2>1 DEF Passed
<1>6. /\ task'[t].listed[n+1].source = Entries[n+1]
      /\ Entries[n+1] \in HasHook => task'[t].listed[n+1].proof = "VERIFIED"
  BY <1>3 DEF Entry, Current
<1>7. \A i \in 1..(n+1) : i \in 1..n \/ i = n + 1
  BY <1>1
<1>8. QED
  BY <1>2, <1>3, <1>5, <1>6, <1>7 DEF Passed

\* A call that no step moves still has what it passed.
LEMMA PassedKept ==
    ASSUME NEW t \in Task, task'[t] = task[t], Vouching(t) => Passed(t), Vouching(t)'
    PROVE  Passed(t)'
BY DEF Vouching, Passed

\* A stamp on the current source keeps the invariant: the sweep lists it or raises.
LEMMA StampKeeps ==
    ASSUME IInv, NEW t \in Task, task[t].at \in {"sweep", "verify"}, NEW v \in Verdict, Stamp(t, v)
    PROVE  IInv'
<1> DEFINE c == Current(t)
           stamped == [proof EXCEPT ![c] = v]
<1>a. TypeOK /\ c \in Source /\ task[t].strict \in BOOLEAN
  BY CurrentType, TaskType DEF IInv
<1>1. stamped \in [Source -> Verdict \cup {"none"}]
      /\ \A s \in Source : stamped[s] = IF s = c THEN v ELSE proof[s]
  BY <1>a DEF TypeOK
<1>2. profiles' = profiles
  BY DEF Stamp
<1>5. CASE Refused(t, v)
  <2>1. task' = [task EXCEPT ![t].at = "raised"] /\ proof' = proof
    BY <1>5 DEF Stamp
  <2>2. /\ task' \in [Task -> TaskState]
        /\ \A u \in Task \ {t} : task'[u] = task[u]
        /\ task'[t].at = "raised" /\ task'[t].listed = task[t].listed
    BY <1>a, <2>1, MovedType
  <2>3. TypeOK'
    BY <1>a, <1>2, <2>1, <2>2 DEF TypeOK
  <2>4. ASSUME NEW u \in Task, Vouching(u)' PROVE Passed(u)'
    <3>1. u # t
      BY <2>2, <2>4 DEF Vouching
    <3>2. task'[u] = task[u]
      BY <2>2, <3>1
    <3>3. Vouching(u) => Passed(u)
      BY DEF IInv
    <3>4. QED
      BY <2>4, <3>2, <3>3, PassedKept
  <2>5. QED
    BY <2>3, <2>4 DEF IInv
<1>6. CASE ~Refused(t, v)
  <2>1. proof' = stamped /\ ListCurrent(t, stamped)
    BY <1>6 DEF Stamp
  <2>2. /\ task' \in [Task -> TaskState]
        /\ \A u \in Task \ {t} : task'[u] = task[u]
        /\ task'[t].strict = task[t].strict
        /\ Len(task'[t].listed) <= Len(Entries)
        /\ task'[t].at \in {"sweep", "returned"}
        /\ task'[t].at = "sweep" => Len(task'[t].listed) < Len(Entries)
    BY <1>a, <1>1, <2>1, ListedType
  <2>3. TypeOK'
    BY <1>a, <1>1, <1>2, <2>1, <2>2 DEF TypeOK
  <2>4. task[t].strict => v = "VERIFIED"
    BY <1>6 DEF Refused
  <2>5. ASSUME NEW u \in Task, Vouching(u)' PROVE Passed(u)'
    <3>1. Vouching(u) => Passed(u)
      BY DEF IInv
    <3>2. CASE u = t
      <4>1. task[t].strict /\ HasTrust
        BY <2>2, <2>5, <3>2 DEF Vouching
      <4>2. stamped[c] = "VERIFIED"
        BY <1>a, <1>1, <2>4, <4>1
      <4>3. QED
        BY <1>a, <1>1, <2>1, <3>1, <3>2, <4>1, <4>2, PassedGrows
    <3>3. CASE u # t
      BY <2>2, <2>5, <3>1, <3>3, PassedKept
    <3>4. QED
      BY <3>2, <3>3
  <2>6. QED
    BY <2>3, <2>5 DEF IInv
<1>7. QED
  BY <1>5, <1>6

\* A step of t keeps what the other calls passed.
LEMMA OthersKept ==
    ASSUME IInv, TypeOK', NEW t \in Task, \A u \in Task \ {t} : task'[u] = task[u],
           Vouching(t)' => Passed(t)'
    PROVE  IInv'
<1>1. ASSUME NEW u \in Task \ {t}, Vouching(u)' PROVE Passed(u)'
  <2>1. (Vouching(u) => Passed(u)) /\ task'[u] = task[u]
    BY DEF IInv
  <2>2. QED
    BY <1>1, <2>1, PassedKept
<1>2. QED
  BY <1>1 DEF IInv

\* Every step keeps what the sweeps in progress have listed.
LEMMA Inductive == IInv /\ [Next]_vars => IInv'
<1> SUFFICES ASSUME IInv, [Next]_vars PROVE IInv'
  OBVIOUS
<1>a. TypeOK
  BY DEF IInv
<1>1. CASE RegisterProfile
  <2>1. TypeOK' /\ UNCHANGED <<proof, task>>
    BY <1>a, <1>1 DEF RegisterProfile, TypeOK
  <2>2. QED
    BY <2>1 DEF IInv, Vouching, Passed
<1>2. ASSUME NEW t \in Task, Begin(t) PROVE IInv'
  <2>1. PICK s \in BOOLEAN :
            task' = [task EXCEPT ![t] =
                IF HasTrust /\ Entries # <<>>
                THEN [at |-> "sweep", strict |-> s, listed |-> <<>>]
                ELSE [at |-> "returned", strict |-> s,
                      listed |-> [i \in DOMAIN Entries |-> Entry(Entries[i], proof)]]]
    BY <1>2 DEF Begin
  <2>2. UNCHANGED <<profiles, proof>>
    BY <1>2 DEF Begin
  <2>3. \A u \in Task \ {t} : task'[u] = task[u]
    BY <1>a, <2>1 DEF TypeOK
  <2>4. CASE HasTrust /\ Entries # <<>>
    <3>1. task'[t] = [at |-> "sweep", strict |-> s, listed |-> <<>>]
      BY <1>a, <2>1, <2>4 DEF TypeOK
    <3>2. Len(Entries) \in Nat /\ Len(Entries) > 0
      BY <2>4, SourceAssumption
    <3>e. task'[t] \in TaskState
      BY <3>1 DEF TaskState
    <3>3. task' \in [Task -> TaskState]
      BY <1>a, <2>1, <3>e DEF TypeOK
    <3>4. TypeOK'
      BY <1>a, <2>2, <2>3, <3>1, <3>2, <3>3 DEF TypeOK
    <3>5. Passed(t)'
      BY <3>1 DEF Passed
    <3>6. QED
      BY <2>2, <2>3, <3>4, <3>5, OthersKept
  <2>5. CASE ~(HasTrust /\ Entries # <<>>)
    <3> DEFINE whole == [i \in DOMAIN Entries |-> Entry(Entries[i], proof)]
    <3>1. whole \in Seq(Item) /\ Len(whole) = Len(Entries) /\ DOMAIN whole = DOMAIN Entries
      <4>1. Len(Entries) \in Nat /\ DOMAIN Entries = 1..Len(Entries) /\ \A i \in DOMAIN Entries : Entries[i] \in Source
        BY SourceAssumption
      <4>2. \A i \in 1..Len(Entries) : Entry(Entries[i], proof) \in Item
        BY <1>a, <4>1 DEF Entry, Item, TypeOK
      <4>3. whole \in [1..Len(Entries) -> Item]
        BY <4>1, <4>2
      <4>4. QED
        BY <4>1, <4>3
    <3>2. task'[t] = [at |-> "returned", strict |-> s, listed |-> whole]
      BY <1>a, <2>1, <2>5 DEF TypeOK
    <3> HIDE DEF whole
    <3>3. task'[t] \in TaskState
      BY <3>1, <3>2 DEF TaskState, Item
    <3>4. task' \in [Task -> TaskState]
      BY <1>a, <2>1, <3>3 DEF TypeOK
    <3>5. Len(Entries) \in Nat
      BY SourceAssumption
    <3>6. TypeOK'
      BY <1>a, <2>2, <2>3, <3>1, <3>2, <3>4, <3>5 DEF TypeOK
    <3>7. Vouching(t)' => Passed(t)'
      <4>1. CASE ~HasTrust
        BY <4>1 DEF Vouching
      <4>2. CASE Entries = <<>>
        BY <3>1, <3>2, <4>2 DEF Passed
      <4>3. QED
        BY <2>5, <4>1, <4>2
    <3>8. QED
      BY <2>2, <2>3, <3>6, <3>7, OthersKept
  <2>6. QED
    BY <2>4, <2>5
<1>3. ASSUME NEW t \in Task, ListUnseen(t) PROVE IInv'
  <2>1. /\ task[t].at = "sweep" /\ Current(t) \notin HasHook
        /\ ListCurrent(t, proof) /\ UNCHANGED <<profiles, proof>>
        /\ proof \in [Source -> Verdict \cup {"none"}]
    BY <1>a, <1>3 DEF ListUnseen, TypeOK
  <2>2. /\ task' \in [Task -> TaskState]
        /\ \A u \in Task \ {t} : task'[u] = task[u]
        /\ task'[t].strict = task[t].strict
        /\ Len(task'[t].listed) <= Len(Entries)
        /\ task'[t].at \in {"sweep", "returned"}
        /\ task'[t].at = "sweep" => Len(task'[t].listed) < Len(Entries)
    BY <1>a, <2>1, ListedType
  <2>3. TypeOK'
    BY <1>a, <2>1, <2>2 DEF TypeOK
  <2>4. ASSUME Vouching(t)' PROVE Passed(t)'
    <3>1. task[t].strict /\ HasTrust /\ (Vouching(t) => Passed(t))
      BY <2>2, <2>4 DEF Vouching, IInv
    <3>2. QED
      BY <1>a, <2>1, <3>1, PassedGrows
  <2>5. QED
    BY <2>1, <2>2, <2>3, <2>4, OthersKept
<1>4. ASSUME NEW t \in Task, AdmitAtOnce(t) PROVE IInv'
  BY <1>4, StampKeeps DEF AdmitAtOnce, Verdict
<1>5. ASSUME NEW t \in Task, AdmitResumes(t) PROVE IInv'
  BY <1>5, StampKeeps DEF AdmitResumes
<1>6. ASSUME NEW t \in Task, NEW where \in {"verify", "raised"}, task[t].at \in {"sweep", "verify"},
             task' = [task EXCEPT ![t].at = where], UNCHANGED <<profiles, proof>>
      PROVE  IInv'
  <2>1. /\ task' \in [Task -> TaskState]
        /\ \A u \in Task \ {t} : task'[u] = task[u]
        /\ task'[t].at = where /\ task'[t].listed = task[t].listed
        /\ task'[t].strict = task[t].strict
    BY <1>a, <1>6, MovedType
  <2>2. TypeOK'
    BY <1>a, <1>6, <2>1 DEF TypeOK
  <2>3. Vouching(t)' => Passed(t)'
    BY <1>6, <2>1 DEF IInv, Vouching, Passed
  <2>4. QED
    BY <1>6, <2>1, <2>2, <2>3, OthersKept
<1>7. ASSUME NEW t \in Task, AdmitAwaits(t) \/ AdmitFails(t) PROVE IInv'
  BY <1>6, <1>7 DEF AdmitAwaits, AdmitFails
<1>8. CASE UNCHANGED vars
  <2>1. TypeOK' /\ UNCHANGED <<proof, task>>
    BY <1>a, <1>8 DEF vars, TypeOK
  <2>2. QED
    BY <2>1 DEF IInv, Vouching, Passed
<1>9. QED
  BY <1>1, <1>2, <1>3, <1>4, <1>5, <1>7, <1>8 DEF Next, Sweep

\* What a strict sweep has listed was VERIFIED when it was stamped, always.
THEOREM Invariant == Spec => []IInv
BY Initially, Inductive, PTL DEF Spec

\* Types are preserved by overlapping sweeps and by new profiles.
THEOREM AdmissionTypeCorrect == Spec => []TypeOK
<1>1. IInv => TypeOK
  BY DEF IInv
<1>2. QED
  BY <1>1, Invariant, PTL

\* A strict call that returns lists no unverified source that has a hook, for any
\* sequence of sources and whatever calls overlap with it.
THEOREM StrictListsVerified == Spec => []StrictSweepListsVerified
<1>1. IInv => StrictSweepListsVerified
  BY DEF IInv, Vouching, Passed, StrictSweepListsVerified
<1>2. QED
  BY <1>1, Invariant, PTL
=============================================================================
