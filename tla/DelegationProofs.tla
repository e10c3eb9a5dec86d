-------------------------- MODULE DelegationProofs --------------------------
(***************************************************************************)
(* Proofs about Delegation for chains of every length and evidence of every  *)
(* kind.  The loop over the hops is the induction: Walked collects what is    *)
(* known of the hops behind it.                                             *)
(***************************************************************************)
EXTENDS Delegation, TLAPS

\* Every scope of credential i lies under one of the provider's.
Rooted(i) == \A c \in Cred(i).scopes : \E p \in ev.providerScopes : Covers(p, c)

Accepted(i) ==
    /\ Linked(i) /\ Fresh(i) /\ InWindow(i) /\ WithinDepth(i)
    /\ Contained(i) /\ Nested(i)

\* Credential j is no copy of i and lies in its window.
Below(i, j) ==
    /\ Cred(i).id # Cred(j).id
    /\ Cred(i).issued <= Cred(j).issued
    /\ Cred(j).expires <= Cred(i).expires

\* What the walk has found out about the first n hops.
Walked(n) ==
    /\ \A i \in 1..n : Accepted(i) /\ Rooted(i)
    /\ \A j \in 1..n : \A i \in 1..(j-1) : Below(i, j)

IInv ==
    /\ TypeOK
    /\ phase = "signatures" => \A i \in 1..(hop-1) : Signed(i)
    /\ phase = "rules" => (\A i \in Hops : Signed(i)) /\ Walked(hop - 1)
    /\ status = "VERIFIED" => (\A i \in Hops : Signed(i)) /\ Walked(Len(ev.chain))

\* What type correctness says of one hop.
LEMMA CredType ==
    ASSUME ev \in EvidenceType, NEW i \in Hops
    PROVE  /\ Cred(i) \in Credential
           /\ Cred(i).issued \in Int /\ Cred(i).expires \in Int /\ Cred(i).depth \in Int
           /\ Cred(i).scopes \in SUBSET Seq(Label)
<1>1. Cred(i) \in Credential
  BY DEF EvidenceType, Hops, Cred
<1>2. QED
  BY <1>1 DEF Credential, Scope

\* scope_covers is transitive.
LEMMA CoversTransitive ==
    ASSUME NEW r \in Seq(Label), NEW s \in Seq(Label), NEW t \in Seq(Label),
           Covers(r, s), Covers(s, t)
    PROVE  Covers(r, t)
BY DEF Covers

\* A hop without violation passes every rule.
LEMMA NoViolation ==
    ASSUME NEW i \in Hops, Violation(i) = "none"
    PROVE  Accepted(i)
BY DEF Violation, Accepted

\* A step of the loop: what held of the hops behind i holds of i too.
LEMMA RootedStep ==
    ASSUME ev \in EvidenceType, NEW i \in Hops, Accepted(i), i > 1 => Rooted(i - 1)
    PROVE  Rooted(i)
<1>1. CASE i = 1
  BY <1>1 DEF Accepted, Contained, ScopeSubset, Rooted
<1>2. CASE i > 1
  <2>1. i - 1 \in Hops
    BY <1>2 DEF Hops
  <2>2. /\ ev.providerScopes \subseteq Seq(Label)
        /\ Cred(i).scopes \subseteq Seq(Label) /\ Cred(i-1).scopes \subseteq Seq(Label)
    BY <2>1, CredType DEF EvidenceType, Scope
  <2>3. SUFFICES ASSUME NEW c \in Cred(i).scopes PROVE \E p \in ev.providerScopes : Covers(p, c)
    BY DEF Rooted
  <2>4. PICK s \in Cred(i-1).scopes : Covers(s, c)
    BY <1>2 DEF Accepted, Contained, ScopeSubset
  <2>5. PICK p \in ev.providerScopes : Covers(p, s)
    BY <1>2 DEF Rooted
  <2>6. QED
    BY <2>2, <2>4, <2>5, CoversTransitive
<1>3. QED
  BY <1>1, <1>2 DEF Hops

\* The window of an accepted hop lies inside those of all hops before it.
LEMMA BelowStep ==
    ASSUME ev \in EvidenceType, NEW j \in Hops, Accepted(j), \A i \in Hops : Signed(i),
           Walked(j - 1), NEW i \in 1..(j-1)
    PROVE  Below(i, j)
<1>1. i \in Hops /\ j - 1 \in Hops /\ j > 1
  BY DEF Hops
<1>2. /\ Cred(i).issued \in Int /\ Cred(i).expires \in Int
      /\ Cred(j).issued \in Int /\ Cred(j).expires \in Int
      /\ Cred(j-1).issued \in Int /\ Cred(j-1).expires \in Int
  BY <1>1, CredType
<1>3. /\ i # j - 1 => Below(i, j - 1)
      /\ Accepted(i)
  BY <1>1 DEF Walked, Hops
<1>4. Cred(i).issued <= Cred(j).issued /\ Cred(j).expires <= Cred(i).expires
  <2>1. Cred(j-1).issued <= Cred(j).issued /\ Cred(j).expires <= Cred(j-1).expires
    BY <1>1 DEF Accepted, Nested
  <2>2. CASE i = j - 1
    BY <2>1, <2>2
  <2>3. CASE i # j - 1
    BY <1>2, <1>3, <2>1, <2>3 DEF Below
  <2>4. QED
    BY <2>2, <2>3
<1>5. ASSUME Cred(i).id = Cred(j).id PROVE FALSE
  <2>1. Cred(i) = Cred(j)
    BY <1>1, <1>5 DEF Signed
  <2>2. Cred(i).parent = Cred(j-1).id /\ Cred(j-1).id # NoId
    BY <1>1, <2>1 DEF Accepted, Linked, Signed
  <2>3. i > 1 /\ Cred(i-1).id = Cred(j-1).id
    BY <1>1, <1>3, <2>2 DEF Accepted, Linked
  <2>4. Below(i - 1, j - 1)
    BY <1>1, <2>3 DEF Walked
  <2>5. QED
    BY <2>3, <2>4 DEF Below
<1>6. QED
  BY <1>4, <1>5 DEF Below

\* An accepted hop extends the walked part of the chain by one.
LEMMA WalkedStep ==
    ASSUME ev \in EvidenceType, NEW j \in Hops, Violation(j) = "none",
           \A i \in Hops : Signed(i), Walked(j - 1)
    PROVE  Walked(j)
<1>1. Accepted(j)
  BY NoViolation
<1>2. Rooted(j)
  BY <1>1, RootedStep DEF Walked, Hops
<1>3. \A i \in 1..(j-1) : Below(i, j)
  BY <1>1, BelowStep
<1>4. j \in Nat /\ \A i \in 1..j : i \in 1..(j-1) \/ i = j
  BY DEF Hops
<1>5. QED
  BY <1>1, <1>2, <1>3, <1>4 DEF Walked

\* Nothing is walked at the start.
LEMMA Initially == Init => IInv
<1> SUFFICES ASSUME Init PROVE IInv
  OBVIOUS
<1>1. TypeOK
  BY EvidenceAssumption DEF Init, TypeOK, Phase, Status
<1>2. QED
  BY <1>1 DEF Init, IInv

\* Every step keeps what the walked hops have passed.
LEMMA Inductive == IInv /\ [Next]_vars => IInv'
<1> SUFFICES ASSUME IInv, [Next]_vars PROVE IInv'
  OBVIOUS
<1>a. TypeOK /\ ev \in EvidenceType /\ hop \in Nat /\ Len(ev.chain) \in Nat
  BY DEF IInv, TypeOK, EvidenceType
<1>1. ASSUME NEW v \in Status \ {"none", "VERIFIED"}, NEW r, Answer(v, r) PROVE IInv'
  <2>1. status' = v /\ phase' = "done" /\ UNCHANGED <<ev, hop>>
    BY <1>1 DEF Answer
  <2>2. v \in Status /\ v # "none" /\ v # "VERIFIED"
    OBVIOUS
  <2>3. TypeOK'
    BY <1>a, <2>1, <2>2 DEF TypeOK, Phase
  <2>4. QED
    BY <2>1, <2>2, <2>3 DEF IInv
<1>2. CASE CheckPresence
  <2>1. CASE phase' = "signatures" /\ hop' = 1 /\ ev.chain # <<>> /\ UNCHANGED <<ev, status, reason>>
    <3>1. Len(ev.chain) >= 1
      BY <1>a, <2>1 DEF EvidenceType
    <3>p. phase = "presence"
      BY <1>2 DEF CheckPresence
    <3>s. status = "none"
      BY <1>a, <3>p DEF TypeOK
    <3>2. status = "none" /\ 1 \in 1..Len(ev.chain)
      BY <1>a, <3>1, <3>s
    <3>3. phase' = "signatures" /\ hop' = 1 /\ ev' = ev /\ status' = "none"
      BY <2>1, <3>2
    <3>4. TypeOK'
      BY <1>a, <3>2, <3>3 DEF TypeOK, Phase, Status
    <3>5. \A i \in 1..(hop' - 1) : Signed(i)'
      BY <3>3
    <3>6. QED
      BY <3>3, <3>4, <3>5 DEF IInv
  <2>2. QED
    BY <1>1, <1>2, <2>1 DEF CheckPresence, Status
<1>3. CASE CheckSignature
  <2>a. hop \in Hops /\ phase = "signatures" /\ status = "none"
    BY <1>a, <1>3 DEF CheckSignature, TypeOK, Hops
  <2>1. CASE GoOn("rules") /\ Signed(hop)
    <3>1. \A i \in 1..hop : Signed(i)
      BY <2>a, <2>1 DEF IInv, Hops
    <3>2. CASE hop < Len(ev.chain)
      <4>1. phase' = "signatures" /\ hop' = hop + 1 /\ UNCHANGED <<ev, status>>
        BY <2>a, <2>1, <3>2 DEF GoOn
      <4>2. TypeOK'
        BY <1>a, <2>a, <3>2, <4>1 DEF TypeOK, Phase
      <4>3. \A i \in 1..(hop' - 1) : Signed(i)'
        BY <2>a, <3>1, <4>1 DEF Signed, Cred, Hops
      <4>4. QED
        BY <2>a, <4>1, <4>2, <4>3 DEF IInv
    <3>3. CASE ~(hop < Len(ev.chain))
      <4>1. phase' = "rules" /\ hop' = 1 /\ UNCHANGED <<ev, status>>
        BY <2>a, <2>1, <3>3 DEF GoOn
      <4>2. TypeOK'
        BY <1>a, <2>a, <4>1 DEF TypeOK, Phase, Hops
      <4>3. \A i \in Hops : Signed(i)
        BY <1>a, <2>a, <3>1, <3>3 DEF Hops
      <4>4. (\A i \in Hops : Signed(i))'
        BY <4>1, <4>3 DEF Hops, Signed, Cred
      <4>5. Walked(hop - 1)'
        BY <4>1 DEF Walked
      <4>6. QED
        BY <2>a, <4>1, <4>2, <4>4, <4>5 DEF IInv
    <3>4. QED
      BY <3>2, <3>3
  <2>2. QED
    BY <1>1, <1>3, <2>1 DEF CheckSignature, Status
<1>4. CASE CheckRules
  <2>a. hop \in Hops /\ phase = "rules" /\ status = "none"
    BY <1>a, <1>4 DEF CheckRules, TypeOK, Hops
  <2>b. (\A i \in Hops : Signed(i)) /\ Walked(hop - 1)
    BY <2>a DEF IInv
  <2>1. CASE Violation(hop) = "none" /\ hop < Len(ev.chain) /\ GoOn("rules")
    <3>1. phase' = "rules" /\ hop' = hop + 1 /\ UNCHANGED <<ev, status>>
      BY <2>a, <2>1 DEF GoOn
    <3>2. TypeOK'
      BY <1>a, <2>a, <2>1, <3>1 DEF TypeOK, Phase
    <3>3. Walked(hop) /\ hop' - 1 = hop
      BY <1>a, <2>a, <2>b, <2>1, <3>1, WalkedStep
    <3>4. (\A i \in Hops : Signed(i))'
      BY <2>b, <3>1 DEF Hops, Signed, Cred
    <3>5. Walked(hop - 1)'
      BY <3>1, <3>3 DEF Walked, Accepted, Rooted, Below, Linked, Fresh, TokenOf, InWindow,
                        WithinDepth, Contained, Nested, Cred
    <3>6. QED
      BY <2>a, <3>1, <3>2, <3>4, <3>5 DEF IInv
  <2>2. CASE Violation(hop) = "none" /\ ~(hop < Len(ev.chain)) /\ Answer("VERIFIED", "none")
    <3>1. hop = Len(ev.chain) /\ phase' = "done" /\ status' = "VERIFIED" /\ UNCHANGED <<ev, hop>>
      BY <1>a, <2>a, <2>2 DEF Answer, Hops
    <3>2. TypeOK'
      BY <1>a, <3>1 DEF TypeOK, Phase, Status
    <3>3. Walked(Len(ev.chain))
      BY <1>a, <2>a, <2>b, <2>2, <3>1, WalkedStep
    <3>4. (\A i \in Hops : Signed(i))'
      BY <2>b, <3>1 DEF Hops, Signed, Cred
    <3>5. Walked(Len(ev.chain))'
      BY <3>1, <3>3 DEF Walked, Accepted, Rooted, Below, Linked, Fresh, TokenOf, InWindow,
                        WithinDepth, Contained, Nested, Cred
    <3>6. QED
      BY <3>1, <3>2, <3>4, <3>5 DEF IInv
  <2>3. QED
    BY <1>1, <1>4, <2>1, <2>2 DEF CheckRules, Status
<1>5. CASE UNCHANGED vars
  <2>1. TypeOK'
    BY <1>a, <1>5 DEF TypeOK, vars
  <2>2. QED
    BY <1>5, <2>1 DEF IInv, vars, Walked, Accepted, Rooted, Below, Linked, Fresh, TokenOf, InWindow,
                      WithinDepth, Contained, Nested, Cred, Signed, Hops
<1>6. QED
  BY <1>2, <1>3, <1>4, <1>5 DEF Next

\* The hops walked so far have passed every rule, always.
THEOREM Invariant == Spec => []IInv
BY Initially, Inductive, PTL DEF Spec

\* Types are preserved, and a verification in progress has a credential to look at.
THEOREM TypeCorrect == Spec => []TypeOK
<1>1. IInv => TypeOK
  BY DEF IInv
<1>2. QED
  BY <1>1, Invariant, PTL

\* No chain of any length that is VERIFIED holds a scope the provider does not cover.
THEOREM AuthorityShrinks == Spec => []ScopesComeFromProvider
<1>1. IInv => ScopesComeFromProvider
  BY DEF IInv, ScopesComeFromProvider, Walked, Rooted, Covers, Refines, Hops
<1>2. QED
  BY <1>1, Invariant, PTL

\* No credential occurs twice in a VERIFIED chain of any length.
THEOREM ChainIsPath == Spec => []HopsAreDistinct
<1>1. IInv => HopsAreDistinct
  <2> SUFFICES ASSUME IInv, status = "VERIFIED", NEW i \in Hops, NEW j \in Hops, Cred(i).id = Cred(j).id
               PROVE  i = j
    BY DEF HopsAreDistinct
  <2>1. Walked(Len(ev.chain)) /\ i \in 1..Len(ev.chain) /\ j \in 1..Len(ev.chain)
    BY DEF IInv, Hops
  <2>2. i < j \/ i = j \/ j < i
    BY <2>1
  <2>3. ~(i < j)
    BY <2>1 DEF Walked, Below
  <2>4. ~(j < i)
    BY <2>1 DEF Walked, Below
  <2>5. QED
    BY <2>2, <2>3, <2>4
<1>2. QED
  BY <1>1, Invariant, PTL

\* Every hop of a VERIFIED chain was signed and holds a fresh active token and
\* enough depth, whatever the length of the chain.
THEOREM NoHopIsWaved == Spec => []EveryHopAccepted
<1>1. IInv => EveryHopAccepted
  BY DEF IInv, EveryHopAccepted, Walked, Accepted, Signed, Fresh, TokenOf, WithinDepth, Hops
<1>2. QED
  BY <1>1, Invariant, PTL

\* The windows of a VERIFIED chain of any length are nested and contain now.
THEOREM WindowsAreNested == Spec => []WindowsNest
<1>1. IInv => WindowsNest
  <2> SUFFICES ASSUME IInv, status = "VERIFIED", NEW i \in Hops, NEW j \in Hops, i <= j
               PROVE  /\ Cred(i).issued <= Cred(j).issued /\ Cred(j).issued <= ev.now
                      /\ ev.now < Cred(j).expires /\ Cred(j).expires <= Cred(i).expires
    BY DEF WindowsNest
  <2>1. Walked(Len(ev.chain)) /\ i \in 1..Len(ev.chain) /\ j \in 1..Len(ev.chain)
    BY DEF IInv, Hops
  <2>2. Cred(i).issued \in Int /\ Cred(i).expires \in Int
    BY CredType DEF IInv, TypeOK
  <2>3. InWindow(j)
    BY <2>1 DEF Walked, Accepted
  <2>4. i = j \/ Below(i, j)
    BY <2>1 DEF Walked
  <2>5. QED
    BY <2>2, <2>3, <2>4 DEF InWindow, Below
<1>2. QED
  BY <1>1, Invariant, PTL

-----------------------------------------------------------------------------
\* A step that gives no verdict has none to be honest about.
LEMMA NoVerdictYet ==
    ASSUME status' = "none"
    PROVE  VerdictIsHonest'
BY DEF VerdictIsHonest

\* The hops before this one stay signed when the evidence stays as it is.
LEMMA HereSigned ==
    ASSUME ev' = ev, hop' = hop, SignedBefore(hop)
    PROVE  SignedBefore(hop)'
BY DEF SignedBefore, Signed, Cred

\* Each answer is given where what it says was found out.
LEMMA VerdictStep == IInv /\ VerdictIsHonest /\ [Next]_vars => VerdictIsHonest'
<1> SUFFICES ASSUME IInv, VerdictIsHonest, [Next]_vars PROVE VerdictIsHonest'
  OBVIOUS
<1>1. TypeOK /\ hop \in Nat
  BY DEF IInv, TypeOK
<1>2. phase # "done" => status = "none"
  BY <1>1 DEF TypeOK
<1>3. CASE CheckPresence
  <2>1. phase = "presence"
    BY <1>3 DEF CheckPresence
  <2>2. ASSUME NEW v \in {"FAILED", "NOT_VERIFIED", "raised"}, NEW r, Answer(v, r),
               v = "FAILED" => r = "too long",
               v = "NOT_VERIFIED" => ev.chain = <<>> \/ ~ev.hasSignatures \/ ~ev.hasScopes,
               v = "raised" => ~ev.hasTime
        PROVE  VerdictIsHonest'
    BY <2>2 DEF Answer, VerdictIsHonest, RuleReason
  <2>3. CASE status' = status
    BY <1>2, <2>1, <2>3, NoVerdictYet
  <2>4. QED
    BY <1>3, <2>2, <2>3 DEF CheckPresence
<1>4. CASE CheckSignature
  <2>1. phase = "signatures" /\ SignedBefore(hop)
    BY <1>4 DEF CheckSignature, IInv, SignedBefore
  <2>2. CASE Cred(hop).id = NoId /\ Answer("FAILED", "malformed")
    <3>1. status' = "FAILED" /\ reason' = "malformed" /\ ev' = ev /\ hop' = hop
      BY <2>2 DEF Answer
    <3>2. QED
      BY <2>1, <2>2, <3>1, HereSigned DEF VerdictIsHonest, Cred
  <2>3. CASE /\ Cred(hop).id # NoId /\ ev.signatures[Cred(hop).id] = NoEntry
             /\ Answer("NOT_VERIFIED", "no signature material")
    <3>1. status' = "NOT_VERIFIED" /\ ev' = ev /\ hop' = hop
      BY <2>3 DEF Answer
    <3>2. QED
      BY <2>1, <2>3, <3>1, HereSigned DEF VerdictIsHonest, Cred
  <2>4. CASE /\ Cred(hop).shape # "uncanonical" /\ ev.signatures[Cred(hop).id] # NoEntry
             /\ ~Signed(hop) /\ Answer("FAILED", "forged")
    <3>1. status' = "FAILED" /\ reason' = "forged" /\ ev' = ev /\ hop' = hop
      BY <2>4 DEF Answer
    <3>2. ~Signed(hop)'
      BY <2>4, <3>1 DEF Signed, Cred
    <3>3. QED
      BY <2>1, <2>4, <3>1, <3>2, HereSigned DEF VerdictIsHonest, RuleReason, Cred
  <2>5. ASSUME NEW r \in {"unhashable", "uncanonical"}, Cred(hop).shape = r, Answer("raised", r)
        PROVE  VerdictIsHonest'
    <3>1. status' = "raised" /\ ev' = ev /\ hop' = hop
      BY <2>5 DEF Answer
    <3>2. QED
      BY <2>1, <2>5, <3>1, HereSigned DEF VerdictIsHonest, Cred
  <2>6. CASE GoOn("rules")
    BY <1>2, <2>1, <2>6, NoVerdictYet DEF GoOn
  <2>7. QED
    BY <1>4, <2>2, <2>3, <2>4, <2>5, <2>6 DEF CheckSignature
<1>5. CASE CheckRules
  <2>1. phase = "rules" /\ \A i \in Hops : Signed(i)
    BY <1>5 DEF CheckRules, IInv
  <2>2. CASE Cred(hop).shape = "unreadable" /\ Answer("raised", "unreadable")
    <3>1. status' = "raised" /\ ev' = ev /\ hop' = hop
      BY <2>2 DEF Answer
    <3>2. QED
      BY <2>1, <2>2, <3>1 DEF VerdictIsHonest, Hops, Cred, Signed
  <2>3. CASE Violation(hop) # "none" /\ Answer("FAILED", Violation(hop))
    <3>1. status' = "FAILED" /\ reason' = Violation(hop) /\ ev' = ev
      BY <2>3 DEF Answer
    <3>2. Violation(hop) # "forged"
      BY DEF Violation
    <3>3. QED
      BY <2>1, <3>1, <3>2 DEF VerdictIsHonest, Hops, Cred, Signed
  <2>4. CASE GoOn("rules")
    BY <1>2, <2>1, <2>4, NoVerdictYet DEF GoOn
  <2>5. CASE Answer("VERIFIED", "none")
    BY <2>5 DEF Answer, VerdictIsHonest
  <2>6. QED
    BY <1>5, <2>2, <2>3, <2>4, <2>5 DEF CheckRules
<1>6. CASE UNCHANGED vars
  BY <1>6 DEF vars, VerdictIsHonest, Hops, SignedBefore, Cred, Signed
<1>7. QED
  BY <1>3, <1>4, <1>5, <1>6 DEF Next

\* A chain is reported to break a rule only once every hop was found signed, or every
\* hop before the one without an id; every other answer names what is missing, not
\* signed or unreadable, for chains of any length.
THEOREM HonestVerdict == Spec => []VerdictIsHonest
<1>1. Init => VerdictIsHonest
  BY DEF Init, VerdictIsHonest
<1>2. QED
  BY <1>1, VerdictStep, Invariant, PTL DEF Spec
=============================================================================
