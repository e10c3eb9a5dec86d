----------------------------- MODULE Delegation -----------------------------
(***************************************************************************)
(* The delegation profile: NandaDelegationProfile.verify and                *)
(* _validate_chain of sm_bridge/trust/delegation.py, as the loop over the   *)
(* hops of a chain that they are.                                           *)
(*                                                                         *)
(* Evidence is what the caller supplies, complete or not.  A scope is the   *)
(* sequence of its dot-separated labels, so that "starts with s + '.'" is   *)
(* a proper prefix.  Times are numbers.  A signature entry is abstracted to *)
(* the credential it is a valid signature of: the entry is found by         *)
(* delegationId but verified over the whole credential.  The fields of a    *)
(* credential that no rule compares (schemaVersion, subject, the syntax of  *)
(* the timestamps) are abstracted to shape: "malformed" when the code turns *)
(* the defect into a verdict; the other three raise out of verify, each in  *)
(* its own place.  "unhashable": the id is no key of a dictionary (a list). *)
(* "uncanonical": jcs_canonical refuses a value (a float).  "unreadable": a *)
(* rule meets a type it cannot handle (a null subject, a depth that is no   *)
(* number).  An entry of the chain that is no dictionary has no id.         *)
(***************************************************************************)
EXTENDS Integers, Sequences

CONSTANTS
    Id,         \* delegationIds
    NoId,       \* an absent delegationId or parentDelegation
    Label,      \* the labels of a scope
    NoEntry,    \* no signature material, or no status token, for an id
    Forged,     \* a signature entry that verifies over no credential
    MaxChain,   \* _MAX_CHAIN
    Evidence    \* the evidence blocks that callers present

Scope == Seq(Label)

Credential ==
    [id : Id \cup {NoId}, parent : Id \cup {NoId}, scopes : SUBSET Scope, depth : Int, issued : Int, expires : Int,
     shape : {"ok", "malformed", "unhashable", "uncanonical", "unreadable"}]

Token == [status : {"ACTIVE", "REVOKED", "other"}, exp : Int]

EvidenceType ==
    [chain : Seq(Credential),
     hasSignatures : BOOLEAN, signatures : [Id -> Credential \cup {Forged, NoEntry}],
     hasScopes : BOOLEAN, providerScopes : SUBSET Scope,
     tokens : [Id -> Token \cup {NoEntry}], hasTime : BOOLEAN, now : Int]

ASSUME NoIdAssumption == NoId \notin Id
ASSUME EntryAssumption == NoEntry \notin Credential \cup Token /\ Forged \notin Credential
ASSUME EvidenceAssumption ==
    \A e \in Evidence : e \in EvidenceType
ASSUME MaxChainAssumption == MaxChain \in Nat

VARIABLES
    ev,         \* the evidence under verification
    phase,      \* which part of verify runs
    hop,        \* the position of the credential it looks at
    status,     \* the verdict, "none" until there is one
    reason      \* what the verdict is about

vars == <<ev, phase, hop, status, reason>>

Phase == {"presence", "signatures", "rules", "done"}
Status == {"none", "VERIFIED", "FAILED", "NOT_VERIFIED", "raised"}

TypeOK ==
    /\ ev \in EvidenceType
    /\ phase \in Phase
    /\ hop \in Nat
    /\ phase \in {"signatures", "rules"} => hop \in 1..Len(ev.chain)
    /\ status \in Status
    /\ (status = "none") <=> (phase # "done")

Init ==
    /\ ev \in Evidence
    /\ phase = "presence"
    /\ hop = 0
    /\ status = "none"
    /\ reason = "none"

Answer(verdict, why) ==
    /\ status' = verdict
    /\ reason' = why
    /\ phase' = "done"
    /\ UNCHANGED <<ev, hop>>

\* Go on to the next credential, or to the next phase after the last one.
GoOn(next) ==
    /\ IF hop < Len(ev.chain)
       THEN hop' = hop + 1 /\ UNCHANGED phase
       ELSE hop' = 1 /\ phase' = next
    /\ UNCHANGED <<ev, status, reason>>

-----------------------------------------------------------------------------
(* The rules. *)

\* Mutant of Covers: the label boundary is that of the covered scope.
CoversReversed(s, t) == Len(t) <= Len(s) /\ \A k \in 1..Len(t) : s[k] = t[k]

\* scope_covers: t is s, or s is a proper prefix of t at a label boundary.
Covers(s, t) == Len(s) <= Len(t) /\ \A k \in 1..Len(s) : s[k] = t[k]

ScopeSubset(child, parent) == \A c \in child : \E p \in parent : Covers(p, c)

Cred(i) == ev.chain[i]

WellFormed(i) ==
    /\ Cred(i).shape = "ok"
    /\ Cred(i).scopes # {}
    /\ Cred(i).depth >= 0
    /\ Cred(i).expires > Cred(i).issued

\* Mutant of Linked: a credential without a parent is accepted anywhere.
LinkedIfParent(i) == Cred(i).parent \in {NoId, IF i = 1 THEN NoId ELSE Cred(i-1).id}

Linked(i) == Cred(i).parent = IF i = 1 THEN NoId ELSE Cred(i-1).id

TokenOf(i) == ev.tokens[Cred(i).id]

\* Mutant of Fresh: any token that is not a revocation counts.
FreshUnlessRevoked(i) ==
    /\ TokenOf(i) # NoEntry
    /\ TokenOf(i).status # "REVOKED"
    /\ TokenOf(i).exp >= ev.now

Fresh(i) ==
    /\ TokenOf(i) # NoEntry
    /\ TokenOf(i).status = "ACTIVE"
    /\ TokenOf(i).exp >= ev.now

InWindow(i) == Cred(i).issued <= ev.now /\ ev.now < Cred(i).expires

WithinDepth(i) == Len(ev.chain) - i <= Cred(i).depth

Contained(i) ==
    ScopeSubset(Cred(i).scopes, IF i = 1 THEN ev.providerScopes ELSE Cred(i-1).scopes)

Nested(i) ==
    i > 1 => Cred(i).issued >= Cred(i-1).issued /\ Cred(i).expires <= Cred(i-1).expires

\* The first rule that credential i violates, in the order of _validate_chain.
Violation(i) ==
    IF ~WellFormed(i) THEN "malformed"
    ELSE IF ~Linked(i) THEN "linkage"
    ELSE IF ~Fresh(i) THEN "status"
    ELSE IF ~InWindow(i) THEN "window"
    ELSE IF ~WithinDepth(i) THEN "depth"
    ELSE IF ~Contained(i) THEN "scope"
    ELSE IF ~Nested(i) THEN "nesting"
    ELSE "none"

RuleReason == {"malformed", "linkage", "status", "window", "depth", "scope", "nesting"}

\* _verify_signature: a valid signature over the whole credential.
Signed(i) == Cred(i).id # NoId /\ ev.signatures[Cred(i).id] = Cred(i)

-----------------------------------------------------------------------------
(* verify, one step per check or credential. *)

CheckPresence ==
    /\ phase = "presence"
    /\ IF ev.chain = <<>> THEN Answer("NOT_VERIFIED", "no chain")
       ELSE IF Len(ev.chain) > MaxChain THEN Answer("FAILED", "too long")
       ELSE IF ~ev.hasSignatures THEN Answer("NOT_VERIFIED", "no signatures")
       ELSE IF ~ev.hasScopes THEN Answer("NOT_VERIFIED", "no provider scopes")
       ELSE IF ~ev.hasTime THEN Answer("raised", "now")
       ELSE /\ phase' = "signatures"
            /\ hop' = 1
            /\ UNCHANGED <<ev, status, reason>>

\* Mutant of CheckSignature: a hop without material is left to the rules.
CheckSignatureIfAny ==
    /\ phase = "signatures"
    /\ IF Cred(hop).id = NoId THEN Answer("FAILED", "malformed")
       ELSE IF Cred(hop).shape = "unhashable" THEN Answer("raised", "unhashable")
       ELSE IF ev.signatures[Cred(hop).id] = NoEntry THEN GoOn("rules")
       ELSE IF Cred(hop).shape = "uncanonical" THEN Answer("raised", "uncanonical")
       ELSE IF ~Signed(hop) THEN Answer("FAILED", "forged")
       ELSE GoOn("rules")

\* The id, the material and the signature of one credential.  A credential without
\* an id gets here the reason that the first rule would give it.
CheckSignature ==
    /\ phase = "signatures"
    /\ IF Cred(hop).id = NoId THEN Answer("FAILED", "malformed")
       ELSE IF Cred(hop).shape = "unhashable" THEN Answer("raised", "unhashable")
       ELSE IF ev.signatures[Cred(hop).id] = NoEntry
            THEN Answer("NOT_VERIFIED", "no signature material")
       ELSE IF Cred(hop).shape = "uncanonical" THEN Answer("raised", "uncanonical")
       ELSE IF ~Signed(hop) THEN Answer("FAILED", "forged")
       ELSE GoOn("rules")

CheckRules ==
    /\ phase = "rules"
    /\ IF Cred(hop).shape = "unreadable" THEN Answer("raised", "unreadable")
       ELSE IF Violation(hop) # "none" THEN Answer("FAILED", Violation(hop))
       ELSE IF hop < Len(ev.chain) THEN GoOn("rules")
       ELSE Answer("VERIFIED", "none")

Next == CheckPresence \/ CheckSignature \/ CheckRules

Spec == Init /\ [][Next]_vars /\ WF_vars(Next)

-----------------------------------------------------------------------------
(* Properties. *)

Hops == 1..Len(ev.chain)

\* Scope c is p or lies below it in the hierarchy of labels.
Refines(c, p) == Len(p) <= Len(c) /\ \A k \in 1..Len(p) : c[k] = p[k]

\* Authority only shrinks: every scope of every credential of a VERIFIED chain is
\* covered by a scope the provider itself holds, however long the chain, although
\* each hop is only compared with the one before it.
ScopesComeFromProvider ==
    status = "VERIFIED" =>
        \A i \in Hops : \A c \in Cred(i).scopes :
            \E p \in ev.providerScopes : Refines(c, p)

\* No credential of a VERIFIED chain outlives or predates any of its ancestors,
\* and all are valid at the time of evaluation.
WindowsNest ==
    status = "VERIFIED" =>
        \A i, j \in Hops : i <= j =>
            /\ Cred(i).issued <= Cred(j).issued
            /\ Cred(j).issued <= ev.now
            /\ ev.now < Cred(j).expires
            /\ Cred(j).expires <= Cred(i).expires

\* A VERIFIED chain is a path from the root: no credential occurs twice in it,
\* although no check compares a hop with any but the one before it.
HopsAreDistinct ==
    status = "VERIFIED" =>
        \A i, j \in Hops : Cred(i).id = Cred(j).id => i = j

\* Every hop of a VERIFIED chain was signed, holds an active token that is still
\* fresh and allows the redelegations below it: one bad hop is enough to refuse.
EveryHopAccepted ==
    status = "VERIFIED" =>
        \A i \in Hops :
            /\ ev.signatures[Cred(i).id] = Cred(i)
            /\ ev.tokens[Cred(i).id] # NoEntry
            /\ ev.tokens[Cred(i).id].status = "ACTIVE"
            /\ ev.tokens[Cred(i).id].exp >= ev.now
            /\ Len(ev.chain) - i <= Cred(i).depth

SignedBefore(h) == \A i \in 1..(h-1) : Signed(i)

\* The verdict says what was found out.  A rule is reported broken only in a chain
\* that is signed at every hop, or at every hop before the one that has no id;
\* "forged" and "no signature material" name the first hop that is not signed; and
\* verify raises only for a time, an id or a credential that it cannot read, behind
\* signed hops only.
VerdictIsHonest ==
    /\ status = "FAILED" /\ reason \in RuleReason =>
          \/ \A i \in Hops : Signed(i)
          \/ reason = "malformed" /\ Cred(hop).id = NoId /\ SignedBefore(hop)
    /\ status = "FAILED" /\ reason = "forged" =>
          /\ Cred(hop).shape # "uncanonical" /\ ev.signatures[Cred(hop).id] # NoEntry
          /\ ~Signed(hop) /\ SignedBefore(hop)
    /\ status = "NOT_VERIFIED" =>
          \/ ev.chain = <<>> \/ ~ev.hasSignatures \/ ~ev.hasScopes
          \/ Cred(hop).id # NoId /\ ev.signatures[Cred(hop).id] = NoEntry /\ SignedBefore(hop)
    /\ status = "raised" =>
          \/ ~ev.hasTime
          \/ Cred(hop).shape \in {"unhashable", "uncanonical"} /\ SignedBefore(hop)
          \/ Cred(hop).shape = "unreadable" /\ \A i \in Hops : Signed(i)
=============================================================================
