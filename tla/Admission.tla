----------------------------- MODULE Admission -----------------------------
(***************************************************************************)
(* Entry-mode sources and their admission: ANSEntryConverter.admit of        *)
(* sm_bridge/onboarding.py, SmBridge.admit_entries of sm_bridge/router.py,    *)
(* and the dispatch of TrustRegistry.verify.                                *)
(*                                                                         *)
(* admit_entries is a coroutine.  It may be called again while an earlier    *)
(* call waits for a trust profile, strictly (require_verified) or not, and   *)
(* both then stamp the same converters.  What a coroutine does between two   *)
(* waits is one step.                                                       *)
(***************************************************************************)
EXTENDS Naturals, Sequences, SequencesExt

CONSTANTS
    Source,     \* the entry-mode converters
    Entries,    \* the sequence that the bridge was given
    HasHook,    \* the converters that have a method admit
    Profile,    \* Profile[c]: its trust_profile
    Attested,   \* the converters that hold admission evidence
    HasTrust,   \* whether the bridge has a trust registry
    ProfileId,  \* the profiles that can be registered
    Task        \* concurrent calls of admit_entries

ASSUME SourceAssumption ==
    /\ Entries \in Seq(Source)
    /\ HasHook \subseteq Source /\ Attested \subseteq Source
    /\ HasTrust \in BOOLEAN

Verdict == {"VERIFIED", "FAILED", "NOT_VERIFIED"}

VARIABLES
    profiles,   \* TrustRegistry._profiles
    proof,      \* proof[c]: the proof of converter c, "none" before any admission
    task        \* each call of admit_entries

vars == <<profiles, proof, task>>

Idle == [at |-> "idle", strict |-> FALSE, listed |-> <<>>]

TaskState ==
    [at : {"idle", "sweep", "verify", "returned", "raised"}, strict : BOOLEAN,
     listed : Seq([source : Source, proof : Verdict \cup {"none"}])]

TypeOK ==
    /\ profiles \subseteq ProfileId
    /\ proof \in [Source -> Verdict \cup {"none"}]
    /\ task \in [Task -> TaskState]
    /\ \A t \in Task :
          /\ Len(task[t].listed) <= Len(Entries)
          /\ task[t].at \in {"sweep", "verify"} => Len(task[t].listed) < Len(Entries)

Init ==
    /\ profiles = {}
    /\ proof = [c \in Source |-> "none"]
    /\ task = [t \in Task |-> Idle]

\* TrustRegistry.register
RegisterProfile ==
    /\ \E p \in ProfileId \ profiles : profiles' = profiles \cup {p}
    /\ UNCHANGED <<proof, task>>

-----------------------------------------------------------------------------
(* admit_entries. *)

\* to_entry(): the entry as it is now.
Entry(c, pr) == [source |-> c, proof |-> pr[c]]

\* The source under admission.
Current(t) == Entries[Len(task[t].listed) + 1]

\* With no trust registry the entries are listed as they are.
Begin(t) ==
    /\ task[t].at \in {"idle", "returned", "raised"}
    /\ \E strict \in BOOLEAN :
          task' = [task EXCEPT ![t] =
              IF HasTrust /\ Entries # <<>>
              THEN [at |-> "sweep", strict |-> strict, listed |-> <<>>]
              ELSE [at |-> "returned", strict |-> strict,
                    listed |-> [i \in DOMAIN Entries |-> Entry(Entries[i], proof)]]]
    /\ UNCHANGED <<profiles, proof>>

\* Mutant of ListCurrent: the entries are listed once the loop has ended.
ListCurrentAtEnd(t, pr) ==
    LET longer == [i \in 1..(Len(task[t].listed) + 1) |-> Entry(Entries[i], pr)] IN
    task' = [task EXCEPT ![t].listed = longer,
                         ![t].at = IF Len(longer) = Len(Entries) THEN "returned" ELSE "sweep"]

\* admitted.append(conv.to_entry()), with the proofs pr, and on to the next source.
ListCurrent(t, pr) ==
    LET longer == Append(task[t].listed, Entry(Current(t), pr)) IN
    task' = [task EXCEPT ![t].listed = longer,
                         ![t].at = IF Len(longer) = Len(Entries)
                                   THEN "returned" ELSE "sweep"]

\* A converter without the method is listed unseen.
ListUnseen(t) ==
    /\ task[t].at = "sweep"
    /\ Current(t) \notin HasHook
    /\ ListCurrent(t, proof)
    /\ UNCHANGED <<profiles, proof>>

Refused(t, verdict) == task[t].strict /\ verdict # "VERIFIED"

\* The end of admit: a strict call raises on a verdict that is not VERIFIED and
\* leaves the proof as it was; every other call replaces it.
Stamp(t, verdict) ==
    LET stamped == [proof EXCEPT ![Current(t)] = verdict] IN
    /\ \/ /\ Refused(t, verdict)
          /\ task' = [task EXCEPT ![t].at = "raised"]
          /\ UNCHANGED proof
       \/ /\ ~Refused(t, verdict)
          /\ proof' = stamped
          /\ ListCurrent(t, stamped)
    /\ UNCHANGED profiles

\* admit with nothing to wait for: no evidence, or a profile nobody registered.
AdmitAtOnce(t) ==
    /\ task[t].at = "sweep"
    /\ Current(t) \in HasHook
    /\ Current(t) \notin Attested \/ Profile[Current(t)] \notin profiles
    /\ Stamp(t, "NOT_VERIFIED")

\* admit up to its wait for the profile.
AdmitAwaits(t) ==
    /\ task[t].at = "sweep"
    /\ Current(t) \in HasHook \cap Attested
    /\ Profile[Current(t)] \in profiles
    /\ task' = [task EXCEPT ![t].at = "verify"]
    /\ UNCHANGED <<profiles, proof>>

\* The profile answers.
AdmitResumes(t) ==
    /\ task[t].at = "verify"
    /\ \E verdict \in Verdict : Stamp(t, verdict)

\* The profile raises, and so does the whole call.
AdmitFails(t) ==
    /\ task[t].at = "verify"
    /\ task' = [task EXCEPT ![t].at = "raised"]
    /\ UNCHANGED <<profiles, proof>>

Sweep(t) ==
    Begin(t) \/ ListUnseen(t) \/ AdmitAtOnce(t) \/ AdmitAwaits(t) \/ AdmitResumes(t) \/ AdmitFails(t)

Next == RegisterProfile \/ \E t \in Task : Sweep(t)

Spec == Init /\ [][Next]_vars

-----------------------------------------------------------------------------
(* Properties. *)

\* onboarding.py:192: a strict call that returns has listed no source whose
\* attestation it did not see VERIFIED, whatever lax calls stamped meanwhile; only
\* a converter without the method admit is listed unseen.
StrictSweepListsVerified ==
    \A t \in Task :
        HasTrust /\ task[t].at = "returned" /\ task[t].strict =>
            \A i \in DOMAIN task[t].listed :
                task[t].listed[i].source \in HasHook => task[t].listed[i].proof = "VERIFIED"
=============================================================================
