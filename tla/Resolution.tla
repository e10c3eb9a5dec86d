----------------------------- MODULE Resolution -----------------------------
(***************************************************************************)
(* GET /resolve of sm_bridge/router.py and Switchboard.resolve of             *)
(* sm_bridge/switchboard.py, while agents, trust profiles and registries are  *)
(* added and removed.                                                       *)
(*                                                                         *)
(* Both handlers are coroutines that read the agent in one step, may wait for *)
(* a trust profile, and answer with what they read.  The converter is a       *)
(* SimpleAgentConverter extended with trust_evidence, hosted on the           *)
(* switchboard too.                                                         *)
(***************************************************************************)
EXTENDS Conversion, FiniteSets

CONSTANTS
    SimpleAgent,    \* the agents that may be registered; evidence is a profile id or "none"
    Asked,          \* the identifiers that clients ask for
    RegistryName,   \* the names on the switchboard
    TrustEnabled,   \* whether a trust registry was injected
    ProfileId,
    Request

\* A skill that is a string has no keys.
ASSUME AgentAssumption ==
    \A a \in SimpleAgent :
        /\ a.id \in Seq(Token) /\ a.namespace \in Seq(Token)
        /\ a.endpoints \in Seq(STRING) /\ a.labels \in Seq(STRING)
        /\ a.skills \in Seq([text : BOOLEAN, keys : SUBSET STRING])
        /\ \A i \in DOMAIN a.skills : a.skills[i].text => a.skills[i].keys = {}
        /\ {a.resolver, a.policies, a.level, a.issuer} \subseteq BOOLEAN

ASSUME AskedAssumption == Asked \subseteq Seq(Token)

Verdict == {"VERIFIED", "FAILED", "NOT_VERIFIED"}

VARIABLES
    agents,     \* converter._agents: at most one agent of each id
    profiles,   \* TrustRegistry._profiles
    entry, hosting,     \* the names of Switchboard._entry and Switchboard._hosting
    req,        \* each request
    seen,       \* history: what was registered under the asked id, from the request's start on
    delegated   \* history: the names that were answered by delegation

served == <<agents, entry, hosting>>
vars == <<served, profiles, req, seen, delegated>>

\* What is registered under an id: at most one agent.
Held(as, id) == {a \in as : a.id = id}

Idle == [at |-> "idle", id |-> <<>>, name |-> {}, read |-> {}, status |-> "", proof |-> ""]

\* name holds the registry that the switchboard was asked for, and nothing for the route.
\* The statuses are those of the route; the switchboard's KeyError is "404".
TypeOK ==
    /\ agents \subseteq SimpleAgent
    /\ \A a \in agents : Held(agents, a.id) = {a}
    /\ profiles \subseteq ProfileId
    /\ entry \subseteq RegistryName /\ hosting \subseteq RegistryName
    /\ delegated \subseteq entry
    /\ \A r \in Request :
          /\ req[r].at \in {"idle", "verify", "done"}
          /\ req[r].name \subseteq RegistryName
          /\ req[r].status \in {"", "200", "400", "403", "404", "500", "delegated"}
          /\ req[r].proof \in Verdict \cup {"", "legacy"}
          /\ req[r].at = "verify" => Cardinality(req[r].read) = 1

Init ==
    /\ agents = {}
    /\ profiles = {}
    /\ entry = {} /\ hosting = {}
    /\ req = [r \in Request |-> Idle]
    /\ seen = [r \in Request |-> {}]
    /\ delegated = {}

-----------------------------------------------------------------------------
(* What happens around a request. *)

\* The requests under way witness what is registered under their id.
Agents(as) ==
    /\ agents' = as
    /\ seen' = [r \in Request |-> IF req[r].at = "verify" THEN seen[r] \cup {Held(as, req[r].id)}
                                  ELSE seen[r]]
    /\ UNCHANGED <<entry, hosting, profiles, req, delegated>>

\* converter.register: a known id is replaced.
Register == \E a \in SimpleAgent : Agents((agents \ Held(agents, a.id)) \cup {a})

\* converter.unregister
Unregister == \E a \in agents : Agents(agents \ {a})

RegisterProfile ==
    /\ \E p \in ProfileId \ profiles : profiles' = profiles \cup {p}
    /\ UNCHANGED <<served, req, seen, delegated>>

AddRegistry ==
    /\ \E n \in RegistryName \ entry : entry' = entry \cup {n}
    /\ UNCHANGED <<agents, hosting, profiles, req, seen, delegated>>

AddHosting ==
    /\ \E n \in RegistryName \ hosting : hosting' = hosting \cup {n}
    /\ UNCHANGED <<agents, entry, profiles, req, seen, delegated>>

-----------------------------------------------------------------------------
(* The two handlers, up to their wait. *)

Answer(r, id, name, read, status, proof) ==
    /\ req' = [req EXCEPT ![r] = [at |-> "done", id |-> id, name |-> name, read |-> read,
                                  status |-> status, proof |-> proof]]
    /\ seen' = [seen EXCEPT ![r] = {Held(agents, id)}]

\* to_sm, trust_evidence and the dispatch of TrustRegistry.verify: an agent
\* without evidence keeps the legacy proof, an unknown profile is NOT_VERIFIED at
\* once, and a known one is waited for.
Prove(r, id, name, a) ==
    IF TrustEnabled /\ a.evidence \in profiles
    THEN /\ req' = [req EXCEPT ![r] = [at |-> "verify", id |-> id, name |-> name, read |-> {a},
                                       status |-> "", proof |-> ""]]
         /\ seen' = [seen EXCEPT ![r] = {{a}}]
    ELSE Answer(r, id, name, {a}, "200",
                IF TrustEnabled /\ a.evidence # "none" THEN "NOT_VERIFIED" ELSE "legacy")

\* sm_resolve
Resolve(r) ==
    /\ req[r].at # "verify"
    /\ \E v \in Asked :
          \/ /\ Parse(v) = {}
             /\ Answer(r, <<>>, {}, {}, "400", "")
          \/ \E id \in Parse(v) :
                /\ Held(agents, id) = {}
                /\ Answer(r, id, {}, {}, "404", "")
          \/ \E id \in Parse(v) : \E a \in Held(agents, id) :
                IF a.public THEN Prove(r, id, {}, a) ELSE Answer(r, id, {}, {}, "403", "")
    /\ UNCHANGED <<served, profiles, delegated>>

\* The agent that the switchboard is asked for is the local id itself.
Delegate(r, n, id) ==
    /\ Answer(r, id, {n}, {}, "delegated", "")
    /\ delegated' = delegated \cup {n}

Host(r, n, id) ==
    /\ \/ \E a \in Held(agents, id) : a.public /\ Prove(r, id, {n}, a)
       \/ /\ \A a \in Held(agents, id) : ~a.public
          /\ Answer(r, id, {n}, {}, "404", "")
    /\ UNCHANGED delegated

\* Mutant of Switch: the hosted converters are asked first.
SwitchHostedFirst(r) ==
    /\ req[r].at # "verify"
    /\ \E n \in RegistryName : \E v \in Asked :
          \/ n \in hosting /\ Host(r, n, v)
          \/ n \in entry \ hosting /\ Delegate(r, n, v)
          \/ /\ n \notin entry \cup hosting
             /\ Answer(r, v, {n}, {}, "404", "")
             /\ UNCHANGED delegated
    /\ UNCHANGED <<served, profiles>>

\* Switchboard.resolve
Switch(r) ==
    /\ req[r].at # "verify"
    /\ \E n \in RegistryName : \E v \in Asked :
          \/ n \in entry /\ Delegate(r, n, v)
          \/ n \in hosting \ entry /\ Host(r, n, v)
          \/ /\ n \notin entry \cup hosting
             /\ Answer(r, v, {n}, {}, "404", "")
             /\ UNCHANGED delegated
    /\ UNCHANGED <<served, profiles>>

-----------------------------------------------------------------------------
(* The profile answers or raises. *)

\* Mutant of Resume: the agent is read again for the answer.
ResumeRereading(r) ==
    /\ req[r].at = "verify"
    /\ \E verdict \in Verdict :
          req' = [req EXCEPT ![r].at = "done", ![r].status = "200", ![r].proof = verdict,
                             ![r].read = Held(agents, req[r].id)]
    /\ UNCHANGED <<served, profiles, seen, delegated>>

Resume(r) ==
    /\ req[r].at = "verify"
    /\ \E verdict \in Verdict :
          req' = [req EXCEPT ![r].at = "done", ![r].status = "200", ![r].proof = verdict]
    /\ UNCHANGED <<served, profiles, seen, delegated>>

Fail(r) ==
    /\ req[r].at = "verify"
    /\ req' = [req EXCEPT ![r].at = "done", ![r].status = "500"]
    /\ UNCHANGED <<served, profiles, seen, delegated>>

Change == Register \/ Unregister \/ AddRegistry \/ AddHosting

Serve(r) == Resolve(r) \/ Switch(r) \/ Resume(r) \/ Fail(r)

Next == Change \/ RegisterProfile \/ \E r \in Request : Serve(r)

Spec == Init /\ [][Next]_vars

-----------------------------------------------------------------------------
(* Properties. *)

\* router.py:142: an answer is about one agent as it was registered and public at
\* some moment of the request, its proof included, whatever was registered or
\* removed during the wait; 404 and 403 were true at some moment too, and no
\* verdict but NOT_VERIFIED comes without a profile that was asked.
AnswerWasTrue ==
    \A r \in Request : req[r].at = "done" =>
        /\ req[r].status = "200" =>
              \E a \in req[r].read :
                  /\ req[r].read = {a} /\ {a} \in seen[r] /\ a.public
                  /\ req[r].proof \in {"VERIFIED", "FAILED"} => a.evidence \in profiles
        /\ req[r].status = "404" /\ req[r].name = {} => {} \in seen[r]
        /\ req[r].status = "403" => \E held \in seen[r] : \E a \in held : ~a.public

\* switchboard.py:68: once a name was answered by delegation, no later request for
\* it is answered from a hosted converter, though one of that name is added.
OnceDelegatedAlways ==
    [][\A r \in Request :
          req'[r] # req[r] /\ req[r].at # "verify" /\ req'[r].name \cap delegated # {} =>
              req'[r].status = "delegated"]_vars

\* router.py:285: which of the names that the registry publishes of an agent reduce
\* to its id.  The bare id does unless it has the form of another name; the handle,
\* unless a slash before the id's own or a colon in the registry's id cuts it
\* elsewhere; the DID, unless it is not of did:web, the provider URL ends in a slash
\* or the id has a colon; the identifier of the card, if its domain is the provider's
\* host and the id has neither slash nor colon.
NamesReduce ==
    \A a \in agents :
        LET f == ToSm(a)
            simple == a.id # <<>> /\ ~Contains(a.id, ":")
        IN /\ Parse(a.id) = {a.id} <=> a.id # <<>> /\ ~IsHandle(a.id) /\ ~IsDid(a.id) /\ ~IsUrn(a.id)
           /\ Parse(f.handle) = {a.id} <=>
                 a.id # <<>> /\ ~Contains(a.namespace, "/") /\ HostOf(Home.id) = Home.id
           /\ Parse(f.id) = {a.id} <=>
                 simple /\ Home.method = "web" /\ Stripped(Home.provider) = Home.provider
           /\ Parse(Card(f).identifier) = {a.id} <=>
                 simple /\ ~Contains(a.id, "/") /\ Anchored(LowerOf(Home.domain))

\* router.py:290: a name that another registry publishes of an agent reduces to none,
\* if they differ in what it is known by: the id up to a colon for a handle, the
\* provider's host for a DID, the domain of the gateway for the card.
OthersAreRefused ==
    \A a \in agents : \A p \in Peer :
        /\ HostOf(p.id) # Home.id => Parse(Handle(p, a)) = {}
        /\ HostOf(p.provider) # HostOf(Home.provider) => Parse(Did(p, a)) = {}
        /\ ~Anchored(LowerOf(p.domain)) => Parse(AirUrn(p.domain, DefaultSlug(ToSm(a)))) = {}

\* The paths of the facts whose value the bridge supplied, and the keys of a skill that
\* no field of it holds.
FilledIn(a, f) ==
    {<<"id">>, <<"handle">>, <<"provider.did">>, <<"provider.name">>, <<"provider.url">>}
    \cup (IF f.label = Made THEN {<<"label">>} ELSE {})
    \cup (IF Made \in Range(f.static) THEN {<<"endpoints.static">>} ELSE {})
    \cup (IF f.policies = Made THEN {<<"endpoints.adaptive_resolver.policies">>} ELSE {})
    \cup (IF f.issuer = Made THEN {<<"certification.issuer">>} ELSE {})
    \cup (IF a.skills = <<>> THEN {<<"skills">>}
          ELSE UNION {{<<"skills", i, k>> : k \in {l \in DOMAIN f.skills[i] : f.skills[i][l] = Made}} :
                          i \in DOMAIN f.skills})

Lost(a, f) ==
    UNION {{<<"skills", i, k>> : k \in {l \in a.skills[i].keys : From(l) \notin Range(f.skills[i])}} :
               i \in DOMAIN a.skills}

Declared(f) == f.provenance.invented \cup f.provenance.defaulted

\* What the registry says of itself, and what else is filled in and not listed.
Frame == {"handle", "provider.name", "provider.url"}

Unlisted ==
    Frame \cup {"endpoints.adaptive_resolver.policies", "certification.issuer", "inputModes", "outputModes"}

\* converter.py:196: provenance lists all that the bridge filled in but the fields of
\* Unlisted, and no more; the keys of a skill that are in no field are listed as
\* dropped, except for a name beside an id; and no metadata of the source hides that.
ProvenanceIsTrue ==
    \A a \in agents :
        LET f == ToSm(a) IN
        /\ Declared(f) = {p \in FilledIn(a, f) : Last(p) \notin Unlisted}
        /\ f.provenance.dropped = {p \in Lost(a, f) : Last(p) # "name"}
        /\ f.metadata["provenance"] = Made /\ "synthesized" \notin DOMAIN f.metadata
=============================================================================
