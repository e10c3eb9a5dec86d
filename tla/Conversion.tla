----------------------------- MODULE Conversion -----------------------------
(***************************************************************************)
(* What a registry says of one agent and under which names: to_sm of          *)
(* SimpleAgentConverter (sm_bridge/converter.py), the card of the gateway,    *)
(* and the reduction of an identifier to a local id (sm_bridge/router.py).    *)
(*                                                                         *)
(* A string that takes part in a name is the sequence of its words and of     *)
(* its separators "@", ":" and "/", so a prefix that ends in a separator is   *)
(* one in either view.  The value of a field is abstracted to who supplied    *)
(* it.                                                                       *)
(***************************************************************************)
EXTENDS Naturals, Sequences, SequencesExt

CONSTANTS
    Token,      \* the words and separators
    Lower,      \* Lower[t]: t in lower case
    Home,       \* this registry: its id, its provider URL without the scheme, the domain
                \* of its gateway and its DID method
    Peer        \* other registries that run this code

Fixed == {"@", ":", "/", "did", "web", "urn", "air", "agent", "agents"}

ASSUME TokenAssumption ==
    /\ Fixed \subseteq Token
    /\ Lower \in [Token -> Token]
    /\ \A t \in Fixed : Lower[t] = t

ASSUME RegistryAssumption ==
    \A reg \in Peer \cup {Home} :
        /\ reg.id \in Seq(Token) /\ reg.provider \in Seq(Token) /\ reg.domain \in Seq(Token)
        /\ reg.method \in Token

\* Who supplied a value: the source, under a key of a skill if it is a field of one,
\* or the bridge; or nobody, when there is none.
Given == <<"source">>
From(k) == <<"source", k>>
Made == <<"bridge">>
Absent == <<"none">>

-----------------------------------------------------------------------------
(* Strings. *)

LowerOf(s) == [i \in DOMAIN s |-> Lower[s[i]]]

FirstAt(s, c) == SelectInSeq(s, LAMBDA t : t = c)
LastAt(s, c) == SelectLastInSeq(s, LAMBDA t : t = c)

\* s.split(c, 1)[0], s.partition(c)[2], s.rsplit(c, 1)[-1] and s[n:]
Before(s, c) == IF Contains(s, c) THEN SubSeq(s, 1, FirstAt(s, c) - 1) ELSE s
After(s, c) == SubSeq(s, FirstAt(s, c) + 1, Len(s))
LastPart(s, c) == SubSeq(s, LastAt(s, c) + 1, Len(s))
Skip(s, n) == SubSeq(s, n + 1, Len(s))

\* url.rstrip("/")
Stripped(url) == SubSeq(url, 1, SelectLastInSeq(url, LAMBDA t : t # "/"))

-----------------------------------------------------------------------------
(* SimpleAgentConverter.to_sm. *)

DidPrefix(method, authority) == <<"did", ":", method, ":">> \o authority \o <<":">>

\* _build_did of the converter of registry reg
Did(reg, a) ==
    DidPrefix(reg.method, reg.provider) \o (<<"agents", ":">> \o a.namespace \o <<":">> \o a.id)

\* create_handle: @registry:namespace/id
Handle(reg, a) == <<"@">> \o (reg.id \o <<":">> \o a.namespace \o <<"/">> \o a.id)

\* With no static endpoint an address under base_url is made up.
Static(a) == IF a.endpoints = <<>> THEN <<Made>> ELSE [i \in DOMAIN a.endpoints |-> Given]

\* The policies of the adaptive resolver, for a source that has one.
Policies(a) == IF ~a.resolver THEN Absent ELSE IF a.policies THEN Given ELSE Made

\* The keys of a skill that are not recorded as dropped.
SkillKeys ==
    {"id", "name", "description", "inputModes", "outputModes",
     "supportedLanguages", "latencyBudgetMs", "maxTokens"}

Optional == {"supportedLanguages", "latencyBudgetMs", "maxTokens"}

\* A skill that is a string is both id and description.  The fields of one that is a
\* dictionary come from its keys, and its name serves as its id if it has none.
Skill(s) ==
    [k \in SkillKeys \ {"name"} |->
        IF s.text /\ k \in {"id", "description"} THEN Given
        ELSE IF k \in s.keys THEN From(k)
        ELSE IF k = "id" /\ "name" \in s.keys THEN From("name")
        ELSE IF k \in Optional THEN Absent ELSE Made]

\* The schema wants one skill at least.  capabilities.skills repeats the ids.
Skills(a) ==
    IF a.skills = <<>> THEN <<Skill([text |-> FALSE, keys |-> {}])>>
    ELSE [i \in DOMAIN a.skills |-> Skill(a.skills[i])]

\* With no labels the namespace is the label.
Label(a) == IF a.labels = <<>> THEN Made ELSE Given

\* Only a source that declares a level is certified, by itself or by the provider.
Issuer(a) == IF ~a.level THEN Absent ELSE IF a.issuer THEN Given ELSE Made

\* Mutant of Invented: an endpoint that was made up passes for the source's.
InventedNames(a) ==
    {<<"id">>, <<"provider.did">>} \cup (IF a.skills = <<>> THEN {<<"skills">>} ELSE {})

Invented(a) ==
    {<<"id">>, <<"provider.did">>}
    \cup (IF a.endpoints = <<>> THEN {<<"endpoints.static">>} ELSE {})
    \cup (IF a.skills = <<>> THEN {<<"skills">>} ELSE {})

Dictionaries(a) == {i \in DOMAIN a.skills : ~a.skills[i].text}

Defaulted(a) ==
    {<<"skills", i, "description">> :
        i \in {j \in Dictionaries(a) : "description" \notin a.skills[j].keys}}
    \cup {<<"skills", i, "id">> : i \in {j \in Dictionaries(a) : a.skills[j].keys \cap {"id", "name"} = {}}}
    \cup (IF a.labels = <<>> THEN {<<"label">>} ELSE {})

Dropped(a) ==
    UNION {{<<"skills", i, k>> : k \in a.skills[i].keys \ SkillKeys} : i \in Dictionaries(a)}

BlockKeys ==
    {"namespace", "original_id", "public", "classification", "card_template", "endpoints_extended"}

\* The block x_<registry>: the source's metadata is spread over the bridge's own
\* keys, provenance is written after it, and synthesized is taken out.
Metadata(a) ==
    [k \in (BlockKeys \cup a.metadata \cup {"provenance"}) \ {"synthesized"} |->
        IF k \in a.metadata \ {"provenance"} THEN Given ELSE Made]

ToSm(a) ==
    [id |-> Did(Home, a), handle |-> Handle(Home, a), label |-> Label(a),
     static |-> Static(a), dynamic |-> a.dynamic, policies |-> Policies(a),
     skills |-> Skills(a), issuer |-> Issuer(a), metadata |-> Metadata(a),
     provenance |-> [invented |-> Invented(a), defaulted |-> Defaulted(a), dropped |-> Dropped(a)]]

-----------------------------------------------------------------------------
(* The gateway's view of the facts. *)

\* default_slug: the handle after its last slash.
DefaultSlug(f) ==
    IF Contains(f.handle, "/") THEN LastPart(f.handle, "/") ELSE LastPart(f.id, ":")

\* _runtime_url: "" when nothing is declared.
RuntimeUrl(f) ==
    CASE f.static # <<>> -> "static"
      [] f.static = <<>> /\ f.dynamic # <<>> -> "dynamic"
      [] f.static = <<>> /\ f.dynamic = <<>> -> IF f.policies # Absent THEN "adaptive" ELSE ""

\* urn:air:<domain>:agent:<slug>
AirUrn(domain, slug) ==
    <<"urn", ":", "air", ":">> \o (LowerOf(domain) \o <<":">> \o (<<"agent", ":">> \o slug))

\* to_a2a_card
Card(f) ==
    [identifier |-> AirUrn(Home.domain, DefaultSlug(f)), url |-> RuntimeUrl(f)]

-----------------------------------------------------------------------------
(* _parse_agent_identifier: the set of the id, which is empty for None. *)

OrNone(id) == {id} \ {<<>>}

\* What is before the path and the port.
HostOf(authority) == Before(Before(authority, "/"), ":")

\* _publisher_fqdn
Fqdn == LowerOf(HostOf(Home.provider))

IsHandle(v) == IsPrefix(<<"@">>, v)
IsDid(v) == IsPrefix(<<"did", ":">>, v)
IsUrn(v) == IsPrefix(<<"urn", ":">>, LowerOf(v))
IsAir(v) == IsPrefix(<<"urn", ":", "air", ":">>, LowerOf(v))

\* Mutant of ParseHandle: the id is what follows the last slash.
ParseHandleLast(body) ==
    CASE ~Contains(body, "/") -> OrNone(body)
      [] Contains(body, "/") ->
            IF HostOf(body) = Home.id THEN OrNone(LastPart(body, "/")) ELSE {}

\* The scope of a handle, up to its namespace, must be this registry.
ParseHandle(body) ==
    CASE ~Contains(body, "/") -> OrNone(body)
      [] Contains(body, "/") ->
            IF HostOf(body) = Home.id THEN OrNone(After(body, "/")) ELSE {}

\* local_prefix names the provider as _did_authority does.
ParseDid(v) ==
    LET prefix == DidPrefix("web", Stripped(Home.provider)) IN
    IF IsPrefix(prefix, v) THEN OrNone(LastPart(Skip(v, Len(prefix)), ":")) ELSE {}

\* Whether a domain names this registry's publisher.
Anchored(domain) == LowerOf(Before(domain, ":")) = Fqdn

\* A namespace segment and a short name are needed after the domain.
ParseAir(rest) ==
    IF Anchored(rest) /\ Contains(After(rest, ":"), ":")
    THEN OrNone(LastPart(After(rest, ":"), ":")) ELSE {}

\* Mutant of Parse: the last segment of whatever has colons.
ParseLastSegment(v) ==
    CASE v = <<>> -> {}
      [] IsHandle(v) -> ParseHandle(Tail(v))
      [] OTHER -> OrNone(LastPart(v, ":"))

Parse(v) ==
    CASE v = <<>> -> {}
      [] IsHandle(v) -> ParseHandle(Tail(v))
      [] IsDid(v) -> ParseDid(v)
      [] IsAir(v) -> ParseAir(Skip(v, 4))
      [] IsUrn(v) /\ ~IsAir(v) -> {}
      [] OTHER -> {v}
=============================================================================
