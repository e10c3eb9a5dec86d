--------------------------- MODULE TrustProfiles ---------------------------
(***************************************************************************)
(* The trust profiles of sm_bridge/trust and their dispatch by              *)
(* TrustRegistry.verify: an ANS receipt (ans_scitt.py), the ANS records of a *)
(* domain (ans_txt.py), a DNS-AID record (dns_aid.py), an agent card         *)
(* (ed25519_agentcard.py) and a signed catalog (jws_catalog.py).  The        *)
(* delegation profile has module Delegation to itself.                      *)
(*                                                                         *)
(* Cryptography is symbolic: a signature is the record of the key that made  *)
(* it and the message it was made over, and it verifies with that key over   *)
(* that message only.  A hash is the term of module MerkleTree.  An input    *)
(* that cannot be read (not bytes, not CBOR, no P-256 key, not base64, ...)  *)
(* is the value Bad, an absent one is None, and a field of the wrong length  *)
(* is Short: each stands for all the branches that answer alike.            *)
(*                                                                         *)
(* ans_txt asks every vantage for four record sets one after the other, and  *)
(* the records may change between two queries.                              *)
(***************************************************************************)
EXTENDS MerkleTree

CONSTANTS
    Registered, \* the profile_ids in the TrustRegistry
    Request,    \* the <<profile_id, evidence>> that callers present
    Vantage,    \* the nameservers that can be asked
    Answer,     \* Answer[rr]: what a query for the record set rr can yield
    World,      \* the DNS records, as the vantages show them, at the start
    MaxChanges, \* bound: changes of the records during one verification
    NoObject,   \* a JWS header that is JSON, but no object
    None, Bad, Short

RR == {"_ans", "_ans-badge", "SVCB", "HTTPS"}

Mandatory == {"_ans", "_ans-badge"}

\* What every vantage answers.
IsZone(w) ==
    /\ DOMAIN w = Vantage
    /\ \A v \in Vantage : DOMAIN w[v] = RR /\ \A rr \in RR : w[v][rr] \in Answer[rr]

IsSequence(s) == s \in Seq(Range(s))

ASSUME WorldAssumption == World # {} /\ \A w \in World : IsZone(w)
\* The text of a service record, "<priority> <target> ...", is no url.
ASSUME UrlAssumption ==
    \A rr \in RR \ Mandatory : \A services \in Answer[rr] \ {Bad} : services \cap Answer["_ans"] = {}
ASSUME ChangesAssumption == MaxChanges \in Nat
ASSUME BadAssumption == Bad # "1"
ASSUME RequestAssumption ==
    \A r \in Request :
        /\ r[1] = "ans-scitt" /\ r[2].receipt \notin {None, Bad} /\ r[2].receipt.vdp # Bad =>
              IsSequence(r[2].receipt.vdp.path)
        /\ r[1] = "ed25519-agentcard" /\ r[2].sig \notin {None, Bad} =>
              r[2].sig = [key |-> r[2].sig.key, over |-> r[2].sig.over]
        /\ r[1] = "jws-catalog" /\ r[2].jws \notin {None, Bad} =>
              /\ r[2].jws.sig.key # Bad
              /\ r[2].jws.sig = [key |-> r[2].jws.sig.key, over |-> r[2].jws.sig.over]
        /\ r[1] = "ans-txt" => r[2].vantages \in Seq(Vantage)

VARIABLES
    request,    \* the verification in progress
    dns,        \* dns[v][rr]: what vantage v answers now
    views,      \* the views of ans_txt: for each vantage so far, what it answered
    upstream,   \* what the dns-aid package answered
    status,     \* the verdict, "none" until there is one
    shown,      \* history: shown[v][rr] is all that v has answered since the start
    changes     \* how often the records changed

verifyVars == <<request, dns, views, upstream, status, shown, changes>>

pid == request[1]
ev == request[2]

\* dns_aid.core.validator.VerifyResult
UpstreamResult ==
    [exists : BOOLEAN, svcb : BOOLEAN, dnssec : {"valid", "bogus", "unsigned"},
     dane : {TRUE, FALSE, None}]

\* "raised": no verdict, the handler let an exception out.
Status == {"none", "VERIFIED", "FAILED", "NOT_VERIFIED", "raised"}

VerifyInit ==
    /\ request \in Request
    /\ IF request[1] = "ans-txt" THEN dns \in World ELSE dns = CHOOSE w \in World : TRUE
    /\ views = <<>>
    /\ upstream = None
    /\ status = "none"
    /\ shown = [v \in Vantage |-> [rr \in RR |-> {dns[v][rr]}]]
    /\ changes = 0

-----------------------------------------------------------------------------
(* ans_scitt: AnsScittProfile.verify. *)

\* _verify_es256, and the check of the ed25519 key: over this message, by this key.
Signs(sig, key, message) == sig = [key |-> key, over |-> message]

\* _load_public_key: a P-256 key in one of the encodings it knows.
KeyLoads(key) == key # Bad

\* _parse_cose_sign1: the four fields of a COSE_Sign1.
Parses(r) == r # Bad

\* _extract_inclusion_proof: the map with the label 396, complete and well typed.
ProofExtracted(r) == r.vdp # Bad

ReceiptRoot(r) ==
    IF Short \in Range(r.vdp.path) THEN Error
    ELSE RootFromProof(LeafHash(r.payload), r.vdp.index, r.vdp.size, r.vdp.path)

ReceiptVerdict(r, key) ==
    IF r = None \/ key = None \/ ~KeyLoads(key) \/ ~Parses(r) THEN "NOT_VERIFIED"
    ELSE IF r.payload = None THEN "FAILED"
    ELSE IF ~ProofExtracted(r) THEN "NOT_VERIFIED"
    ELSE IF r.vdp.root = Short THEN "FAILED"
    ELSE IF ReceiptRoot(r) = Error \/ ReceiptRoot(r) # r.vdp.root THEN "FAILED"
    ELSE IF r.sig = Short \/ ~Signs(r.sig, key, r.payload) THEN "FAILED"
    ELSE "VERIFIED"

-----------------------------------------------------------------------------
(* ed25519_agentcard and jws_catalog.  JSON values are numbers written as an *)
(* integer or as a float, text, or Bad for one that has no canonical form.   *)

\* 1 and 1.0 have one canonical form, 1 and "1" do not.
CanonicalValue(x) == IF x = "1.0" THEN "1" ELSE x

\* Mutant of CardMessage: the url is not part of what is signed.
CardMessageWithoutUrl(card) == [f \in DOMAIN card \ {"signature", "url"} |-> CanonicalValue(card[f])]

\* The card without its own signature, in canonical form.
CardMessage(card) == [f \in DOMAIN card \ {"signature"} |-> CanonicalValue(card[f])]

Canonicalizable(card) == Bad \notin {card[f] : f \in DOMAIN card \ {"signature"}}

\* _load_ed25519_public_key
CardKeyLoads(key) == key # Bad

CardVerdict(payload, sig, key) ==
    IF None \in {payload, sig, key} \/ ~CardKeyLoads(key) \/ sig = Bad THEN "NOT_VERIFIED"
    ELSE IF ~Canonicalizable(payload) THEN "NOT_VERIFIED"
    ELSE IF ~Signs(sig, key, CardMessage(payload)) THEN "FAILED"
    ELSE "VERIFIED"

\* _select_key: a public_key first, then the key of the JWKS that the header names,
\* then the first one.
SelectKey(public, jwks, kid) ==
    LET named == {i \in DOMAIN jwks : kid # None /\ jwks[i].kid = kid} IN
    IF public # None THEN public
    ELSE IF named # {} THEN jwks[Min(named)].key
    ELSE IF jwks # <<>> THEN jwks[1].key
    ELSE None

\* What a detached JWS signs: its header and the payload that is not in it.
SigningInput(header, payload) == [header |-> header, payload |-> CanonicalValue(payload)]

\* verify_es256: false too for a key that does not load.
VerifyEs256(header, payload, sig, key) ==
    KeyLoads(key) /\ Signs(sig, key, SigningInput(header, payload))

\* The header is any JSON value: one that is no object has no get.
CatalogVerdict(c) ==
    IF c.entries = None \/ c.jws \in {None, Bad} \/ c.jws.header = Bad THEN "NOT_VERIFIED"
    ELSE IF c.jws.header = NoObject THEN "raised"
    ELSE IF c.jws.header.alg # "ES256" THEN "NOT_VERIFIED"
    ELSE IF c.jws.header.crit THEN "FAILED"
    ELSE LET key == SelectKey(c.public, c.jwks, c.jws.header.kid) IN
         IF key = None \/ c.entries = Bad THEN "NOT_VERIFIED"
         ELSE IF VerifyEs256(c.jws.header, c.entries, c.jws.sig, key) THEN "VERIFIED"
         ELSE "FAILED"

-----------------------------------------------------------------------------
(* dns_aid: the verdict on what the package answered. *)

\* Mutant of DnsAidVerdict: a missing record is a rejection.
DnsAidVerdictWithoutRecord(want, r) ==
    IF r \in {None, Bad} THEN "NOT_VERIFIED"
    ELSE IF ~r.exists \/ r.dnssec = "bogus" THEN "FAILED"
    ELSE IF r.dnssec = "unsigned" THEN "NOT_VERIFIED"
    ELSE IF ~r.svcb \/ (want /\ r.dane = FALSE) THEN "FAILED"
    ELSE "VERIFIED"

DnsAidVerdict(want, r) ==
    IF r \in {None, Bad} \/ ~r.exists THEN "NOT_VERIFIED"
    ELSE IF r.dnssec = "bogus" THEN "FAILED"
    ELSE IF r.dnssec = "unsigned" THEN "NOT_VERIFIED"
    ELSE IF ~r.svcb \/ (want /\ r.dane = FALSE) THEN "FAILED"
    ELSE "VERIFIED"

-----------------------------------------------------------------------------
(* ans_txt.  A view maps the record sets asked so far to what was answered; *)
(* a query that timed out or found nothing usable has answered Bad.          *)

Order == <<"_ans", "_ans-badge", "SVCB", "HTTPS">>

Complete(view) == DOMAIN view = RR

AllViews == Len(views) = Len(ev.vantages) /\ Complete(Last(views))

\* The view with the answer to its next query, from vantage v.
AskNext(view, v) ==
    LET rr == Order[Cardinality(DOMAIN view) + 1]
    IN [r \in DOMAIN view \cup {rr} |-> IF r = rr THEN dns[v][rr] ELSE view[r]]

\* The views after the next query: of the vantage under way or of the next one.
Asked ==
    LET n == Len(views) IN
    IF n = 0 \/ Complete(Last(views)) THEN Append(views, AskNext(<<>>, ev.vantages[n + 1]))
    ELSE ReplaceAt(views, n, AskNext(views[n], ev.vantages[n]))

\* A service query that failed contributes nothing.
Services(answer) == IF answer = Bad THEN {} ELSE answer

Endpoints(view) == {view["_ans"]} \cup UNION {Services(view[rr]) : rr \in DOMAIN view \ Mandatory}

Views == Range(views)

ViewsVerdict ==
    IF ev.expected # None /\ \E v \in Views : v["_ans"] # ev.expected THEN "FAILED"
    ELSE IF \E v, w \in Views : Endpoints(v) # Endpoints(w) THEN "FAILED"
    ELSE "VERIFIED"

-----------------------------------------------------------------------------
(* TrustRegistry.verify and the steps of the profiles. *)

Running(p) == status = "none" /\ pid = p /\ p \in Registered

Decide(verdict) ==
    /\ status' = verdict
    /\ UNCHANGED <<request, dns, views, upstream, shown, changes>>

VerifyUnknown ==
    /\ status = "none"
    /\ pid \notin Registered
    /\ Decide("NOT_VERIFIED")

VerifyReceipt == Running("ans-scitt") /\ Decide(ReceiptVerdict(ev.receipt, ev.key))

VerifyCard == Running("ed25519-agentcard") /\ Decide(CardVerdict(ev.payload, ev.sig, ev.key))

VerifyCatalog == Running("jws-catalog") /\ Decide(CatalogVerdict(ev))

\* The await of the package: a result, an exception, or nothing to import.
AskDnsAid ==
    /\ Running("dns-aid")
    /\ upstream = None
    /\ ev.fqdn # Bad
    /\ upstream' \in UpstreamResult \cup {Bad}
    /\ UNCHANGED <<request, dns, views, status, shown, changes>>

VerifyDnsAid ==
    /\ Running("dns-aid")
    /\ ev.fqdn = Bad \/ upstream # None
    /\ Decide(DnsAidVerdict(ev.dane, upstream))

\* No host, or vantages that are not a non-empty list.
RefuseHost ==
    /\ Running("ans-txt")
    /\ ev.host = Bad \/ ev.vantages = <<>>
    /\ Decide("NOT_VERIFIED")

\* Mutant of AskVantage: a vantage that does not answer is passed over.
AskVantageIfUp ==
    /\ Running("ans-txt")
    /\ ev.host # Bad /\ ev.vantages # <<>> /\ ~(views # <<>> /\ AllViews)
    /\ views' = Asked
    /\ UNCHANGED <<request, dns, upstream, status, shown, changes>>

\* One query to one vantage.  The two TXT sets must be there; a service query that
\* fails is ignored.
AskVantage ==
    /\ Running("ans-txt")
    /\ ev.host # Bad /\ ev.vantages # <<>> /\ ~(views # <<>> /\ AllViews)
    /\ views' = Asked
    /\ status' = IF \E rr \in Mandatory \cap DOMAIN Last(Asked) : Last(Asked)[rr] = Bad
                 THEN "NOT_VERIFIED" ELSE "none"
    /\ UNCHANGED <<request, dns, upstream, shown, changes>>

CompareViews ==
    /\ Running("ans-txt")
    /\ views # <<>> /\ AllViews
    /\ Decide(ViewsVerdict)

\* The domain changes one record set, as one vantage shows it.
Publish ==
    /\ Running("ans-txt")
    /\ changes < MaxChanges
    /\ \E v \in Vantage, rr \in RR : \E a \in Answer[rr] \ {dns[v][rr]} :
          /\ dns' = [dns EXCEPT ![v][rr] = a]
          /\ shown' = [shown EXCEPT ![v][rr] = @ \cup {a}]
    /\ changes' = changes + 1
    /\ UNCHANGED <<request, views, upstream, status>>

VerifyNext ==
    \/ VerifyUnknown \/ VerifyReceipt \/ VerifyCard \/ VerifyCatalog
    \/ AskDnsAid \/ VerifyDnsAid
    \/ RefuseHost \/ AskVantage \/ CompareViews \/ Publish

VerifySpec == VerifyInit /\ [][VerifyNext]_verifyVars

-----------------------------------------------------------------------------
(* Properties. *)

VerifyTypeOK ==
    /\ request \in Request
    /\ IsZone(dns)
    /\ IsSequence(views)
    /\ \A i \in DOMAIN views : DOMAIN views[i] \subseteq RR
    /\ \A i \in 1..(Len(views) - 1) : DOMAIN views[i] = RR
    /\ upstream \in UpstreamResult \cup {None, Bad}
    /\ status \in Status
    /\ \A v \in Vantage : \A rr \in RR : dns[v][rr] \in shown[v][rr]
    /\ changes \in 0..MaxChanges

Children(hash) == IF Len(hash) = 2 THEN {hash[1], hash[2]} ELSE {}

\* The leaf is one of those that the hash was computed from, depth levels up.
Below(hash, leaf, depth) ==
    LET level[i \in 0..depth] == IF i = 0 THEN {hash} ELSE UNION {Children(h) : h \in level[i - 1]}
    IN leaf \in level[depth]

\* The same value, or the same number spelled as an integer and as a float.
SameNumber(x, y) == x = y \/ {x, y} = {"1", "1.0"}

\* A message is the content of a card: every field of it, its signature apart.
IsContentOf(message, card) ==
    /\ DOMAIN message = DOMAIN card \ {"signature"}
    /\ \A f \in DOMAIN message : card[f] # Bad /\ SameNumber(message[f], card[f])

CatalogKey == SelectKey(ev.public, ev.jwks, ev.jws.header.kid)

\* Behind a VERIFIED there is a fact: the key that was given signed every field of
\* this card, or this header and these entries; it signed the payload of the receipt,
\* which is a leaf below the root that the receipt names (the root and the size stand
\* in the unprotected header, so nobody has signed them); the DNS answer is authentic,
\* and a DANE check that was wanted did not fail; and all the vantages that were named
\* have shown one url, the expected one if any, while the verification ran.
VerifiedIsReal ==
    status = "VERIFIED" =>
        /\ pid \in Registered
        /\ pid = "ans-scitt" =>
              /\ ev.receipt.sig = [key |-> ev.key, over |-> ev.receipt.payload]
              /\ Below(ev.receipt.vdp.root, LeafHash(ev.receipt.payload), Len(ev.receipt.vdp.path))
        /\ pid = "ed25519-agentcard" => ev.sig.key = ev.key /\ IsContentOf(ev.sig.over, ev.payload)
        /\ pid = "jws-catalog" =>
              /\ ev.jws.header.alg = "ES256" /\ ~ev.jws.header.crit
              /\ ev.jws.sig.key = CatalogKey /\ ev.jws.sig.over.header = ev.jws.header
              /\ SameNumber(ev.jws.sig.over.payload, ev.entries)
        /\ pid = "dns-aid" =>
              /\ upstream.exists /\ upstream.dnssec = "valid" /\ upstream.svcb
              /\ ev.dane => upstream.dane # FALSE
        /\ pid = "ans-txt" =>
              \E url \in Answer["_ans"] \ {Bad} :
                 /\ ev.expected \in {None, url}
                 /\ \A i \in DOMAIN ev.vantages : url \in shown[ev.vantages[i]]["_ans"]

\* Behind a FAILED there is one too, however the records change meanwhile.  ans-txt has
\* every mandatory set of every vantage, and either one of them has shown a url other
\* than the expected one, or two of its vantages have answered differently for one
\* record set (a service query that failed counts as no services); a rejected card or
\* receipt was read, and so was its key; a rejected catalog has a critical extension or
\* no signature of these entries by the selected key; dns-aid had an answer.
RejectionIsReal ==
    status = "FAILED" =>
        /\ pid = "ans-txt" =>
              /\ \A v \in Views : \A rr \in Mandatory : v[rr] # Bad
              /\ \/ /\ ev.expected # None
                    /\ \E i \in DOMAIN ev.vantages :
                          \E url \in shown[ev.vantages[i]]["_ans"] : url \notin {Bad, ev.expected}
                 \/ \E i, j \in DOMAIN ev.vantages : i # j /\
                       \/ \E x \in shown[ev.vantages[i]]["_ans"], y \in shown[ev.vantages[j]]["_ans"] :
                             x # y /\ Bad \notin {x, y}
                       \/ \E rr \in RR \ Mandatory :
                             \E x \in shown[ev.vantages[i]][rr], y \in shown[ev.vantages[j]][rr] :
                                Services(x) # Services(y)
        /\ pid = "dns-aid" => upstream \in UpstreamResult /\ upstream.exists
        /\ pid = "ans-scitt" => ev.receipt \notin {None, Bad} /\ ev.key \notin {None, Bad}
        /\ pid = "ed25519-agentcard" => ev.sig.over # CardMessage(ev.payload) \/ ev.sig.key # ev.key
        /\ pid = "jws-catalog" =>
              \/ ev.jws.header.crit
              \/ ev.jws.sig.key # CatalogKey
              \/ ev.jws.sig.over # SigningInput(ev.jws.header, ev.entries)

\* What was signed cannot be exchanged: of two requests with the same signature and
\* keys and different content, at most one is VERIFIED.  The signature field inside a
\* card and the spelling of a number are not content; of a receipt the signature covers
\* the payload only, so its proof and its root can be exchanged.
TamperIsNoticed ==
    status = "VERIFIED" =>
        /\ pid = "ed25519-agentcard" =>
              \A r \in Request :
                 LET other == r[2] IN
                 /\ r[1] = pid /\ other.sig = ev.sig /\ other.key = ev.key
                 /\ CardVerdict(other.payload, other.sig, other.key) = "VERIFIED"
                 => \A f \in DOMAIN ev.payload \ {"signature"} :
                       /\ f \in DOMAIN other.payload
                       /\ SameNumber(ev.payload[f], other.payload[f])
        /\ pid = "jws-catalog" =>
              \A r \in Request :
                 LET other == r[2] IN
                 /\ r[1] = pid /\ other.jws = ev.jws /\ other.public = ev.public /\ other.jwks = ev.jwks
                 /\ CatalogVerdict(other) = "VERIFIED"
                 => SameNumber(ev.entries, other.entries)
        /\ pid = "ans-scitt" =>
              \A r \in Request :
                 LET other == r[2] IN
                 /\ r[1] = pid /\ other.key = ev.key /\ other.receipt \notin {None, Bad}
                 /\ other.receipt.sig = ev.receipt.sig
                 /\ ReceiptVerdict(other.receipt, other.key) = "VERIFIED"
                 => other.receipt.payload = ev.receipt.payload
=============================================================================
