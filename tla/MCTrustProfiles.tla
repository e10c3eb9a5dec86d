-------------------------- MODULE MCTrustProfiles --------------------------
(***************************************************************************)
(* Bounded instance of TrustProfiles: receipts over the logs of two and      *)
(* three entries, cards of two fields, catalogs of one value, two vantages   *)
(* of one domain whose records change twice.                                *)
(***************************************************************************)
EXTENDS TrustProfiles, TLC

Signed(key, message) == [key |-> key, over |-> message]

Keys == {"k1", "k2"}

-----------------------------------------------------------------------------
Logs == {<<"x", "y">>, <<"x", "y", "z">>}

LeavesOf(log) == [i \in DOMAIN log |-> LeafHash(log[i])]

\* The right paths, an empty one, and one with an element of the wrong length.
Vdp ==
    UNION {{[size |-> n, index |-> i, path |-> path, root |-> root] :
               n \in {Len(log)}, i \in 0..Len(log),
               path \in {<<>>, <<Short>>} \cup
                   {InclusionPath[LeavesOf(log)][m] : m \in 0..(Len(log) - 1)},
               root \in {MerkleRoot[LeavesOf(log)], LeafHash("x"), Short}}
           : log \in Logs}

Receipts ==
    [payload : {"x", "z", None}, vdp : Vdp \cup {Bad}, sig : {Short, Signed("k1", "x"), Signed("k2", "z")}]

ReceiptRequests ==
    {<<"ans-scitt", [receipt |-> r, key |-> "k1"]>> : r \in Receipts} \cup
    {<<"ans-scitt", [receipt |-> r, key |-> k]>> : r \in {None, Bad}, k \in {None, Bad, "k1"}}

-----------------------------------------------------------------------------
Cards == [{"name", "url", "signature"} -> {"1", "1.0", "a", Bad}]

CardRequests ==
    {<<"ed25519-agentcard", [payload |-> c, sig |-> s, key |-> k]>> :
        c \in Cards \cup {None},
        s \in {None, Bad} \cup
            {Signed(m, CardMessage([name |-> "1", url |-> u])) : m \in Keys, u \in {"1", "a"}},
        k \in {None, Bad, "k1"}}

Headers == [alg : {"ES256", "none"}, crit : BOOLEAN, kid : {None, "id2"}]

Jws ==
    {[header |-> h, sig |-> Signed(k, SigningInput(h, "1"))] : h \in Headers, k \in Keys}
    \cup {[header |-> h, sig |-> Signed("k1", SigningInput(h, "1"))] : h \in {Bad, NoObject}}

CatalogRequests ==
    {<<"jws-catalog", [entries |-> x, jws |-> j, public |-> p, jwks |-> ks]>> :
        x \in {None, Bad, "1", "1.0", "a"}, j \in Jws \cup {None, Bad}, p \in {None, Bad, "k1"},
        ks \in {<<>>, <<[kid |-> "id1", key |-> "k1"], [kid |-> "id2", key |-> "k2"]>>}}

-----------------------------------------------------------------------------
DnsAidRequests ==
    {<<"dns-aid", [fqdn |-> f, dane |-> want]>> : f \in {Bad, "agents.example"}, want \in BOOLEAN}

TxtRequests ==
    {<<"ans-txt", [host |-> h, vantages |-> vs, expected |-> x]>> :
        h \in {Bad, "example"}, vs \in {<<>>, <<"v1">>, <<"v1", "v2">>, <<"v1", "v1">>},
        x \in {None, "u1"}}

MCRequest ==
    ReceiptRequests \cup CardRequests \cup CatalogRequests \cup DnsAidRequests \cup TxtRequests
    \cup {<<"mtls", [host |-> "example"]>>}

MCAnswer ==
    [rr \in RR |-> CASE rr = "_ans" -> {"u1", "u2", Bad}
                     [] rr = "_ans-badge" -> {"badge", Bad}
                     [] rr = "SVCB" -> {{}, {"s1"}, Bad}
                     [] rr = "HTTPS" -> {{}, Bad}]

Shown ==
    {("_ans" :> a) @@ ("_ans-badge" :> b) @@ ("SVCB" :> x) @@ ("HTTPS" :> y) :
        a \in MCAnswer["_ans"], b \in MCAnswer["_ans-badge"],
        x \in MCAnswer["SVCB"], y \in MCAnswer["HTTPS"]}

\* The two vantages show the same records, or differ in one record set.
MCWorld ==
    {w \in [Vantage -> Shown] : \E rr \in RR : \A r \in RR \ {rr} : w["v1"][r] = w["v2"][r]}
=============================================================================
