---------------------------- MODULE MCResolution ----------------------------
(***************************************************************************)
(* Bounded instance of Resolution: ids with and without separators, sources   *)
(* that declare much and little, and identifiers of this registry, of one     *)
(* beside it on its host and of one elsewhere.                                *)
(***************************************************************************)
EXTENDS Resolution

Tokens ==
    {"@", ":", "/", "did", "web", "key", "urn", "URN", "air", "agent", "agents", "ns", "n", "a", "x",
     "reg", "peer", "Host", "host", "other", "8080"}

LowerCase ==
    [t \in Tokens |-> CASE t = "Host" -> "host" [] t = "URN" -> "urn" [] OTHER -> t]

Registry(id, provider, domain, method) ==
    [id |-> id, provider |-> provider, domain |-> domain, method |-> method]

Us == Registry(<<"reg">>, <<"Host">>, <<"Host">>, "web")

Elsewhere == Registry(<<"peer">>, <<"other">>, <<"other">>, "web")
Neighbour == Registry(<<"peer">>, <<"Host", ":", "8080">>, <<"other">>, "web")
Peers == {Elsewhere, Neighbour}

Text == [text |-> TRUE, keys |-> {}]
Keys(ks) == [text |-> FALSE, keys |-> ks]

Agent(id, namespace, public, evidence, endpoints, labels, skills, metadata) ==
    [id |-> id, namespace |-> namespace, public |-> public, evidence |-> evidence,
     endpoints |-> endpoints, dynamic |-> <<>>, resolver |-> public, policies |-> labels # <<>>,
     level |-> public, issuer |-> labels # <<>>,
     labels |-> labels, skills |-> skills, metadata |-> metadata]

Modes == {"inputModes", "outputModes"}

Shapes ==
    {Agent(<<"a">>, <<"ns">>, TRUE, "p", <<>>, <<>>, <<>>, {}),
     Agent(<<"a">>, <<"ns">>, TRUE, "q", <<"u">>, <<"l">>, <<Keys({"id", "name", "tags"}), Text>>,
           {"public", "synthesized"}),
     Agent(<<"a">>, <<"n", "/", "ns">>, FALSE, "none", <<"u">>, <<>>, <<Keys({"tags"} \cup Modes)>>, {"provenance"}),
     Agent(<<"x", ":", "a">>, <<"ns">>, TRUE, "p", <<"u">>, <<>>, <<Keys({"name", "description"})>>, {}),
     Agent(<<"x", "/", "a">>, <<"ns">>, FALSE, "p", <<>>, <<"l">>, <<Text>>, {"synthesized"}),
     Agent(<<"@", "a">>, <<"ns">>, TRUE, "none", <<"u">>, <<"l">>, <<Keys({"maxTokens"})>>, {})}

Identifiers ==
    {<<>>, <<"a">>, <<"x", ":", "a">>, <<"@", "a">>,
     <<"@", "reg", "/", "x", "/", "a">>, <<"@", "peer", ":", "ns", "/", "a">>, <<"@", "reg", "/">>,
     <<"did", ":", "web", ":", "Host", ":", "a">>, <<"did", ":", "key", ":", "a">>,
     <<"URN", ":", "air", ":", "host", ":", "ns", ":", "n", ":", "a">>,
     <<"urn", ":", "air", ":", "host", ":", "a">>, <<"urn", ":", "a">>}
=============================================================================
