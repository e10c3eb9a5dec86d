---------------------------- MODULE MCDelegation ----------------------------
(***************************************************************************)
(* Evidence for Delegation: every choice of scopes and windows for chains   *)
(* of three credentials, each with at most one further defect; and the      *)
(* evidence that verify does not look into.                                 *)
(***************************************************************************)
EXTENDS Delegation

HopIds == <<"d1", "d2", "d3", "d4">>

MCId == {HopIds[i] : i \in 1..4}

Scopes == {{<<"a">>}, {<<"b">>}, {<<"b", "a">>}}
Windows == {<<0, 9>>, <<3, 5>>, <<1, 3>>, <<1, 4>>}
Now == 3

\* Credential i of a chain of three, with just enough depth.
Honest(i, scopes, window) ==
    [id |-> HopIds[i], parent |-> IF i = 1 THEN NoId ELSE HopIds[i-1], shape |-> "ok",
     scopes |-> scopes, depth |-> 3 - i, issued |-> window[1], expires |-> window[2]]

Chains ==
    {<<Honest(1, s[1], w[1]), Honest(2, s[2], w[2]), Honest(3, s[3], w[3])>> :
        s \in [1..3 -> Scopes], w \in [1..3 -> Windows]}

Present(chain) ==
    [chain |-> chain, hasSignatures |-> TRUE,
     signatures |-> [d \in MCId |->
        IF \E i \in DOMAIN chain : chain[i].id = d
        THEN chain[CHOOSE i \in DOMAIN chain : chain[i].id = d] ELSE NoEntry],
     hasScopes |-> TRUE, providerScopes |-> {<<"a", "b">>, <<"b">>},
     tokens |-> [d \in MCId |-> [status |-> "ACTIVE", exp |-> Now]], hasTime |-> TRUE, now |-> Now]

\* Evidence for chain c with one defect at credential i, or with none.
TokenWith(s, t) == [status |-> s, exp |-> t]

InChain(c, i) ==
    [no_parent |-> [c EXCEPT ![i].parent = NoId],
     own_parent |-> [c EXCEPT ![i].parent = c[i].id],
     no_id |-> [c EXCEPT ![i].id = NoId],
     root_id |-> [c EXCEPT ![i].id = c[1].id],
     malformed |-> [c EXCEPT ![i].shape = "malformed"],
     unreadable |-> [c EXCEPT ![i].shape = "unreadable"],
     unhashable |-> [c EXCEPT ![i].shape = "unhashable"],
     uncanonical |-> [c EXCEPT ![i].shape = "uncanonical"],
     no_scopes |-> [c EXCEPT ![i].scopes = {}],
     shallow |-> [c EXCEPT ![i].depth = 2 - i],
     empty_window |-> [c EXCEPT ![i].expires = c[i].issued],
     prefix |-> SubSeq(c, 1, i),
     root_again |-> SubSeq(c, 1, i) \o <<c[1]>>,
     too_long |-> Append(c, Honest(4, {<<"a">>}, <<0, 9>>)),
     empty |-> <<>>]

Beside(e, d) ==
    [honest |-> e,
     no_signatures |-> [e EXCEPT !.hasSignatures = FALSE],
     no_provider |-> [e EXCEPT !.hasScopes = FALSE],
     no_time |-> [e EXCEPT !.hasTime = FALSE],
     unsigned |-> [e EXCEPT !.signatures[d] = NoEntry],
     forged |-> [e EXCEPT !.signatures[d] = Forged],
     no_token |-> [e EXCEPT !.tokens[d] = NoEntry],
     revoked |-> [e EXCEPT !.tokens[d] = TokenWith("REVOKED", Now)],
     unknown |-> [e EXCEPT !.tokens[d] = TokenWith("other", Now)],
     stale |-> [e EXCEPT !.tokens[d] = TokenWith("ACTIVE", Now - 1)]]

ChainDefects == DOMAIN InChain(<<Honest(1, {}, <<0, 9>>)>>, 1)
OtherDefects == DOMAIN Beside(Present(<<>>), "d1")

MCEvidence ==
    {IF x \in ChainDefects THEN Present(InChain(c, i)[x]) ELSE Beside(Present(c), HopIds[i])[x] :
        c \in Chains, i \in 1..3, x \in ChainDefects \cup OtherDefects}
=============================================================================
