---------------------------- MODULE MCFederation ----------------------------
(* Finite record sets for the runs of Federation. *)
EXTENDS Federation

Record(a, s) == [id |-> a, slug |-> s]

\* Two agents of the peer, under one slug.
SharedSlug == {Record("a", "x"), Record("b", "x")}

\* One agent, for the runs in which the content of a change does not matter.
OneAgent == {Record("a", "x")}
=============================================================================
