---------------------------- MODULE MCDeltaStore ----------------------------
(***************************************************************************)
(* Bounded instance of DeltaStore: the log stops growing at MaxSeq entries.  *)
(* In StableFacts agents "a" and "b" share the slug "x", and "a" has two     *)
(* versions.                                                                *)
(***************************************************************************)
EXTENDS DeltaStore

CONSTANT MaxSeq

Record(a, s, v) == [id |-> a, slug |-> s, version |-> v]

StableFacts == {Record("a", "x", 1), Record("a", "x", 2), Record("b", "x", 1), Record("c", "z", 1)}

AddWithin ==
    /\ seq < MaxSeq
    /\ \E action \in DeltaAction, f \in Facts : Add(action, f)

MCNext == AddWithin \/ Clear

MCSpec == Init /\ [][MCNext]_vars
=============================================================================
