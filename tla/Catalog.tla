------------------------------ MODULE Catalog ------------------------------
(***************************************************************************)
(* What a registry promises the readers of its catalog: a set of listed     *)
(* agent records, at most one per slug, where publishing a record replaces  *)
(* whatever its slug listed and removing a record empties its slug.  It has *)
(* no log, no sequence numbers and no per-agent index.                      *)
(***************************************************************************)
CONSTANT Facts

VARIABLES listed, last

Without(s) == {g \in listed : g.slug # s}

Init == listed = {} /\ last = <<>>

Publish(f) ==
    /\ listed' = Without(f.slug) \cup {f}
    /\ last' = <<"upsert", f>>

Withdraw(action, f) ==
    /\ listed' = Without(f.slug)
    /\ last' = <<action, f>>

Reset == listed' = {} /\ last' = <<>>

Next ==
    \/ \E f \in Facts : Publish(f)
    \/ \E action \in {"delete", "revoke"}, f \in Facts : Withdraw(action, f)
    \/ Reset

Spec == Init /\ [][Next]_<<listed, last>>
=============================================================================
