--------------------------- MODULE MCBindingWrite ---------------------------
(***************************************************************************)
(* Bounded instance of BindingWrite.  Requests are three bodies with one       *)
(* nonce: an update, a revocation that reuses its nonce, and a suspension by  *)
(* another store that happens to use that nonce too.  The log is bounded by   *)
(* the pairs of store and nonce.                                             *)
(***************************************************************************)
EXTENDS BindingWrite, TLC

Request(st, n, s, op, fs) == [store |-> st, nonce |-> n, subject |-> s, op |-> op, fields |-> fs]

Requests ==
    {Request("d1", 1, "s1", "binding.update_target", {"url"}),
     Request("d1", 1, "s1", "binding.revoke", {"note"}),
     Request("d2", 1, "s1", "binding.suspend", {})}

Symmetry == Permutations(Handler)
=============================================================================
