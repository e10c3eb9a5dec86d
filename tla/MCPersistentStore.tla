------------------------- MODULE MCPersistentStore -------------------------
(***************************************************************************)
(* Bounded instance of PersistentStore: the counter stops at MaxSeq and the  *)
(* process restarts at most MaxRestarts times.  One agent is enough: two     *)
(* deltas under one number differ by their action.                           *)
(***************************************************************************)
EXTENDS PersistentStore, TLC

CONSTANTS MaxSeq, MaxRestarts

VARIABLE restarts

OneAgent == {[id |-> "a", slug |-> "x"]}

MCInit == PersistentInit /\ restarts = 0

MCNext ==
    \/ \E w \in Writer : seq < MaxSeq /\ Number(w) /\ UNCHANGED restarts
    \/ \E w \in Writer : Persist(w) /\ UNCHANGED restarts
    \/ \E w \in Writer : PersistFails(w) /\ UNCHANGED restarts
    \/ Load /\ UNCHANGED restarts
    \/ Fallback /\ UNCHANGED restarts
    \/ restarts < MaxRestarts /\ Restart /\ restarts' = restarts + 1

MCSpec == MCInit /\ [][MCNext]_<<persistentVars, restarts>>

Symmetry == Permutations(Writer)
=============================================================================
