----------------------------- MODULE MCAdmission ----------------------------
(***************************************************************************)
(* Bounded instance of Admission: two attested sources and a converter     *)
(* without the method admit, in three overlapping sweeps.                  *)
(***************************************************************************)
EXTENDS Admission, TLC

Converters == <<"c1", "c2", "c3">>
ProfileOf == [c \in {"c1", "c2", "c3"} |-> IF c = "c2" THEN "q" ELSE "p"]
Symmetry == Permutations(Task)
=============================================================================
