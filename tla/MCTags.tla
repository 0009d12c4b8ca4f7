------------------------------- MODULE MCTags -------------------------------
(* Instances of Tags for TLC. *)
EXTENDS Tags, TLC

CONSTANTS e1, e2, m1, m2, m3, r1, r2, r3

\* m1 (and m2) belong to e1, m3 to e2.
TwoEntities == (m1 :> e1) @@ (m3 :> e2)
OneEntity   == (m1 :> e1) @@ (m2 :> e1)

Symmetry == Permutations(Reqs) \cup Permutations(Members)
=============================================================================
