----------------------------- MODULE MCRegistry -----------------------------
(* Instances of Registry for TLC. *)
EXTENDS Registry, TLC
-----------------------------------------------------------------------------
\* Keys, member ids and requests are interchangeable in every action and property; used
\* only where no liveness property is checked.
Symmetry == Permutations(Keys) \cup Permutations(Members) \cup Permutations(Reqs)

AllKinds  == {"validateToken", "register", "sendLinks"}
LinkKinds == {"validateToken", "sendLinks"}
=============================================================================
