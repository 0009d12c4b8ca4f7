------------------------------ MODULE MCCensus ------------------------------
(* Instances of Census for TLC. *)
EXTENDS Census
=============================================================================
