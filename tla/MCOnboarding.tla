---------------------------- MODULE MCOnboarding ----------------------------
(* Instances of Onboarding for TLC. *)
EXTENDS Onboarding
-----------------------------------------------------------------------------
CONSTANTS a, b

\* Opposite orders, an address twice, members without address, and nothing at all.
SomeLists == {<<a, b>>, <<b, a>>, <<a, a>>, <<NoMail, NoMail>>, <<>>}
=============================================================================
