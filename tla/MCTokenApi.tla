----------------------------- MODULE MCTokenApi -----------------------------
(* Instances of TokenApi for TLC. *)
EXTENDS TokenApi

CONSTANTS k1, k2
-----------------------------------------------------------------------------
AllKinds == {"generate", "revoke", "status", "importKeysBulk", "deleteKeys"}

\* Two keys in both orders, and an empty key.
Lists == {<<k1, k2>>, <<k2, k1>>, <<k1, NoKey>>}
=============================================================================
