------------------------------ MODULE MCFaucet ------------------------------
(* Instances of Faucet for TLC. *)
EXTENDS Faucet
-----------------------------------------------------------------------------
\* The first signer can pay for one transfer and is then left with the amount but not the
\* gas of another; the second one can pay for every call.
OneTransfer == <<5, 9>>
=============================================================================
