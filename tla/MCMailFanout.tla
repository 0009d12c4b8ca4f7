---------------------------- MODULE MCMailFanout ----------------------------
(* Instances of MailFanout for TLC. *)
EXTENDS MailFanout
=============================================================================
