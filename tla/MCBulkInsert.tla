---------------------------- MODULE MCBulkInsert ----------------------------
(* The call sites of bulkInsert, with a small limit on the placeholders. *)
EXTENDS BulkInsert
-----------------------------------------------------------------------------
\* CreateMembersWithTokens; ImportMembers and AddMemberBulk; AddMemberBulk's users;
\* ExpandCensusMembers; AddCensusWithMembers.
CallSites == {[placeholders |-> 11, numField |-> 12], [placeholders |-> 12, numField |-> 12],
              [placeholders |-> 4, numField |-> 4], [placeholders |-> 6, numField |-> 6],
              [placeholders |-> 2, numField |-> 2]}
=============================================================================
