------------------------------- MODULE Census -------------------------------
(***************************************************************************)
(* The censuses of one entity: addCensus and deleteCensus; dumpCensus,     *)
(* which closes a census by storing a claim for every member of its target *)
(* (ExpandCensusMembers); updateCensus, with which the client publishes    *)
(* the root of the claims it got; and sendVotingLinks, which mails the     *)
(* ephemeral keys; while members join, register and are deleted.           *)
(*                                                                         *)
(* The census and the members are read before the transaction begins.      *)
(* What a transaction inserts is kept apart (inserted) until its commit;   *)
(* until then its rows lock the census and the members they refer to       *)
(* (foreign keys) and their own primary keys.                              *)
(***************************************************************************)
EXTENDS Naturals, FiniteSets

CONSTANTS Members, Censuses,
          Reqs,        \* the dumpCensus requests, each served once
          Senders,     \* the sendVotingLinks requests, each served once
          Deletes,     \* whether members and censuses are deleted meanwhile
          Faults       \* whether database calls fail and the process crashes

ASSUME CensusAssumption ==
    /\ Deletes \in BOOLEAN /\ Faults \in BOOLEAN /\ "own" \notin Reqs /\ IsFiniteSet(Members)
    /\ Reqs \cap Senders = {} /\ "none" \notin Reqs

VARIABLES members,     \* the table members: "plain" has no key, "registered" has one
          censuses,    \* the table censuses
          rows,        \* the table census_members: the claims of each census
          pc, req, answer,
          inserted,    \* the rows each open transaction has inserted
          root,        \* the dump whose claims the published root of a census stands for
          given        \* history: the claims each dump committed, per census

vars == <<members, censuses, rows, pc, req, answer, inserted, root, given>>
db   == <<members, censuses, rows, root, given>>

-----------------------------------------------------------------------------
\* A claim is the member's own key, or an ephemeral key that request "key" generated.
Claim == [member : Members, key : Reqs \cup {"own"}]

CensusRow == [live : BOOLEAN, ephemeral : BOOLEAN, size : 0..Cardinality(Members)]
NoCensus  == [live |-> FALSE, ephemeral |-> FALSE, size |-> 0]

\* list: the claims a dump is to insert, or those a sender still has to mail.
\* stale: history, the census was deleted since the request read it.
Request   == [census : Censuses \cup {"none"}, ephemeral : BOOLEAN, list : SUBSET Claim,
              stale : BOOLEAN]
NoRequest == [census |-> "none", ephemeral |-> FALSE, list |-> {}, stale |-> FALSE]

Steps == {"idle", "members", "insert", "size", "commit", "mail", "mailOne",
          "tag", "done"}
All   == Reqs \cup Senders

Live(m)      == members[m] \in {"plain", "registered"}
InFlight(r)  == pc[r] \notin {"idle", "done"}
Reading(r)   == InFlight(r) \/ req[r].list # {}   \* it uses what it has read
Names(S)     == {c.member : c \in S}

\* An open transaction has a row that refers to the member or to the census: the row of
\* the member or census is locked FOR KEY SHARE.
RefersToMember(m) == \E r \in Reqs : m \in Names(inserted[r])
RefersToCensus(c) == \E r \in Reqs : inserted[r] # {} /\ req[r].census = c

\* The open transaction of a request in S has set the size of the census.
SettingSize(S, c) == \E s \in S : pc[s] = "commit" /\ req[s].census = c

Init ==
    /\ members \in [Members -> {"never", "plain", "registered"}]
    /\ censuses = [c \in Censuses |-> NoCensus]
    /\ rows = [c \in Censuses |-> {}] /\ given = [c \in Censuses |-> {}]
    /\ root = [c \in Censuses |-> "none"]
    /\ pc = [r \in All |-> "idle"] /\ req = [r \in All |-> NoRequest]
    /\ answer = [r \in Reqs |-> "none"]
    /\ inserted = [r \in Reqs |-> {}]

Goto(r, step) == pc' = [pc EXCEPT ![r] = step]
Rollback(r)   == inserted' = [inserted EXCEPT ![r] = {}]

\* The handler returns, and what it has read is gone.
Answer(r, a) ==
    /\ Goto(r, "done") /\ answer' = [answer EXCEPT ![r] = a]
    /\ req' = [req EXCEPT ![r].list = {}, ![r].ephemeral = FALSE]

-----------------------------------------------------------------------------
(* Members and censuses come and go: one statement each. *)

AddMember(m) ==
    /\ members[m] = "never"
    /\ \E kind \in {"plain", "registered"} : members' = [members EXCEPT ![m] = kind]
    /\ UNCHANGED <<censuses, rows, root, given, pc, req, answer, inserted>>

\* public_key belongs to a unique index: its update conflicts with FOR KEY SHARE.
RegisterMember(m) ==
    /\ members[m] = "plain" /\ ~RefersToMember(m)
    /\ members' = [members EXCEPT ![m] = "registered"]
    /\ UNCHANGED <<censuses, rows, root, given, pc, req, answer, inserted>>

\* Mutant: census_members without ON DELETE CASCADE to members.
DeleteMemberNoCascade(m) ==
    /\ Deletes /\ Live(m) /\ ~RefersToMember(m)
    /\ members' = [members EXCEPT ![m] = "deleted"]
    /\ UNCHANGED <<censuses, rows, root, given, pc, req, answer, inserted>>

\* The foreign key cascades to census_members; the size of the census stays.
DeleteMember(m) ==
    /\ Deletes /\ Live(m) /\ ~RefersToMember(m)
    /\ members' = [members EXCEPT ![m] = "deleted"]
    /\ rows' = [c \in Censuses |-> {x \in rows[c] : x.member # m}]
    /\ UNCHANGED <<censuses, root, given, pc, req, answer, inserted>>

\* Whether the census is ephemeral is up to the client, and so is the size it starts
\* with (0 here).  A duplicate id is refused.
AddCensus(c, ephemeral) ==
    /\ ~censuses[c].live
    /\ censuses' = [censuses EXCEPT ![c] = [NoCensus EXCEPT !.live = TRUE,
                                                            !.ephemeral = ephemeral]]
    /\ UNCHANGED <<members, rows, root, given, pc, req, answer, inserted>>

\* What the deletion of a census does to it, its claims and the history, which starts
\* afresh: the foreign key cascades to census_members.
Forget(c) ==
    /\ censuses' = [censuses EXCEPT ![c] = NoCensus]
    /\ rows' = [rows EXCEPT ![c] = {}] /\ root' = [root EXCEPT ![c] = "none"]
    /\ given' = [given EXCEPT ![c] = {}]
    /\ req' = [r \in All |-> [req[r] EXCEPT !.stale = @ \/ (Reading(r) /\ req[r].census = c)]]
    /\ UNCHANGED <<members, pc, answer, inserted>>

DeleteCensus(c) ==
    /\ Deletes /\ censuses[c].live
    /\ ~RefersToCensus(c) /\ ~SettingSize(Reqs, c)
    /\ Forget(c)

\* UPDATE censuses: the root of the claims of the dump r replaces the one of before.  An
\* empty root leaves it as it is, and a census that is gone is no error; both change nothing.
SetRoot(c, r) ==
    /\ censuses[c].live /\ ~SettingSize(Reqs, c)
    /\ root' = [root EXCEPT ![c] = r]

\* updateCensus, by a client that was answered the claims of r and has computed their root.
UpdateCensus(c, r) ==
    /\ answer[r] = "ok" /\ req[r].census = c
    /\ SetRoot(c, r)
    /\ UNCHANGED <<members, censuses, rows, given, pc, req, answer, inserted>>

-----------------------------------------------------------------------------
(* dumpCensus *)

DumpCensus(r, c) ==
    /\ pc[r] = "idle"
    /\ IF censuses[c].live
         THEN /\ req' = [req EXCEPT ![r] = [NoRequest EXCEPT !.census = c,
                                                 !.ephemeral = censuses[c].ephemeral]]
              /\ Goto(r, "members") /\ UNCHANGED answer
         ELSE Answer(r, "error")
    /\ UNCHANGED <<db, inserted>>

\* The claims for the members as they are now: the key of a registered member and, in an
\* ephemeral census only, a new key for each of the others.
TargetMembers(r) ==
    /\ pc[r] = "members"
    /\ req' = [req EXCEPT ![r].list =
         {[member |-> m, key |-> "own"] : m \in {n \in Members : members[n] = "registered"}}
         \cup {[member |-> m, key |-> r] :
                 m \in {n \in Members : members[n] = "plain" /\ req[r].ephemeral}}]
    /\ Goto(r, "insert")
    /\ UNCHANGED <<db, answer, inserted>>

\* The rows refer to a census or a member that is gone.
BreaksForeignKeys(r) ==
    /\ req[r].list # {}
    /\ ~censuses[req[r].census].live \/ \E m \in Names(req[r].list) : ~Live(m)

\* They do, or break PRIMARY KEY (member_id, census_id).
BreaksConstraint(r) ==
    \/ BreaksForeignKeys(r)
    \/ Names(req[r].list) \cap Names(rows[req[r].census]) # {}

\* Mutant: the rows are inserted outside the transaction.
InsertMembersNoTx(r) ==
    LET c == req[r].census IN
    /\ pc[r] = "insert"
    /\ IF BreaksConstraint(r)
         THEN Rollback(r) /\ Answer(r, "error") /\ UNCHANGED rows
         ELSE /\ rows' = [rows EXCEPT ![c] = @ \cup req[r].list]
              /\ Goto(r, "size") /\ UNCHANGED <<req, answer, inserted>>
    /\ UNCHANGED <<members, censuses, root, given>>

\* Begin and bulkInsert, which rolls back by itself.  It waits for a transaction that
\* inserts a row of the same key.
InsertMembers(r) ==
    /\ pc[r] = "insert"
    /\ \A s \in Reqs \ {r} : req[s].census = req[r].census =>
           Names(inserted[s]) \cap Names(req[r].list) = {}
    /\ IF BreaksConstraint(r)
         THEN Rollback(r) /\ Answer(r, "error")
         ELSE /\ inserted' = [inserted EXCEPT ![r] = req[r].list]
              /\ Goto(r, "size") /\ UNCHANGED <<req, answer>>
    /\ UNCHANGED db

\* UPDATE censuses SET size.  If the census is gone the handler returns at once: no
\* rollback, and the transaction is not aborted either.
SetSize(r) ==
    /\ pc[r] = "size" /\ ~SettingSize(Reqs \ {r}, req[r].census)
    /\ IF censuses[req[r].census].live THEN Goto(r, "commit") /\ UNCHANGED <<req, answer>>
                                       ELSE Answer(r, "error")
    /\ UNCHANGED <<db, inserted>>

\* What the commit makes visible: the rows and the size together.
Apply(r) ==
    LET c == req[r].census IN
    /\ rows' = [rows EXCEPT ![c] = @ \cup inserted[r]]
    /\ censuses' = [censuses EXCEPT ![c].size = Cardinality(req[r].list)]
    /\ given' = [given EXCEPT ![c] = @ \cup {<<r, x>> : x \in inserted[r]}]
    /\ Rollback(r)
    /\ UNCHANGED <<members, root>>

\* The claims are shuffled and returned.
Commit(r) == pc[r] = "commit" /\ Apply(r) /\ Answer(r, "ok")

\* The connection is lost while committing: applied, but the client gets an error.
CommitUnknown(r) == Faults /\ pc[r] = "commit" /\ Apply(r) /\ Answer(r, "unknown")

\* Mutant: the transaction is left open with its rows.
StatementFailsLocked(r) ==
    /\ Faults /\ InFlight(r)
    /\ Answer(r, "error")
    /\ UNCHANGED <<db, inserted>>

\* A statement fails.  bulkInsert and a failed commit roll back; a failed UPDATE returns
\* with the transaction open, but PostgreSQL has aborted it and freed its locks.
StatementFails(r) ==
    /\ Faults /\ InFlight(r)
    /\ Answer(r, "error")
    /\ Rollback(r)
    /\ UNCHANGED db

-----------------------------------------------------------------------------
(* sendVotingLinks.  Its goroutines are the subject of MailFanout; its      *)
(* answer, and the tag VoteEmailSent it adds at the end in the way Registry *)
(* adds its own, are not kept.                                              *)

\* ListEphemeralMemberInfo: the stored claims with an ephemeral key.
ReadClaims(c) == {x \in rows[c] : x.key # "own"}

\* The claims are read, and mailed by one goroutine each.  Without any, or without the
\* census, the handler returns at once.
SendVotingLinks(v, c) ==
    /\ pc[v] = "idle"
    /\ req' = [req EXCEPT ![v] = [NoRequest EXCEPT !.census = c, !.list = ReadClaims(c)]]
    /\ Goto(v, IF ReadClaims(c) = {} THEN "done" ELSE "mail")
    /\ UNCHANGED <<db, answer, inserted>>

\* With an e-mail address in the request: the claim of the member that has it, which the
\* handler mails by itself.
SendVotingLink(v, c) ==
    /\ pc[v] = "idle"
    /\ \E x \in ReadClaims(c) :
         req' = [req EXCEPT ![v] = [NoRequest EXCEPT !.census = c, !.list = {x}]]
    /\ Goto(v, "mailOne")
    /\ UNCHANGED <<db, answer, inserted>>

\* The key of a claim is mailed, or not: a failure is only counted.  A goroutine may
\* outlive its handler.
MailLink(v, x) ==
    /\ x \in req[v].list
    /\ req' = [req EXCEPT ![v].list = @ \ {x}]
    /\ IF pc[v] = "mailOne" THEN Goto(v, "done") ELSE UNCHANGED pc
    /\ UNCHANGED <<db, answer, inserted>>

\* The handler has counted the results: it tags the members or gives up.
MailsCounted(v) ==
    /\ pc[v] = "mail"
    /\ Goto(v, "tag") \/ Goto(v, "done")
    /\ UNCHANGED <<db, req, answer, inserted>>

TagMailed(v) ==
    /\ pc[v] = "tag"
    /\ Goto(v, "done")
    /\ UNCHANGED <<db, req, answer, inserted>>

-----------------------------------------------------------------------------
\* The process dies, its goroutines with it, and PostgreSQL rolls back.  The requests in S
\* are over.
Die(S) ==
    /\ pc' = [r \in All |-> IF r \in S THEN "done" ELSE pc[r]]
    /\ answer' = [r \in Reqs |-> IF r \in S THEN "lost" ELSE answer[r]]
    /\ req' = [r \in All |-> [req[r] EXCEPT !.list = {}, !.ephemeral = FALSE]]
    /\ inserted' = [r \in Reqs |-> {}]
    /\ UNCHANGED db

Working == {r \in All : InFlight(r)}

Crash == Faults /\ Working # {} /\ Die(Working)

\* sendVotingLinks for an address that no member has: MemberByEmail takes the first of no
\* members and panics.  Nothing in the repository recovers: unless the router does, the
\* process dies.
UnknownMail(v) ==
    /\ pc[v] = "idle" /\ \E c \in Censuses : censuses[c].live
    /\ \/ Goto(v, "done") /\ UNCHANGED <<db, req, answer, inserted>>
       \/ Die(Working \cup {v})

Admin == \/ \E m \in Members : AddMember(m) \/ RegisterMember(m) \/ DeleteMember(m)
         \/ \E c \in Censuses : \/ DeleteCensus(c)
                                \/ \E b \in BOOLEAN : AddCensus(c, b)
                                \/ \E r \in Reqs : UpdateCensus(c, r)

Step(r) == TargetMembers(r) \/ InsertMembers(r) \/ SetSize(r) \/ Commit(r)

Next == \/ Admin
        \/ \E r \in Reqs : \/ \E c \in Censuses : DumpCensus(r, c)
                           \/ Step(r) \/ CommitUnknown(r) \/ StatementFails(r)
        \/ \E v \in Senders : \/ \E c \in Censuses : SendVotingLinks(v, c) \/ SendVotingLink(v, c)
                              \/ \E x \in Claim : MailLink(v, x)
                              \/ MailsCounted(v) \/ TagMailed(v) \/ UnknownMail(v)
        \/ Crash

Spec == Init /\ [][Next]_vars

\* A goroutine that can run does run, and PostgreSQL wakes the waiter of a lock.
FairSpec == Spec /\ \A r \in Reqs : WF_vars(Step(r))
-----------------------------------------------------------------------------
(* Properties *)

\* The type of every variable.
TypeOK ==
    /\ members \in [Members -> {"never", "plain", "registered", "deleted"}]
    /\ censuses \in [Censuses -> CensusRow]
    /\ rows \in [Censuses -> SUBSET Claim]
    /\ pc \in [All -> Steps] /\ req \in [All -> Request]
    /\ answer \in [Reqs -> {"none", "ok", "error", "unknown", "lost"}]
    /\ inserted \in [Reqs -> SUBSET Claim]
    /\ root \in [Censuses -> Reqs \cup {"none"}]
    /\ given \in [Censuses -> SUBSET (Reqs \X Claim)]

\* A claim is a vote: however many dumpCensus of one census run, are repeated or lose
\* their answer, no member is ever given claims by two of them.
OneClaimPerMember ==
    \A c \in Censuses : \A g, h \in given[c] : g[2].member = h[2].member => g = h

\* The members are read before the transaction: still, every stored claim belongs to a
\* member that exists, of a census that exists, and an ephemeral one comes from a dump
\* that was committed.
ClaimsAreBacked ==
    \A c \in Censuses : \A x \in rows[c] :
        /\ censuses[c].live /\ Live(x.member)
        /\ x.key # "own" => answer[x.key] \in {"ok", "unknown"}

\* The client publishes the root of the claims one dump returned, whenever it likes, while
\* another dump may have been served: as long as one of those claims is stored, all the
\* stored ones are among them, so that nobody the census counts is left out of its root.
\* (A dump that read the census before it was deleted and created anew can break this.)
RootCoversClaims ==
    \A c \in Censuses :
        LET covered == {g[2] : g \in {h \in given[c] : h[1] = root[c]}}
        IN  (/\ \A g \in given[c] : ~req[g[1]].stale
             /\ rows[c] \cap covered # {}) => rows[c] \subseteq covered

\* sendVotingLinks reads the claims once and its goroutines mail them later: unless the
\* census was deleted in between, the key a member is about to be mailed is the one a
\* committed dump gave it, so that no member gets links for two identities of one census.
LinksAreClaims ==
    \A v \in Senders : \A x \in req[v].list : ~req[v].stale =>
        x.key # "own" /\ <<x.key, x>> \in given[req[v].census]

\* No dumpCensus waits for ever for another.
EveryDumpAnswered == \A r \in Reqs : InFlight(r) ~> pc[r] = "done"
=============================================================================
