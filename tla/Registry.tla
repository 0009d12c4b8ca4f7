------------------------------ MODULE Registry ------------------------------
(***************************************************************************)
(* Member registration: the validateToken and register handlers of the     *)
(* registry API, the sendValidationLinks handler of the manager API, and   *)
(* the administrative calls that create and delete members, all of them    *)
(* goroutines over one PostgreSQL database.                                *)
(*                                                                         *)
(* A request is one element of Reqs and is served once.  Each database     *)
(* round trip of a handler is one step.  A transaction's writes are kept   *)
(* apart (newUser, newRow) until its commit and act as PostgreSQL's locks  *)
(* until then; the isolation level is READ COMMITTED.                      *)
(***************************************************************************)
EXTENDS FiniteSets

CONSTANTS Entities,   \* the entities that may sign up
          Keys,       \* the public keys users sign with
          Members,    \* the member ids (a token is the id of its member)
          Reqs,       \* the requests, each served once
          Kinds,      \* the handlers the requests may call
          NoEntity, NoKey, NoMember, NoTag,
          Faults      \* whether database calls fail and the process crashes

ASSUME RegistryAssumption ==
    /\ NoEntity \notin Entities /\ NoKey \notin Keys /\ NoMember \notin Members
    /\ NoTag \notin Reqs
    /\ Kinds \subseteq {"validateToken", "register", "sendLinks"}
    /\ Faults \in BOOLEAN

VARIABLES
    entities,   \* the table entities: those that signed up
    users,      \* the table users: committed public keys
    members,    \* the table members, with the history of each id
    tags,       \* the table tags: each entity's tag "PendingValidation", if any
    pc,         \* where each request is in its handler
    req,        \* the request's arguments and what its handler has read
    newUser,    \* the key an open transaction has inserted into users
    newRow,     \* the member an open transaction has inserted or updated
    openTx,     \* the requests whose transaction is neither committed nor rolled back
    answer,     \* what the client of each request got ("error": an error, or nothing)
    linked      \* history: the keys some committed member row has carried

vars == <<entities, users, members, tags, pc, req, newUser, newRow, openTx,
          answer, linked>>
db   == <<entities, users, members, tags, linked>>
txs  == <<newUser, newRow, openTx>>

-----------------------------------------------------------------------------
(* Rows and requests *)

\* The id drawn for a tag is named after the request that inserts it: each inserts one.
TagIds == Reqs

Row == [status  : {"never", "live", "deleted"},
        entity  : Entities \cup {NoEntity},
        key     : Keys \cup {NoKey},
        pending : SUBSET TagIds]     \* the PendingValidation tags it carries

Absent(status) ==
    [status |-> status, entity |-> NoEntity, key |-> NoKey, pending |-> {}]

LiveRow(e, k) == [status |-> "live", entity |-> e, key |-> k, pending |-> {}]

Request == [kind     : {"none", "validateToken", "register", "sendLinks"},
            entity   : Entities \cup {NoEntity},
            key      : Keys \cup {NoKey},
            member   : Members \cup {NoMember},
            ids      : SUBSET Members,  \* sendLinks: members read, then members mailed
            verified : BOOLEAN,         \* sendLinks: a member it read has a key
            tag      : TagIds \cup {NoTag},  \* the tag its handler has looked up or added
            late     : BOOLEAN]         \* history: its token was answered ok before

NoRequest == [kind |-> "none", entity |-> NoEntity, key |-> NoKey,
              member |-> NoMember, ids |-> {}, verified |-> FALSE, tag |-> NoTag,
              late |-> FALSE]

Steps == {"idle", "member", "user", "insertUser", "write", "commit", "tagOf",
          "untagCheck", "untag", "mail", "tagByName", "addTag", "tagCheck", "tagMembers", "done"}

Live(m)       == members[m].status = "live"
LiveOf(e)     == {m \in Members : Live(m) /\ members[m].entity = e}
Locked(m)     == \E s \in Reqs : newRow[s] = m
InFlight(r)   == pc[r] \notin {"idle", "done"}

\* An id no member has had and no register request is about to be given.
Fresh(m) == /\ members[m].status = "never"
            /\ \A s \in Reqs : ~(InFlight(s) /\ req[s].kind = "register" /\ req[s].member = m)

AnsweredOk(r) == pc[r] = "done" /\ answer[r] = "ok"

\* History: some validateToken of m's token has been answered ok.
TokenAnswered(m) ==
    \E s \in Reqs : AnsweredOk(s) /\ req[s].kind = "validateToken" /\ req[s].member = m

\* Some member of S has a key: it is verified already.
SomeVerified(S) == \E m \in S : members[m].key # NoKey

-----------------------------------------------------------------------------
Init ==
    /\ entities = {} /\ users = {} /\ linked = {}
    /\ tags = [e \in Entities |-> NoTag]
    /\ members = [m \in Members |-> Absent("never")]
    /\ pc = [r \in Reqs |-> "idle"]
    /\ req = [r \in Reqs |-> NoRequest]
    /\ newUser = [r \in Reqs |-> NoKey]
    /\ newRow = [r \in Reqs |-> NoMember]
    /\ openTx = {}
    /\ answer = [r \in Reqs |-> "none"]

Goto(r, step) == pc' = [pc EXCEPT ![r] = step]

Answer(r, a) == /\ Goto(r, "done")
                /\ answer' = [answer EXCEPT ![r] = a]

\* tx.Rollback(), or PostgreSQL dropping the transaction of a lost connection.
Rollback(r) == /\ newUser' = [newUser EXCEPT ![r] = NoKey]
               /\ newRow'  = [newRow EXCEPT ![r] = NoMember]
               /\ openTx'  = openTx \ {r}

-----------------------------------------------------------------------------
(* Administrative calls: each is one transaction or one statement. *)

\* signUp stores the entity.
AddEntity(e) ==
    /\ e \notin entities
    /\ entities' = entities \cup {e}
    /\ UNCHANGED <<users, members, tags, linked, pc, req, txs, answer>>

\* generate and generateTokens create a member without key per fresh token.
CreateMembersWithTokens(e, S) ==
    /\ e \in entities /\ S # {}
    /\ \A m \in S : Fresh(m)
    /\ members' = [m \in Members |-> IF m \in S THEN LiveRow(e, NoKey) ELSE members[m]]
    /\ UNCHANGED <<entities, users, tags, linked, pc, req, txs, answer>>

Delete(D) ==
    /\ D # {} /\ \A m \in D : ~Locked(m)     \* waits for the row locks
    /\ members' = [m \in Members |-> IF m \in D THEN Absent("deleted") ELSE members[m]]
    /\ UNCHANGED <<entities, users, tags, linked, pc, req, txs, answer>>

\* deleteMembers of the manager API, and revoke of the token API (one id).
DeleteMembers(e, S) == Delete(S \cap LiveOf(e))

\* deleteKeys of the token API: the members of the entity that carry one of the keys.
DeleteMembersByKeys(e, K) == Delete({m \in LiveOf(e) : members[m].key \in K})

\* deleteTag of the tag PendingValidation (Tags models its steps): it goes, and leaves the
\* members of its entity.
DeleteTag(e) ==
    LET C == {m \in LiveOf(e) : tags[e] \in members[m].pending} IN
    /\ tags[e] # NoTag /\ \A m \in C : ~Locked(m)
    /\ tags' = [tags EXCEPT ![e] = NoTag]
    /\ members' = [m \in Members |->
         IF m \in C THEN [members[m] EXCEPT !.pending = @ \ {tags[e]}] ELSE members[m]]
    /\ UNCHANGED <<entities, users, linked, pc, req, txs, answer>>

-----------------------------------------------------------------------------
(* Requests arrive.  The entity is looked up first; NoMember stands for a  *)
(* token that is empty or is not a uuid.                                   *)

ValidateToken(r, e, m, k) ==
    /\ pc[r] = "idle" /\ "validateToken" \in Kinds
    /\ req' = [req EXCEPT ![r] =
         [NoRequest EXCEPT !.kind = "validateToken", !.entity = e, !.key = k, !.member = m,
              !.late = TokenAnswered(m)]]
    /\ IF m = NoMember \/ e \notin entities
         THEN Answer(r, "error")
         ELSE Goto(r, "member") /\ UNCHANGED answer
    /\ UNCHANGED <<db, txs>>

\* m is the id the database will draw for the new member.
Register(r, e, m, k) ==
    /\ pc[r] = "idle" /\ "register" \in Kinds /\ Fresh(m)
    /\ req' = [req EXCEPT ![r] =
         [NoRequest EXCEPT !.kind = "register", !.entity = e, !.key = k, !.member = m]]
    /\ \/ Answer(r, "error")     \* no such entity, or invalid member info
       \/ e \in entities /\ Goto(r, "user") /\ UNCHANGED answer
    /\ UNCHANGED <<db, txs>>

\* The members are read by id only; ids of other entities are read as well.
SendValidationLinks(r, e, S) ==
    /\ pc[r] = "idle" /\ "sendLinks" \in Kinds
    /\ LET read == {m \in S : Live(m)} IN
         /\ req' = [req EXCEPT ![r] =
              [NoRequest EXCEPT !.kind = "sendLinks", !.entity = e, !.ids = read,
                   !.verified = SomeVerified(read)]]
         /\ IF e \notin entities THEN Answer(r, "error")
            ELSE IF read = {} THEN Answer(r, "ok")
            ELSE Goto(r, "mail") /\ UNCHANGED answer
    /\ UNCHANGED <<db, txs>>

-----------------------------------------------------------------------------
(* validateToken, and the transaction it shares in shape with register *)

\* Mutant: the check that the member has no key yet is dropped.
ReadMemberNoKeyCheck(r) ==
    /\ pc[r] = "member"
    /\ IF req[r].member \in LiveOf(req[r].entity)
         THEN Goto(r, "user") /\ UNCHANGED answer
         ELSE Answer(r, "error")
    /\ UNCHANGED <<db, req, txs>>

\* The member is read and a token whose member has a key is refused, with
\* "duplicate user already registered" or with "invalid token".
ReadMember(r) ==
    /\ pc[r] = "member"
    /\ IF req[r].member \in LiveOf(req[r].entity) /\ members[req[r].member].key = NoKey
         THEN Goto(r, "user") /\ UNCHANGED answer
         ELSE Answer(r, "error")
    /\ UNCHANGED <<db, req, txs>>

\* Mutant: sql.ErrNoRows is taken for a user that exists.
BeginAndSkipUser(r) ==
    /\ pc[r] = "user"
    /\ openTx' = openTx \cup {r}
    /\ Goto(r, "write")
    /\ UNCHANGED <<db, req, newUser, newRow, answer>>

\* Begin, then look the user up on another connection, outside the transaction.
BeginAndReadUser(r) ==
    /\ pc[r] = "user"
    /\ openTx' = openTx \cup {r}
    /\ Goto(r, IF req[r].key \in users THEN "write" ELSE "insertUser")
    /\ UNCHANGED <<db, req, newUser, newRow, answer>>

\* A failed lookup returns without a rollback: the transaction stays open.
ReadUserFails(r) ==
    /\ Faults /\ pc[r] = "user"
    /\ openTx' = openTx \cup {r}
    /\ Answer(r, "error")
    /\ UNCHANGED <<db, req, newUser, newRow>>

\* Mutant: the user is inserted outside the transaction, as AddUser does.
InsertUserOutsideTx(r) ==
    /\ pc[r] = "insertUser"
    /\ IF req[r].key \in users
         THEN Answer(r, "error") /\ Rollback(r) /\ UNCHANGED users
         ELSE /\ users' = users \cup {req[r].key}
              /\ Goto(r, "write")
              /\ UNCHANGED <<txs, answer>>
    /\ UNCHANGED <<entities, members, tags, linked, req>>

\* INSERT INTO users waits for another transaction's insert of the same key, and
\* breaks users_pkey once that one has committed.
InsertUser(r) ==
    /\ pc[r] = "insertUser"
    /\ \A s \in Reqs : newUser[s] # req[r].key
    /\ IF req[r].key \in users
         THEN Answer(r, "error") /\ Rollback(r)
         ELSE /\ newUser' = [newUser EXCEPT ![r] = req[r].key]
              /\ Goto(r, "write")
              /\ UNCHANGED <<newRow, openTx, answer>>
    /\ UNCHANGED <<db, req>>

\* The members of r's entity, other than m, that already carry its key.
Conflicts(r, m) == {n \in LiveOf(req[r].entity) \ {m} : members[n].key = req[r].key}

\* The statement that sets m's key waits for the row lock of m, for the lock of a row
\* that carries the key, and for a transaction that gave the key to another row.
WriteWaits(r, m) ==
    \/ Locked(m)
    \/ \E n \in Conflicts(r, m) : Locked(n)
    \/ \E s \in Reqs \ {r} : /\ newRow[s] # NoMember
                             /\ req[s].entity = req[r].entity
                             /\ req[s].key = req[r].key

\* Mutant: the schema without UNIQUE (entity_id, public_key).
BreaksForeignKeyOnly(r, m) == req[r].key \notin users \cup {newUser[r]}

\* It breaks UNIQUE (entity_id, public_key) or the foreign key to users.
BreaksConstraint(r, m) ==
    \/ Conflicts(r, m) # {}
    \/ req[r].key \notin users \cup {newUser[r]}

WriteRow(r, m) ==
    /\ ~WriteWaits(r, m)
    /\ IF BreaksConstraint(r, m)
         THEN Answer(r, "error") /\ Rollback(r)
         ELSE /\ newRow' = [newRow EXCEPT ![r] = m]
              /\ Goto(r, "commit")
              /\ UNCHANGED <<newUser, openTx, answer>>

\* Mutant: the number of updated rows is not looked at.
UpdateMemberKeyUnchecked(r) ==
    /\ pc[r] = "write" /\ req[r].kind = "validateToken"
    /\ WriteRow(r, req[r].member)
    /\ UNCHANGED <<db, req>>

\* RegisterMember: UPDATE members SET public_key WHERE id AND entity_id.  The WHERE
\* does not ask that the key is still empty; no row updated rolls back.
UpdateMemberKey(r) ==
    /\ pc[r] = "write" /\ req[r].kind = "validateToken"
    /\ IF req[r].member \in LiveOf(req[r].entity)
         THEN WriteRow(r, req[r].member)
         ELSE Answer(r, "error") /\ Rollback(r)
    /\ UNCHANGED <<db, req>>

\* AddMember: INSERT INTO members.
InsertMember(r) ==
    /\ pc[r] = "write" /\ req[r].kind = "register"
    /\ WriteRow(r, req[r].member)
    /\ UNCHANGED <<db, req>>

\* What the commit of r makes visible: the user and the member row together.
Apply(r) ==
    /\ users' = IF newUser[r] = NoKey THEN users ELSE users \cup {newUser[r]}
    /\ members' = [members EXCEPT ![newRow[r]] =
         IF req[r].kind = "register" THEN LiveRow(req[r].entity, req[r].key)
                                     ELSE [@ EXCEPT !.key = req[r].key]]
    /\ linked' = linked \cup {req[r].key}
    /\ UNCHANGED <<entities, tags>>

Commit(r) ==
    /\ pc[r] = "commit"
    /\ Apply(r) /\ Rollback(r)      \* the transaction ends and its locks go
    /\ IF req[r].kind = "register"
         THEN Answer(r, "ok")
         ELSE Goto(r, "tagOf") /\ UNCHANGED answer
    /\ UNCHANGED req

\* The connection is lost while committing: applied, but the handler sees an error.
CommitUnknown(r) ==
    /\ Faults /\ pc[r] = "commit"
    /\ Apply(r) /\ Rollback(r) /\ Answer(r, "error")
    /\ UNCHANGED req

\* Mutant: a failed statement returns without the rollback.
StatementFailsNoRollback(r) ==
    /\ Faults /\ pc[r] \in {"member", "insertUser", "write", "commit"}
    /\ Answer(r, "error")
    /\ UNCHANGED <<db, req, txs>>

\* Mutant: the error of the commit is lost.
CommitErrorIgnored(r) ==
    /\ Faults /\ pc[r] \in {"member", "insertUser", "write", "commit"}
    /\ Rollback(r) /\ Answer(r, IF pc[r] = "commit" THEN "ok" ELSE "error")
    /\ UNCHANGED <<db, req>>

\* A statement or the commit fails and the handler rolls back (a duplicate email of
\* register included).
StatementFails(r) ==
    /\ Faults /\ pc[r] \in {"member", "insertUser", "write", "commit"}
    /\ Rollback(r) /\ Answer(r, "error")
    /\ UNCHANGED <<db, req>>

\* After the commit: look for the entity's PendingValidation tag, ...
ReadPendingTag(r) ==
    /\ pc[r] = "tagOf"
    /\ req' = [req EXCEPT ![r].tag = tags[req[r].entity]]
    /\ IF tags[req[r].entity] = NoTag THEN Answer(r, "ok")
                                     ELSE Goto(r, "untagCheck") /\ UNCHANGED answer
    /\ UNCHANGED <<db, txs>>

\* ... look it up again by its id, ...
CheckPendingTag(r) ==
    /\ pc[r] = "untagCheck"
    /\ IF tags[req[r].entity] = req[r].tag THEN Goto(r, "untag") /\ UNCHANGED answer
                                           ELSE Answer(r, "ok")
    /\ UNCHANGED <<db, req, txs>>

\* ... and take it from the member, if the row is still there and carries it.
RemovePendingTag(r) ==
    /\ pc[r] = "untag"
    /\ LET m == req[r].member IN
         IF m \in LiveOf(req[r].entity) /\ req[r].tag \in members[m].pending
           THEN ~Locked(m) /\ members' = [members EXCEPT ![m].pending = @ \ {req[r].tag}]
           ELSE UNCHANGED members
    /\ Answer(r, "ok")
    /\ UNCHANGED <<entities, users, tags, linked, req, txs>>

\* Errors on the tag are only logged: the token is validated all the same.
TagFailureIgnored(r) ==
    /\ Faults /\ pc[r] \in {"tagOf", "untagCheck", "untag"}
    /\ Answer(r, "ok")
    /\ UNCHANGED <<db, req, txs>>

-----------------------------------------------------------------------------
(* sendValidationLinks.  The goroutines that send the mails are the        *)
(* subject of MailFanout: the handler goes on with the ids T they reported *)
(* or gives up.  All of them are reported only when none failed, and a     *)
(* member that has a key always fails.                                     *)

MailsSent(r, T) ==
    /\ pc[r] = "mail"
    /\ T # {} /\ T \subseteq req[r].ids
    /\ T = req[r].ids => ~req[r].verified
    /\ req' = [req EXCEPT ![r].ids = T]
    /\ Goto(r, "tagByName")
    /\ UNCHANGED <<db, txs, answer>>

MailsFail(r) ==
    /\ pc[r] = "mail"
    /\ Answer(r, "error")
    /\ UNCHANGED <<db, req, txs>>

TagByName(r) ==
    /\ pc[r] = "tagByName"
    /\ req' = [req EXCEPT ![r].tag = tags[req[r].entity]]
    /\ Goto(r, IF tags[req[r].entity] = NoTag THEN "addTag" ELSE "tagCheck")
    /\ UNCHANGED <<db, txs, answer>>

\* UNIQUE (name, entity_id): another request may have added the tag meanwhile.
AddTag(r) ==
    /\ pc[r] = "addTag"
    /\ IF tags[req[r].entity] # NoTag
         THEN Answer(r, "error") /\ UNCHANGED <<tags, req>>
         ELSE /\ tags' = [tags EXCEPT ![req[r].entity] = r]
              /\ req' = [req EXCEPT ![r].tag = r]
              /\ Goto(r, "tagCheck") /\ UNCHANGED answer
    /\ UNCHANGED <<entities, users, members, linked, txs>>

\* AddTagToMembers looks the tag up by its id, ...
CheckTag(r) ==
    /\ pc[r] = "tagCheck"
    /\ IF tags[req[r].entity] = req[r].tag THEN Goto(r, "tagMembers") /\ UNCHANGED answer
                                           ELSE Answer(r, "error")
    /\ UNCHANGED <<db, req, txs>>

\* Mutant: the statement matches the member id only.
AddTagToAnyMembers(r) ==
    /\ pc[r] = "tagMembers"
    /\ LET W == {m \in req[r].ids : Live(m) /\ req[r].tag \notin members[m].pending} IN
         /\ \A m \in W : ~Locked(m)
         /\ members' = [m \in Members |->
              IF m \in W THEN [members[m] EXCEPT !.pending = @ \cup {req[r].tag}] ELSE members[m]]
    /\ Answer(r, "ok")
    /\ UNCHANGED <<entities, users, tags, linked, req, txs>>

\* ... and then writes the id, whether or not the tag is still there.
AddTagToMembers(r) ==
    /\ pc[r] = "tagMembers"
    /\ LET W == {m \in req[r].ids \cap LiveOf(req[r].entity) :
                    req[r].tag \notin members[m].pending} IN
         /\ \A m \in W : ~Locked(m)
         /\ members' = [m \in Members |->
              IF m \in W THEN [members[m] EXCEPT !.pending = @ \cup {req[r].tag}] ELSE members[m]]
    /\ Answer(r, "ok")
    /\ UNCHANGED <<entities, users, tags, linked, req, txs>>

\* "sent emails but could not assign tag"
TaggingFails(r) ==
    /\ Faults /\ pc[r] \in {"tagByName", "addTag", "tagCheck", "tagMembers"}
    /\ Answer(r, "error")
    /\ UNCHANGED <<db, req, txs>>

-----------------------------------------------------------------------------
\* The process dies: its requests get no answer, PostgreSQL rolls their
\* transactions back, and the next process serves the remaining requests.
Crash ==
    /\ Faults /\ \E r \in Reqs : InFlight(r)
    /\ pc' = [r \in Reqs |-> IF InFlight(r) THEN "done" ELSE pc[r]]
    /\ answer' = [r \in Reqs |-> IF InFlight(r) THEN "error" ELSE answer[r]]
    /\ newUser' = [r \in Reqs |-> NoKey]
    /\ newRow' = [r \in Reqs |-> NoMember]
    /\ openTx' = {}
    /\ UNCHANGED <<db, req>>

Admin ==
    \E e \in Entities :
        \/ AddEntity(e) \/ DeleteTag(e)
        \/ \E S \in SUBSET Members : CreateMembersWithTokens(e, S) \/ DeleteMembers(e, S)
        \/ \E K \in SUBSET Keys : DeleteMembersByKeys(e, K)

Receive(r) ==
    \E e \in Entities :
        \/ \E m \in Members \cup {NoMember}, k \in Keys : ValidateToken(r, e, m, k)
        \/ \E m \in Members, k \in Keys : Register(r, e, m, k)
        \/ \E S \in SUBSET Members : SendValidationLinks(r, e, S)

\* The steps a handler goes through by itself.
Step(r) ==
    \/ ReadMember(r) \/ BeginAndReadUser(r) \/ InsertUser(r)
    \/ UpdateMemberKey(r) \/ InsertMember(r)
    \/ Commit(r) \/ ReadPendingTag(r) \/ CheckPendingTag(r) \/ RemovePendingTag(r)
    \/ (\E T \in SUBSET Members : MailsSent(r, T)) \/ MailsFail(r)
    \/ TagByName(r) \/ AddTag(r) \/ CheckTag(r) \/ AddTagToMembers(r)

Fault(r) == \/ ReadUserFails(r) \/ CommitUnknown(r) \/ StatementFails(r)
            \/ TagFailureIgnored(r) \/ TaggingFails(r)

Next == \/ Admin
        \/ \E r \in Reqs : Receive(r) \/ Step(r) \/ Fault(r)
        \/ Crash

Spec == Init /\ [][Next]_vars

\* A goroutine that can run does run, and PostgreSQL wakes the waiter of a lock.
FairSpec == Spec /\ \A r \in Reqs : WF_vars(Step(r))
-----------------------------------------------------------------------------
(* Properties *)

\* The type of every variable.
TypeOK ==
    /\ entities \subseteq Entities /\ tags \in [Entities -> TagIds \cup {NoTag}]
    /\ users \subseteq Keys /\ linked \subseteq Keys
    /\ members \in [Members -> Row]
    /\ pc \in [Reqs -> Steps]
    /\ req \in [Reqs -> Request]
    /\ newUser \in [Reqs -> Keys \cup {NoKey}]
    /\ newRow \in [Reqs -> Members \cup {NoMember}]
    /\ openTx \subseteq Reqs
    /\ answer \in [Reqs -> {"none", "ok", "error"}]

\* The lookup of the user happens outside the transaction that writes the member
\* (RegisterMember, AddMember): still, whenever the member is written its key is a
\* user, committed or inserted by this very transaction, so that the foreign key of
\* members never refuses a registration; and every stored member key is a user.
UserBeforeMember ==
    /\ \A r \in Reqs : pc[r] \in {"write", "commit"} => req[r].key \in users \cup {newUser[r]}
    /\ \A m \in Members : members[m].key # NoKey => members[m].key \in users

\* However registrations, imports and overwrites interleave, no entity has two
\* members with the same public key (a voter would be counted twice in a census).
OneKeyPerEntity ==
    \A m, n \in Members :
        (m # n /\ Live(m) /\ Live(n) /\ members[m].entity = members[n].entity
               /\ members[m].key # NoKey) => members[m].key # members[n].key

\* A user is created only together with the member it is created for: a registration
\* that fails, is refused or dies half way leaves no user behind.
NoOrphanUsers == users \subseteq linked

\* A registration that was answered ok is in the database for as long as the member
\* is not deleted: register's member has exactly the key of the request, and
\* validateToken's member has a key.
OkIsDurable ==
    \A r \in Reqs : AnsweredOk(r) /\ req[r].kind \in {"register", "validateToken"} =>
        LET row == members[req[r].member] IN
            \/ row.status = "deleted"
            \/ /\ row.status = "live" /\ row.entity = req[r].entity /\ row.key # NoKey
               /\ req[r].kind = "register" => row.key = req[r].key

\* Once a validateToken has been answered ok, no request that arrives later can
\* validate the same token, whatever is in flight.
NoReuseAfterAnswer ==
    \A r \in Reqs : (req[r].kind = "validateToken" /\ req[r].late) => ~AnsweredOk(r)

\* A request that is over holds no row and no key, so nobody waits for it, even where
\* the handler returned without ending its transaction; one that was answered ok has
\* ended it.
FinishedHoldsNothing ==
    \A r \in Reqs : pc[r] = "done" =>
        /\ newUser[r] = NoKey /\ newRow[r] = NoMember
        /\ answer[r] = "ok" => r \notin openTx

\* A token that was revoked stays revoked: no registration in flight when its member
\* was deleted brings the member or a key of it back.
RevokedStaysRevoked ==
    [][\A m \in Members : members[m].status = "deleted" => members'[m] = members[m]]_members

\* No request waits for ever for the locks of the others: each is answered, or the
\* process dies with it.
EveryRequestAnswered == \A r \in Reqs : InFlight(r) ~> pc[r] = "done"

\* sendValidationLinks reads members by id alone, those of other entities too, and writes
\* the id of a tag it looked up before, which may be gone by then: still, it gives a member
\* only a tag that the member's own entity created, and only when it mailed the member.
OnlyOwnMembersTagged ==
    \A m \in Members : \A t \in members[m].pending :
        /\ req[t].kind = "sendLinks" /\ req[t].entity = members[m].entity
        /\ \E r \in Reqs : /\ req[r].kind = "sendLinks" /\ m \in req[r].ids
                          /\ req[r].entity = members[m].entity /\ req[r].tag = t

(* Registry implements Enrolment: mails and tags are left out, a transaction shows only
   when it is committed, and a request is as far as its client can tell. *)
Enrols(r) == req[r].kind \in {"validateToken", "register"}

Roll == [m \in Members |-> [status |-> members[m].status, entity |-> members[m].entity,
                             key |-> members[m].key]]

Calls == [r \in Reqs |-> [new    |-> req[r].kind = "register",
                          entity |-> IF Enrols(r) THEN req[r].entity ELSE NoEntity,
                          member |-> IF Enrols(r) THEN req[r].member ELSE NoMember,
                          key    |-> IF Enrols(r) THEN req[r].key ELSE NoKey]]

States == [r \in Reqs |->
    IF ~Enrols(r) THEN "idle"
    ELSE IF pc[r] = "done" THEN (IF answer[r] = "ok" THEN "ok" ELSE "failed")
    ELSE IF pc[r] \in {"tagOf", "untagCheck", "untag"} THEN "enrolled" ELSE "open"]

E == INSTANCE Enrolment WITH roll <- Roll, call <- Calls, state <- States

\* The handlers, with their reads outside transactions, their retries, faults and crashes,
\* implement atomic enrolment: each request takes effect at most once, in one step, for
\* its own member and key, and is answered ok only afterwards; no key is on the roll of an
\* entity twice and nobody removed returns.
ImplementsEnrolment == E!Spec

\* A token is not validated twice with different keys (testregistry: "cannot validate
\* same token twice").
TokenValidatedOnce ==
    \A r, s \in Reqs :
        (/\ r # s /\ AnsweredOk(r) /\ AnsweredOk(s)
         /\ req[r].kind = "validateToken" /\ req[s].kind = "validateToken"
         /\ req[r].key # req[s].key) => req[r].member # req[s].member
=============================================================================
