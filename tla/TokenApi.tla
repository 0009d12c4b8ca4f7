------------------------------ MODULE TokenApi ------------------------------
(***************************************************************************)
(* The token API: generate, revoke, status, importKeysBulk and deleteKeys, *)
(* which an integrator calls with a hash over the arguments, a timestamp   *)
(* and the secret of its entity.  Messages are delayed and repeated, the   *)
(* secret is changed by updateEntity, and imports of overlapping lists of  *)
(* keys wait for each other's rows in the table users.                     *)
(***************************************************************************)
EXTENDS Integers, FiniteSets, Sequences

CONSTANTS Entities, Reqs,
          Keys,                \* the public keys
          ShortKeys,           \* those that have not the length of a public key
          AuthWindowSeconds,   \* the tolerance of checkAuth
          Half,                \* an int32 is in -Half..Half-1
          Start, End,          \* bounds of the clock
          MaxVersion,          \* bound: how often updateEntity changes a secret
          Delays,              \* bound: the seconds from the making to the arrival
          KeyLists,            \* the lists of keys that are imported or deleted
          Kinds, Faults,
          NoKey                \* an empty string of hexadecimal digits, or no key

ASSUME TokenApiAssumption ==
    /\ ShortKeys \subseteq Keys /\ NoKey \notin Keys /\ {"seed", "none"} \cap Reqs = {}
    /\ AuthWindowSeconds \in Nat /\ Half \in Nat \ {0}
    /\ Start \in Nat /\ End \in Nat /\ Start <= End
    /\ MaxVersion \in Nat /\ Delays \subseteq 0..Start
    /\ KeyLists \subseteq Seq(Keys \cup {NoKey})
    /\ Kinds \subseteq {"generate", "revoke", "status", "importKeysBulk", "deleteKeys"}
    /\ Faults \in BOOLEAN

\* The clock may pass the end of int32 time, but stays a window away from the point where
\* an int32 has wrapped back to 0 (the year 2106): there old timestamps look new again.
ASSUME ClockAssumption == End + AuthWindowSeconds < 2 * Half

VARIABLES clock,     \* seconds
          version,   \* the secret of each entity, as the number of its changes
          users,     \* the table users
          rows,      \* the table members, with the rows that were deleted
          pc, req, answer,
          held       \* the users that the open transaction of each request has inserted

vars == <<clock, version, users, rows, pc, req, answer, held>>
db   == <<clock, version, users, rows>>

-----------------------------------------------------------------------------
\* A token is the id of a row; ids are fresh uuids, here named by what made the row.
Ids == [by : Reqs \cup {"seed", "none"}, item : Keys \cup {NoKey}]
NoToken == [by |-> "none", item |-> NoKey]
Row == [id : Ids, entity : Entities, key : Keys \cup {NoKey}, live : BOOLEAN]

Request == [kind   : Kinds \cup {"none"}, entity : Entities \cup {"none"},
            token  : Ids,
            keys   : KeyLists \cup {<<>>},
            made   : 0..End,          \* when the client made the request
            secret : 0..MaxVersion,   \* the secret it used
            late   : BOOLEAN,         \* history: it arrived after the window had passed
            old    : BOOLEAN]         \* history: the secret had been changed by then

NoRequest == [kind |-> "none", entity |-> "none", token |-> NoToken, keys |-> <<>>,
              made |-> Start, secret |-> 0, late |-> FALSE, old |-> FALSE]

KeysOf(r)   == {req[r].keys[i] : i \in DOMAIN req[r].keys}
Live(e)     == {w \in rows : w.live /\ w.entity = e}
Found(r)    == {w \in Live(req[r].entity) : w.id = req[r].token}
InFlight(r) == pc[r] \notin {"idle", "done"}
Int32(x)    == ((x + Half) % (2 * Half)) - Half

Init ==
    /\ clock = Start
    /\ version = [e \in Entities |-> 0]
    /\ users = {}
    /\ rows = {[id |-> [by |-> "seed", item |-> NoKey], entity |-> e, key |-> NoKey,
                live |-> TRUE] : e \in Entities}
    /\ pc = [r \in Reqs |-> "idle"]
    /\ req = [r \in Reqs |-> NoRequest]
    /\ answer = [r \in Reqs |-> "none"]
    /\ held = [r \in Reqs |-> {}]

Goto(r, step) == pc' = [pc EXCEPT ![r] = step]
Answer(r, a)  == Goto(r, "done") /\ answer' = [answer EXCEPT ![r] = a]
Unlock(r)     == held' = [held EXCEPT ![r] = {}]

\* What was done is answered, unless the connection is lost while the database commits.
Reply(r, a) == Answer(r, a) \/ (Faults /\ Answer(r, "error"))

-----------------------------------------------------------------------------
(* The environment *)

Tick == clock < End /\ clock' = clock + 1
        /\ UNCHANGED <<version, users, rows, pc, req, answer, held>>

\* updateEntity replaces the secret.
UpdateEntity(e) ==
    /\ version[e] < MaxVersion
    /\ version' = [version EXCEPT ![e] = @ + 1]
    /\ UNCHANGED <<clock, users, rows, pc, req, answer, held>>

\* A voter uses a token (module Registry), here in one step.
ValidateToken(w, k) ==
    /\ w.live /\ w.key = NoKey /\ k \in Keys \ ShortKeys
    /\ \A r \in Reqs : k \notin held[r]
    /\ \A v \in Live(w.entity) : v.key # k
    /\ rows' = (rows \ {w}) \cup {[w EXCEPT !.key = k]}
    /\ users' = users \cup {k}
    /\ UNCHANGED <<clock, version, pc, req, answer, held>>

Remove(S) == rows' = (rows \ S) \cup {[w EXCEPT !.live = FALSE] : w \in S}

\* The manager API deletes a member.
DeleteMembers(w) ==
    /\ w.live /\ Remove({w})
    /\ UNCHANGED <<clock, version, users, pc, req, answer, held>>

-----------------------------------------------------------------------------
(* Requests arrive: made now, or earlier and delayed or repeated. *)

Arrive(r, kind, e, made, secret, token, keys) ==
    /\ pc[r] = "idle" /\ kind \in Kinds
    /\ req' = [req EXCEPT ![r] =
         [kind |-> kind, entity |-> e, token |-> token, keys |-> keys,
          made |-> made, secret |-> secret,
          late |-> made + AuthWindowSeconds < clock,
          old |-> secret < version[e]]]
    /\ Goto(r, "auth")
    /\ UNCHANGED <<db, answer, held>>

Generate(r, e, made, s)           == Arrive(r, "generate", e, made, s, NoToken, <<>>)
Revoke(r, e, made, s, t)          == Arrive(r, "revoke", e, made, s, t, <<>>)
Status(r, e, made, s, t)          == Arrive(r, "status", e, made, s, t, <<>>)
ImportKeysBulk(r, e, made, s, ks) == ks # <<>> /\ Arrive(r, "importKeysBulk", e, made, s, NoToken, ks)
DeleteKeys(r, e, made, s, ks)     == Arrive(r, "deleteKeys", e, made, s, NoToken, ks)

-----------------------------------------------------------------------------
(* Authentication *)

\* Mutant: the distance of the two times is taken on the wrong side.
CheckAuthAhead(timestamp, current) == timestamp <= Int32(current + AuthWindowSeconds)

\* The window in 32 bit arithmetic.
CheckAuth(timestamp, current) ==
    ~ \/ timestamp > Int32(current + AuthWindowSeconds)
      \/ timestamp < Int32(current - AuthWindowSeconds)

\* The secret is read with a statement of its own and the hash compared.
Auth(r) ==
    /\ pc[r] = "auth"
    /\ IF CheckAuth(Int32(req[r].made), Int32(clock)) /\ req[r].secret = version[req[r].entity]
         THEN /\ req' = [req EXCEPT ![r].made = Start, ![r].secret = 0]
              /\ Goto(r, "run") /\ UNCHANGED answer
         ELSE /\ req' = [req EXCEPT ![r] = NoRequest]
              /\ Answer(r, "refused")
    /\ UNCHANGED <<db, held>>

-----------------------------------------------------------------------------
(* The handlers *)

Runs(r, kind) == pc[r] = "run" /\ req[r].kind = kind

\* CreateMembersWithTokens: a transaction whose rows nobody else waits for.  The amount is
\* 1, or below and refused.
CreateMembersWithTokens(r) ==
    /\ Runs(r, "generate")
    /\ \/ Answer(r, "error") /\ UNCHANGED rows
       \/ /\ rows' = rows \cup {[id |-> [by |-> r, item |-> NoKey], entity |-> req[r].entity,
                                 key |-> NoKey, live |-> TRUE]}
          /\ Reply(r, "ok")
    /\ UNCHANGED <<clock, version, users, req, held>>

DeleteMember(r) ==
    /\ Runs(r, "revoke")
    /\ Remove(Found(r))
    /\ IF Found(r) = {} THEN Answer(r, "error") ELSE Reply(r, "ok")
    /\ UNCHANGED <<clock, version, users, req, held>>

\* A token without a row is invalid; one whose row has no key, or a key that is not as
\* long as a public key, is available.
TokenStatus(r) ==
    /\ Runs(r, "status")
    /\ Answer(r, CASE Found(r) = {} -> "invalid"
                   [] \E w \in Found(r) : w.key \in Keys \ ShortKeys -> "registered"
                   [] OTHER -> "available")
    /\ UNCHANGED <<db, req, held>>

DeleteMembersByKeys(r) ==
    /\ Runs(r, "deleteKeys")
    /\ Remove({w \in Live(req[r].entity) : w.key \in KeysOf(r) \cap Keys})
    /\ Reply(r, "ok")
    /\ UNCHANGED <<clock, version, users, req, held>>

-----------------------------------------------------------------------------
(* importKeysBulk: AddMemberBulk inserts all users, then all members, in   *)
(* one transaction; a row of users is inserted once no other transaction   *)
(* has inserted the same key and not ended.                                *)

NextKey(r)   == req[r].keys[Cardinality(held[r]) + 1]
MoreKeys(r)  == Cardinality(held[r]) < Len(req[r].keys)

Inserting(r) == Runs(r, "importKeysBulk") /\ NoKey \notin KeysOf(r) /\ MoreKeys(r)
Waits(r, s)  == Inserting(r) /\ r # s /\ NextKey(r) \in held[s]

\* An empty key: the handler returns with the transaction open, which holds nothing.
EmptyKey(r) ==
    /\ Runs(r, "importKeysBulk") /\ NoKey \in KeysOf(r)
    /\ Answer(r, "error")
    /\ UNCHANGED <<db, req, held>>

\* Mutant: the users are stored one by one, as AddUser does.
InsertUsersOneByOne(r) ==
    /\ Inserting(r) /\ \A s \in Reqs : ~Waits(r, s)
    /\ IF NextKey(r) \in users \cup held[r]
         THEN Answer(r, "error") /\ Unlock(r) /\ UNCHANGED users
         ELSE /\ held' = [held EXCEPT ![r] = @ \cup {NextKey(r)}]
              /\ users' = users \cup {NextKey(r)}
              /\ UNCHANGED <<pc, answer>>
    /\ UNCHANGED <<clock, version, rows, req>>

\* Mutant: ON CONFLICT DO NOTHING for the users.
InsertUsersOrSkip(r) ==
    /\ Inserting(r) /\ \A s \in Reqs : ~Waits(r, s)
    /\ held' = [held EXCEPT ![r] = @ \cup {NextKey(r)}]
    /\ UNCHANGED <<db, pc, req, answer>>

\* The next row of users: a key that is a user, or is twice in the list, fails the whole
\* import, which bulkInsert rolls back.
InsertUsers(r) ==
    /\ Inserting(r) /\ \A s \in Reqs : ~Waits(r, s)
    /\ IF NextKey(r) \in users \cup held[r]
         THEN Answer(r, "error") /\ Unlock(r)
         ELSE /\ held' = [held EXCEPT ![r] = @ \cup {NextKey(r)}]
              /\ UNCHANGED <<pc, answer>>
    /\ UNCHANGED <<db, req>>

\* PostgreSQL finds a cycle of waiting transactions and aborts one of them.
DeadlockDetected(r) ==
    /\ \E S \in SUBSET Reqs :
          r \in S /\ \A s \in S : (\E u \in S : Waits(s, u)) /\ (\E u \in S : Waits(u, s))
    /\ Answer(r, "error") /\ Unlock(r)
    /\ UNCHANGED <<db, req>>

\* The members: UNIQUE (entity_id, public_key).
InsertMembers(r) ==
    /\ Runs(r, "importKeysBulk") /\ NoKey \notin KeysOf(r) /\ ~MoreKeys(r)
    /\ IF \E w \in Live(req[r].entity) : w.key \in KeysOf(r)
         THEN Answer(r, "error") /\ Unlock(r)
         ELSE Goto(r, "commit") /\ UNCHANGED <<answer, held>>
    /\ UNCHANGED <<db, req>>

Commit(r) ==
    /\ pc[r] = "commit"
    /\ users' = users \cup KeysOf(r)
    /\ rows' = rows \cup {[id |-> [by |-> r, item |-> k], entity |-> req[r].entity,
                           key |-> k, live |-> TRUE] : k \in KeysOf(r)}
    /\ Reply(r, "ok") /\ Unlock(r)
    /\ UNCHANGED <<clock, version, req>>

-----------------------------------------------------------------------------
(* Failures *)

\* Mutant: bulkInsert does not roll back a batch that inserted too few rows.
StatementFailsLocked(r) ==
    /\ Faults /\ InFlight(r)
    /\ Answer(r, CASE pc[r] = "auth" -> "refused"
                   [] Runs(r, "status") -> "invalid"
                   [] OTHER -> "error")
    /\ req' = [req EXCEPT ![r] = IF pc[r] = "auth" THEN NoRequest ELSE @]
    /\ UNCHANGED <<db, held>>

\* A statement fails; status takes every error for an unknown token.
StatementFails(r) ==
    /\ Faults /\ InFlight(r)
    /\ Answer(r, CASE pc[r] = "auth" -> "refused"
                   [] Runs(r, "status") -> "invalid"
                   [] OTHER -> "error")
    /\ Unlock(r)
    /\ req' = [req EXCEPT ![r] = IF pc[r] = "auth" THEN NoRequest ELSE @]
    /\ UNCHANGED db

Crash ==
    /\ Faults /\ \E r \in Reqs : InFlight(r)
    /\ pc' = [r \in Reqs |-> IF InFlight(r) THEN "done" ELSE pc[r]]
    /\ answer' = [r \in Reqs |-> IF InFlight(r) THEN "lost" ELSE answer[r]]
    /\ req' = [r \in Reqs |-> IF pc[r] = "auth" THEN NoRequest ELSE req[r]]
    /\ held' = [r \in Reqs |-> {}]
    /\ UNCHANGED db

-----------------------------------------------------------------------------
Receive(r) ==
    \E e \in Entities, made \in {clock - d : d \in Delays} : \E s \in 0..version[e] :
        \/ Generate(r, e, made, s)
        \/ \E w \in rows : Revoke(r, e, made, s, w.id) \/ Status(r, e, made, s, w.id)
        \/ \E ks \in KeyLists : ImportKeysBulk(r, e, made, s, ks) \/ DeleteKeys(r, e, made, s, ks)

Step(r) == \/ Auth(r) \/ CreateMembersWithTokens(r) \/ DeleteMember(r) \/ TokenStatus(r)
           \/ DeleteMembersByKeys(r) \/ EmptyKey(r) \/ InsertUsers(r) \/ DeadlockDetected(r)
           \/ InsertMembers(r) \/ Commit(r)

Next == \/ Tick \/ Crash
        \/ \E e \in Entities : UpdateEntity(e)
        \/ \E w \in rows : DeleteMembers(w) \/ \E k \in Keys : ValidateToken(w, k)
        \/ \E r \in Reqs : Receive(r) \/ Step(r) \/ StatementFails(r)

Spec == Init /\ [][Next]_vars

\* A goroutine that can run does run, and PostgreSQL wakes the waiters of a lock and
\* ends deadlocks.
FairSpec == Spec /\ \A r \in Reqs : WF_vars(Step(r))

-----------------------------------------------------------------------------
(* Properties *)

\* The type of every variable.
TypeOK ==
    /\ clock \in Start..End /\ version \in [Entities -> 0..MaxVersion]
    /\ users \subseteq Keys /\ rows \subseteq Row
    /\ pc \in [Reqs -> {"idle", "auth", "run", "commit", "done"}]
    /\ req \in [Reqs -> Request]
    /\ answer \in [Reqs -> {"none", "refused", "ok", "error", "lost",
                            "invalid", "available", "registered"}]
    /\ held \in [Reqs -> SUBSET Keys]

Executed(r) == \/ pc[r] \in {"run", "commit"}
               \/ answer[r] \in {"ok", "invalid", "available", "registered"}

\* checkAuth fails closed: a request that arrives when its window has passed, or when the
\* secret it uses has been replaced, is never executed, although the secret and the time
\* are looked at later and the bounds of the window overflow at the end of 32 bit time.
StaleRefused == \A r \in Reqs : Executed(r) => ~req[r].late /\ ~req[r].old

\* A key is imported once for all time: neither a repeated importKeysBulk, whatever
\* became of the first one, nor two that overlap, make two members of a key, and none
\* brings back a key that was deleted in between.
ImportedOnce ==
    \A v, w \in rows : v.id.item # NoKey /\ v.id.item = w.id.item => v = w

\* An import is all or nothing, in users as in members: every user belongs to a row, and
\* a request that stored one key has stored all; one that was answered ok has.
NoHalfImport ==
    /\ \A k \in users : \E w \in rows : w.key = k
    /\ \A r \in Reqs : req[r].kind = "importKeysBulk" =>
          LET mine == {w.id.item : w \in {v \in rows : v.id.by = r}} IN
          /\ mine \in {{}, KeysOf(r)}
          /\ answer[r] = "ok" => mine = KeysOf(r)

\* Every request is answered, or the process dies with it: imports whose lists of keys
\* overlap in any order do not wait for each other for ever.
EveryRequestAnswered == \A r \in Reqs : InFlight(r) ~> pc[r] = "done"
=============================================================================
