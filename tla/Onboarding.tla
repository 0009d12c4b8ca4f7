----------------------------- MODULE Onboarding -----------------------------
(***************************************************************************)
(* An organisation joins: signUp stores the entity, gives it the target    *)
(* "all" and asks the faucet for gas, in this order and without a common   *)
(* transaction; requestGas asks the faucet again; importMembers stores a   *)
(* list of members.  All are goroutines over one PostgreSQL server that    *)
(* accepts MaxConns connections.                                           *)
(*                                                                         *)
(* The pool of connections has no limit of its own, and some paths never   *)
(* give theirs back: AddEntity returns with its aborted transaction open,  *)
(* AddTarget never closes the rows of its INSERT ... RETURNING.  Such a    *)
(* connection is stranded until the process ends.                          *)
(***************************************************************************)
EXTENDS Naturals, FiniteSets, Sequences

CONSTANTS Entities, Mails,
          NoMail,      \* a member without e-mail address (NULL in the table)
          Reqs,        \* the requests, each served once
          Lists,       \* the lists of e-mail addresses imports may have
          MaxConns,    \* max_connections of the server
          Faults       \* whether database calls fail and the process crashes

ASSUME OnboardingAssumption ==
    /\ NoMail \notin Mails /\ Lists \subseteq Seq(Mails \cup {NoMail})
    /\ MaxConns \in Nat /\ Faults \in BOOLEAN

VARIABLES
    entities,    \* the tables entities and entities_origins
    targets,     \* the entities whose target "all" is in the table targets
    members,     \* the rows importMembers has stored
    paid,        \* the entities the faucet has sent gas to
    eth,         \* whether there is a faucet (m.eth is not nil)
    pc, req, answer,
    conns,       \* the requests whose transaction is open
    inserted,    \* how many rows the open transaction has inserted
    stranded,    \* the connections that are never given back, by who took them
    hurt         \* history: the requests that a failure has hit

vars  == <<entities, targets, members, paid, eth, pc, req, answer, conns, inserted,
           stranded, hurt>>
db    == <<entities, targets, members>>
links == <<conns, inserted, stranded>>

Request   == [kind : {"none", "signUp", "requestGas", "importMembers"},
              entity : Entities \cup {"none"}, list : Lists \cup {<<>>}]
NoRequest == [kind |-> "none", entity |-> "none", list |-> <<>>]

Steps == {"idle", "begin", "entity", "origins", "commitEntity", "target", "gas",
          "details", "rows", "commitRows", "done"}

InFlight(r)   == pc[r] \notin {"idle", "done"}
AnsweredOk(r) == pc[r] = "done" /\ answer[r] = "ok"
FreeConn      == Cardinality(conns) + Cardinality(stranded) < MaxConns

\* The rows of the list of r, by position.
RowsOf(r) == {[entity |-> req[r].entity, mail |-> req[r].list[n], by |-> r, n |-> n] :
                 n \in 1..Len(req[r].list)}

MailsOf(S) == {x.mail : x \in S} \ {NoMail}
Stored(e)  == MailsOf({x \in members : x.entity = e})

\* The addresses, and the entity, that the open transaction of r has inserted.
Holding(r)       == IF req[r].kind = "importMembers"
                      THEN MailsOf({x \in RowsOf(r) : x.n <= inserted[r]}) ELSE {}
HoldsEntity(r, e) == req[r].kind = "signUp" /\ req[r].entity = e /\ inserted[r] > 0

-----------------------------------------------------------------------------
Init ==
    /\ entities = {} /\ targets = {} /\ members = {} /\ paid = {}
    /\ eth \in BOOLEAN
    /\ pc = [r \in Reqs |-> "idle"] /\ req = [r \in Reqs |-> NoRequest]
    /\ answer = [r \in Reqs |-> "none"]
    /\ conns = {} /\ inserted = [r \in Reqs |-> 0] /\ stranded = {} /\ hurt = {}

Goto(r, step) == pc' = [pc EXCEPT ![r] = step]
Answer(r, a)  == Goto(r, "done") /\ answer' = [answer EXCEPT ![r] = a]
Hurt(r)       == hurt' = hurt \cup {r}

\* The transaction ends and its connection goes back to the pool.
End(r) == /\ conns' = conns \ {r}
          /\ inserted' = [inserted EXCEPT ![r] = 0]
          /\ UNCHANGED stranded

\* The handler returns with the aborted transaction open: its locks are gone, its
\* connection stays in use.
Strand(r) == /\ conns' = conns \ {r}
             /\ inserted' = [inserted EXCEPT ![r] = 0]
             /\ stranded' = stranded \cup {<<r, "entity">>}

-----------------------------------------------------------------------------
(* Requests arrive. *)

Receive(r, kind, e, list) ==
    /\ pc[r] = "idle"
    /\ req' = [req EXCEPT ![r] = [kind |-> kind, entity |-> e, list |-> list]]
    /\ UNCHANGED <<db, paid, eth, links, hurt>>

SignUp(r, e) ==
    /\ Receive(r, "signUp", e, <<>>)
    /\ Goto(r, "begin") /\ UNCHANGED answer

RequestGas(r, e) ==
    /\ Receive(r, "requestGas", e, <<>>)
    /\ IF eth THEN Goto(r, "details") /\ UNCHANGED answer ELSE Answer(r, "error")

\* Nothing asks whether the entity exists.
ImportMembers(r, e, list) ==
    /\ Receive(r, "importMembers", e, list)
    /\ IF list # <<>> THEN Goto(r, "begin") /\ UNCHANGED answer ELSE Answer(r, "error")

-----------------------------------------------------------------------------
(* Transactions *)

\* Beginx: without a connection the handler gives up.
Begin(r) ==
    /\ pc[r] = "begin"
    /\ IF FreeConn
         THEN /\ conns' = conns \cup {r}
              /\ Goto(r, IF req[r].kind = "signUp" THEN "entity" ELSE "rows")
              /\ UNCHANGED answer
         ELSE Answer(r, "error") /\ UNCHANGED conns
    /\ UNCHANGED <<db, paid, eth, req, inserted, stranded, hurt>>

\* Mutant: an entity that exists has its target already.
AddEntityThenGas(r) ==
    LET e == req[r].entity IN
    /\ pc[r] = "entity"
    /\ \A s \in Reqs : ~HoldsEntity(s, e)
    /\ IF e \in entities
         THEN Strand(r) /\ Goto(r, "gas")
         ELSE /\ inserted' = [inserted EXCEPT ![r] = 1]
              /\ Goto(r, "origins") /\ UNCHANGED <<conns, stranded>>
    /\ UNCHANGED <<db, paid, eth, req, answer, hurt>>

\* INSERT INTO entities waits for another transaction's insert of the same id.  If the
\* entity exists it breaks entities_pkey: AddEntity returns without a rollback, and
\* signUp goes on.
AddEntity(r) ==
    LET e == req[r].entity IN
    /\ pc[r] = "entity"
    /\ \A s \in Reqs : ~HoldsEntity(s, e)
    /\ IF e \in entities
         THEN Strand(r) /\ Goto(r, "target")
         ELSE /\ inserted' = [inserted EXCEPT ![r] = 1]
              /\ Goto(r, "origins") /\ UNCHANGED <<conns, stranded>>
    /\ UNCHANGED <<db, paid, eth, req, answer, hurt>>

\* Mutant: signUp takes every error of AddEntity for an entity that exists.
AddEntityErrorIgnored(r) ==
    /\ Faults /\ pc[r] = "entity"
    /\ Goto(r, "target") /\ Hurt(r)
    /\ End(r) \/ Strand(r)
    /\ UNCHANGED <<db, paid, eth, req, answer>>

\* Another error of that statement: no rollback either; the connection survives or not.
AddEntityFails(r) ==
    /\ Faults /\ pc[r] = "entity"
    /\ Answer(r, "error") /\ Hurt(r)
    /\ End(r) \/ Strand(r)
    /\ UNCHANGED <<db, paid, eth, req>>

InsertOrigins(r) ==
    /\ pc[r] = "origins"
    /\ Goto(r, "commitEntity")
    /\ UNCHANGED <<db, paid, eth, req, answer, links, hurt>>

CommitEntity(r) ==
    /\ pc[r] = "commitEntity"
    /\ entities' = entities \cup {req[r].entity}
    /\ End(r) /\ Goto(r, "target")
    /\ UNCHANGED <<targets, members, paid, eth, req, answer, hurt>>

\* UNIQUE (entity_id, name), and the foreign key to entities.
BreaksTargets(r) == req[r].entity \in targets \/ req[r].entity \notin entities

\* AddTarget.  A statement that breaks a constraint is not an error but a result without
\* rows, which signUp ignores.  One that succeeds leaves its rows open.
AddTarget(r) ==
    /\ pc[r] = "target"
    /\ IF ~FreeConn
         THEN Answer(r, "error") /\ UNCHANGED <<targets, stranded>>
         ELSE /\ Goto(r, "gas") /\ UNCHANGED answer
              /\ IF BreaksTargets(r)
                   THEN UNCHANGED <<targets, stranded>>
                   ELSE /\ targets' = targets \cup {req[r].entity}
                        /\ stranded' = stranded \cup {<<r, "target">>}
    /\ UNCHANGED <<entities, members, paid, eth, req, conns, inserted, hurt>>

\* The statement fails after it was sent: the result has no rows either, whether or not
\* the server has stored the target.
AddTargetUnknown(r) ==
    /\ Faults /\ pc[r] = "target" /\ FreeConn
    /\ targets' \in {targets} \cup
          (IF BreaksTargets(r) THEN {} ELSE {targets \cup {req[r].entity}})
    /\ Goto(r, "gas") /\ Hurt(r)
    /\ UNCHANGED <<entities, members, paid, eth, req, answer, links>>

\* Entity: requestGas wants the entity to exist.
ReadEntity(r) ==
    /\ pc[r] = "details"
    /\ IF FreeConn /\ req[r].entity \in entities
         THEN Goto(r, "gas") /\ UNCHANGED answer
         ELSE Answer(r, "error")
    /\ UNCHANGED <<db, paid, eth, req, links, hurt>>

\* SendTokens (see Faucet) sends, refuses a wallet that has a balance, or fails.  signUp
\* does not mind the refusal.
SendTokens(r) ==
    LET tolerant == req[r].kind = "signUp" IN
    /\ pc[r] = "gas"
    /\ IF ~eth THEN Answer(r, "ok") /\ UNCHANGED paid
       ELSE \/ paid' = paid \cup {req[r].entity} /\ Answer(r, "ok")
            \/ UNCHANGED paid /\ Answer(r, IF tolerant THEN "ok" ELSE "error")
            \/ UNCHANGED paid /\ Answer(r, "error")
    /\ UNCHANGED <<db, eth, req, links, hurt>>

-----------------------------------------------------------------------------
(* The rows of an import, one by one: bulkInsert (see BulkInsert) *)

NextMail(r) == req[r].list[inserted[r] + 1]
Waits(r, s) == /\ pc[r] = "rows" /\ r # s /\ req[s].entity = req[r].entity
               /\ NextMail(r) \in Holding(s)

\* The foreign key to entities and their origins, UNIQUE (entity_id, email).
BreaksMembers(r) ==
    \/ req[r].entity \notin entities
    \/ NextMail(r) \in Stored(req[r].entity) \cup Holding(r)

AfterRow(r) == IF inserted[r] + 1 = Len(req[r].list) THEN "commitRows" ELSE "rows"

\* Mutant: the rows are inserted outside the transaction.
InsertRowNoTx(r) ==
    /\ pc[r] = "rows" /\ \A s \in Reqs : ~Waits(r, s)
    /\ IF BreaksMembers(r)
         THEN Answer(r, "error") /\ End(r) /\ UNCHANGED members
         ELSE /\ inserted' = [inserted EXCEPT ![r] = @ + 1]
              /\ members' = members \cup {x \in RowsOf(r) : x.n = inserted[r] + 1}
              /\ Goto(r, AfterRow(r)) /\ UNCHANGED <<answer, conns, stranded>>
    /\ UNCHANGED <<entities, targets, paid, eth, req, hurt>>

\* Mutant: a failed batch is not rolled back.
InsertRowNoRollback(r) ==
    /\ pc[r] = "rows" /\ \A s \in Reqs : ~Waits(r, s)
    /\ IF BreaksMembers(r)
         THEN Answer(r, "error") /\ UNCHANGED links
         ELSE /\ inserted' = [inserted EXCEPT ![r] = @ + 1]
              /\ Goto(r, AfterRow(r)) /\ UNCHANGED <<answer, conns, stranded>>
    /\ UNCHANGED <<db, paid, eth, req, hurt>>

\* A row waits for a transaction that has inserted its address.  One that breaks a
\* constraint fails the import, which bulkInsert rolls back.
InsertRow(r) ==
    /\ pc[r] = "rows" /\ \A s \in Reqs : ~Waits(r, s)
    /\ IF BreaksMembers(r)
         THEN Answer(r, "error") /\ End(r)
         ELSE /\ inserted' = [inserted EXCEPT ![r] = @ + 1]
              /\ Goto(r, AfterRow(r)) /\ UNCHANGED <<answer, conns, stranded>>
    /\ UNCHANGED <<db, paid, eth, req, hurt>>

\* PostgreSQL finds imports that wait for each other and aborts one of them.
DeadlockDetected(r) ==
    /\ \E S \in SUBSET Reqs :
          r \in S /\ \A s \in S : (\E u \in S : Waits(s, u)) /\ (\E u \in S : Waits(u, s))
    /\ Answer(r, "error") /\ End(r) /\ Hurt(r)
    /\ UNCHANGED <<db, paid, eth, req>>

CommitRows(r) ==
    /\ pc[r] = "commitRows"
    /\ members' = members \cup RowsOf(r)
    /\ End(r) /\ Answer(r, "ok")
    /\ UNCHANGED <<entities, targets, paid, eth, req, hurt>>

\* updateMember gives a member an address that no other has.
UpdateMember(x, mail) ==
    /\ x \in members /\ mail \notin Stored(x.entity)
    /\ \A r \in Reqs : req[r].entity = x.entity => mail \notin Holding(r)
    /\ members' = (members \ {x}) \cup {[x EXCEPT !.mail = mail]}
    /\ UNCHANGED <<entities, targets, paid, eth, pc, req, answer, links, hurt>>

-----------------------------------------------------------------------------
(* Failures *)

\* A statement, a commit or the first use of a connection fails and the handler ends the
\* transaction, if it had begun one.
StatementFails(r) ==
    /\ Faults /\ pc[r] \in {"begin", "origins", "commitEntity", "target", "details",
                            "rows", "commitRows"}
    /\ Answer(r, "error") /\ End(r) /\ Hurt(r)
    /\ UNCHANGED <<db, paid, eth, req>>

\* The connection is lost while committing: applied, but the handler sees an error.
CommitUnknown(r) ==
    /\ Faults /\ pc[r] \in {"commitEntity", "commitRows"}
    /\ IF pc[r] = "commitEntity"
         THEN entities' = entities \cup {req[r].entity} /\ UNCHANGED members
         ELSE members' = members \cup RowsOf(r) /\ UNCHANGED entities
    /\ Answer(r, "error") /\ End(r) /\ Hurt(r)
    /\ UNCHANGED <<targets, paid, eth, req>>

\* The process dies and with it all connections, the stranded ones too.
Crash ==
    /\ Faults /\ \E r \in Reqs : InFlight(r)
    /\ pc' = [r \in Reqs |-> IF InFlight(r) THEN "done" ELSE pc[r]]
    /\ answer' = [r \in Reqs |-> IF InFlight(r) THEN "lost" ELSE answer[r]]
    /\ hurt' = hurt \cup {r \in Reqs : InFlight(r)}
    /\ conns' = {} /\ inserted' = [r \in Reqs |-> 0] /\ stranded' = {}
    /\ UNCHANGED <<db, paid, eth, req>>

-----------------------------------------------------------------------------
Step(r) == \/ Begin(r) \/ AddEntity(r) \/ InsertOrigins(r) \/ CommitEntity(r)
           \/ AddTarget(r) \/ ReadEntity(r) \/ SendTokens(r)
           \/ InsertRow(r) \/ DeadlockDetected(r) \/ CommitRows(r)

Fault(r) == AddEntityFails(r) \/ AddTargetUnknown(r) \/ StatementFails(r) \/ CommitUnknown(r)

Next ==
    \/ \E r \in Reqs :
          \/ \E e \in Entities : \/ SignUp(r, e) \/ RequestGas(r, e)
                                 \/ \E list \in Lists : ImportMembers(r, e, list)
          \/ Step(r) \/ Fault(r)
    \/ \E x \in members, mail \in Mails : UpdateMember(x, mail)
    \/ Crash

Spec == Init /\ [][Next]_vars

\* A goroutine that can run does run, PostgreSQL wakes the waiter of a lock and finds
\* deadlocks, and SendTokens returns (Faucet says when).
FairSpec == Spec /\ \A r \in Reqs : WF_vars(Step(r))

-----------------------------------------------------------------------------
(* Properties *)

\* The type of every variable.
TypeOK ==
    /\ entities \subseteq Entities /\ targets \subseteq Entities /\ paid \subseteq Entities
    /\ members \subseteq [entity : Entities, mail : Mails \cup {NoMail}, by : Reqs, n : Nat]
    /\ eth \in BOOLEAN
    /\ pc \in [Reqs -> Steps] /\ req \in [Reqs -> Request]
    /\ answer \in [Reqs -> {"none", "ok", "error", "lost"}]
    /\ conns \subseteq Reqs /\ inserted \in [Reqs -> Nat] /\ hurt \subseteq Reqs
    /\ stranded \subseteq Reqs \X {"entity", "target"}

\* A signUp that is answered ok and was not hit by a failure itself leaves the entity with
\* its target, whatever became of the signUps before it: one that died or failed between
\* AddEntity and AddTarget is completed by the next.
SignUpCompletes ==
    \A r \in Reqs : (AnsweredOk(r) /\ req[r].kind = "signUp") =>
        /\ req[r].entity \in entities
        /\ r \notin hurt => req[r].entity \in targets

\* The faucet pays stored entities only, although signUp goes on after an error of
\* AddEntity and after every failure of the target's insert.
PaidAreSignedUp == paid \subseteq entities

\* Of the requests modelled here only signUps strand connections, and for the target of an
\* entity no process strands two: imports and gas requests give theirs back on every path,
\* and so does everyone who is not at work.  How many "entity" connections repeated
\* signUps strand is not bounded.
StrandedBounded ==
    /\ conns \subseteq {r \in Reqs : InFlight(r)}
    /\ \A s \in stranded : req[s[1]].kind = "signUp"
    /\ \A s, t \in stranded :
          (s[2] = "target" /\ t[2] = "target" /\ req[s[1]].entity = req[t[1]].entity) => s = t

\* An import is stored as a whole or not at all: as a whole if it was answered ok, not at
\* all if it was refused without a failure, and repeated or overlapping imports and
\* updates never give two members of an entity the same address.
ImportedWholeOnce ==
    /\ \A r \in Reqs : req[r].kind = "importMembers" =>
          LET stored == {x.n : x \in {y \in members : y.by = r}} IN
            /\ stored \in {{}, 1..Len(req[r].list)}
            /\ AnsweredOk(r) => stored # {}
            /\ stored # {} => AnsweredOk(r) \/ r \in hurt
    /\ \A x, y \in members :
          (x.entity = y.entity /\ x.mail = y.mail /\ x.mail # NoMail) => x = y

\* No request waits for ever for the rows of another.
EveryRequestAnswered == \A r \in Reqs : InFlight(r) ~> pc[r] = "done"
=============================================================================
