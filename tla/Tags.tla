-------------------------------- MODULE Tags --------------------------------
(***************************************************************************)
(* The tags of an entity: createTag, addTag, removeTag, deleteTag and      *)
(* updateMember of the manager API over the tables tags and members.       *)
(*                                                                         *)
(* A member keeps the ids of its tags in an array column, with no foreign  *)
(* key to the table tags: only the handlers keep the two in step.  Each    *)
(* statement is a step (READ COMMITTED): an UPDATE that has to wait for a  *)
(* row lock keeps the rows it chose in its snapshot and looks at each of   *)
(* them again once it has the lock.                                        *)
(***************************************************************************)
EXTENDS Naturals, FiniteSets

CONSTANTS Entities, Members,
          EntityOf,    \* the entity of each member
          Names,       \* tag names
          MaxTag,      \* bound: the ids 1..MaxTag are drawn from the sequence of tags
          Reqs,        \* the requests, each served once
          Kinds,       \* the handlers they may call
          Faults       \* whether database calls fail and the process crashes

ASSUME TagsAssumption ==
    /\ EntityOf \in [Members -> Entities]
    /\ MaxTag \in Nat \ {0} /\ IsFiniteSet(Reqs) /\ Faults \in BOOLEAN
    /\ Kinds \subseteq {"createTag", "addTag", "removeTag", "deleteTag", "updateMember"}

VARIABLES tags,        \* the table tags, with the history of each id
          nextTag,     \* the sequence the ids are drawn from
          memberTags,  \* the column tags of the table members, as a set of ids
          pc, req, answer,
          locked       \* the member rows the open transaction of a deleteTag has updated

vars == <<tags, nextTag, memberTags, pc, req, answer, locked>>
db   == <<tags, nextTag, memberTags>>

-----------------------------------------------------------------------------
TagIds == 1..MaxTag
NoTag  == 0              \* a request without tagId

Live(t)      == tags[t].status = "live"
LiveOf(e)    == {t \in TagIds : Live(t) /\ tags[t].entity = e}
MembersOf(e) == {m \in Members : EntityOf[m] = e}
InFlight(r)  == pc[r] \notin {"idle", "done"}
AnsweredOk(r) == pc[r] = "done" /\ answer[r] = "ok"
Locked(m)    == \E s \in Reqs : m \in locked[s]

\* Some transaction other than r's has deleted the row of t and is still open.
Dropping(r, t) == \E s \in Reqs \ {r} : pc[s] = "commit" /\ req[s].tag = t

TagRow == [status : {"never", "live", "deleted"},
           entity : Entities \cup {"none"}, name : Names \cup {"none"}]

Request == [kind   : Kinds \cup {"none"},
            entity : Entities \cup {"none"},
            name   : Names \cup {"none"},
            tag    : TagIds \cup {NoTag},
            ids    : SUBSET Members,  \* the members asked for, then the rows of the snapshot
            asked  : SUBSET Members,  \* history: the members asked for
            sent   : SUBSET (SUBSET TagIds),  \* updateMember: {T}, or {} without tags
            before : SUBSET Reqs]     \* history: the requests that were over by then

NoRequest == [kind |-> "none", entity |-> "none", name |-> "none", tag |-> NoTag,
              ids |-> {}, asked |-> {}, sent |-> {}, before |-> {}]

Steps == {"idle", "insert", "check", "snapshot", "update", "drop", "commit", "write", "done"}

\* At the start the entities may own tags, and their members may carry them.
Init ==
    /\ nextTag \in 1..2
    /\ tags \in [TagIds -> {[status |-> "live", entity |-> e, name |-> n] :
                                e \in Entities, n \in Names}
                           \cup {[status |-> "never", entity |-> "none", name |-> "none"]}]
    /\ \A t \in TagIds : Live(t) <=> t < nextTag
    /\ memberTags \in [Members -> SUBSET TagIds]
    /\ \A m \in Members : memberTags[m] \subseteq LiveOf(EntityOf[m])
    /\ pc = [r \in Reqs |-> "idle"]
    /\ req = [r \in Reqs |-> NoRequest]
    /\ answer = [r \in Reqs |-> "none"]
    /\ locked = [r \in Reqs |-> {}]

Goto(r, step) == pc' = [pc EXCEPT ![r] = step]
Answer(r, a)  == Goto(r, "done") /\ answer' = [answer EXCEPT ![r] = a]
Unlock(r)     == locked' = [locked EXCEPT ![r] = {}]

-----------------------------------------------------------------------------
(* Requests arrive *)

Arrived(r, kind, e) ==
    [NoRequest EXCEPT !.kind = kind, !.entity = e,
                      !.before = {s \in Reqs : pc[s] = "done"}]

CreateTag(r, e, n) ==
    /\ pc[r] = "idle" /\ "createTag" \in Kinds
    /\ nextTag + Cardinality({s \in Reqs : pc[s] = "insert"}) <= MaxTag
    /\ req' = [req EXCEPT ![r] = [Arrived(r, "createTag", e) EXCEPT !.name = n]]
    /\ Goto(r, "insert")
    /\ UNCHANGED <<db, answer, locked>>

\* addTag, removeTag and deleteTag of tag t; S are the memberIds of the first two.
OnTag(r, kind, e, t, S) ==
    /\ pc[r] = "idle" /\ kind \in Kinds \cap {"addTag", "removeTag", "deleteTag"}
    /\ kind = "deleteTag" => S = {}
    /\ req' = [req EXCEPT ![r] =
         [Arrived(r, kind, e) EXCEPT !.tag = t, !.ids = S, !.asked = S]]
    /\ IF t = NoTag \/ (kind # "deleteTag" /\ S = {})
         THEN Answer(r, "error")
         ELSE Goto(r, "check") /\ UNCHANGED answer
    /\ UNCHANGED <<db, locked>>

\* updateMember of member m: the client sends any ids as its tags, of whatever tags it once
\* read or of none that exists, or no tags at all.
ReceiveUpdate(r, e, m, sent) ==
    /\ pc[r] = "idle" /\ "updateMember" \in Kinds
    /\ req' = [req EXCEPT ![r] =
         [Arrived(r, "updateMember", e) EXCEPT !.ids = {m}, !.asked = {m}, !.sent = sent]]
    /\ Goto(r, "write")
    /\ UNCHANGED <<db, answer, locked>>

-----------------------------------------------------------------------------
(* The handlers *)

\* AddTag: UNIQUE (name, entity_id).  The insert waits for an open transaction that
\* deletes the tag of that name; it draws an id whether or not it succeeds.
InsertTag(r) ==
    LET same == {t \in LiveOf(req[r].entity) : tags[t].name = req[r].name} IN
    /\ pc[r] = "insert"
    /\ \A t \in same : ~Dropping(r, t)
    /\ nextTag' = nextTag + 1
    /\ IF same # {} THEN Answer(r, "error") /\ UNCHANGED tags
       ELSE /\ tags' = [tags EXCEPT ![nextTag] =
                 [status |-> "live", entity |-> req[r].entity, name |-> req[r].name]]
            /\ Answer(r, "ok")
    /\ UNCHANGED <<memberTags, req, locked>>

\* Mutant: the existence of the tag is not checked.
CheckTagSkipped(r) ==
    /\ pc[r] = "check"
    /\ Goto(r, "snapshot")
    /\ UNCHANGED <<db, req, answer, locked>>

\* Mutant: the tag is looked up by its id alone.
CheckTagAnyEntity(r) ==
    /\ pc[r] = "check"
    /\ IF Live(req[r].tag) THEN Goto(r, "snapshot") /\ UNCHANGED answer
                           ELSE Answer(r, "error")
    /\ UNCHANGED <<db, req, locked>>

\* All three look the tag up first, with a statement of its own.
CheckTag(r) ==
    /\ pc[r] = "check"
    /\ IF req[r].tag \in LiveOf(req[r].entity) THEN Goto(r, "snapshot") /\ UNCHANGED answer
                                               ELSE Answer(r, "error")
    /\ UNCHANGED <<db, req, locked>>

\* The rows the UPDATE of r concerns: those without the tag for addTag, those with it
\* for the others.
Concerns(r, m) ==
    /\ m \in MembersOf(req[r].entity)
    /\ req[r].kind \in {"addTag", "removeTag"} => m \in req[r].ids
    /\ (req[r].kind = "addTag") <=> (req[r].tag \notin memberTags[m])

\* The UPDATE starts: its snapshot chooses the rows.
Snapshot(r) ==
    /\ pc[r] = "snapshot"
    /\ req' = [req EXCEPT ![r].ids = {m \in Members : Concerns(r, m)}]
    /\ Goto(r, "update")
    /\ UNCHANGED <<db, answer, locked>>

\* addTag and removeTag: one UPDATE, once no chosen row is locked.
UpdateTags(r) ==
    LET rows == {m \in req[r].ids : Concerns(r, m)} IN
    /\ pc[r] = "update" /\ req[r].kind # "deleteTag"
    /\ \A m \in req[r].ids : ~Locked(m)
    /\ memberTags' = [m \in Members |->
         IF m \notin rows THEN memberTags[m]
         ELSE IF req[r].kind = "addTag" THEN memberTags[m] \cup {req[r].tag}
                                        ELSE memberTags[m] \ {req[r].tag}]
    /\ Answer(r, "ok")
    /\ UNCHANGED <<tags, nextTag, req, locked>>

\* Mutant: DeleteTag takes the tag from the members outside its transaction.
DeleteUntagNoTx(r) ==
    /\ pc[r] = "update" /\ req[r].kind = "deleteTag"
    /\ \A m \in req[r].ids : ~Locked(m)
    /\ memberTags' = [m \in Members |->
         IF m \in req[r].ids THEN memberTags[m] \ {req[r].tag} ELSE memberTags[m]]
    /\ Goto(r, "drop")
    /\ UNCHANGED <<tags, nextTag, req, answer, locked>>

\* DeleteTag, in a transaction: the rows with the tag are updated and locked, ...
DeleteUntag(r) ==
    /\ pc[r] = "update" /\ req[r].kind = "deleteTag"
    /\ \A m \in req[r].ids : ~Locked(m)
    /\ locked' = [locked EXCEPT ![r] = {m \in req[r].ids : Concerns(r, m)}]
    /\ Goto(r, "drop")
    /\ UNCHANGED <<db, req, answer>>

\* ... the row of the tag is deleted, or was by another request: that is no error, ...
DropTag(r) ==
    /\ pc[r] = "drop" /\ ~Dropping(r, req[r].tag)
    /\ Goto(r, "commit")
    /\ UNCHANGED <<db, req, answer, locked>>

\* ... and both become visible together.
ApplyDelete(r) ==
    /\ memberTags' = [m \in Members |->
         IF m \in locked[r] THEN memberTags[m] \ {req[r].tag} ELSE memberTags[m]]
    /\ tags' = [tags EXCEPT ![req[r].tag].status = "deleted"]
    /\ Unlock(r)
    /\ UNCHANGED <<nextTag, req>>

Commit(r) == pc[r] = "commit" /\ ApplyDelete(r) /\ Answer(r, "ok")

\* The connection is lost while committing: applied, but the handler sees an error.
CommitUnknown(r) == Faults /\ pc[r] = "commit" /\ ApplyDelete(r) /\ Answer(r, "error")

\* UpdateMember: the column becomes the ids sent, unchecked, and stays without any
\* (COALESCE).  An id of another entity's member matches no row: that is no error.
UpdateMember(r) ==
    LET rows == req[r].ids \cap MembersOf(req[r].entity) IN
    /\ pc[r] = "write"
    /\ \A m \in rows : ~Locked(m)
    /\ memberTags' = [m \in Members |->
         IF m \in rows /\ req[r].sent # {} THEN UNION req[r].sent ELSE memberTags[m]]
    /\ Answer(r, "ok")
    /\ UNCHANGED <<tags, nextTag, req, locked>>

\* Mutant: the transaction of a failed deleteTag keeps its row locks.
StatementFailsLocked(r) ==
    /\ Faults /\ InFlight(r)
    /\ Answer(r, "error")
    /\ UNCHANGED <<db, req, locked>>

\* A statement fails.  DeleteTag returns without a rollback, but PostgreSQL has already
\* aborted the transaction and freed its locks (a deadlock it detects included).
StatementFails(r) ==
    /\ Faults /\ InFlight(r)
    /\ Unlock(r) /\ Answer(r, "error")
    /\ UNCHANGED <<db, req>>

Crash ==
    /\ Faults /\ \E r \in Reqs : InFlight(r)
    /\ pc' = [r \in Reqs |-> IF InFlight(r) THEN "done" ELSE pc[r]]
    /\ answer' = [r \in Reqs |-> IF InFlight(r) THEN "lost" ELSE answer[r]]
    /\ locked' = [r \in Reqs |-> {}]
    /\ UNCHANGED <<db, req>>

Receive(r) ==
    \E e \in Entities :
        \/ \E n \in Names : CreateTag(r, e, n)
        \/ \E kind \in Kinds, t \in TagIds \cup {NoTag}, S \in SUBSET Members :
               OnTag(r, kind, e, t, S)
        \/ \E m \in Members, sent \in {{}} \cup {{T} : T \in SUBSET TagIds} :
               ReceiveUpdate(r, e, m, sent)

\* What a handler does by itself.
Step(r) ==
    \/ InsertTag(r) \/ CheckTag(r) \/ Snapshot(r) \/ UpdateTags(r)
    \/ DeleteUntag(r) \/ DropTag(r) \/ Commit(r) \/ UpdateMember(r)

Next == \/ \E r \in Reqs : \/ Receive(r) \/ Step(r)
                           \/ CommitUnknown(r) \/ StatementFails(r)
        \/ Crash

Spec == Init /\ [][Next]_vars

\* A goroutine that can run does run, and PostgreSQL wakes the waiter of a lock.
FairSpec == Spec /\ \A r \in Reqs : WF_vars(Step(r))
-----------------------------------------------------------------------------
(* Properties *)

\* The type of every variable; a request that got past the checks of its arguments names
\* a tag, and members if it is about members.
TypeOK ==
    /\ tags \in [TagIds -> TagRow] /\ nextTag \in 1..(MaxTag + 1)
    /\ memberTags \in [Members -> SUBSET TagIds]
    /\ pc \in [Reqs -> Steps] /\ req \in [Reqs -> Request]
    /\ answer \in [Reqs -> {"none", "ok", "error", "lost"}]
    /\ locked \in [Reqs -> SUBSET Members]
    /\ \A r \in Reqs : pc[r] \in {"check", "snapshot", "update", "drop", "commit"} =>
           req[r].tag # NoTag /\ (req[r].kind # "deleteTag" => req[r].asked # {})

\* An updateMember of member m, by its entity, has sent the tag id t.
SentTo(r, m, t) ==
    /\ req[r].kind = "updateMember" /\ m \in req[r].asked /\ EntityOf[m] = req[r].entity
    /\ t \in UNION req[r].sent

\* The arrays have no foreign key and the ids of all entities share one sequence.  Whoever
\* asks to tag which members, addTag gives a member only tags of its own entity: any other
\* id a member carries was sent by an updateMember of that member, by its own entity.
OwnTagsUnlessSent ==
    \A m \in Members : \A t \in memberTags[m] :
        tags[t].entity = EntityOf[m] \/ \E r \in Reqs : SentTo(r, m, t)

\* A deleteTag that was answered ok took the tag from every member of the entity.  One
\* carries it afterwards only if an addTag of that tag and member overlapped it in time
\* (AddTagToMembers writes what it checked before), or if an updateMember that was not over
\* when it came sent the id: an addTag that comes later is refused.
DeletedUnlessReadded ==
    \A d \in Reqs : AnsweredOk(d) /\ req[d].kind = "deleteTag" =>
        \A m \in MembersOf(req[d].entity) : req[d].tag \in memberTags[m] =>
            \E r \in Reqs \ req[d].before :
                \/ /\ d \notin req[r].before /\ req[r].kind = "addTag"
                   /\ req[r].tag = req[d].tag /\ m \in req[r].asked
                \/ SentTo(r, m, req[d].tag)

\* A deleteTag takes the tag from the members and drops the tag together: no failure and
\* no crash leaves a tag that some members have silently lost.
DeleteIsAtomic ==
    [][\A m \in Members : \A t \in memberTags[m] \ memberTags'[m] :
           \/ tags'[t].status = "deleted"
           \/ \E r \in Reqs : /\ pc[r] # "done" /\ pc'[r] = "done" /\ m \in req[r].asked
                              /\ req[r].kind \in {"removeTag", "updateMember"}]_vars

\* No request waits for ever for the row locks of a deleteTag: each is answered, or the
\* process dies with it.
EveryRequestAnswered ==
    \A r \in Reqs : InFlight(r) ~> pc[r] = "done"

\* A tag that was deleted is on no member (testmanager: "Verify that tag was deleted
\* (also from meber info)"; AddTagToMembers: "we are sure that a tag with this ID exists").
NoDanglingTags == \A m \in Members : \A t \in memberTags[m] : Live(t)
=============================================================================
