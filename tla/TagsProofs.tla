----------------------------- MODULE TagsProofs -----------------------------
(***************************************************************************)
(* The safety of Tags, for any entities, members, requests and number of   *)
(* tags, with or without faults.                                           *)
(***************************************************************************)
EXTENDS Tags, FiniteSetTheorems, TLAPS

-----------------------------------------------------------------------------
(* The inductive invariant *)

TagSteps == {"snapshot", "update", "drop", "commit"}

\* The id t was drawn, for a tag of entity e.  Deleting the tag does not change that.
Owned(t, e) == t \in TagIds /\ tags[t].status # "never" /\ tags[t].entity = e

\* What is known of a request from the step its handler is at.
ReqInv(r) ==
    /\ pc[r] = "idle" => req[r] = NoRequest
    /\ pc[r] = "insert" => req[r].kind = "createTag"
    /\ pc[r] \in {"check", "snapshot", "update"} =>
           req[r].kind \in {"addTag", "removeTag", "deleteTag"}
    /\ pc[r] \in {"drop", "commit"} => req[r].kind = "deleteTag"
    /\ pc[r] = "write" => req[r].kind = "updateMember"
    /\ req[r].kind \in {"addTag", "removeTag", "updateMember"} => req[r].ids \subseteq req[r].asked
    /\ \A s \in req[r].before : pc[s] = "done"
    /\ pc[r] \in TagSteps => Owned(req[r].tag, req[r].entity)

Inserting == {r \in Reqs : pc[r] = "insert"}

\* The sequence: ids not drawn yet are free, and there is one left for every insert.
SeqInv ==
    /\ \A t \in TagIds : t >= nextTag => tags[t].status = "never"
    /\ nextTag + Cardinality(Inserting) <= MaxTag + 1

\* The tags of a member are tags of its entity, or were sent by an updateMember.
OwnInv == \A m \in Members : \A t \in memberTags[m] :
              Owned(t, EntityOf[m]) \/ \E r \in Reqs : SentTo(r, m, t)

\* The tag that d deletes was given to m by an addTag that overlapped d in time, or sent by
\* an updateMember that was not over when d came.
Readded(d, m) ==
    \E r \in Reqs \ req[d].before :
        \/ /\ d \notin req[r].before /\ req[r].kind = "addTag"
           /\ req[r].tag = req[d].tag /\ m \in req[r].asked
        \/ SentTo(r, m, req[d].tag)

Deleted(d) == AnsweredOk(d) /\ req[d].kind = "deleteTag"

\* The members d is about that carry the tag it deletes.
Carriers(d) == {m \in MembersOf(req[d].entity) : req[d].tag \in memberTags[m]}

\* A deleteTag in progress has every member with the tag in its snapshot, then among its row
\* locks, unless the tag was added since; one that was answered ok has dropped the tag.
DelInv(d) ==
    /\ pc[d] = "update" /\ req[d].kind = "deleteTag" =>
           \A m \in Carriers(d) : m \in req[d].ids \/ Readded(d, m)
    /\ pc[d] \in {"drop", "commit"} => \A m \in Carriers(d) : m \in locked[d] \/ Readded(d, m)
    /\ Deleted(d) => /\ req[d].tag \in TagIds /\ tags[req[d].tag].status = "deleted"
                     /\ \A m \in Carriers(d) : Readded(d, m)

\* A request that arrives after a deleteTag was answered ok does not take the tag for one
\* that exists.
LateInv(r) ==
    \A d \in req[r].before :
        Deleted(d) /\ pc[r] \in {"snapshot", "update"} => req[d].tag # req[r].tag

TagsInv == /\ TypeOK /\ SeqInv /\ OwnInv
           /\ \A r \in Reqs : ReqInv(r) /\ DelInv(r) /\ LateInv(r)

-----------------------------------------------------------------------------
(* A step of one request *)

\* An addTag that is being served overlaps every request that is not over since before it
\* came, and no request came after an updateMember that is being served was over.
LEMMA ReaddedNow ==
    ASSUME TagsInv, NEW r \in Reqs, NEW d \in Reqs, NEW m, pc[r] # "done",
           \/ /\ d \notin req[r].before /\ req[r].kind = "addTag"
              /\ req[r].tag = req[d].tag /\ m \in req[r].asked
           \/ SentTo(r, m, req[d].tag)
    PROVE  Readded(d, m)
<1>1. r \in Reqs \ req[d].before
  BY DEF TagsInv, ReqInv
<1> QED
  BY <1>1 DEF Readded

\* The only request that changes in this step is r, which is not over.
Only(r) ==
    /\ pc[r] # "done"
    /\ \A q \in Reqs : q # r => /\ pc'[q] = pc[q] /\ req'[q] = req[q]
                                /\ answer'[q] = answer[q] /\ locked'[q] = locked[q]
    /\ pc[r] # "idle" => /\ req'[r].kind = req[r].kind /\ req'[r].before = req[r].before
                         /\ req'[r].asked = req[r].asked /\ req'[r].tag = req[r].tag
                         /\ req'[r].sent = req[r].sent /\ req'[r].entity = req[r].entity

\* What was sent stays sent.
LEMMA SentStable ==
    ASSUME TagsInv, NEW r \in Reqs, Only(r), NEW s \in Reqs, NEW m, NEW t, SentTo(s, m, t)
    PROVE  SentTo(s, m, t)'
<1>1. pc[s] # "idle"
  BY DEF TagsInv, ReqInv, NoRequest, SentTo
<1>2. /\ req'[s].kind = req[s].kind /\ req'[s].asked = req[s].asked
      /\ req'[s].sent = req[s].sent /\ req'[s].entity = req[s].entity
  BY <1>1 DEF Only
<1> QED
  BY <1>2 DEF SentTo

\* A tag that was added again stays so.
LEMMA ReaddedStable ==
    ASSUME TagsInv, NEW r \in Reqs, Only(r), NEW d \in Reqs, d # r \/ pc[r] # "idle",
           NEW m, Readded(d, m)
    PROVE  Readded(d, m)'
<1>1. PICK s \in Reqs \ req[d].before :
        \/ /\ d \notin req[s].before /\ req[s].kind = "addTag"
           /\ req[s].tag = req[d].tag /\ m \in req[s].asked
        \/ SentTo(s, m, req[d].tag)
  BY DEF Readded
<1>2. req'[d].before = req[d].before /\ req'[d].tag = req[d].tag
  BY DEF Only
<1>3. CASE SentTo(s, m, req[d].tag)
  <2>1. PICK t : t = req[d].tag
    OBVIOUS
  <2>2. SentTo(s, m, t)'
    BY <1>3, <2>1, SentStable
  <2>3. SentTo(s, m, req[d].tag)'
    BY <1>2, <2>1, <2>2
  <2> QED
    BY <1>1, <1>2, <2>3 DEF Readded
<1>4. CASE /\ d \notin req[s].before /\ req[s].kind = "addTag"
           /\ req[s].tag = req[d].tag /\ m \in req[s].asked
  <2>1. pc[s] # "idle"
    BY <1>4 DEF TagsInv, ReqInv, NoRequest
  <2>2. /\ req'[s].before = req[s].before /\ req'[s].kind = req[s].kind
        /\ req'[s].asked = req[s].asked /\ req'[s].tag = req[s].tag
    BY <2>1 DEF Only
  <2> QED
    BY <1>1, <1>2, <1>4, <2>2 DEF Readded
<1> QED
  BY <1>1, <1>3, <1>4

\* A step that gives no member a tag keeps the tags apart.
LEMMA OwnKept ==
    ASSUME TagsInv, NEW r \in Reqs, Only(r), \A t, e : Owned(t, e) => Owned(t, e)',
           \A m \in Members : memberTags'[m] \subseteq memberTags[m]
    PROVE  OwnInv'
<1> SUFFICES ASSUME NEW m \in Members, NEW t \in memberTags'[m]
             PROVE  Owned(t, EntityOf[m])' \/ \E s \in Reqs : SentTo(s, m, t)'
  BY DEF OwnInv
<1>1. Owned(t, EntityOf[m]) \/ \E s \in Reqs : SentTo(s, m, t)
  BY DEF TagsInv, OwnInv
<1>2. \A s \in Reqs : SentTo(s, m, t) => SentTo(s, m, t)'
  BY SentStable
<1> QED
  BY <1>1, <1>2

\* What is left to show of a step of r: the tables, r itself, and that a tag it adds to a
\* member counts as added again for the deletions of that tag.
LEMMA OneStep ==
    ASSUME TagsInv, NEW r \in Reqs, Only(r), TypeOK', SeqInv', OwnInv',
           \A t, e : Owned(t, e) => Owned(t, e)',
           \A t \in TagIds : tags[t].status = "deleted" => tags'[t].status = "deleted",
           \A q \in Reqs, m \in Members :
               (/\ q # r /\ req[q].kind = "deleteTag" /\ (InFlight(q) \/ Deleted(q))
                /\ req[q].tag \in memberTags'[m] \ memberTags[m]) => Readded(q, m)',
           ReqInv(r)', DelInv(r)', LateInv(r)'
    PROVE  TagsInv'
<1> SUFFICES ASSUME NEW q \in Reqs, q # r PROVE ReqInv(q)' /\ DelInv(q)' /\ LateInv(q)'
  BY DEF TagsInv
<1>1. ReqInv(q) /\ DelInv(q) /\ LateInv(q) /\ req[q].before \subseteq Reqs
  BY DEF TagsInv, TypeOK, Request
<1>2. pc'[q] = pc[q] /\ req'[q] = req[q] /\ answer'[q] = answer[q] /\ locked'[q] = locked[q]
  BY DEF Only
<1>3. \A s \in req[q].before : s # r /\ pc'[s] = "done" /\ req'[s] = req[s] /\ answer'[s] = answer[s]
  BY <1>1 DEF Only, ReqInv
<1>4. ReqInv(q)'
  BY <1>1, <1>2, <1>3 DEF ReqInv
<1>5. \A m : Readded(q, m) => Readded(q, m)'
  BY ReaddedStable
<1>6. DelInv(q)'
  <2>1. Deleted(q)' <=> Deleted(q)
    BY <1>2 DEF Deleted, AnsweredOk
  <2>2. ASSUME NEW m \in Members, req[q].tag \in memberTags'[m], req[q].kind = "deleteTag",
               InFlight(q) \/ Deleted(q), req[q].tag \notin memberTags[m]
        PROVE  Readded(q, m)'
    BY <2>2
  <2>3. pc[q] \in {"drop", "commit"} => req[q].kind = "deleteTag"
    BY <1>1 DEF ReqInv
  <2>4. Carriers(q)' = {m \in MembersOf(req[q].entity) : req[q].tag \in memberTags'[m]}
    BY <1>2 DEF Carriers, MembersOf
  <2>5. ASSUME NEW m \in Carriers(q)', m \notin Carriers(q)
        PROVE  m \in Members /\ req[q].tag \in memberTags'[m] /\ req[q].tag \notin memberTags[m]
    BY <2>4, <2>5 DEF Carriers, MembersOf
  <2>6. ASSUME pc[q] = "update", req[q].kind = "deleteTag", NEW m \in Carriers(q)'
        PROVE  m \in req[q].ids \/ Readded(q, m)'
    BY <1>1, <1>5, <2>2, <2>6, <2>5 DEF DelInv, InFlight
  <2>7. ASSUME pc[q] \in {"drop", "commit"}, NEW m \in Carriers(q)'
        PROVE  m \in locked[q] \/ Readded(q, m)'
    BY <1>1, <1>5, <2>2, <2>3, <2>7, <2>5 DEF DelInv, InFlight
  <2>8. ASSUME Deleted(q)
        PROVE  /\ req[q].tag \in TagIds /\ tags'[req[q].tag].status = "deleted"
               /\ \A m \in Carriers(q)' : Readded(q, m)'
    BY <1>1, <1>5, <2>2, <2>8, <2>5 DEF DelInv, Deleted
  <2> QED
    BY <1>2, <2>1, <2>6, <2>7, <2>8 DEF DelInv
<1>7. LateInv(q)'
  <2> SUFFICES ASSUME NEW d \in req[q].before, Deleted(d)'
               PROVE  pc[q] \in {"snapshot", "update"} => req'[d].tag # req[q].tag
    BY <1>2 DEF LateInv
  <2>1. d \in Reqs /\ d # r /\ req'[d] = req[d] /\ Deleted(d)
    BY <1>1, <1>3 DEF Deleted, AnsweredOk, ReqInv
  <2> QED
    BY <1>1, <2>1 DEF LateInv
<1> QED
  BY <1>4, <1>6, <1>7

-----------------------------------------------------------------------------
(* Requests arrive *)

\* Every request but r is left alone.
LEMMA OnlyOne ==
    ASSUME TypeOK, NEW r \in Reqs, pc[r] # "done", NEW step, pc' = [pc EXCEPT ![r] = step],
           req' = req \/ \E n : /\ req' = [req EXCEPT ![r] = n]
                                /\ pc[r] # "idle" => /\ n.kind = req[r].kind
                                                     /\ n.before = req[r].before
                                                     /\ n.asked = req[r].asked
                                                     /\ n.tag = req[r].tag
                                                     /\ n.sent = req[r].sent
                                                     /\ n.entity = req[r].entity,
           answer' = answer \/ \E a : answer' = [answer EXCEPT ![r] = a],
           locked' = locked \/ \E L : locked' = [locked EXCEPT ![r] = L]
    PROVE  Only(r) /\ pc'[r] = step
<1>1. pc'[r] = step /\ \A q \in Reqs : q # r => pc'[q] = pc[q]
  BY DEF TypeOK
<1>2. \A q \in Reqs : q # r => req'[q] = req[q]
  BY DEF TypeOK
<1>3. \A q \in Reqs : q # r => answer'[q] = answer[q]
  BY DEF TypeOK
<1>4. \A q \in Reqs : q # r => locked'[q] = locked[q]
  BY DEF TypeOK
<1>5. pc[r] # "idle" => /\ req'[r].kind = req[r].kind /\ req'[r].before = req[r].before
                        /\ req'[r].asked = req[r].asked /\ req'[r].tag = req[r].tag
                        /\ req'[r].sent = req[r].sent /\ req'[r].entity = req[r].entity
  BY DEF TypeOK
<1> QED
  BY <1>1, <1>2, <1>3, <1>4, <1>5 DEF Only

\* A request arrives: it is refused at once or goes to its first statement.
LEMMA Arrives ==
    ASSUME TagsInv, NEW r \in Reqs, NEW n \in Request, NEW step \in {"insert", "check", "write", "done"},
           pc[r] = "idle", pc' = [pc EXCEPT ![r] = step], req' = [req EXCEPT ![r] = n],
           \/ answer' = answer /\ step # "done"
           \/ answer' = [answer EXCEPT ![r] = "error"],
           UNCHANGED <<db, locked>>, SeqInv',
           n.before = {s \in Reqs : pc[s] = "done"},
           n.kind \in {"addTag", "removeTag", "updateMember"} => n.ids \subseteq n.asked,
           step = "insert" => n.kind = "createTag",
           step = "check" => /\ n.kind \in {"addTag", "removeTag", "deleteTag"} /\ n.tag # NoTag
                             /\ n.kind # "deleteTag" => n.asked # {},
           step = "write" => n.kind = "updateMember"
    PROVE  TagsInv'
<1>0. TypeOK /\ UNCHANGED <<tags, nextTag, memberTags>>
  BY DEF TagsInv, db
<1>1. Only(r) /\ pc'[r] = step
  BY <1>0, OnlyOne
<1>2. req'[r] = n /\ (step = "done" => answer'[r] = "error") /\ locked' = locked
  BY <1>0 DEF TypeOK
<1>3. TypeOK'
  <2>1. step \in Steps
    BY DEF Steps
  <2>2. /\ pc' \in [Reqs -> Steps] /\ req' \in [Reqs -> Request]
        /\ answer' \in [Reqs -> {"none", "ok", "error", "lost"}]
    BY <1>0, <2>1 DEF TypeOK
  <2>3. ASSUME NEW q \in Reqs, pc'[q] \in {"check", "snapshot", "update", "drop", "commit"}
        PROVE  req'[q].tag # NoTag /\ (req'[q].kind # "deleteTag" => req'[q].asked # {})
    BY <1>0, <1>1, <1>2, <2>3 DEF TypeOK, Only
  <2> QED
    BY <1>0, <1>2, <2>2, <2>3 DEF TypeOK
<1>4. \A t, e : Owned(t, e) <=> Owned(t, e)'
  BY <1>0 DEF Owned
<1>5. OwnInv'
  BY <1>0, <1>1, <1>4, OwnKept
<1>6. ReqInv(r)'
  <2>1. \A s \in n.before : pc'[s] = "done"
    BY <1>1 DEF Only
  <2> QED
    BY <1>1, <1>2, <1>4, <2>1 DEF ReqInv, TagSteps
<1>7. DelInv(r)'
  BY <1>1, <1>2 DEF DelInv, Deleted, AnsweredOk
<1>8. LateInv(r)'
  BY <1>1 DEF LateInv
<1> QED
  BY <1>0, <1>1, <1>3, <1>4, <1>5, <1>6, <1>7, <1>8, OneStep

\* The record of a request that arrives.
LEMMA ArrivedType ==
    ASSUME TypeOK, NEW r \in Reqs, NEW kind \in Kinds, NEW e \in Entities
    PROVE  LET a == Arrived(r, kind, e) IN
           /\ a \in Request /\ a.kind = kind /\ a.entity = e /\ a.ids = {} /\ a.asked = {}
           /\ a.before = {s \in Reqs : pc[s] = "done"}
<1>1. NoRequest \in Request /\ NoRequest.ids = {} /\ NoRequest.asked = {}
  BY DEF NoRequest, Request
<1>2. {s \in Reqs : pc[s] = "done"} \in SUBSET Reqs
  OBVIOUS
<1> QED
  BY <1>1, <1>2 DEF Arrived, Request

\* The number of inserts on the way, when one request starts or ends one.
LEMMA InsertingCount ==
    ASSUME TypeOK, NEW r \in Reqs, Only(r)
    PROVE  /\ IsFiniteSet(Inserting) /\ Cardinality(Inserting) \in Nat
           /\ pc[r] = "insert" /\ pc'[r] # "insert" =>
                  Cardinality(Inserting') = Cardinality(Inserting) - 1
           /\ pc[r] # "insert" /\ pc'[r] = "insert" =>
                  Cardinality(Inserting') = Cardinality(Inserting) + 1
           /\ pc[r] # "insert" /\ pc'[r] # "insert" => Inserting' = Inserting
<1>1. IsFiniteSet(Inserting) /\ Cardinality(Inserting) \in Nat
  BY TagsAssumption, FS_Subset, FS_CardinalityType DEF Inserting
<1>2. ASSUME pc[r] = "insert", pc'[r] # "insert"
      PROVE  Cardinality(Inserting') = Cardinality(Inserting) - 1
  <2>1. Inserting' = Inserting \ {r} /\ r \in Inserting
    BY <1>2 DEF Inserting, Only
  <2> QED
    BY <1>1, <2>1, FS_RemoveElement
<1>3. ASSUME pc[r] # "insert", pc'[r] = "insert"
      PROVE  Cardinality(Inserting') = Cardinality(Inserting) + 1
  <2>1. Inserting' = Inserting \cup {r} /\ r \notin Inserting
    BY <1>3 DEF Inserting, Only
  <2> QED
    BY <1>1, <2>1, FS_AddElement
<1>4. ASSUME pc[r] # "insert", pc'[r] # "insert" PROVE Inserting' = Inserting
  BY <1>4 DEF Inserting, Only
<1> QED
  BY <1>1, <1>2, <1>3, <1>4

\* The sequence is left alone by a step that starts no insert.
LEMMA SeqKept ==
    ASSUME TagsInv, NEW r \in Reqs, Only(r), pc'[r] # "insert", nextTag' = nextTag,
           \A t \in TagIds : tags[t].status = "never" => tags'[t].status = "never"
    PROVE  SeqInv'
<1>1. TypeOK /\ SeqInv /\ nextTag \in Nat /\ MaxTag \in Nat
  BY TagsAssumption DEF TagsInv, TypeOK
<1>2. /\ Cardinality(Inserting) \in Nat
      /\ \/ Cardinality(Inserting') = Cardinality(Inserting) - 1
         \/ Inserting' = Inserting
  BY <1>1, InsertingCount
<1>3. nextTag' + Cardinality(Inserting') <= MaxTag + 1
  BY <1>1, <1>2 DEF SeqInv
<1> QED
  BY <1>1, <1>3 DEF SeqInv

LEMMA CreateTagInv ==
    ASSUME TagsInv, NEW r \in Reqs, NEW e \in Entities, NEW n \in Names, CreateTag(r, e, n)
    PROVE  TagsInv'
<1> DEFINE a == Arrived(r, "createTag", e)
           k == [a EXCEPT !.name = n]
<1>0. TypeOK /\ SeqInv /\ UNCHANGED <<tags, nextTag, memberTags>> /\ "createTag" \in Kinds
  BY DEF TagsInv, CreateTag, db
<1>1. /\ a \in Request /\ a.kind = "createTag"
      /\ a.before = {s \in Reqs : pc[s] = "done"}
  BY <1>0, ArrivedType
<1> HIDE DEF a
<1>2. k \in Request /\ k.kind = "createTag" /\ k.before = {s \in Reqs : pc[s] = "done"}
  BY <1>1 DEF Request
<1>3. /\ pc[r] = "idle" /\ pc' = [pc EXCEPT ![r] = "insert"] /\ req' = [req EXCEPT ![r] = k]
      /\ answer' = answer /\ UNCHANGED <<db, locked>>
  BY DEF CreateTag, Goto, a
<1> HIDE DEF k
<1>4. Only(r) /\ pc'[r] = "insert"
  BY <1>0, <1>3, OnlyOne
<1>5. SeqInv'
  <2>1. nextTag + Cardinality(Inserting) <= MaxTag /\ nextTag \in Nat /\ MaxTag \in Nat
    BY <1>0, TagsAssumption DEF CreateTag, Inserting, TypeOK
  <2>2. Cardinality(Inserting) \in Nat /\ Cardinality(Inserting') = Cardinality(Inserting) + 1
    BY <1>0, <1>3, <1>4, InsertingCount
  <2>3. nextTag' + Cardinality(Inserting') <= MaxTag + 1
    BY <1>0, <2>1, <2>2
  <2> QED
    BY <1>0, <2>3 DEF SeqInv
<1> QED
  BY <1>2, <1>3, <1>5, Arrives

LEMMA OnTagInv ==
    ASSUME TagsInv, NEW r \in Reqs, NEW e \in Entities, NEW kind \in Kinds,
           NEW t \in TagIds \cup {NoTag}, NEW S \in SUBSET Members, OnTag(r, kind, e, t, S)
    PROVE  TagsInv'
<1> DEFINE a == Arrived(r, kind, e)
           k == [a EXCEPT !.tag = t, !.ids = S, !.asked = S]
<1>0. /\ TypeOK /\ UNCHANGED <<tags, nextTag, memberTags>>
      /\ kind \in {"addTag", "removeTag", "deleteTag"}
  BY DEF TagsInv, OnTag, db
<1>1. a \in Request /\ a.kind = kind /\ a.before = {s \in Reqs : pc[s] = "done"}
  BY <1>0, ArrivedType
<1> HIDE DEF a
<1>2. /\ k \in Request /\ k.kind = kind /\ k.before = {s \in Reqs : pc[s] = "done"}
      /\ k.tag = t /\ k.ids = S /\ k.asked = S
  BY <1>1 DEF Request
<1>3. /\ pc[r] = "idle" /\ req' = [req EXCEPT ![r] = k] /\ UNCHANGED <<db, locked>>
      /\ \/ /\ pc' = [pc EXCEPT ![r] = "done"] /\ answer' = [answer EXCEPT ![r] = "error"]
         \/ /\ pc' = [pc EXCEPT ![r] = "check"] /\ answer' = answer
            /\ t # NoTag /\ (kind # "deleteTag" => S # {})
  BY DEF OnTag, Goto, Answer, a
<1> HIDE DEF k
<1>4. PICK step \in {"check", "done"} : pc' = [pc EXCEPT ![r] = step]
  BY <1>3
<1>5. Only(r) /\ pc'[r] = step
  BY <1>0, <1>3, <1>4, OnlyOne
<1>6. SeqInv'
  BY <1>0, <1>5, SeqKept
<1>7. CASE pc' = [pc EXCEPT ![r] = "done"] /\ answer' = [answer EXCEPT ![r] = "error"]
  BY <1>2, <1>3, <1>6, <1>7, Arrives
<1>8. CASE /\ pc' = [pc EXCEPT ![r] = "check"] /\ answer' = answer
           /\ t # NoTag /\ (kind # "deleteTag" => S # {})
  BY <1>0, <1>2, <1>3, <1>6, <1>8, Arrives
<1> QED
  BY <1>3, <1>7, <1>8

LEMMA ReceiveUpdateInv ==
    ASSUME TagsInv, NEW r \in Reqs, NEW e \in Entities, NEW m \in Members,
           NEW sent \in SUBSET (SUBSET TagIds), ReceiveUpdate(r, e, m, sent)
    PROVE  TagsInv'
<1> DEFINE a == Arrived(r, "updateMember", e)
           k == [a EXCEPT !.ids = {m}, !.asked = {m}, !.sent = sent]
<1>0. TypeOK /\ UNCHANGED <<tags, nextTag, memberTags>> /\ "updateMember" \in Kinds
  BY DEF TagsInv, ReceiveUpdate, db
<1>1. a \in Request /\ a.kind = "updateMember" /\ a.before = {s \in Reqs : pc[s] = "done"}
  BY <1>0, ArrivedType
<1> HIDE DEF a
<1>2. /\ k \in Request /\ k.kind = "updateMember" /\ k.before = {s \in Reqs : pc[s] = "done"}
      /\ k.ids = {m} /\ k.asked = {m}
  BY <1>1 DEF Request
<1>3. /\ pc[r] = "idle" /\ req' = [req EXCEPT ![r] = k] /\ UNCHANGED <<db, locked>>
      /\ pc' = [pc EXCEPT ![r] = "write"] /\ answer' = answer
  BY DEF ReceiveUpdate, Goto, a
<1> HIDE DEF k
<1>4. Only(r) /\ pc'[r] = "write"
  BY <1>0, <1>3, OnlyOne
<1>5. SeqInv'
  BY <1>0, <1>4, SeqKept
<1> QED
  BY <1>2, <1>3, <1>5, Arrives

-----------------------------------------------------------------------------
(* The handlers *)

\* The type of a step of a handler, from those of what it writes.
LEMMA StepType ==
    ASSUME TypeOK, NEW r \in Reqs, NEW step \in Steps, pc[r] # "done", pc[r] # "idle",
           pc' = [pc EXCEPT ![r] = step],
           step \in TagSteps => pc[r] \in TagSteps \cup {"check"}, step # "check",
           req' = req \/ \E S \in SUBSET Members : req' = [req EXCEPT ![r].ids = S],
           \/ answer' = answer
           \/ \E a \in {"none", "ok", "error", "lost"} : answer' = [answer EXCEPT ![r] = a],
           locked' = locked \/ \E L \in SUBSET Members : locked' = [locked EXCEPT ![r] = L],
           tags' \in [TagIds -> TagRow], nextTag' \in 1..(MaxTag + 1),
           memberTags' \in [Members -> SUBSET TagIds]
    PROVE  TypeOK' /\ Only(r) /\ pc'[r] = step
<1>1. pc' \in [Reqs -> Steps] /\ pc'[r] = step /\ \A q \in Reqs : q # r => pc'[q] = pc[q]
  BY DEF TypeOK
<1>2. /\ req' \in [Reqs -> Request]
      /\ req'[r].kind = req[r].kind /\ req'[r].before = req[r].before
      /\ req'[r].asked = req[r].asked /\ req'[r].tag = req[r].tag
      /\ req'[r].sent = req[r].sent /\ req'[r].entity = req[r].entity
      /\ \A q \in Reqs : q # r => req'[q] = req[q]
  <2>1. CASE req' = req
    BY <2>1 DEF TypeOK
  <2>2. ASSUME NEW S \in SUBSET Members, req' = [req EXCEPT ![r].ids = S]
        PROVE  <1>2
    <3> DEFINE n == [req[r] EXCEPT !.ids = S]
    <3>1. req[r] \in Request
      BY DEF TypeOK
    <3>2. /\ n \in Request /\ n.kind = req[r].kind /\ n.before = req[r].before
          /\ n.asked = req[r].asked /\ n.tag = req[r].tag
          /\ n.sent = req[r].sent /\ n.entity = req[r].entity
      BY <3>1 DEF Request
    <3>3. req' = [req EXCEPT ![r] = n]
      BY <2>2
    <3> HIDE DEF n
    <3> QED
      BY <3>2, <3>3 DEF TypeOK
  <2> QED
    BY <2>1, <2>2
<1>3. answer' \in [Reqs -> {"none", "ok", "error", "lost"}] /\ \A q \in Reqs : q # r => answer'[q] = answer[q]
  BY DEF TypeOK
<1>4. locked' \in [Reqs -> SUBSET Members] /\ \A q \in Reqs : q # r => locked'[q] = locked[q]
  BY DEF TypeOK
<1>5. Only(r)
  BY <1>1, <1>2, <1>3, <1>4 DEF Only
<1>6. ASSUME NEW q \in Reqs, pc'[q] \in {"check", "snapshot", "update", "drop", "commit"}
      PROVE  req'[q].tag # NoTag /\ (req'[q].kind # "deleteTag" => req'[q].asked # {})
  <2>1. CASE q = r
    BY <1>1, <1>2, <1>6, <2>1 DEF TypeOK, TagSteps
  <2>2. CASE q # r
    BY <1>1, <1>2, <1>6, <2>2 DEF TypeOK
  <2> QED
    BY <2>1, <2>2
<1> QED
  BY <1>1, <1>2, <1>3, <1>4, <1>5, <1>6 DEF TypeOK

\* A step that writes neither table.
LEMMA QuietStep ==
    ASSUME TagsInv, NEW r \in Reqs, Only(r), TypeOK', pc'[r] # "insert", UNCHANGED db,
           ReqInv(r)', DelInv(r)', LateInv(r)'
    PROVE  TagsInv'
<1>1. UNCHANGED <<tags, nextTag, memberTags>>
  BY DEF db
<1>2. SeqInv'
  BY <1>1, SeqKept
<1>3. \A t, e : Owned(t, e) => Owned(t, e)'
  BY <1>1 DEF Owned
<1>4. OwnInv'
  BY <1>1, <1>3, OwnKept
<1> QED
  BY <1>1, <1>2, <1>3, <1>4, OneStep

\* A request that ends without an ok, or is no deleteTag, leaves nothing to show of itself.
LEMMA Ended ==
    ASSUME TagsInv, NEW r \in Reqs, Only(r), pc[r] # "idle", pc'[r] = "done", req' = req,
           answer'[r] # "ok" \/ req[r].kind # "deleteTag"
    PROVE  ReqInv(r)' /\ DelInv(r)' /\ LateInv(r)'
<1>1. ReqInv(r) /\ req[r].before \subseteq Reqs
  BY DEF TagsInv, TypeOK, Request
<1>2. \A s \in req[r].before : pc'[s] = "done"
  BY <1>1 DEF ReqInv, Only
<1> QED
  BY <1>1, <1>2 DEF ReqInv, DelInv, LateInv, Deleted, AnsweredOk, TagSteps

\* The requests that were over before r came are left as they were.
LEMMA BeforeKept ==
    ASSUME TagsInv, NEW r \in Reqs, Only(r), NEW d \in req[r].before
    PROVE  /\ d \in Reqs /\ d # r /\ pc'[d] = "done" /\ req'[d] = req[d]
           /\ Deleted(d)' <=> Deleted(d)
           /\ Deleted(d) => tags[req[d].tag].status = "deleted"
           /\ \A m : Readded(d, m) => Readded(d, m)'
<1>1. ReqInv(r) /\ req[r].before \subseteq Reqs
  BY DEF TagsInv, TypeOK, Request
<1>2. d \in Reqs /\ d # r /\ pc[d] = "done" /\ DelInv(d)
  BY <1>1 DEF ReqInv, Only, TagsInv
<1>3. pc'[d] = "done" /\ req'[d] = req[d] /\ answer'[d] = answer[d]
  BY <1>2 DEF Only
<1> QED
  BY <1>2, <1>3, ReaddedStable DEF Deleted, AnsweredOk, DelInv

LEMMA InsertTagInv ==
    ASSUME TagsInv, NEW r \in Reqs, InsertTag(r)
    PROVE  TagsInv'
<1>0. TypeOK /\ SeqInv /\ OwnInv /\ ReqInv(r) /\ req[r] \in Request
  BY DEF TagsInv, TypeOK
<1>1. /\ pc[r] = "insert" /\ nextTag' = nextTag + 1 /\ pc' = [pc EXCEPT ![r] = "done"]
      /\ UNCHANGED <<memberTags, req, locked>>
      /\ \/ answer' = [answer EXCEPT ![r] = "error"]
         \/ answer' = [answer EXCEPT ![r] = "ok"]
      /\ \/ tags' = tags
         \/ tags' = [tags EXCEPT ![nextTag] = [status |-> "live", entity |-> req[r].entity,
                                              name |-> req[r].name]]
  BY DEF InsertTag, Answer, Goto
<1>2. /\ nextTag \in Nat /\ MaxTag \in Nat /\ nextTag >= 1
      /\ nextTag + Cardinality(Inserting) <= MaxTag + 1
  BY <1>0, TagsAssumption DEF TypeOK, SeqInv
<1>3. r \in Inserting /\ Cardinality(Inserting) \in Nat /\ Cardinality(Inserting) # 0
  <2>1. r \in Inserting /\ IsFiniteSet(Inserting)
    BY <1>1, TagsAssumption, FS_Subset DEF Inserting
  <2> QED
    BY <2>1, FS_CardinalityType, FS_EmptySet
<1>4. nextTag \in TagIds /\ nextTag' \in 1..(MaxTag + 1)
  BY <1>1, <1>2, <1>3 DEF TagIds
<1>5. tags[nextTag].status = "never"
  BY <1>0, <1>2, <1>4 DEF SeqInv
<1>6. /\ tags' \in [TagIds -> TagRow]
      /\ \A t \in TagIds : t # nextTag => tags'[t] = tags[t]
  <2>1. [status |-> "live", entity |-> req[r].entity, name |-> req[r].name] \in TagRow
    BY <1>0 DEF Request, TagRow
  <2> QED
    BY <1>0, <1>1, <2>1 DEF TypeOK
<1>7. TypeOK' /\ Only(r) /\ pc'[r] = "done"
  BY <1>0, <1>1, <1>4, <1>6, StepType DEF TypeOK, Steps, TagSteps
<1>8. SeqInv'
  <2>1. Cardinality(Inserting') = Cardinality(Inserting) - 1
    BY <1>0, <1>1, <1>7, InsertingCount
  <2>2. nextTag' + Cardinality(Inserting') <= MaxTag + 1
    BY <1>1, <1>2, <1>3, <2>1
  <2>3. ASSUME NEW t \in TagIds, t >= nextTag' PROVE tags'[t].status = "never"
    <3>1. t \in Nat /\ t >= nextTag /\ t # nextTag
      BY <1>1, <1>2, <2>3 DEF TagIds
    <3> QED
      BY <1>0, <1>6, <3>1 DEF SeqInv
  <2> QED
    BY <2>2, <2>3 DEF SeqInv
<1>9. \A t, e : Owned(t, e) => Owned(t, e)'
  BY <1>5, <1>6 DEF Owned
<1>10. OwnInv'
  BY <1>1, <1>7, <1>9, OwnKept
<1>11. \A t \in TagIds : tags[t].status = "deleted" => tags'[t].status = "deleted"
  BY <1>5, <1>6
<1>12. req[r].kind # "deleteTag" \/ answer'[r] # "ok"
  BY <1>0, <1>1 DEF ReqInv
<1>13. ReqInv(r)' /\ DelInv(r)' /\ LateInv(r)'
  BY <1>1, <1>7, <1>12, Ended
<1> QED
  BY <1>1, <1>7, <1>8, <1>9, <1>10, <1>11, <1>13, OneStep

LEMMA CheckTagInv ==
    ASSUME TagsInv, NEW r \in Reqs, CheckTag(r)
    PROVE  TagsInv'
<1>0. TypeOK /\ ReqInv(r) /\ req[r] \in Request
  BY DEF TagsInv, TypeOK
<1>1. pc[r] = "check" /\ UNCHANGED <<db, req, locked>> /\ UNCHANGED <<tags, nextTag, memberTags>>
  BY DEF CheckTag, db
<1>2. CASE pc' = [pc EXCEPT ![r] = "done"] /\ answer' = [answer EXCEPT ![r] = "error"]
  <2>1. TypeOK' /\ Only(r) /\ pc'[r] = "done"
    BY <1>0, <1>1, <1>2, StepType DEF TypeOK, Steps, TagSteps
  <2>2. answer'[r] = "error"
    BY <1>0, <1>2 DEF TypeOK
  <2> QED
    BY <1>1, <2>1, <2>2, Ended, QuietStep
<1>3. CASE /\ req[r].tag \in LiveOf(req[r].entity)
           /\ pc' = [pc EXCEPT ![r] = "snapshot"] /\ answer' = answer
  <2>1. TypeOK' /\ Only(r) /\ pc'[r] = "snapshot"
    BY <1>0, <1>1, <1>3, StepType DEF TypeOK, Steps, TagSteps
  <2>2. Owned(req[r].tag, req[r].entity) /\ tags[req[r].tag].status = "live"
    BY <1>3 DEF LiveOf, Live, Owned
  <2>3. ReqInv(r)'
    BY <1>0, <1>1, <2>1, <2>2, BeforeKept DEF ReqInv, TagSteps, Owned
  <2>4. DelInv(r)'
    BY <2>1 DEF DelInv, Deleted, AnsweredOk
  <2>5. LateInv(r)'
    BY <1>1, <2>1, <2>2, BeforeKept DEF LateInv
  <2> QED
    BY <1>1, <2>1, <2>3, <2>4, <2>5, QuietStep
<1> QED
  BY <1>2, <1>3 DEF CheckTag, Answer, Goto

LEMMA SnapshotInv ==
    ASSUME TagsInv, NEW r \in Reqs, Snapshot(r)
    PROVE  TagsInv'
<1> DEFINE S == {m \in Members : Concerns(r, m)}
<1>0. TypeOK /\ OwnInv /\ ReqInv(r) /\ LateInv(r) /\ req[r] \in Request
  BY DEF TagsInv, TypeOK
<1>1. /\ pc[r] = "snapshot" /\ UNCHANGED <<db, answer, locked>> /\ UNCHANGED <<tags, nextTag, memberTags>>
      /\ pc' = [pc EXCEPT ![r] = "update"] /\ req' = [req EXCEPT ![r].ids = S]
  BY DEF Snapshot, Goto, db
<1>2. TypeOK' /\ Only(r) /\ pc'[r] = "update"
  BY <1>0, <1>1, StepType DEF TypeOK, Steps, TagSteps
<1>3. /\ req'[r].ids = S /\ req'[r].kind = req[r].kind /\ req'[r].tag = req[r].tag
      /\ req'[r].before = req[r].before /\ req'[r].asked = req[r].asked
      /\ req'[r].entity = req[r].entity
  BY <1>0, <1>1 DEF TypeOK, Request
<1>4. req[r].kind \in {"addTag", "removeTag"} => S \subseteq req[r].ids
  BY DEF Concerns
<1>5. Owned(req[r].tag, req[r].entity) /\ req[r].kind \in {"addTag", "removeTag", "deleteTag"}
  BY <1>0, <1>1 DEF ReqInv, TagSteps
<1>6. ReqInv(r)'
  <2>1. Owned(req[r].tag, req[r].entity)'
    BY <1>1, <1>3, <1>5 DEF Owned
  <2>2. \A s \in req[r].before : pc'[s] = "done"
    BY <1>2, BeforeKept
  <2>3. req'[r].kind \in {"addTag", "removeTag", "updateMember"} => req'[r].ids \subseteq req'[r].asked
    BY <1>0, <1>3, <1>4, <1>5 DEF ReqInv
  <2> QED
    BY <1>2, <1>3, <1>5, <2>1, <2>2, <2>3 DEF ReqInv
<1>7. DelInv(r)'
  <2>1. ASSUME req[r].kind = "deleteTag", NEW m \in Carriers(r) PROVE m \in S
    BY <2>1 DEF Carriers, Concerns, MembersOf
  <2>2. Carriers(r)' = Carriers(r)
    BY <1>1, <1>3 DEF Carriers, MembersOf
  <2> QED
    BY <1>1, <1>2, <1>3, <2>1, <2>2 DEF DelInv, Deleted, AnsweredOk
<1>8. LateInv(r)'
  <2> SUFFICES ASSUME NEW d \in req[r].before, Deleted(d)' PROVE req'[d].tag # req[r].tag
    BY <1>2, <1>3 DEF LateInv
  <2>1. req'[d] = req[d] /\ Deleted(d)
    BY <1>2, BeforeKept
  <2> QED
    BY <1>0, <1>1, <2>1 DEF LateInv
<1> QED
  BY <1>1, <1>2, <1>6, <1>7, <1>8, QuietStep

\* A tag that an addTag adds is one whose deletions it overlaps.
LEMMA UpdateTagsInv ==
    ASSUME TagsInv, NEW r \in Reqs, UpdateTags(r)
    PROVE  TagsInv'
<1> DEFINE rows == {m \in req[r].ids : Concerns(r, m)}
<1>0. TypeOK /\ OwnInv /\ ReqInv(r) /\ LateInv(r) /\ req[r] \in Request
  BY DEF TagsInv, TypeOK
<1>1. /\ pc[r] = "update" /\ req[r].kind # "deleteTag" /\ UNCHANGED <<tags, nextTag, req, locked>>
      /\ memberTags' = [m \in Members |->
           IF m \notin rows THEN memberTags[m]
           ELSE IF req[r].kind = "addTag" THEN memberTags[m] \cup {req[r].tag}
                                          ELSE memberTags[m] \ {req[r].tag}]
      /\ pc' = [pc EXCEPT ![r] = "done"] /\ answer' = [answer EXCEPT ![r] = "ok"]
  BY DEF UpdateTags, Goto, Answer
<1>2. /\ Owned(req[r].tag, req[r].entity) /\ req[r].kind \in {"addTag", "removeTag"}
      /\ req[r].ids \subseteq req[r].asked
  BY <1>0, <1>1 DEF ReqInv, TagSteps
<1>3. memberTags' \in [Members -> SUBSET TagIds]
  BY <1>0, <1>1, <1>2 DEF TypeOK, Owned
<1>4. \A m \in Members : \A t \in memberTags'[m] \ memberTags[m] :
          t = req[r].tag /\ m \in req[r].ids /\ EntityOf[m] = req[r].entity /\ req[r].kind = "addTag"
  BY <1>1 DEF Concerns, MembersOf
<1>5. TypeOK' /\ Only(r) /\ pc'[r] = "done"
  BY <1>0, <1>1, <1>3, StepType DEF TypeOK, Steps, TagSteps
<1>6. SeqInv'
  BY <1>1, <1>5, SeqKept
<1>7. \A t, e : Owned(t, e) <=> Owned(t, e)'
  BY <1>1 DEF Owned
<1>8. OwnInv'
  <2> SUFFICES ASSUME NEW m \in Members, NEW t \in memberTags'[m]
               PROVE  Owned(t, EntityOf[m])' \/ \E s \in Reqs : SentTo(s, m, t)'
    BY DEF OwnInv
  <2>1. Owned(t, EntityOf[m]) \/ \E s \in Reqs : SentTo(s, m, t)
    BY <1>0, <1>2, <1>4 DEF OwnInv
  <2>2. \A s \in Reqs : SentTo(s, m, t) => SentTo(s, m, t)'
    BY <1>5, SentStable
  <2> QED
    BY <1>7, <2>1, <2>2
<1>9. ASSUME NEW q \in Reqs, NEW m \in Members, q # r, InFlight(q) \/ Deleted(q),
             req[q].tag \in memberTags'[m] \ memberTags[m]
      PROVE  Readded(q, m)'
  <2>1. /\ req[q].tag = req[r].tag /\ m \in req[r].asked /\ req[r].kind = "addTag"
    BY <1>2, <1>4, <1>9
  <2>2. q \notin req[r].before
    BY <1>0, <1>1, <1>9, <2>1 DEF LateInv, ReqInv, InFlight
  <2>3. Readded(q, m)
    BY <1>1, <2>1, <2>2, ReaddedNow
  <2> QED
    BY <1>5, <1>9, <2>3, ReaddedStable
<1>10. ReqInv(r)' /\ DelInv(r)' /\ LateInv(r)'
  BY <1>1, <1>5, Ended
<1> QED
  BY <1>1, <1>5, <1>6, <1>7, <1>8, <1>9, <1>10, OneStep

\* A tag that an updateMember adds is one that it was sent.
LEMMA UpdateMemberInv ==
    ASSUME TagsInv, NEW r \in Reqs, UpdateMember(r)
    PROVE  TagsInv'
<1> DEFINE rows == req[r].ids \cap MembersOf(req[r].entity)
<1>0. TypeOK /\ OwnInv /\ ReqInv(r) /\ req[r] \in Request
  BY DEF TagsInv, TypeOK
<1>1. /\ pc[r] = "write" /\ UNCHANGED <<tags, nextTag, req, locked>>
      /\ memberTags' = [m \in Members |->
           IF m \in rows /\ req[r].sent # {} THEN UNION req[r].sent ELSE memberTags[m]]
      /\ pc' = [pc EXCEPT ![r] = "done"] /\ answer' = [answer EXCEPT ![r] = "ok"]
  BY DEF UpdateMember, Goto, Answer
<1>2. /\ req[r].kind = "updateMember" /\ req[r].ids \subseteq req[r].asked
      /\ UNION req[r].sent \in SUBSET TagIds
  BY <1>0, <1>1 DEF ReqInv, Request
<1>3. memberTags' \in [Members -> SUBSET TagIds]
  BY <1>0, <1>1, <1>2 DEF TypeOK
<1>4. \A m \in Members : \A t \in memberTags'[m] \ memberTags[m] : SentTo(r, m, t)
  BY <1>1, <1>2 DEF SentTo, MembersOf
<1>5. TypeOK' /\ Only(r) /\ pc'[r] = "done"
  BY <1>0, <1>1, <1>3, StepType DEF TypeOK, Steps, TagSteps
<1>6. SeqInv'
  BY <1>1, <1>5, SeqKept
<1>7. \A t, e : Owned(t, e) <=> Owned(t, e)'
  BY <1>1 DEF Owned
<1>8. OwnInv'
  <2> SUFFICES ASSUME NEW m \in Members, NEW t \in memberTags'[m]
               PROVE  Owned(t, EntityOf[m])' \/ \E s \in Reqs : SentTo(s, m, t)'
    BY DEF OwnInv
  <2>1. Owned(t, EntityOf[m]) \/ \E s \in Reqs : SentTo(s, m, t)
    BY <1>0, <1>4 DEF OwnInv
  <2>2. \A s \in Reqs : SentTo(s, m, t) => SentTo(s, m, t)'
    BY <1>5, SentStable
  <2> QED
    BY <1>7, <2>1, <2>2
<1>9. ASSUME NEW q \in Reqs, NEW m \in Members, q # r,
             req[q].tag \in memberTags'[m] \ memberTags[m]
      PROVE  Readded(q, m)'
  <2>1. SentTo(r, m, req[q].tag)
    BY <1>4, <1>9
  <2>2. Readded(q, m)
    BY <1>1, <2>1, ReaddedNow
  <2> QED
    BY <1>5, <1>9, <2>2, ReaddedStable
<1>10. ReqInv(r)' /\ DelInv(r)' /\ LateInv(r)'
  BY <1>1, <1>2, <1>5, Ended
<1> QED
  BY <1>1, <1>5, <1>6, <1>7, <1>8, <1>9, <1>10, OneStep

LEMMA DeleteUntagInv ==
    ASSUME TagsInv, NEW r \in Reqs, DeleteUntag(r)
    PROVE  TagsInv'
<1> DEFINE L == {m \in req[r].ids : Concerns(r, m)}
<1>0. TypeOK /\ OwnInv /\ ReqInv(r) /\ DelInv(r) /\ LateInv(r) /\ req[r] \in Request
  BY DEF TagsInv, TypeOK
<1>1. /\ pc[r] = "update" /\ req[r].kind = "deleteTag" /\ UNCHANGED <<db, req, answer>>
      /\ UNCHANGED <<tags, nextTag, memberTags>>
      /\ pc' = [pc EXCEPT ![r] = "drop"] /\ locked' = [locked EXCEPT ![r] = L]
  BY DEF DeleteUntag, Goto, db
<1>2. L \in SUBSET Members
  BY <1>0 DEF Request
<1>3. TypeOK' /\ Only(r) /\ pc'[r] = "drop"
  BY <1>0, <1>1, <1>2, StepType DEF TypeOK, Steps, TagSteps
<1>4. locked'[r] = L
  BY <1>0, <1>1 DEF TypeOK
<1>5. Owned(req[r].tag, req[r].entity)
  BY <1>0, <1>1 DEF ReqInv, TagSteps
<1>6. ReqInv(r)'
  <2>1. Owned(req[r].tag, req[r].entity)'
    BY <1>1, <1>5 DEF Owned
  <2>2. \A s \in req[r].before : pc'[s] = "done"
    BY <1>3, BeforeKept
  <2> QED
    BY <1>1, <1>3, <2>1, <2>2 DEF ReqInv
<1>7. DelInv(r)'
  <2>1. ASSUME NEW m \in Carriers(r) PROVE m \in L \/ Readded(r, m)'
    <3>1. m \in req[r].ids \/ Readded(r, m)
      BY <1>0, <1>1, <2>1 DEF DelInv
    <3>2. m \in req[r].ids => m \in L
      BY <1>1, <2>1 DEF Carriers, Concerns
    <3> QED
      BY <1>1, <1>3, <3>1, <3>2, ReaddedStable
  <2>2. Carriers(r)' = Carriers(r)
    BY <1>1 DEF Carriers, MembersOf
  <2> QED
    BY <1>1, <1>3, <1>4, <2>1, <2>2 DEF DelInv, Deleted, AnsweredOk
<1>8. LateInv(r)'
  BY <1>1, <1>3 DEF LateInv
<1> QED
  BY <1>1, <1>3, <1>6, <1>7, <1>8, QuietStep

LEMMA DropTagInv ==
    ASSUME TagsInv, NEW r \in Reqs, DropTag(r)
    PROVE  TagsInv'
<1>0. TypeOK /\ ReqInv(r) /\ DelInv(r) /\ req[r] \in Request
  BY DEF TagsInv, TypeOK
<1>1. /\ pc[r] = "drop" /\ UNCHANGED <<db, req, answer, locked>> /\ UNCHANGED <<tags, nextTag, memberTags>>
      /\ pc' = [pc EXCEPT ![r] = "commit"]
  BY DEF DropTag, Goto, db
<1>2. TypeOK' /\ Only(r) /\ pc'[r] = "commit"
  BY <1>0, <1>1, StepType DEF TypeOK, Steps, TagSteps
<1>3. ReqInv(r)'
  <2>1. Owned(req[r].tag, req[r].entity)'
    BY <1>0, <1>1 DEF Owned, ReqInv, TagSteps
  <2>2. \A s \in req[r].before : pc'[s] = "done"
    BY <1>2, BeforeKept
  <2> QED
    BY <1>0, <1>1, <1>2, <2>1, <2>2 DEF ReqInv
<1>4. DelInv(r)'
  <2>1. Carriers(r)' = Carriers(r)
    BY <1>1 DEF Carriers, MembersOf
  <2> QED
    BY <1>0, <1>1, <1>2, <2>1, ReaddedStable DEF DelInv, Deleted, AnsweredOk
<1>5. LateInv(r)'
  BY <1>1, <1>2 DEF LateInv
<1> QED
  BY <1>1, <1>2, <1>3, <1>4, <1>5, QuietStep

\* The commit of a deleteTag: the rows it holds lose the tag, and the tag is deleted.
LEMMA CommitInv ==
    ASSUME TagsInv, NEW r \in Reqs, Commit(r) \/ CommitUnknown(r)
    PROVE  TagsInv'
<1>0. TypeOK /\ OwnInv /\ ReqInv(r) /\ DelInv(r) /\ req[r] \in Request
  BY DEF TagsInv, TypeOK
<1>1. /\ pc[r] = "commit" /\ UNCHANGED <<nextTag, req>>
      /\ pc' = [pc EXCEPT ![r] = "done"] /\ locked' = [locked EXCEPT ![r] = {}]
      /\ \/ answer' = [answer EXCEPT ![r] = "ok"]
         \/ answer' = [answer EXCEPT ![r] = "error"]
      /\ memberTags' = [m \in Members |->
           IF m \in locked[r] THEN memberTags[m] \ {req[r].tag} ELSE memberTags[m]]
      /\ tags' = [tags EXCEPT ![req[r].tag].status = "deleted"]
  BY DEF Commit, CommitUnknown, ApplyDelete, Answer, Goto, Unlock
<1>2. req[r].tag \in TagIds /\ Owned(req[r].tag, req[r].entity) /\ req[r].kind = "deleteTag"
  BY <1>0, <1>1 DEF ReqInv, TagSteps, Owned
<1>3. /\ memberTags' \in [Members -> SUBSET TagIds]
      /\ \A m \in Members : memberTags'[m] \subseteq memberTags[m]
      /\ \A m \in Members : m \in locked[r] => req[r].tag \notin memberTags'[m]
  BY <1>0, <1>1 DEF TypeOK
<1>4. /\ tags' \in [TagIds -> TagRow]
      /\ tags'[req[r].tag].status = "deleted"
      /\ tags'[req[r].tag].entity = tags[req[r].tag].entity
      /\ \A t \in TagIds : t # req[r].tag => tags'[t] = tags[t]
  <2> DEFINE n == [tags[req[r].tag] EXCEPT !.status = "deleted"]
  <2>1. tags[req[r].tag] \in TagRow
    BY <1>0, <1>2 DEF TypeOK
  <2>2. n \in TagRow /\ n.status = "deleted" /\ n.entity = tags[req[r].tag].entity
    BY <2>1 DEF TagRow
  <2>3. tags' = [tags EXCEPT ![req[r].tag] = n]
    BY <1>1
  <2> HIDE DEF n
  <2> QED
    BY <1>0, <1>2, <2>2, <2>3 DEF TypeOK
<1>5. TypeOK' /\ Only(r) /\ pc'[r] = "done"
  BY <1>0, <1>1, <1>3, <1>4, StepType DEF TypeOK, Steps, TagSteps
<1>6. SeqInv'
  BY <1>1, <1>2, <1>4, <1>5, SeqKept DEF Owned
<1>7. \A t, e : Owned(t, e) => Owned(t, e)'
  BY <1>4 DEF Owned
<1>8. OwnInv'
  BY <1>3, <1>5, <1>7, OwnKept
<1>9. \A t \in TagIds : tags[t].status = "deleted" => tags'[t].status = "deleted"
  BY <1>4
<1>10. ReqInv(r)'
  <2>1. \A s \in req[r].before : pc'[s] = "done"
    BY <1>5, BeforeKept
  <2> QED
    BY <1>0, <1>1, <1>2, <1>5, <2>1 DEF ReqInv, TagSteps
<1>11. DelInv(r)'
  <2>1. ASSUME NEW m \in Carriers(r)' PROVE Readded(r, m)'
    <3>1. m \in Members /\ m \notin locked[r] /\ m \in Carriers(r)
      BY <1>1, <1>3, <2>1 DEF Carriers, MembersOf
    <3>2. Readded(r, m)
      BY <1>0, <1>1, <3>1 DEF DelInv
    <3> QED
      BY <1>1, <1>5, <3>2, ReaddedStable
  <2> QED
    BY <1>1, <1>2, <1>4, <1>5, <2>1 DEF DelInv
<1>12. LateInv(r)'
  BY <1>5 DEF LateInv
<1> QED
  BY <1>3, <1>5, <1>6, <1>7, <1>8, <1>9, <1>10, <1>11, <1>12, OneStep

LEMMA StatementFailsInv ==
    ASSUME TagsInv, NEW r \in Reqs, StatementFails(r)
    PROVE  TagsInv'
<1>0. TypeOK /\ pc[r] # "idle" /\ pc[r] # "done"
  BY DEF TagsInv, StatementFails, InFlight
<1>1. /\ UNCHANGED <<db, req>> /\ UNCHANGED <<tags, nextTag, memberTags>>
      /\ pc' = [pc EXCEPT ![r] = "done"] /\ locked' = [locked EXCEPT ![r] = {}]
      /\ answer' = [answer EXCEPT ![r] = "error"]
  BY DEF StatementFails, Answer, Goto, Unlock, db
<1>2. TypeOK' /\ Only(r) /\ pc'[r] = "done"
  BY <1>0, <1>1, StepType DEF TypeOK, Steps, TagSteps
<1>3. answer'[r] = "error"
  BY <1>0, <1>1 DEF TypeOK
<1> QED
  BY <1>0, <1>1, <1>2, <1>3, Ended, QuietStep

\* The process dies: the tables stay, and so do the requests that were over.
LEMMA CrashInv ==
    ASSUME TagsInv, Crash
    PROVE  TagsInv'
<1>0. TypeOK /\ SeqInv /\ OwnInv /\ UNCHANGED <<tags, nextTag, memberTags>> /\ req' = req
  BY DEF TagsInv, Crash, db
<1>1. \A q \in Reqs : /\ InFlight(q) => pc'[q] = "done" /\ answer'[q] = "lost"
                      /\ ~InFlight(q) => pc'[q] = pc[q] /\ answer'[q] = answer[q]
  BY DEF Crash
<1>2. /\ pc' \in [Reqs -> Steps] /\ answer' \in [Reqs -> {"none", "ok", "error", "lost"}]
      /\ locked' \in [Reqs -> SUBSET Members]
  BY <1>0 DEF Crash, TypeOK, Steps
<1>3. \A q \in Reqs : pc'[q] \in {"idle", "done"}
  BY <1>1 DEF InFlight
<1>4. TypeOK'
  BY <1>0, <1>2, <1>3 DEF TypeOK
<1>5. SeqInv'
  <2>1. Inserting' = {}
    BY <1>3 DEF Inserting
  <2>2. Cardinality(Inserting') = 0
    BY <2>1, FS_EmptySet
  <2>3. nextTag \in Nat /\ MaxTag \in Nat /\ nextTag <= MaxTag + 1
    BY <1>0, TagsAssumption DEF TypeOK
  <2> QED
    BY <1>0, <2>2, <2>3 DEF SeqInv
<1>6. \A t, e : Owned(t, e) <=> Owned(t, e)'
  BY <1>0 DEF Owned
<1>7. OwnInv'
  BY <1>0, <1>6 DEF OwnInv, SentTo
<1>8. \A d : Carriers(d)' = Carriers(d) /\ \A m : Readded(d, m) <=> Readded(d, m)'
  BY <1>0 DEF Readded, SentTo, Carriers, MembersOf
<1>9. ASSUME NEW q \in Reqs PROVE ReqInv(q)' /\ DelInv(q)' /\ LateInv(q)'
  <2>1. ReqInv(q) /\ DelInv(q) /\ req[q].before \subseteq Reqs
    BY <1>0 DEF TagsInv, TypeOK, Request
  <2>2. pc'[q] = "idle" => pc[q] = "idle"
    BY <1>1
  <2>3. \A s \in req[q].before : pc'[s] = "done"
    BY <1>1, <2>1 DEF ReqInv, InFlight
  <2>4. ReqInv(q)'
    BY <1>0, <1>3, <2>1, <2>2, <2>3 DEF ReqInv, TagSteps
  <2>5. Deleted(q)' => Deleted(q)
    BY <1>0, <1>1 DEF Deleted, AnsweredOk, InFlight
  <2>6. DelInv(q)'
    BY <1>0, <1>3, <1>8, <2>1, <2>5 DEF DelInv
  <2>7. LateInv(q)'
    BY <1>3 DEF LateInv
  <2> QED
    BY <2>4, <2>6, <2>7
<1> QED
  BY <1>4, <1>5, <1>7, <1>9 DEF TagsInv

-----------------------------------------------------------------------------
(* The invariant holds *)

LEMMA TagsInit ==
    ASSUME Init
    PROVE  TagsInv
<1>0. MaxTag \in Nat \ {0} /\ EntityOf \in [Members -> Entities]
  BY TagsAssumption
<1>1. /\ pc = [r \in Reqs |-> "idle"] /\ req = [r \in Reqs |-> NoRequest]
      /\ answer = [r \in Reqs |-> "none"] /\ locked = [r \in Reqs |-> {}]
      /\ nextTag \in 1..2 /\ memberTags \in [Members -> SUBSET TagIds]
      /\ \A t \in TagIds : Live(t) <=> t < nextTag
  BY DEF Init
<1>2. NoRequest \in Request /\ NoRequest.before = {} /\ NoRequest.kind = "none"
  BY DEF NoRequest, Request
<1>3. tags \in [TagIds -> TagRow] /\ \A t \in TagIds : tags[t].status \in {"live", "never"}
  <2>1. /\ [status |-> "never", entity |-> "none", name |-> "none"] \in TagRow
        /\ \A e \in Entities, n \in Names :
               [status |-> "live", entity |-> e, name |-> n] \in TagRow
    BY DEF TagRow
  <2> QED
    BY <2>1 DEF Init
<1>4. TypeOK
  <2>1. nextTag \in 1..(MaxTag + 1)
    BY <1>0, <1>1
  <2>2. pc \in [Reqs -> Steps]
    BY <1>1 DEF Steps
  <2> QED
    BY <1>1, <1>2, <1>3, <2>1, <2>2 DEF TypeOK
<1>5. SeqInv
  <2>1. Inserting = {}
    BY <1>1 DEF Inserting
  <2>2. Cardinality(Inserting) = 0
    BY <2>1, FS_EmptySet
  <2>3. ASSUME NEW t \in TagIds, t >= nextTag PROVE tags[t].status = "never"
    BY <1>0, <1>1, <1>3, <2>3 DEF Live, TagIds
  <2> QED
    BY <1>0, <1>1, <2>2, <2>3 DEF SeqInv
<1>6. OwnInv
  BY DEF Init, OwnInv, Owned, LiveOf, Live
<1>7. ASSUME NEW r \in Reqs PROVE ReqInv(r) /\ DelInv(r) /\ LateInv(r)
  BY <1>1, <1>2 DEF ReqInv, DelInv, LateInv, TagSteps, Deleted, AnsweredOk
<1> QED
  BY <1>4, <1>5, <1>6, <1>7 DEF TagsInv

LEMMA TagsNext ==
    ASSUME TagsInv, [Next]_vars
    PROVE  TagsInv'
<1>1. CASE UNCHANGED vars
  <2>1. UNCHANGED <<tags, nextTag, memberTags, pc, req, answer, locked>>
    BY <1>1 DEF vars
  <2>2. TypeOK' /\ SeqInv' /\ OwnInv'
    BY <2>1 DEF TagsInv, TypeOK, SeqInv, Inserting, OwnInv, Owned, SentTo
  <2>3. \A d : Carriers(d)' = Carriers(d) /\ \A m : Readded(d, m) <=> Readded(d, m)'
    BY <2>1 DEF Readded, SentTo, Carriers, MembersOf
  <2>4. ASSUME NEW r \in Reqs PROVE ReqInv(r)' /\ DelInv(r)' /\ LateInv(r)'
    BY <2>1, <2>3 DEF TagsInv, ReqInv, Owned, DelInv, LateInv, Deleted, AnsweredOk
  <2> QED
    BY <2>2, <2>4 DEF TagsInv
<1>2. ASSUME NEW r \in Reqs, Receive(r) PROVE TagsInv'
  BY <1>2, CreateTagInv, OnTagInv, ReceiveUpdateInv DEF Receive
<1>3. ASSUME NEW r \in Reqs, Step(r) PROVE TagsInv'
  BY <1>3, InsertTagInv, CheckTagInv, SnapshotInv, UpdateTagsInv, DeleteUntagInv, DropTagInv,
     CommitInv, UpdateMemberInv DEF Step
<1> QED
  BY <1>1, <1>2, <1>3, CommitInv, StatementFailsInv, CrashInv DEF Next

LEMMA TagsIsInv == Spec => []TagsInv
  BY TagsInit, TagsNext, PTL DEF Spec

-----------------------------------------------------------------------------
(* The theorems *)

\* Every variable keeps its type: no insert runs past the ids of the sequence, and a request
\* past the checks of its arguments (addTag, removeTag, deleteTag in manager.go) names a tag.
THEOREM TagsTypeCorrect == Spec => []TypeOK
<1>1. TagsInv => TypeOK
  BY DEF TagsInv
<1> QED
  BY <1>1, TagsIsInv, PTL

\* Whatever requests interleave, fail or crash, an id that a member carries is of a tag of its
\* own entity or was sent by an updateMember of that member by its own entity, although the
\* array column has no foreign key (AddTagToMembers, UpdateMember).
THEOREM TagsStayOwn == Spec => []OwnTagsUnlessSent
<1>1. TagsInv => OwnTagsUnlessSent
  BY DEF TagsInv, OwnInv, Owned, OwnTagsUnlessSent
<1> QED
  BY <1>1, TagsIsInv, PTL

\* After a deleteTag was answered ok, a member of the entity carries the tag only if an addTag
\* of that tag and member overlapped the deletion (AddTagToMembers writes what it checked in
\* an earlier statement), or an updateMember that overlapped it or came later sent the id.
THEOREM DeletedStaysDeleted == Spec => []DeletedUnlessReadded
<1>1. TagsInv => DeletedUnlessReadded
  BY DEF TagsInv, DelInv, Deleted, Carriers, Readded, DeletedUnlessReadded
<1> QED
  BY <1>1, TagsIsInv, PTL

\* What a step may take from a member: a tag that is deleted in the same step (the commit of
\* DeleteTag), or one that a removeTag or updateMember of that member is asked to take.
LEMMA TakenOnPurpose ==
    ASSUME TagsInv, [Next]_vars, NEW m \in Members, NEW t \in memberTags[m] \ memberTags'[m]
    PROVE  \/ tags'[t].status = "deleted"
           \/ \E r \in Reqs : /\ pc[r] # "done" /\ pc'[r] = "done" /\ m \in req[r].asked
                              /\ req[r].kind \in {"removeTag", "updateMember"}
<1>0. TypeOK
  BY DEF TagsInv
<1>1. memberTags' # memberTags
  OBVIOUS
<1>2. PICK r \in Reqs : \/ UpdateTags(r) \/ Commit(r) \/ CommitUnknown(r)
                        \/ UpdateMember(r)
  <2>1. ASSUME NEW r \in Reqs PROVE ~Receive(r)
    BY <1>1 DEF db, Receive, CreateTag, OnTag, ReceiveUpdate
  <2>2. ASSUME NEW r \in Reqs PROVE ~InsertTag(r) /\ ~CheckTag(r) /\ ~Snapshot(r)
    BY <1>1 DEF db, InsertTag, CheckTag, Snapshot
  <2>3. ASSUME NEW r \in Reqs PROVE ~DeleteUntag(r) /\ ~DropTag(r) /\ ~StatementFails(r)
    BY <1>1 DEF db, DeleteUntag, DropTag, StatementFails
  <2>4. ~Crash /\ ~(UNCHANGED vars)
    BY <1>1 DEF db, vars, Crash
  <2> QED
    BY <2>1, <2>2, <2>3, <2>4 DEF Next, Step
<1>3. ReqInv(r) /\ req[r] \in Request
  BY <1>0 DEF TagsInv, TypeOK
<1>4. CASE UpdateTags(r)
  <2>1. /\ pc[r] = "update" /\ pc' = [pc EXCEPT ![r] = "done"] /\ req[r].kind # "deleteTag"
        /\ m \in req[r].ids /\ req[r].kind # "addTag"
    BY <1>4 DEF UpdateTags, Answer, Goto
  <2> QED
    BY <1>0, <1>3, <2>1 DEF ReqInv, TypeOK
<1>5. CASE Commit(r) \/ CommitUnknown(r)
  <2>1. /\ pc[r] = "commit" /\ t = req[r].tag
        /\ tags' = [tags EXCEPT ![req[r].tag].status = "deleted"]
    BY <1>5 DEF Commit, CommitUnknown, ApplyDelete
  <2>2. t \in TagIds /\ tags[t] \in TagRow
    BY <1>0 DEF TypeOK
  <2> QED
    BY <1>0, <2>1, <2>2 DEF TypeOK, TagRow
<1>6. CASE UpdateMember(r)
  <2>1. pc[r] = "write" /\ pc' = [pc EXCEPT ![r] = "done"] /\ m \in req[r].ids
    BY <1>6 DEF UpdateMember, Answer, Goto
  <2> QED
    BY <1>0, <1>3, <2>1 DEF ReqInv, TypeOK
<1> QED
  BY <1>2, <1>4, <1>5, <1>6

\* A member loses a tag only together with the row of the tag, or because a removeTag or an
\* updateMember of that member is answered: no fault or crash between the two statements of
\* DeleteTag shows.
THEOREM DeletesAreAtomic == Spec => DeleteIsAtomic
<1>1. ASSUME TagsInv, [Next]_vars
      PROVE  [\A m \in Members : \A t \in memberTags[m] \ memberTags'[m] :
                 \/ tags'[t].status = "deleted"
                 \/ \E r \in Reqs : /\ pc[r] # "done" /\ pc'[r] = "done" /\ m \in req[r].asked
                                    /\ req[r].kind \in {"removeTag", "updateMember"}]_vars
  BY <1>1, TakenOnPurpose
<1> QED
  BY <1>1, TagsIsInv, PTL DEF Spec, DeleteIsAtomic
=============================================================================
