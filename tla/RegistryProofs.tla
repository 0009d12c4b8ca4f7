--------------------------- MODULE RegistryProofs ---------------------------
(***************************************************************************)
(* The safety of Registry, and that it implements Enrolment, for any sets  *)
(* of entities, keys, members and requests, with or without faults.        *)
(***************************************************************************)
EXTENDS Registry, TLAPS

-----------------------------------------------------------------------------
(* The inductive invariant *)

TxSteps   == {"insertUser", "write", "commit"}
Untagging == {"tagOf", "untagCheck", "untag"}
RegSteps  == {"member", "user"} \cup TxSteps \cup Untagging
Tagging   == {"tagByName", "addTag", "tagCheck", "tagMembers"}
LinkSteps == {"mail"} \cup Tagging

\* What is known of a request from the step its handler is at: its arguments, what its
\* transaction has written, and whether the transaction is open.
ReqInv ==
    \A r \in Reqs :
        /\ pc[r] = "idle" => req[r].kind = "none"
        /\ pc[r] # "done" => answer[r] = "none"
        /\ pc[r] \in RegSteps => /\ req[r].kind \in {"validateToken", "register"}
                                 /\ req[r].entity \in Entities /\ req[r].key \in Keys
                                 /\ req[r].member \in Members
        /\ pc[r] \in {"member"} \cup Untagging => req[r].kind = "validateToken"
        /\ pc[r] \in LinkSteps => req[r].kind = "sendLinks" /\ req[r].entity \in Entities
        /\ pc[r] \in {"tagCheck", "tagMembers"} => req[r].tag \in TagIds
        /\ newUser[r] # NoKey => pc[r] \in {"write", "commit"} /\ newUser[r] = req[r].key
        /\ newRow[r] = IF pc[r] = "commit" THEN req[r].member ELSE NoMember
        /\ r \in openTx => pc[r] \in TxSteps \/ (pc[r] = "done" /\ answer[r] = "error")

\* The locks: no two open transactions have inserted the same user, written the same row, or given
\* the same key to rows of one entity; no two requests are to insert the same id.
LockInv ==
    /\ \A r \in Reqs : newUser[r] \notin users
    /\ \A r, s \in Reqs : r # s =>
        /\ newUser[r] # NoKey => newUser[r] # newUser[s]
        /\ pc[r] = "commit" /\ pc[s] = "commit" =>
               /\ req[r].member # req[s].member
               /\ req[r].entity = req[s].entity => req[r].key # req[s].key
        /\ (/\ InFlight(r) /\ req[r].kind = "register"
            /\ InFlight(s) /\ req[s].kind = "register") => req[r].member # req[s].member

\* The rows, and what a request about to commit has established about them.
RowInv ==
    /\ UserBeforeMember
    /\ OneKeyPerEntity
    /\ \A m \in Members : ~Live(m) => members[m].key = NoKey /\ members[m].entity = NoEntity
    /\ \A r \in Reqs : pc[r] = "commit" =>
        /\ \A m \in Members : (m # req[r].member /\ Live(m) /\ members[m].entity = req[r].entity)
                                  => members[m].key # req[r].key
        /\ req[r].kind = "validateToken" =>
               Live(req[r].member) /\ members[req[r].member].entity = req[r].entity
    /\ \A r \in Reqs : (req[r].kind = "register" /\ InFlight(r))
                            => members[req[r].member].status = "never"

\* The row of r's member holds r's registration, or was deleted since.
Registered(r) ==
    /\ req[r].member \in Members
    /\ LET row == members[req[r].member] IN
            \/ row.status = "deleted"
            \/ /\ row.status = "live" /\ row.entity = req[r].entity /\ row.key # NoKey
               /\ req[r].kind = "register" => row.key = req[r].key

\* What was answered ok, or is about to be, is in the database.
AnswersKept ==
    \A r \in Reqs : (\/ AnsweredOk(r) /\ req[r].kind \in {"register", "validateToken"}
                     \/ pc[r] \in Untagging) => Registered(r)

\* A validateToken that has passed its checks works on a member that exists or existed,
\* and that no answered register has created.
CheckPassed ==
    \A r \in Reqs : (req[r].kind = "validateToken" /\ InFlight(r) /\ pc[r] # "member") =>
        /\ members[req[r].member].status # "never"
        /\ \A s \in Reqs : (req[s].kind = "register" /\ AnsweredOk(s))
                              => req[r].member # req[s].member

\* A validateToken whose token was answered ok before it arrived does not pass the
\* checks: its member has a key or is deleted.
LateRefused ==
    \A r \in Reqs : (req[r].kind = "validateToken" /\ req[r].late) =>
        /\ pc[r] = "member" \/ (pc[r] = "done" /\ answer[r] # "ok")
        /\ req[r].member \in Members => \/ members[req[r].member].status = "deleted"
                                        \/ members[req[r].member].key # NoKey

IInv == /\ TypeOK /\ ReqInv /\ LockInv /\ RowInv
        /\ NoOrphanUsers /\ AnswersKept /\ CheckPassed /\ LateRefused

-----------------------------------------------------------------------------
(* Each action preserves it *)

\* AddEntity(e) preserves the inductive invariant.
LEMMA AddEntityPreserves ==
    ASSUME IInv, NEW e \in Entities, AddEntity(e)
    PROVE  IInv'
<1>0. /\ TypeOK /\ ReqInv /\ LockInv /\ RowInv
      /\ NoOrphanUsers /\ AnswersKept /\ CheckPassed /\ LateRefused
  BY DEF IInv
<1>1. TypeOK'
  BY <1>0 DEF AddEntity, TypeOK, txs
<1>2. ReqInv'
  BY <1>0 DEF AddEntity, ReqInv, txs
<1>3. LockInv'
  BY <1>0 DEF AddEntity, txs, InFlight, LockInv
<1>4. RowInv'
  BY <1>0 DEF AddEntity, txs, Live, InFlight, RowInv, UserBeforeMember, OneKeyPerEntity
<1>5. NoOrphanUsers'
  BY <1>0 DEF AddEntity, NoOrphanUsers
<1>6. AnswersKept'
  BY <1>0 DEF AddEntity, AnsweredOk, AnswersKept, Registered, Untagging
<1>7. CheckPassed'
  BY <1>0 DEF AddEntity, InFlight, AnsweredOk, CheckPassed
<1>8. LateRefused'
  BY <1>0 DEF AddEntity, LateRefused
<1> QED
  BY <1>1, <1>2, <1>3, <1>4, <1>5, <1>6, <1>7, <1>8 DEF IInv

\* CreateMembersWithTokens(e, S) preserves the inductive invariant.
LEMMA CreateMembersWithTokensPreserves ==
    ASSUME IInv, NEW e \in Entities, NEW S \in SUBSET Members, CreateMembersWithTokens(e, S)
    PROVE  IInv'
<1>0. /\ TypeOK /\ ReqInv /\ LockInv /\ RowInv
      /\ NoOrphanUsers /\ AnswersKept /\ CheckPassed /\ LateRefused
  BY DEF IInv
<1>1. TypeOK'
  BY <1>0 DEF CreateMembersWithTokens, TypeOK, Row, txs, LiveRow
<1>2. ReqInv'
  BY <1>0 DEF CreateMembersWithTokens, ReqInv, txs
<1>3. LockInv'
  BY <1>0 DEF CreateMembersWithTokens, txs, InFlight, LockInv
<1>4. RowInv'
  BY <1>0, RegistryAssumption
    DEF CreateMembersWithTokens, TypeOK, ReqInv, Steps, TxSteps, RegSteps, LinkSteps, txs,
        Live, InFlight, LiveRow, Fresh, RowInv, UserBeforeMember, OneKeyPerEntity,
        Untagging, Tagging
<1>5. NoOrphanUsers'
  BY <1>0 DEF CreateMembersWithTokens, NoOrphanUsers
<1>6. AnswersKept'
  BY <1>0 DEF CreateMembersWithTokens, AnsweredOk, Fresh, AnswersKept, Registered, Untagging
<1>7. CheckPassed'
  BY <1>0
    DEF CreateMembersWithTokens, TypeOK, ReqInv, Steps, TxSteps, RegSteps, LinkSteps,
        InFlight, AnsweredOk, LiveRow, CheckPassed, Untagging, Tagging
<1>8. LateRefused'
  BY <1>0 DEF CreateMembersWithTokens, Live, Fresh, LateRefused, RowInv
<1> QED
  BY <1>1, <1>2, <1>3, <1>4, <1>5, <1>6, <1>7, <1>8 DEF IInv

\* Delete(D) preserves the inductive invariant.
LEMMA DeletePreserves ==
    ASSUME IInv, NEW D \in SUBSET Members, \A m \in D : Live(m), Delete(D)
    PROVE  IInv'
<1>0. /\ TypeOK /\ ReqInv /\ LockInv /\ RowInv
      /\ NoOrphanUsers /\ AnswersKept /\ CheckPassed /\ LateRefused
  BY DEF IInv
<1>a. \A s \in Reqs : pc[s] = "commit" => req[s].member \notin D
  BY <1>0 DEF Delete, ReqInv, Locked
<1>b. \A n \in Members : members'[n] = IF n \in D THEN Absent("deleted") ELSE members[n]
  BY DEF Delete
<1>c. UNCHANGED <<entities, users, tags, linked, pc, req, txs, answer>>
  BY DEF Delete
<1>1. TypeOK'
  BY <1>0 DEF Delete, TypeOK, Row, txs, Absent
<1>2. ReqInv'
  BY <1>0 DEF Delete, ReqInv, txs
<1>3. LockInv'
  BY <1>0 DEF Delete, txs, InFlight, LockInv
<1>4. RowInv'
  <2>1. UserBeforeMember' /\ OneKeyPerEntity'
    BY <1>0, <1>b, <1>c DEF RowInv, UserBeforeMember, OneKeyPerEntity, Live, Absent, txs
  <2>2. \A s \in Reqs : (req[s].kind = "register" /\ InFlight(s)) => req[s].member \notin D
    BY <1>0, RegistryAssumption DEF RowInv, Live
  <2> QED
    BY <1>0, <1>a, <1>b, <1>c, <2>1, <2>2, SMTT(30)
      DEF TypeOK, Steps, LinkSteps, RowInv, Live, Absent, InFlight, ReqInv, RegSteps,
          TxSteps, txs, Untagging, Tagging
<1>5. NoOrphanUsers'
  BY <1>0 DEF Delete, NoOrphanUsers
<1>6. AnswersKept'
  BY <1>0 DEF Delete, AnsweredOk, Absent, AnswersKept, Registered, Untagging
<1>7. CheckPassed'
  BY <1>0
    DEF Delete, TypeOK, ReqInv, Steps, TxSteps, RegSteps, LinkSteps, InFlight, AnsweredOk,
        Absent, CheckPassed, Untagging, Tagging
<1>8. LateRefused'
  BY <1>0 DEF Delete, Absent, LateRefused
<1> QED
  BY <1>1, <1>2, <1>3, <1>4, <1>5, <1>6, <1>7, <1>8 DEF IInv

\* ValidateToken(r, e, m, k) preserves the inductive invariant.
LEMMA ValidateTokenPreserves ==
    ASSUME IInv, NEW r \in Reqs, NEW e \in Entities, NEW m \in Members \cup {NoMember},
           NEW k \in Keys, ValidateToken(r, e, m, k)
    PROVE  IInv'
<1>0. /\ TypeOK /\ ReqInv /\ LockInv /\ RowInv
      /\ NoOrphanUsers /\ AnswersKept /\ CheckPassed /\ LateRefused
  BY DEF IInv
<1> DEFINE nr == [NoRequest EXCEPT !.kind = "validateToken", !.entity = e, !.key = k,
                                   !.member = m, !.late = TokenAnswered(m)]
<1>a. TokenAnswered(m) \in BOOLEAN
  BY DEF TokenAnswered
<1>b. TokenAnswered(m) => \E s \in Reqs : /\ AnsweredOk(s) /\ req[s].member = m
                                          /\ req[s].kind = "validateToken"
  BY DEF TokenAnswered
<1>c. nr \in Request /\ nr.kind = "validateToken" /\ nr.entity = e /\ nr.key = k
      /\ nr.member = m /\ nr.late = TokenAnswered(m)
  <2> PICK late \in BOOLEAN : late = TokenAnswered(m)
    BY <1>a
  <2> QED
    BY DEF NoRequest, Request
<1>d. /\ pc[r] = "idle" /\ req' = [req EXCEPT ![r] = nr]
      /\ IF m = NoMember \/ e \notin entities THEN Answer(r, "error")
                                            ELSE Goto(r, "member") /\ UNCHANGED answer
      /\ UNCHANGED <<db, txs>>
  BY DEF ValidateToken
<1> HIDE DEF nr
<1>1. TypeOK'
  BY <1>0, <1>c, <1>d DEF TypeOK, Steps, db, txs, Goto, Answer
<1>2. ReqInv'
  BY <1>0, <1>b, <1>c, <1>d
    DEF TypeOK, ReqInv, TxSteps, RegSteps, LinkSteps, txs, Goto, Answer, Untagging, Tagging
<1>3. LockInv'
  BY <1>0, <1>b, <1>c, <1>d DEF TypeOK, db, txs, Goto, Answer, InFlight, LockInv
<1>4. RowInv'
  BY <1>0, <1>b, <1>c, <1>d
    DEF TypeOK, db, txs, Goto, Answer, Live, InFlight, RowInv, UserBeforeMember,
        OneKeyPerEntity
<1>5. NoOrphanUsers'
  BY <1>0, <1>b, <1>c, <1>d DEF db, NoOrphanUsers
<1>6. AnswersKept'
  BY <1>0, <1>b, <1>c, <1>d
    DEF TypeOK, db, Goto, Answer, AnsweredOk, AnswersKept, Registered, Untagging
<1>7. CheckPassed'
  BY <1>0, <1>b, <1>c, <1>d DEF TypeOK, db, Goto, Answer, InFlight, AnsweredOk, CheckPassed
<1>8. LateRefused'
  BY <1>0, <1>b, <1>c, <1>d
    DEF TypeOK, db, Goto, Answer, LateRefused, AnswersKept, Registered, Untagging
<1> QED
  BY <1>1, <1>2, <1>3, <1>4, <1>5, <1>6, <1>7, <1>8 DEF IInv

\* Register(r, e, m, k) preserves the inductive invariant.
LEMMA RegisterPreserves ==
    ASSUME IInv, NEW r \in Reqs, NEW e \in Entities, NEW m \in Members, NEW k \in Keys,
           Register(r, e, m, k)
    PROVE  IInv'
<1>0. /\ TypeOK /\ ReqInv /\ LockInv /\ RowInv
      /\ NoOrphanUsers /\ AnswersKept /\ CheckPassed /\ LateRefused
  BY DEF IInv
<1> DEFINE nr == [NoRequest EXCEPT !.kind = "register", !.entity = e, !.key = k, !.member = m]
<1>c. nr \in Request /\ nr.kind = "register" /\ nr.entity = e /\ nr.key = k /\ nr.member = m
  BY DEF NoRequest, Request
<1>d. /\ pc[r] = "idle" /\ Fresh(m) /\ req' = [req EXCEPT ![r] = nr]
      /\ Answer(r, "error") \/ (Goto(r, "user") /\ UNCHANGED answer)
      /\ UNCHANGED <<db, txs>>
  BY DEF Register
<1> HIDE DEF nr
<1>1. TypeOK'
  BY <1>0, <1>c, <1>d DEF TypeOK, Steps, db, txs, Goto, Answer
<1>2. ReqInv'
  BY <1>0, <1>c, <1>d DEF TypeOK, ReqInv, TxSteps, RegSteps, LinkSteps, txs, Goto,
        Answer, Untagging, Tagging
<1>3. LockInv'
  BY <1>0, <1>c, <1>d DEF TypeOK, db, txs, Goto, Answer, InFlight, Fresh, LockInv
<1>4. RowInv'
  BY <1>0, <1>c, <1>d
    DEF TypeOK, db, txs, Goto, Answer, Live, InFlight, Fresh, RowInv, UserBeforeMember,
        OneKeyPerEntity
<1>5. NoOrphanUsers'
  BY <1>0, <1>c, <1>d DEF db, NoOrphanUsers
<1>6. AnswersKept'
  BY <1>0, <1>c, <1>d DEF TypeOK, db, Goto, Answer, AnsweredOk, AnswersKept, Registered,
        Untagging
<1>7. CheckPassed'
  BY <1>0, <1>c, <1>d DEF TypeOK, db, Goto, Answer, InFlight, AnsweredOk, CheckPassed
<1>8. LateRefused'
  BY <1>0, <1>c, <1>d DEF TypeOK, db, Goto, Answer, LateRefused
<1> QED
  BY <1>1, <1>2, <1>3, <1>4, <1>5, <1>6, <1>7, <1>8 DEF IInv

\* SendValidationLinks(r, e, S) preserves the inductive invariant.
LEMMA SendValidationLinksPreserves ==
    ASSUME IInv, NEW r \in Reqs, NEW e \in Entities, NEW S \in SUBSET Members,
           SendValidationLinks(r, e, S)
    PROVE  IInv'
<1>0. /\ TypeOK /\ ReqInv /\ LockInv /\ RowInv
      /\ NoOrphanUsers /\ AnswersKept /\ CheckPassed /\ LateRefused
  BY DEF IInv
<1> DEFINE read == {m \in S : Live(m)}
           nr   == [NoRequest EXCEPT !.kind = "sendLinks", !.entity = e, !.ids = read,
                                     !.verified = SomeVerified(read)]
<1>a. read \in SUBSET Members /\ SomeVerified(read) \in BOOLEAN
  BY DEF SomeVerified
<1>d. /\ pc[r] = "idle" /\ req' = [req EXCEPT ![r] = nr]
      /\ \/ Answer(r, "error") \/ Answer(r, "ok")
         \/ Goto(r, "mail") /\ UNCHANGED answer
      /\ UNCHANGED <<db, txs>>
  BY DEF SendValidationLinks
<1>c. nr \in Request /\ nr.kind = "sendLinks" /\ nr.entity = e
  <2> HIDE DEF read
  <2> PICK v \in BOOLEAN : v = SomeVerified(read)
    BY <1>a
  <2> QED
    BY <1>a DEF NoRequest, Request
<1> HIDE DEF nr
<1>1. TypeOK'
  BY <1>0, <1>c, <1>d DEF TypeOK, Steps, db, txs, Goto, Answer
<1>2. ReqInv'
  BY <1>0, <1>c, <1>d DEF TypeOK, ReqInv, TxSteps, RegSteps, txs, Goto, Answer, Untagging
<1>3. LockInv'
  BY <1>0, <1>c, <1>d DEF TypeOK, db, txs, Goto, Answer, InFlight, LockInv
<1>4. RowInv'
  BY <1>0, <1>c, <1>d
    DEF TypeOK, db, txs, Goto, Answer, Live, InFlight, RowInv, UserBeforeMember,
        OneKeyPerEntity
<1>5. NoOrphanUsers'
  BY <1>0, <1>c, <1>d DEF db, NoOrphanUsers
<1>6. AnswersKept'
  BY <1>0, <1>c, <1>d DEF TypeOK, db, Goto, Answer, AnsweredOk, AnswersKept, Registered,
        Untagging
<1>7. CheckPassed'
  BY <1>0, <1>c, <1>d DEF TypeOK, db, Goto, Answer, InFlight, AnsweredOk, CheckPassed
<1>8. LateRefused'
  BY <1>0, <1>c, <1>d DEF TypeOK, db, Goto, Answer, LateRefused
<1> QED
  BY <1>1, <1>2, <1>3, <1>4, <1>5, <1>6, <1>7, <1>8 DEF IInv

\* ReadMember(r) preserves the inductive invariant.
LEMMA ReadMemberPreserves ==
    ASSUME IInv, NEW r \in Reqs, ReadMember(r)
    PROVE  IInv'
<1>0. /\ TypeOK /\ ReqInv /\ LockInv /\ RowInv
      /\ NoOrphanUsers /\ AnswersKept /\ CheckPassed /\ LateRefused
  BY DEF IInv
<1>1. TypeOK'
  BY <1>0 DEF ReadMember, TypeOK, Steps, db, txs, Goto, Answer
<1>2. ReqInv'
  BY <1>0 DEF ReadMember, TypeOK, ReqInv, TxSteps, RegSteps, LinkSteps, txs, Goto, Answer,
        Untagging, Tagging
<1>3. LockInv'
  BY <1>0 DEF ReadMember, TypeOK, db, txs, Goto, Answer, InFlight, LockInv
<1>4. RowInv'
  BY <1>0
    DEF ReadMember, TypeOK, db, txs, Goto, Answer, Live, InFlight, RowInv, UserBeforeMember,
        OneKeyPerEntity
<1>5. NoOrphanUsers'
  BY <1>0 DEF ReadMember, db, NoOrphanUsers
<1>6. AnswersKept'
  BY <1>0 DEF ReadMember, TypeOK, db, Goto, Answer, AnsweredOk, AnswersKept, Registered,
        Untagging
<1>7. CheckPassed'
  <2>1. /\ members' = members /\ req' = req
        /\ \A s \in Reqs : AnsweredOk(s)' => AnsweredOk(s)
        /\ \A s \in Reqs \ {r} : pc'[s] = pc[s]
    BY <1>0 DEF ReadMember, TypeOK, db, Goto, Answer, AnsweredOk
  <2>2. ASSUME InFlight(r)'
        PROVE  /\ members[req[r].member].status = "live"
               /\ members[req[r].member].key = NoKey
    BY <1>0, <2>2 DEF ReadMember, TypeOK, Goto, Answer, InFlight, LiveOf, Live
  <2>3. ASSUME NEW s \in Reqs, req[s].kind = "register", AnsweredOk(s),
               req[s].member = req[r].member
        PROVE  ~InFlight(r)'
    BY <1>0, <2>2, <2>3 DEF AnswersKept, Registered, Untagging
  <2>4. ASSUME NEW q \in Reqs, q # r, InFlight(q)', pc'[q] # "member"
        PROVE  InFlight(q) /\ pc[q] # "member"
    BY <2>1, <2>4 DEF InFlight
  <2> QED
    BY <1>0, <2>1, <2>2, <2>3, <2>4 DEF CheckPassed
<1>8. LateRefused'
  BY <1>0 DEF ReadMember, TypeOK, db, Goto, Answer, Live, LiveOf, LateRefused
<1> QED
  BY <1>1, <1>2, <1>3, <1>4, <1>5, <1>6, <1>7, <1>8 DEF IInv

\* BeginAndReadUser(r) preserves the inductive invariant.
LEMMA BeginAndReadUserPreserves ==
    ASSUME IInv, NEW r \in Reqs, BeginAndReadUser(r)
    PROVE  IInv'
<1>0. /\ TypeOK /\ ReqInv /\ LockInv /\ RowInv
      /\ NoOrphanUsers /\ AnswersKept /\ CheckPassed /\ LateRefused
  BY DEF IInv
<1>1. TypeOK'
  BY <1>0 DEF BeginAndReadUser, TypeOK, Steps, db, Goto
<1>2. ReqInv'
  BY <1>0 DEF BeginAndReadUser, TypeOK, ReqInv, TxSteps, RegSteps, LinkSteps, Goto,
        Untagging, Tagging
<1>3. LockInv'
  BY <1>0 DEF BeginAndReadUser, db, Goto, InFlight, LockInv
<1>4. RowInv'
  BY <1>0
    DEF BeginAndReadUser, db, Goto, Live, InFlight, RowInv, UserBeforeMember,
        OneKeyPerEntity
<1>5. NoOrphanUsers'
  BY <1>0 DEF BeginAndReadUser, db, NoOrphanUsers
<1>6. AnswersKept'
  BY <1>0 DEF BeginAndReadUser, db, Goto, AnsweredOk, AnswersKept, Registered, Untagging
<1>7. CheckPassed'
  BY <1>0 DEF BeginAndReadUser, db, Goto, InFlight, AnsweredOk, CheckPassed
<1>8. LateRefused'
  BY <1>0 DEF BeginAndReadUser, db, Goto, LateRefused
<1> QED
  BY <1>1, <1>2, <1>3, <1>4, <1>5, <1>6, <1>7, <1>8 DEF IInv

\* ReadUserFails(r) preserves the inductive invariant.
LEMMA ReadUserFailsPreserves ==
    ASSUME IInv, NEW r \in Reqs, ReadUserFails(r)
    PROVE  IInv'
<1>0. /\ TypeOK /\ ReqInv /\ LockInv /\ RowInv
      /\ NoOrphanUsers /\ AnswersKept /\ CheckPassed /\ LateRefused
  BY DEF IInv
<1>1. TypeOK'
  BY <1>0 DEF ReadUserFails, TypeOK, Steps, db, Goto, Answer
<1>2. ReqInv'
  BY <1>0 DEF ReadUserFails, TypeOK, ReqInv, RegSteps, LinkSteps, Goto, Answer,
        Untagging, Tagging
<1>3. LockInv'
  BY <1>0 DEF ReadUserFails, db, Goto, Answer, InFlight, LockInv
<1>4. RowInv'
  BY <1>0
    DEF ReadUserFails, db, Goto, Answer, Live, InFlight, RowInv, UserBeforeMember,
        OneKeyPerEntity
<1>5. NoOrphanUsers'
  BY <1>0 DEF ReadUserFails, db, NoOrphanUsers
<1>6. AnswersKept'
  BY <1>0 DEF ReadUserFails, TypeOK, db, Goto, Answer, AnsweredOk, AnswersKept, Registered,
        Untagging
<1>7. CheckPassed'
  BY <1>0 DEF ReadUserFails, TypeOK, db, Goto, Answer, InFlight, AnsweredOk, CheckPassed
<1>8. LateRefused'
  BY <1>0 DEF ReadUserFails, db, Goto, Answer, LateRefused
<1> QED
  BY <1>1, <1>2, <1>3, <1>4, <1>5, <1>6, <1>7, <1>8 DEF IInv

\* InsertUser(r) preserves the inductive invariant.
LEMMA InsertUserPreserves ==
    ASSUME IInv, NEW r \in Reqs, InsertUser(r)
    PROVE  IInv'
<1>0. /\ TypeOK /\ ReqInv /\ LockInv /\ RowInv
      /\ NoOrphanUsers /\ AnswersKept /\ CheckPassed /\ LateRefused
  BY DEF IInv
<1>1. TypeOK'
  <2>1. req[r].key \in Keys
    BY <1>0 DEF InsertUser, ReqInv, RegSteps, TxSteps, Untagging
  <2> QED
    BY <1>0, <2>1 DEF InsertUser, TypeOK, Steps, db, Goto, Answer, Rollback
<1>2. ReqInv'
  BY <1>0
    DEF InsertUser, TypeOK, ReqInv, TxSteps, RegSteps, LinkSteps, Goto, Answer, Rollback,
        Untagging, Tagging
<1>3. LockInv'
  <2>1. /\ users' = users /\ req' = req /\ NoKey \notin users /\ NoKey # req[r].key
        /\ newUser \in [Reqs -> Keys \cup {NoKey}] /\ pc \in [Reqs -> Steps]
    BY <1>0, RegistryAssumption DEF InsertUser, TypeOK, ReqInv, RegSteps, TxSteps, db, Untagging
  <2>2. \/ /\ req[r].key \in users /\ newUser' = [newUser EXCEPT ![r] = NoKey]
           /\ pc' = [pc EXCEPT ![r] = "done"]
        \/ /\ req[r].key \notin users /\ newUser' = [newUser EXCEPT ![r] = req[r].key]
           /\ pc' = [pc EXCEPT ![r] = "write"]
    BY DEF InsertUser, Answer, Goto, Rollback
  <2>3. \A q \in Reqs : newUser'[q] \notin users'
    BY <1>0, <2>1, <2>2 DEF LockInv
  <2>4. ASSUME NEW q \in Reqs, NEW s \in Reqs, q # s, newUser'[q] # NoKey
        PROVE  newUser'[q] # newUser'[s]
    BY <1>0, <2>1, <2>2, <2>4 DEF LockInv, InsertUser
  <2>5. \A q \in Reqs : /\ pc'[q] = "commit" => pc[q] = "commit"
                        /\ InFlight(q)' => InFlight(q)
    BY <2>1, <2>2 DEF InFlight, InsertUser
  <2> QED
    BY <1>0, <2>1, <2>3, <2>4, <2>5 DEF LockInv
<1>4. RowInv'
  BY <1>0, SMTT(30)
    DEF InsertUser, TypeOK, Steps, LinkSteps, db, Goto, Answer, Rollback, Live, InFlight,
        RowInv, UserBeforeMember, OneKeyPerEntity, Tagging
<1>5. NoOrphanUsers'
  BY <1>0 DEF InsertUser, db, NoOrphanUsers
<1>6. AnswersKept'
  BY <1>0 DEF InsertUser, TypeOK, db, Goto, Answer, AnsweredOk, AnswersKept, Registered,
        Untagging
<1>7. CheckPassed'
  BY <1>0
    DEF InsertUser, TypeOK, Steps, LinkSteps, db, Goto, Answer, InFlight, AnsweredOk,
        CheckPassed, Tagging
<1>8. LateRefused'
  BY <1>0 DEF InsertUser, TypeOK, db, Goto, Answer, LateRefused
<1> QED
  BY <1>1, <1>2, <1>3, <1>4, <1>5, <1>6, <1>7, <1>8 DEF IInv

\* UpdateMemberKey(r) preserves the inductive invariant.
LEMMA UpdateMemberKeyPreserves ==
    ASSUME IInv, NEW r \in Reqs, UpdateMemberKey(r)
    PROVE  IInv'
<1>0. /\ TypeOK /\ ReqInv /\ LockInv /\ RowInv
      /\ NoOrphanUsers /\ AnswersKept /\ CheckPassed /\ LateRefused
  BY DEF IInv
<1> DEFINE WriteMade ==
             /\ ~WriteWaits(r, req[r].member)
             /\ newRow' = [newRow EXCEPT ![r] = req[r].member]
             /\ Goto(r, "commit") /\ UNCHANGED <<newUser, openTx, answer>>
<1>b. (Answer(r, "error") /\ Rollback(r)) \/ WriteMade
  BY DEF UpdateMemberKey, WriteRow
<1>c. pc[r] = "write" /\ UNCHANGED <<db, req>>
  BY DEF UpdateMemberKey
<1>1. TypeOK'
  <2>1. req[r].member \in Members
    BY <1>0, <1>c DEF ReqInv, RegSteps, TxSteps, Untagging
  <2> QED
    BY <1>0, <1>b, <1>c, <2>1 DEF TypeOK, Steps, db, Goto, Answer, Rollback
<1>2. ReqInv'
  BY <1>0
    DEF UpdateMemberKey, TypeOK, ReqInv, TxSteps, RegSteps, LinkSteps, Goto, Answer,
        Rollback, WriteRow, Untagging, Tagging
<1>3. LockInv'
  <2>1. CASE Answer(r, "error") /\ Rollback(r)
    BY <1>0, <2>1, <1>c, RegistryAssumption
      DEF LockInv, ReqInv, TypeOK, Steps, db, Answer, Goto, Rollback, InFlight
  <2>2. CASE WriteMade
    <3>1. ASSUME NEW s \in Reqs, s # r, pc[s] = "commit"
          PROVE  /\ req[r].member # req[s].member
                 /\ req[r].entity = req[s].entity => req[r].key # req[s].key
      <4>1. newRow[s] = req[s].member /\ req[s].member # NoMember
        BY <1>0, <3>1, RegistryAssumption DEF ReqInv, RegSteps, TxSteps, Untagging
      <4> QED
        BY <2>2, <3>1, <4>1 DEF WriteWaits, Locked
    <3>2. /\ pc[r] = "write" /\ pc' = [pc EXCEPT ![r] = "commit"]
          /\ UNCHANGED <<users, req, newUser>>
      BY <1>c, <2>2 DEF Goto, db
    <3> QED
      BY <1>0, <3>1, <3>2 DEF LockInv, TypeOK, InFlight
  <2> QED
    BY <1>b, <2>1, <2>2
<1>4. RowInv'
  BY <1>0
    DEF UpdateMemberKey, TypeOK, Steps, LinkSteps, db, Goto, Answer, Rollback, Live, LiveOf,
        InFlight, RowInv, UserBeforeMember, OneKeyPerEntity, WriteRow, BreaksConstraint,
        Conflicts, Tagging
<1>5. NoOrphanUsers'
  BY <1>0 DEF UpdateMemberKey, db, NoOrphanUsers
<1>6. AnswersKept'
  BY <1>0
    DEF UpdateMemberKey, TypeOK, db, Goto, Answer, AnsweredOk, AnswersKept, Registered,
        WriteRow, Untagging
<1>7. CheckPassed'
  BY <1>0
    DEF UpdateMemberKey, TypeOK, Steps, LinkSteps, db, Goto, Answer, InFlight, AnsweredOk,
        CheckPassed, WriteRow, Tagging
<1>8. LateRefused'
  BY <1>0 DEF UpdateMemberKey, TypeOK, db, Goto, Answer, LateRefused, WriteRow
<1> QED
  BY <1>1, <1>2, <1>3, <1>4, <1>5, <1>6, <1>7, <1>8 DEF IInv

\* InsertMember(r) preserves the inductive invariant.
LEMMA InsertMemberPreserves ==
    ASSUME IInv, NEW r \in Reqs, InsertMember(r)
    PROVE  IInv'
<1>0. /\ TypeOK /\ ReqInv /\ LockInv /\ RowInv
      /\ NoOrphanUsers /\ AnswersKept /\ CheckPassed /\ LateRefused
  BY DEF IInv
<1> DEFINE WriteMade ==
             /\ ~WriteWaits(r, req[r].member)
             /\ newRow' = [newRow EXCEPT ![r] = req[r].member]
             /\ Goto(r, "commit") /\ UNCHANGED <<newUser, openTx, answer>>
<1>b. (Answer(r, "error") /\ Rollback(r)) \/ WriteMade
  BY DEF InsertMember, WriteRow
<1>c. pc[r] = "write" /\ UNCHANGED <<db, req>>
  BY DEF InsertMember
<1>1. TypeOK'
  <2>1. req[r].member \in Members
    BY <1>0, <1>c DEF ReqInv, RegSteps, TxSteps, Untagging
  <2> QED
    BY <1>0, <1>b, <1>c, <2>1 DEF TypeOK, Steps, db, Goto, Answer, Rollback
<1>2. ReqInv'
  BY <1>0
    DEF InsertMember, TypeOK, ReqInv, TxSteps, RegSteps, LinkSteps, Goto, Answer, Rollback,
        WriteRow, Untagging, Tagging
<1>3. LockInv'
  <2>1. CASE Answer(r, "error") /\ Rollback(r)
    BY <1>0, <2>1, <1>c, RegistryAssumption
      DEF LockInv, ReqInv, TypeOK, Steps, db, Answer, Goto, Rollback, InFlight
  <2>2. CASE WriteMade
    <3>1. ASSUME NEW s \in Reqs, s # r, pc[s] = "commit"
          PROVE  /\ req[r].member # req[s].member
                 /\ req[r].entity = req[s].entity => req[r].key # req[s].key
      <4>1. newRow[s] = req[s].member /\ req[s].member # NoMember
        BY <1>0, <3>1, RegistryAssumption DEF ReqInv, RegSteps, TxSteps, Untagging
      <4> QED
        BY <2>2, <3>1, <4>1 DEF WriteWaits, Locked
    <3>2. /\ pc[r] = "write" /\ pc' = [pc EXCEPT ![r] = "commit"]
          /\ UNCHANGED <<users, req, newUser>>
      BY <1>c, <2>2 DEF Goto, db
    <3> QED
      BY <1>0, <3>1, <3>2 DEF LockInv, TypeOK, InFlight
  <2> QED
    BY <1>b, <2>1, <2>2
<1>4. RowInv'
  BY <1>0, RegistryAssumption, SMTT(30)
    DEF InsertMember, TypeOK, ReqInv, Row, Request, Steps, TxSteps, RegSteps, LinkSteps, db,
        Goto, Answer, Rollback, Live, LiveOf, Locked, InFlight, RowInv, UserBeforeMember,
        OneKeyPerEntity, WriteRow, BreaksConstraint, Conflicts, Untagging, Tagging
<1>5. NoOrphanUsers'
  BY <1>0 DEF InsertMember, db, NoOrphanUsers
<1>6. AnswersKept'
  BY <1>0
    DEF InsertMember, TypeOK, db, Goto, Answer, AnsweredOk, AnswersKept, Registered,
        WriteRow, Untagging
<1>7. CheckPassed'
  BY <1>0
    DEF InsertMember, TypeOK, LinkSteps, db, Goto, Answer, InFlight, AnsweredOk,
        CheckPassed, WriteRow, Tagging
<1>8. LateRefused'
  BY <1>0 DEF InsertMember, TypeOK, db, Goto, Answer, LateRefused, WriteRow
<1> QED
  BY <1>1, <1>2, <1>3, <1>4, <1>5, <1>6, <1>7, <1>8 DEF IInv

\* Commit(r) preserves the inductive invariant.
LEMMA CommitPreserves ==
    ASSUME IInv, NEW r \in Reqs, Commit(r)
    PROVE  IInv'
<1>0. /\ TypeOK /\ ReqInv /\ LockInv /\ RowInv
      /\ NoOrphanUsers /\ AnswersKept /\ CheckPassed /\ LateRefused
  BY DEF IInv
<1>1. TypeOK'
  <2>1. /\ req[r].key \in Keys /\ req[r].entity \in Entities /\ req[r].member \in Members
        /\ newRow[r] = req[r].member
    BY <1>0 DEF Commit, ReqInv, RegSteps, TxSteps, Untagging
  <2>2. members' \in [Members -> Row]
    BY <1>0, <2>1 DEF Commit, Apply, TypeOK, Row, LiveRow
  <2> QED
    BY <1>0, <2>1, <2>2 DEF Commit, Apply, TypeOK, Steps, Goto, Answer, Rollback
<1>2. ReqInv'
  BY <1>0 DEF Commit, TypeOK, ReqInv, TxSteps, RegSteps, LinkSteps, Goto, Answer, Rollback,
        Untagging, Tagging
<1>3. LockInv'
  BY <1>0, RegistryAssumption
    DEF Commit, TypeOK, Goto, Answer, Rollback, InFlight, LockInv, Apply
<1>4. RowInv'
  BY <1>0, SMTT(30)
    DEF Commit, TypeOK, ReqInv, TxSteps, RegSteps, LinkSteps, Goto, Answer, Rollback, Live,
        InFlight, LiveRow, LockInv, RowInv, UserBeforeMember, OneKeyPerEntity, Apply,
        Untagging, Tagging
<1>5. NoOrphanUsers'
  BY <1>0 DEF Commit, ReqInv, NoOrphanUsers, Apply
<1>6. AnswersKept'
  BY <1>0, RegistryAssumption
    DEF Commit, TypeOK, ReqInv, TxSteps, RegSteps, Goto, Answer, Live, InFlight, AnsweredOk,
        LiveRow, AnswersKept, CheckPassed, Registered, RowInv, Apply, Untagging
<1>7. CheckPassed'
  BY <1>0
    DEF Commit, TypeOK, Steps, LinkSteps, Goto, Answer, InFlight, AnsweredOk, LiveRow,
        CheckPassed, RowInv, Apply, Tagging
<1>8. LateRefused'
  BY <1>0, <1>1, RegistryAssumption
    DEF Commit, TypeOK, ReqInv, Goto, Answer, Live, InFlight, LateRefused, RowInv, Apply
<1> QED
  BY <1>1, <1>2, <1>3, <1>4, <1>5, <1>6, <1>7, <1>8 DEF IInv

\* CommitUnknown(r) preserves the inductive invariant.
LEMMA CommitUnknownPreserves ==
    ASSUME IInv, NEW r \in Reqs, CommitUnknown(r)
    PROVE  IInv'
<1>0. /\ TypeOK /\ ReqInv /\ LockInv /\ RowInv
      /\ NoOrphanUsers /\ AnswersKept /\ CheckPassed /\ LateRefused
  BY DEF IInv
<1>1. TypeOK'
  BY <1>0, SMTT(30)
    DEF CommitUnknown, TypeOK, ReqInv, Row, Steps, TxSteps, RegSteps, LinkSteps, Goto,
        Answer, Rollback, LiveRow, Apply, Untagging, Tagging
<1>2. ReqInv'
  BY <1>0
    DEF CommitUnknown, TypeOK, ReqInv, TxSteps, RegSteps, LinkSteps, Goto, Answer, Rollback,
        Untagging, Tagging
<1>3. LockInv'
  BY <1>0, RegistryAssumption
    DEF CommitUnknown, TypeOK, Goto, Answer, Rollback, InFlight, LockInv, Apply
<1>4. RowInv'
  BY <1>0
    DEF CommitUnknown, TypeOK, ReqInv, TxSteps, RegSteps, Goto, Answer, Rollback, Live,
        InFlight, LiveRow, LockInv, RowInv, UserBeforeMember, OneKeyPerEntity, Apply, Untagging
<1>5. NoOrphanUsers'
  BY <1>0 DEF CommitUnknown, ReqInv, NoOrphanUsers, Apply
<1>6. AnswersKept'
  BY <1>0, RegistryAssumption
    DEF CommitUnknown, ReqInv, TxSteps, RegSteps, Goto, Answer, InFlight, AnsweredOk,
        AnswersKept, CheckPassed, Registered, RowInv, Apply, Untagging
<1>7. CheckPassed'
  BY <1>0
    DEF CommitUnknown, ReqInv, Goto, Answer, InFlight, AnsweredOk, CheckPassed, RowInv,
        Apply
<1>8. LateRefused'
  BY <1>0, <1>1, RegistryAssumption
    DEF CommitUnknown, TypeOK, ReqInv, Goto, Answer, Live, InFlight, LateRefused, RowInv,
        Apply
<1> QED
  BY <1>1, <1>2, <1>3, <1>4, <1>5, <1>6, <1>7, <1>8 DEF IInv

\* StatementFails(r) preserves the inductive invariant.
LEMMA StatementFailsPreserves ==
    ASSUME IInv, NEW r \in Reqs, StatementFails(r)
    PROVE  IInv'
<1>0. /\ TypeOK /\ ReqInv /\ LockInv /\ RowInv
      /\ NoOrphanUsers /\ AnswersKept /\ CheckPassed /\ LateRefused
  BY DEF IInv
<1>1. TypeOK'
  BY <1>0 DEF StatementFails, TypeOK, Steps, db, Goto, Answer, Rollback
<1>2. ReqInv'
  BY <1>0
    DEF StatementFails, TypeOK, ReqInv, TxSteps, RegSteps, LinkSteps, Goto, Answer, Rollback,
        Untagging, Tagging
<1>3. LockInv'
  BY <1>0, RegistryAssumption
    DEF StatementFails, TypeOK, db, Goto, Answer, Rollback, InFlight, LockInv
<1>4. RowInv'
  BY <1>0
    DEF StatementFails, TypeOK, db, Goto, Answer, Rollback, Live, InFlight, RowInv,
        UserBeforeMember, OneKeyPerEntity
<1>5. NoOrphanUsers'
  BY <1>0 DEF StatementFails, db, NoOrphanUsers
<1>6. AnswersKept'
  BY <1>0 DEF StatementFails, TypeOK, db, Goto, Answer, AnsweredOk, AnswersKept, Registered,
        Untagging
<1>7. CheckPassed'
  BY <1>0 DEF StatementFails, TypeOK, db, Goto, Answer, InFlight, AnsweredOk, CheckPassed
<1>8. LateRefused'
  BY <1>0 DEF StatementFails, TypeOK, db, Goto, Answer, LateRefused
<1> QED
  BY <1>1, <1>2, <1>3, <1>4, <1>5, <1>6, <1>7, <1>8 DEF IInv

\* MailsFail(r) preserves the inductive invariant.
LEMMA MailsFailPreserves ==
    ASSUME IInv, NEW r \in Reqs, MailsFail(r)
    PROVE  IInv'
<1>0. /\ TypeOK /\ ReqInv /\ LockInv /\ RowInv
      /\ NoOrphanUsers /\ AnswersKept /\ CheckPassed /\ LateRefused
  BY DEF IInv
<1>1. TypeOK'
  BY <1>0 DEF MailsFail, TypeOK, Steps, db, txs, Goto, Answer
<1>2. ReqInv'
  BY <1>0 DEF MailsFail, TypeOK, ReqInv, TxSteps, RegSteps, LinkSteps, txs, Goto, Answer,
        Untagging, Tagging
<1>3. LockInv'
  BY <1>0 DEF MailsFail, db, txs, Goto, Answer, InFlight, LockInv
<1>4. RowInv'
  BY <1>0
    DEF MailsFail, db, txs, Goto, Answer, Live, InFlight, RowInv, UserBeforeMember,
        OneKeyPerEntity
<1>5. NoOrphanUsers'
  BY <1>0 DEF MailsFail, db, NoOrphanUsers
<1>6. AnswersKept'
  BY <1>0 DEF MailsFail, TypeOK, db, Goto, Answer, AnsweredOk, AnswersKept, Registered,
        Untagging
<1>7. CheckPassed'
  BY <1>0 DEF MailsFail, TypeOK, db, Goto, Answer, InFlight, AnsweredOk, CheckPassed
<1>8. LateRefused'
  BY <1>0 DEF MailsFail, db, Goto, Answer, LateRefused
<1> QED
  BY <1>1, <1>2, <1>3, <1>4, <1>5, <1>6, <1>7, <1>8 DEF IInv

\* MailsSent(r, T) preserves the inductive invariant.
LEMMA MailsSentPreserves ==
    ASSUME IInv, NEW r \in Reqs, NEW T \in SUBSET Members, MailsSent(r, T)
    PROVE  IInv'
<1>0. /\ TypeOK /\ ReqInv /\ LockInv /\ RowInv
      /\ NoOrphanUsers /\ AnswersKept /\ CheckPassed /\ LateRefused
  BY DEF IInv
<1>1. TypeOK'
  <2> DEFINE nr == [req[r] EXCEPT !.ids = T]
  <2>1. req[r] \in Request /\ req' = [req EXCEPT ![r] = nr]
    BY <1>0 DEF MailsSent, TypeOK
  <2>2. nr \in Request
    BY <2>1 DEF Request
  <2> HIDE DEF nr
  <2> QED
    BY <1>0, <2>1, <2>2 DEF MailsSent, TypeOK, Steps, db, txs, Goto
<1>2. ReqInv'
  BY <1>0 DEF MailsSent, ReqInv, TxSteps, RegSteps, LinkSteps, txs, Goto, Untagging, Tagging
<1>3. LockInv'
  BY <1>0 DEF MailsSent, db, txs, Goto, InFlight, LockInv
<1>4. RowInv'
  BY <1>0
    DEF MailsSent, db, txs, Goto, Live, InFlight, RowInv, UserBeforeMember, OneKeyPerEntity
<1>5. NoOrphanUsers'
  BY <1>0 DEF MailsSent, db, NoOrphanUsers
<1>6. AnswersKept'
  BY <1>0 DEF MailsSent, db, Goto, AnsweredOk, AnswersKept, Registered, Untagging
<1>7. CheckPassed'
  BY <1>0 DEF MailsSent, db, Goto, InFlight, AnsweredOk, CheckPassed
<1>8. LateRefused'
  BY <1>0 DEF MailsSent, db, Goto, LateRefused
<1> QED
  BY <1>1, <1>2, <1>3, <1>4, <1>5, <1>6, <1>7, <1>8 DEF IInv

-----------------------------------------------------------------------------
(* The steps that read, add, give and take tags *)

\* What the requests ask for stays the same, and so do the rows but for the tags they carry.
SameArguments == \A s \in Reqs : /\ req'[s].kind = req[s].kind /\ req'[s].entity = req[s].entity
                                 /\ req'[s].key = req[s].key /\ req'[s].member = req[s].member
                                 /\ req'[s].late = req[s].late

SameRows == \A m \in Members : /\ members'[m].status = members[m].status
                               /\ members'[m].entity = members[m].entity
                               /\ members'[m].key = members[m].key

TagStep(r) == \/ ReadPendingTag(r) \/ CheckPendingTag(r) \/ RemovePendingTag(r)
              \/ TagFailureIgnored(r) \/ TagByName(r) \/ AddTag(r) \/ CheckTag(r)
              \/ AddTagToMembers(r) \/ TaggingFails(r)

\* What is common to these steps.
TagStepDone(r) ==
    /\ UNCHANGED <<entities, users, linked, txs>> /\ SameArguments /\ SameRows
    /\ \A s \in Reqs \ {r} : req'[s] = req[s]
    /\ \/ /\ pc[r] \in Untagging
          /\ Answer(r, "ok") \/ \E step \in Untagging : Goto(r, step) /\ UNCHANGED answer
       \/ /\ pc[r] \in Tagging
          /\ \/ \E a \in {"ok", "error"} : Answer(r, a)
             \/ \E step \in Tagging : Goto(r, step) /\ UNCHANGED answer

\* A handler that has looked a tag up, or added it, remembers it and nothing else.
LEMMA TagRemembered ==
    ASSUME TypeOK, NEW r \in Reqs, NEW t \in TagIds \cup {NoTag},
           req' = [req EXCEPT ![r].tag = t]
    PROVE  /\ req' \in [Reqs -> Request] /\ SameArguments /\ req'[r].tag = t
           /\ req'[r].ids = req[r].ids
           /\ \A s \in Reqs \ {r} : req'[s] = req[s]
<1> DEFINE nr == [req[r] EXCEPT !.tag = t]
<1>1. req \in [Reqs -> Request] /\ req' = [req EXCEPT ![r] = nr]
  BY DEF TypeOK
<1>2. /\ nr \in Request /\ nr.kind = req[r].kind /\ nr.entity = req[r].entity
      /\ nr.key = req[r].key /\ nr.member = req[r].member /\ nr.late = req[r].late
      /\ nr.tag = t /\ nr.ids = req[r].ids
  BY <1>1 DEF Request
<1> HIDE DEF nr
<1> QED
  BY <1>1, <1>2 DEF SameArguments

\* The rows after a tag is taken from the members in W.
LEMMA TagTaken ==
    ASSUME TypeOK, NEW W, NEW t,
           members' = [m \in Members |->
               IF m \in W THEN [members[m] EXCEPT !.pending = @ \ {t}] ELSE members[m]]
    PROVE  /\ members' \in [Members -> Row] /\ SameRows
           /\ \A m \in Members : members'[m].pending \subseteq members[m].pending
<1>1. ASSUME NEW m \in Members
      PROVE  /\ members'[m] \in Row /\ members'[m].status = members[m].status
             /\ members'[m].entity = members[m].entity /\ members'[m].key = members[m].key
             /\ members'[m].pending \subseteq members[m].pending
  <2>1. members[m] \in Row /\ members[m].pending \ {t} \in SUBSET TagIds
    BY DEF TypeOK, Row
  <2>2. CASE m \in W
    <3>1. members'[m] = [members[m] EXCEPT !.pending = members[m].pending \ {t}]
      BY <2>2
    <3>2. /\ members'[m] \in Row /\ members'[m].status = members[m].status
          /\ members'[m].entity = members[m].entity /\ members'[m].key = members[m].key
          /\ members'[m].pending = members[m].pending \ {t}
      BY <2>1, <3>1 DEF Row
    <3> QED
      BY <3>2
  <2>3. CASE m \notin W
    BY <2>1, <2>3
  <2> QED
    BY <2>2, <2>3
<1> QED
  BY <1>1 DEF SameRows

\* The rows after a tag is given to the members in W.
LEMMA TagGiven ==
    ASSUME TypeOK, NEW W, NEW t \in TagIds,
           members' = [m \in Members |->
               IF m \in W THEN [members[m] EXCEPT !.pending = @ \cup {t}] ELSE members[m]]
    PROVE  /\ members' \in [Members -> Row] /\ SameRows
           /\ \A m \in Members : members'[m].pending =
                  IF m \in W THEN members[m].pending \cup {t} ELSE members[m].pending
<1>1. ASSUME NEW m \in Members
      PROVE  /\ members'[m] \in Row /\ members'[m].status = members[m].status
             /\ members'[m].entity = members[m].entity /\ members'[m].key = members[m].key
             /\ members'[m].pending =
                    IF m \in W THEN members[m].pending \cup {t} ELSE members[m].pending
  <2>1. members[m] \in Row /\ members[m].pending \cup {t} \in SUBSET TagIds
    BY DEF TypeOK, Row
  <2>2. CASE m \in W
    <3>1. members'[m] = [members[m] EXCEPT !.pending = members[m].pending \cup {t}]
      BY <2>2
    <3>2. /\ members'[m] \in Row /\ members'[m].status = members[m].status
          /\ members'[m].entity = members[m].entity /\ members'[m].key = members[m].key
          /\ members'[m].pending = members[m].pending \cup {t}
      BY <2>1, <3>1 DEF Row
    <3> QED
      BY <2>2, <3>2
  <2>3. CASE m \notin W
    BY <2>1, <2>3
  <2> QED
    BY <2>2, <2>3
<1> QED
  BY <1>1 DEF SameRows

\* deleteTag takes a tag from members, and changes nothing else of them.
LEMMA DeleteTagShape ==
    ASSUME TypeOK, NEW e \in Entities, DeleteTag(e)
    PROVE  /\ UNCHANGED <<entities, users, linked, pc, req, txs, answer>>
           /\ members' \in [Members -> Row] /\ SameRows
           /\ \A m \in Members : members'[m].pending \subseteq members[m].pending
           /\ tags' = [tags EXCEPT ![e] = NoTag]
<1> DEFINE C == {m \in LiveOf(e) : tags[e] \in members[m].pending}
<1>1. /\ UNCHANGED <<entities, users, linked, pc, req, txs, answer>>
      /\ tags' = [tags EXCEPT ![e] = NoTag]
      /\ members' = [m \in Members |->
             IF m \in C THEN [members[m] EXCEPT !.pending = @ \ {tags[e]}] ELSE members[m]]
  BY DEF DeleteTag
<1> HIDE DEF C
<1> QED
  BY <1>1, TagTaken

\* validateToken takes the tag from its member, or leaves the members alone.
LEMMA RemovePendingTagShape ==
    ASSUME TypeOK, NEW r \in Reqs, RemovePendingTag(r)
    PROVE  /\ members' \in [Members -> Row] /\ SameRows
           /\ \A m \in Members : members'[m].pending \subseteq members[m].pending
<1>1. CASE UNCHANGED members
  BY <1>1 DEF TypeOK, SameRows
<1>2. CASE /\ req[r].member \in Members
           /\ members' = [members EXCEPT ![req[r].member].pending = @ \ {req[r].tag}]
  <2>1. members' = [m \in Members |-> IF m \in {req[r].member}
                       THEN [members[m] EXCEPT !.pending = @ \ {req[r].tag}] ELSE members[m]]
    BY <1>2 DEF TypeOK
  <2> QED
    BY <2>1, TagTaken
<1> QED
  BY <1>1, <1>2 DEF RemovePendingTag, LiveOf

\* sendValidationLinks gives the tag to members of its entity that it has mailed.
LEMMA AddTagToMembersShape ==
    ASSUME TypeOK, ReqInv, NEW r \in Reqs, AddTagToMembers(r)
    PROVE  /\ members' \in [Members -> Row] /\ SameRows
           /\ \A m \in Members : \A t \in members'[m].pending \ members[m].pending :
                  t = req[r].tag /\ m \in req[r].ids /\ members[m].entity = req[r].entity
<1> DEFINE W == {m \in req[r].ids \cap LiveOf(req[r].entity) : req[r].tag \notin members[m].pending}
<1>1. members' = [m \in Members |->
          IF m \in W THEN [members[m] EXCEPT !.pending = @ \cup {req[r].tag}] ELSE members[m]]
  BY DEF AddTagToMembers
<1>2. req[r].tag \in TagIds
  BY DEF AddTagToMembers, ReqInv
<1>3. \A m \in W : m \in req[r].ids /\ members[m].entity = req[r].entity
  BY DEF LiveOf
<1> HIDE DEF W
<1>4. /\ members' \in [Members -> Row] /\ SameRows
      /\ \A m \in Members : members'[m].pending =
             IF m \in W THEN members[m].pending \cup {req[r].tag} ELSE members[m].pending
  BY <1>1, <1>2, TagGiven
<1> QED
  BY <1>3, <1>4

\* Every step that reads, adds, gives or takes a tag has the common shape, keeps the types,
\* and gets to the point of tagging only with a tag.
LEMMA TagStepShape ==
    ASSUME TypeOK, ReqInv, NEW r \in Reqs, TagStep(r)
    PROVE  /\ TagStepDone(r)
           /\ members' \in [Members -> Row] /\ req' \in [Reqs -> Request]
           /\ tags' \in [Entities -> TagIds \cup {NoTag}]
           /\ pc'[r] \in {"tagCheck", "tagMembers"} => req'[r].tag \in TagIds
<1>0. /\ members \in [Members -> Row] /\ req \in [Reqs -> Request] /\ pc \in [Reqs -> Steps]
      /\ tags \in [Entities -> TagIds \cup {NoTag}]
  BY DEF TypeOK
<1>1. UNCHANGED members => SameRows
  BY DEF SameRows
<1>2. UNCHANGED req => SameArguments /\ \A s \in Reqs \ {r} : req'[s] = req[s]
  BY DEF SameArguments
<1>3. pc[r] \in Untagging \cup Tagging => req[r].entity \in Entities
  BY DEF ReqInv, RegSteps, LinkSteps, Untagging, Tagging
<1>4. CASE ReadPendingTag(r) \/ TagByName(r)
  <2>1. tags[req[r].entity] \in TagIds \cup {NoTag}
    BY <1>0, <1>3, <1>4 DEF ReadPendingTag, TagByName, Untagging, Tagging
  <2>2. /\ req' \in [Reqs -> Request] /\ SameArguments
        /\ req'[r].tag = tags[req[r].entity] /\ \A s \in Reqs \ {r} : req'[s] = req[s]
    BY <1>4, <2>1, TagRemembered DEF ReadPendingTag, TagByName
  <2>3. UNCHANGED <<entities, users, linked, txs, members, tags>>
    BY <1>4 DEF ReadPendingTag, TagByName, db
  <2>4. \/ pc[r] = "tagOf" /\ Answer(r, "ok")
        \/ pc[r] = "tagOf" /\ Goto(r, "untagCheck") /\ UNCHANGED answer
        \/ pc[r] = "tagByName" /\ Goto(r, "addTag") /\ UNCHANGED answer
        \/ /\ pc[r] = "tagByName" /\ Goto(r, "tagCheck") /\ UNCHANGED answer
           /\ tags[req[r].entity] # NoTag
    BY <1>4 DEF ReadPendingTag, TagByName
  <2>5. pc'[r] = "tagCheck" => tags[req[r].entity] # NoTag
    BY <1>0, <2>4 DEF Answer, Goto
  <2>6. pc'[r] # "tagMembers"
    BY <1>0, <2>4 DEF Answer, Goto
  <2> QED
    BY <1>0, <1>1, <2>1, <2>2, <2>3, <2>4, <2>5, <2>6 DEF TagStepDone, Untagging, Tagging
<1>5. CASE CheckPendingTag(r) \/ TagFailureIgnored(r) \/ TaggingFails(r) \/ CheckTag(r)
  <2>1. UNCHANGED <<entities, users, linked, txs, members, tags, req>>
    BY <1>5 DEF CheckPendingTag, TagFailureIgnored, TaggingFails, CheckTag, db
  <2>2. \/ pc[r] = "untagCheck" /\ Goto(r, "untag") /\ UNCHANGED answer
        \/ pc[r] \in Untagging /\ Answer(r, "ok")
        \/ pc[r] = "tagCheck" /\ Goto(r, "tagMembers") /\ UNCHANGED answer
        \/ pc[r] \in Tagging /\ Answer(r, "error")
    BY <1>5 DEF CheckPendingTag, TagFailureIgnored, TaggingFails, CheckTag, Untagging, Tagging
  <2>3. pc'[r] \in {"tagCheck", "tagMembers"} => pc[r] = "tagCheck"
    BY <1>0, <2>2 DEF Answer, Goto
  <2>4. pc[r] = "tagCheck" => req[r].tag \in TagIds
    BY DEF ReqInv
  <2>5. TagStepDone(r)
    BY <1>1, <1>2, <2>1, <2>2 DEF TagStepDone, Untagging, Tagging
  <2> QED
    BY <1>0, <2>1, <2>3, <2>4, <2>5
<1>6. CASE RemovePendingTag(r)
  <2>1. /\ UNCHANGED <<entities, users, tags, linked, req, txs>>
        /\ pc[r] = "untag" /\ Answer(r, "ok")
    BY <1>6 DEF RemovePendingTag
  <2>2. pc'[r] = "done"
    BY <1>0, <2>1 DEF Answer, Goto
  <2>3. members' \in [Members -> Row] /\ SameRows
    BY <1>6, RemovePendingTagShape
  <2> QED
    BY <1>0, <1>2, <2>1, <2>2, <2>3 DEF TagStepDone, Untagging
<1>7. CASE AddTagToMembers(r)
  <2>1. /\ UNCHANGED <<entities, users, tags, linked, req, txs>>
        /\ pc[r] = "tagMembers" /\ Answer(r, "ok")
    BY <1>7 DEF AddTagToMembers
  <2>2. pc'[r] = "done"
    BY <1>0, <2>1 DEF Answer, Goto
  <2>3. members' \in [Members -> Row] /\ SameRows
    BY <1>7, AddTagToMembersShape
  <2> QED
    BY <1>0, <1>2, <2>1, <2>2, <2>3 DEF TagStepDone, Tagging
<1>8. CASE AddTag(r)
  <2>1. /\ UNCHANGED <<entities, users, linked, txs, members>> /\ pc[r] = "addTag"
    BY <1>8 DEF AddTag
  <2>2. CASE Answer(r, "error") /\ UNCHANGED <<tags, req>>
    <3>1. pc'[r] = "done"
      BY <1>0, <2>2 DEF Answer, Goto
    <3> QED
      BY <1>0, <1>1, <1>2, <2>1, <2>2, <3>1 DEF TagStepDone, Tagging
  <2>3. CASE /\ tags' = [tags EXCEPT ![req[r].entity] = r]
             /\ req' = [req EXCEPT ![r].tag = r]
             /\ Goto(r, "tagCheck") /\ UNCHANGED answer
    <3>1. r \in TagIds
      BY DEF TagIds
    <3>2. /\ req' \in [Reqs -> Request] /\ SameArguments
          /\ req'[r].tag = r /\ \A s \in Reqs \ {r} : req'[s] = req[s]
      BY <2>3, <3>1, TagRemembered
    <3>3. tags' \in [Entities -> TagIds \cup {NoTag}]
      BY <1>0, <2>3, <3>1
    <3> QED
      BY <1>0, <1>1, <2>1, <2>3, <3>1, <3>2, <3>3 DEF TagStepDone, Tagging
  <2> QED
    BY <1>8, <2>2, <2>3 DEF AddTag
<1> QED
  BY <1>4, <1>5, <1>6, <1>7, <1>8 DEF TagStep

\* TagStep(r) preserves the inductive invariant.
LEMMA TagStepPreserves ==
    ASSUME IInv, NEW r \in Reqs, TagStep(r)
    PROVE  IInv'
<1>0. /\ TypeOK /\ ReqInv /\ LockInv /\ RowInv
      /\ NoOrphanUsers /\ AnswersKept /\ CheckPassed /\ LateRefused
  BY DEF IInv
<1>a. /\ TagStepDone(r)
      /\ members' \in [Members -> Row] /\ req' \in [Reqs -> Request]
      /\ tags' \in [Entities -> TagIds \cup {NoTag}]
      /\ pc'[r] \in {"tagCheck", "tagMembers"} => req'[r].tag \in TagIds
  BY <1>0, TagStepShape
<1>b. UNCHANGED <<entities, users, linked, newUser, newRow, openTx>> /\ SameArguments /\ SameRows
  BY <1>a DEF TagStepDone, txs
<1>c. /\ \A s \in Reqs \ {r} : pc'[s] = pc[s] /\ answer'[s] = answer[s] /\ req'[s] = req[s]
      /\ pc[r] \in Untagging \cup Tagging
      /\ \/ pc'[r] = "done" /\ (answer'[r] = "ok" \/ (answer'[r] = "error" /\ pc[r] \in Tagging))
         \/ pc[r] \in Untagging /\ pc'[r] \in Untagging /\ answer'[r] = answer[r]
         \/ pc[r] \in Tagging /\ pc'[r] \in Tagging /\ answer'[r] = answer[r]
  BY <1>0, <1>a DEF TagStepDone, TypeOK, Answer, Goto
<1>d. /\ \A s \in Reqs : /\ pc'[s] = "commit" <=> pc[s] = "commit"
                         /\ pc'[s] = "member" <=> pc[s] = "member"
                         /\ pc'[s] \in {"write", "commit"} <=> pc[s] \in {"write", "commit"}
                         /\ pc'[s] \in Untagging => pc[s] \in Untagging
                         /\ InFlight(s)' => InFlight(s)
  BY <1>c DEF InFlight, Untagging, Tagging
<1>e. /\ pc[r] \in Untagging => req[r].kind = "validateToken" /\ req[r].member \in Members
      /\ pc[r] \in Tagging => req[r].kind = "sendLinks"
  BY <1>0 DEF ReqInv, RegSteps, LinkSteps, Untagging, Tagging
<1>1. TypeOK'
  BY <1>0, <1>a, <1>b DEF TagStepDone, TypeOK, Steps, Untagging, Tagging, Answer, Goto
<1>2. ReqInv'
  <2> SUFFICES ASSUME NEW s \in Reqs PROVE ReqInv!(s)'
    BY DEF ReqInv
  <2> QED
    BY <1>0, <1>a, <1>b, <1>c
      DEF SameArguments, ReqInv, RegSteps, TxSteps, LinkSteps, Untagging, Tagging
<1>3. LockInv'
  BY <1>0, <1>b, <1>d DEF LockInv, SameArguments
<1>4. RowInv'
  <2>1. UserBeforeMember' /\ OneKeyPerEntity'
    BY <1>0, <1>b, <1>d DEF RowInv, UserBeforeMember, OneKeyPerEntity, Live, SameArguments, SameRows
  <2>2. \A s \in Reqs : (pc[s] = "commit" \/ (InFlight(s) /\ req[s].kind = "register"))
                               => req[s].member \in Members
    BY <1>0 DEF TypeOK, Steps, ReqInv, RegSteps, TxSteps, Untagging, Tagging, LinkSteps, InFlight
  <2> QED
    BY <1>0, <1>b, <1>d, <2>1, <2>2 DEF RowInv, Live, SameArguments, SameRows
<1>5. NoOrphanUsers'
  BY <1>0, <1>b DEF NoOrphanUsers
<1>6. AnswersKept'
  <2> SUFFICES ASSUME NEW s \in Reqs,
                      \/ AnsweredOk(s)' /\ req'[s].kind \in {"register", "validateToken"}
                      \/ pc'[s] \in Untagging
               PROVE  Registered(s)'
    BY DEF AnswersKept, Untagging
  <2>1. Registered(s)
    BY <1>0, <1>b, <1>c, <1>d, <1>e DEF AnswersKept, AnsweredOk, SameArguments, Untagging
  <2> QED
    BY <1>b, <2>1 DEF Registered, SameArguments, SameRows
<1>7. CheckPassed'
  <2>1. \A s \in Reqs : (req[s].kind = "register" /\ AnsweredOk(s)') => AnsweredOk(s)
    BY <1>c, <1>e DEF AnsweredOk
  <2>2. \A s \in Reqs : (req[s].kind = "validateToken" /\ InFlight(s)) => req[s].member \in Members
    BY <1>0 DEF TypeOK, Steps, ReqInv, RegSteps, TxSteps, Untagging, Tagging, LinkSteps, InFlight
  <2> QED
    BY <1>0, <1>b, <1>d, <2>1, <2>2 DEF CheckPassed, SameArguments, SameRows
<1>8. LateRefused'
  <2> SUFFICES ASSUME NEW s \in Reqs, req'[s].kind = "validateToken", req'[s].late
               PROVE  LateRefused!(s)!2'
    BY DEF LateRefused
  <2>1. s # r
    BY <1>0, <1>b, <1>c, <1>e DEF LateRefused, SameArguments, Untagging, Tagging
  <2> QED
    BY <1>0, <1>b, <1>c, <2>1 DEF LateRefused, SameArguments, SameRows
<1> QED
  BY <1>1, <1>2, <1>3, <1>4, <1>5, <1>6, <1>7, <1>8 DEF IInv

\* DeleteTag(e) preserves the inductive invariant.
LEMMA DeleteTagPreserves ==
    ASSUME IInv, NEW e \in Entities, DeleteTag(e)
    PROVE  IInv'
<1>0. /\ TypeOK /\ ReqInv /\ LockInv /\ RowInv
      /\ NoOrphanUsers /\ AnswersKept /\ CheckPassed /\ LateRefused
  BY DEF IInv
<1>a. /\ UNCHANGED <<entities, users, linked, pc, req, newUser, newRow, openTx, answer>>
      /\ members' \in [Members -> Row] /\ SameRows /\ tags' = [tags EXCEPT ![e] = NoTag]
  BY <1>0, DeleteTagShape DEF txs
<1>1. TypeOK'
  BY <1>0, <1>a DEF TypeOK
<1>2. ReqInv' /\ LockInv' /\ NoOrphanUsers'
  BY <1>0, <1>a DEF ReqInv, LockInv, InFlight, NoOrphanUsers
<1>3. RowInv'
  <2>1. UserBeforeMember' /\ OneKeyPerEntity'
    BY <1>0, <1>a DEF RowInv, UserBeforeMember, OneKeyPerEntity, Live, SameRows
  <2>2. \A s \in Reqs : (pc[s] = "commit" \/ (InFlight(s) /\ req[s].kind = "register"))
                               => req[s].member \in Members
    BY <1>0 DEF TypeOK, Steps, ReqInv, RegSteps, TxSteps, Untagging, Tagging, LinkSteps, InFlight
  <2> QED
    BY <1>0, <1>a, <2>1, <2>2 DEF RowInv, Live, SameRows, InFlight
<1>4. AnswersKept'
  BY <1>0, <1>a DEF AnswersKept, AnsweredOk, Registered, SameRows, Untagging
<1>5. CheckPassed'
  <2>1. \A s \in Reqs : (req[s].kind = "validateToken" /\ InFlight(s)) => req[s].member \in Members
    BY <1>0 DEF TypeOK, Steps, ReqInv, RegSteps, TxSteps, Untagging, Tagging, LinkSteps, InFlight
  <2> QED
    BY <1>0, <1>a, <2>1 DEF CheckPassed, InFlight, AnsweredOk, SameRows
<1>6. LateRefused'
  BY <1>0, <1>a DEF LateRefused, SameRows
<1> QED
  BY <1>1, <1>2, <1>3, <1>4, <1>5, <1>6 DEF IInv

\* Crash preserves the inductive invariant.
LEMMA CrashPreserves ==
    ASSUME IInv, Crash
    PROVE  IInv'
<1>0. /\ TypeOK /\ ReqInv /\ LockInv /\ RowInv
      /\ NoOrphanUsers /\ AnswersKept /\ CheckPassed /\ LateRefused
  BY DEF IInv
<1>1. TypeOK'
  BY <1>0 DEF Crash, TypeOK, Steps, db
<1>2. ReqInv'
  BY <1>0 DEF Crash, ReqInv, TxSteps, RegSteps, LinkSteps, InFlight, Untagging, Tagging
<1>3. LockInv'
  BY <1>0, <1>1, RegistryAssumption DEF Crash, TypeOK, InFlight, LockInv
<1>4. RowInv'
  BY <1>0 DEF Crash, db, Live, InFlight, RowInv, UserBeforeMember, OneKeyPerEntity
<1>5. NoOrphanUsers'
  BY <1>0 DEF Crash, db, NoOrphanUsers
<1>6. AnswersKept'
  BY <1>0 DEF Crash, db, AnsweredOk, AnswersKept, Registered, Untagging
<1>7. CheckPassed'
  BY <1>0 DEF Crash, InFlight, CheckPassed
<1>8. LateRefused'
  BY <1>0 DEF Crash, db, LateRefused
<1> QED
  BY <1>1, <1>2, <1>3, <1>4, <1>5, <1>6, <1>7, <1>8 DEF IInv

-----------------------------------------------------------------------------
(* The invariant holds *)

\* The empty database satisfies the inductive invariant.
LEMMA InitIInv == Init => IInv
<1> SUFFICES ASSUME Init PROVE IInv
  OBVIOUS
<1>1. TypeOK
  BY DEF Init, TypeOK, Row, Request, Steps, NoRequest, Absent, TagIds
<1>2. ReqInv
  BY DEF Init, ReqInv, RegSteps, TxSteps, LinkSteps, NoRequest, Untagging, Tagging
<1>3. LockInv
  BY DEF Init, LockInv, InFlight
<1>4. RowInv
  BY DEF Init, RowInv, UserBeforeMember, OneKeyPerEntity, Live, InFlight, Absent
<1>5. NoOrphanUsers /\ AnswersKept /\ CheckPassed /\ LateRefused
  BY DEF Init, NoOrphanUsers, AnswersKept, CheckPassed, LateRefused, AnsweredOk, InFlight,
         NoRequest, Untagging
<1> QED
  BY <1>1, <1>2, <1>3, <1>4, <1>5 DEF IInv

\* Every step of Registry preserves the inductive invariant.
LEMMA NextIInv == IInv /\ [Next]_vars => IInv'
<1> SUFFICES ASSUME IInv, [Next]_vars PROVE IInv'
  OBVIOUS
<1>1. CASE Admin
  <2> PICK e \in Entities :
        \/ AddEntity(e) \/ DeleteTag(e)
        \/ \E S \in SUBSET Members : CreateMembersWithTokens(e, S) \/ DeleteMembers(e, S)
        \/ \E K \in SUBSET Keys : DeleteMembersByKeys(e, K)
    BY <1>1 DEF Admin
  <2>1. CASE AddEntity(e)
    BY <2>1, AddEntityPreserves
  <2>2. ASSUME NEW S \in SUBSET Members, CreateMembersWithTokens(e, S) PROVE IInv'
    BY <2>2, CreateMembersWithTokensPreserves
  <2>3. ASSUME NEW S \in SUBSET Members, DeleteMembers(e, S) PROVE IInv'
    <3>1. S \cap LiveOf(e) \in SUBSET Members /\ \A m \in S \cap LiveOf(e) : Live(m)
      BY DEF LiveOf
    <3> QED
      BY <2>3, <3>1, DeletePreserves DEF DeleteMembers
  <2>4. ASSUME NEW K \in SUBSET Keys, DeleteMembersByKeys(e, K) PROVE IInv'
    <3> DEFINE D == {m \in LiveOf(e) : members[m].key \in K}
    <3>1. D \in SUBSET Members /\ \A m \in D : Live(m)
      BY DEF LiveOf
    <3>2. Delete(D)
      BY <2>4 DEF DeleteMembersByKeys
    <3> HIDE DEF D
    <3> QED
      BY <3>1, <3>2, DeletePreserves
  <2>5. CASE DeleteTag(e)
    BY <2>5, DeleteTagPreserves
  <2> QED
    BY <2>1, <2>2, <2>3, <2>4, <2>5
<1>2. ASSUME NEW r \in Reqs, Receive(r) PROVE IInv'
  BY <1>2, ValidateTokenPreserves, RegisterPreserves, SendValidationLinksPreserves
    DEF Receive
<1>3. ASSUME NEW r \in Reqs, Step(r) PROVE IInv'
  BY <1>3, ReadMemberPreserves, BeginAndReadUserPreserves, InsertUserPreserves,
     UpdateMemberKeyPreserves, InsertMemberPreserves, CommitPreserves,
     MailsSentPreserves, MailsFailPreserves, TagStepPreserves DEF Step, TagStep
<1>4. ASSUME NEW r \in Reqs, Fault(r) PROVE IInv'
  BY <1>4, ReadUserFailsPreserves, CommitUnknownPreserves, StatementFailsPreserves,
     TagStepPreserves DEF Fault, TagStep
<1>5. CASE Crash
  BY <1>5, CrashPreserves
<1>6. CASE UNCHANGED vars
  <2>1. TypeOK' /\ ReqInv' /\ LockInv'
    BY <1>6 DEF IInv, vars, TypeOK, ReqInv, LockInv, InFlight
  <2>2. RowInv'
    BY <1>6 DEF IInv, vars, RowInv, UserBeforeMember, OneKeyPerEntity, Live, InFlight
  <2>3. NoOrphanUsers' /\ AnswersKept' /\ CheckPassed' /\ LateRefused'
    BY <1>6 DEF IInv, vars, NoOrphanUsers, AnswersKept, CheckPassed, LateRefused,
                Registered, AnsweredOk, InFlight, Untagging
  <2> QED
    BY <2>1, <2>2, <2>3 DEF IInv
<1> QED
  BY <1>1, <1>2, <1>3, <1>4, <1>5, <1>6 DEF Next

\* The inductive invariant holds in every state of Registry.
THEOREM RegistryIInv == Spec => []IInv
  BY InitIInv, NextIInv, PTL DEF Spec

-----------------------------------------------------------------------------
(* What follows *)

\* Every variable of Registry keeps its type.
THEOREM RegistryTypeOK == Spec => []TypeOK
<1>1. IInv => TypeOK
  BY DEF IInv
<1> QED
  BY <1>1, RegistryIInv, PTL

\* The foreign key to users never refuses a registration, although the user is looked
\* up outside the transaction.
THEOREM UserAlwaysBeforeMember == Spec => []UserBeforeMember
<1>1. IInv => UserBeforeMember
  BY DEF IInv, RowInv
<1> QED
  BY <1>1, RegistryIInv, PTL

\* No entity ever has two members with one public key.
THEOREM KeysUniquePerEntity == Spec => []OneKeyPerEntity
<1>1. IInv => OneKeyPerEntity
  BY DEF IInv, RowInv
<1> QED
  BY <1>1, RegistryIInv, PTL

\* A registration that fails or dies half way leaves no user without a member.
THEOREM UsersAreLinked == Spec => []NoOrphanUsers
<1>1. IInv => NoOrphanUsers
  BY DEF IInv
<1> QED
  BY <1>1, RegistryIInv, PTL

\* A registration that was answered ok stays in the database until its member is
\* deleted.
THEOREM AnswersAreDurable == Spec => []OkIsDurable
<1>1. IInv => OkIsDurable
  BY DEF IInv, AnswersKept, OkIsDurable, Registered, Untagging
<1> QED
  BY <1>1, RegistryIInv, PTL

\* No request that arrives after a validateToken was answered ok validates the same
\* token again.
THEOREM NoLateReuse == Spec => []NoReuseAfterAnswer
<1>1. IInv => NoReuseAfterAnswer
  BY DEF IInv, LateRefused, NoReuseAfterAnswer, AnsweredOk
<1> QED
  BY <1>1, RegistryIInv, PTL

\* A request that is over holds no lock.
THEOREM NoLockAfterAnswer == Spec => []FinishedHoldsNothing
<1>1. IInv => FinishedHoldsNothing
  BY DEF IInv, ReqInv, FinishedHoldsNothing, TxSteps
<1> QED
  BY <1>1, RegistryIInv, PTL

\* The next statement of r, in or after its transaction, has to wait for that of s: for the
\* user s inserts, for the row of its member, or for the row that gets or has its key.
WaitsFor(r, s) ==
    \/ pc[r] = "insertUser" /\ newUser[s] = req[r].key
    \/ /\ pc[r] = "write" /\ newRow[s] # NoMember
       /\ \/ newRow[s] \in {req[r].member} \cup Conflicts(r, req[r].member)
          \/ req[s].entity = req[r].entity /\ req[s].key = req[r].key
    \/ pc[r] = "untag" /\ newRow[s] = req[r].member

\* Among any requests there is one that waits for none of them.
NoDeadlock == \A S \in SUBSET Reqs : S # {} => \E r \in S : \A s \in S : ~WaitsFor(r, s)

\* However many validateToken and register requests overlap, for whatever members and keys,
\* their transactions never wait for each other in a circle: both handlers write the user
\* before the member, and only one of each.
THEOREM RegistrationsNeverDeadlock == Spec => []NoDeadlock
<1>1. ASSUME IInv PROVE NoDeadlock
  <2> SUFFICES ASSUME NEW S \in SUBSET Reqs, S # {}
               PROVE  \E r \in S : \A s \in S : ~WaitsFor(r, s)
    BY DEF NoDeadlock
  <2>1. \A r \in S : newRow[r] = IF pc[r] = "commit" THEN req[r].member ELSE NoMember
    BY <1>1 DEF IInv, ReqInv
  <2>2. ASSUME NEW r \in S, NEW s \in S, pc[r] = "insertUser", pc[s] = "insertUser"
        PROVE  ~WaitsFor(r, s)
    <3>1. newUser[s] = NoKey /\ req[r].key \in Keys
      BY <1>1, <2>2 DEF IInv, ReqInv, RegSteps, TxSteps, Untagging
    <3> QED
      BY <2>2, <3>1, RegistryAssumption DEF WaitsFor
  <2>3. ASSUME NEW r \in S, NEW s \in S, pc[r] \in {"write", "untag"}, WaitsFor(r, s)
        PROVE  pc[s] = "commit"
    <3>1. req[r].member \in Members
      BY <1>1, <2>3 DEF IInv, ReqInv, RegSteps, TxSteps, Untagging
    <3> QED
      BY <2>1, <2>3, <3>1, RegistryAssumption DEF WaitsFor
  <2>4. CASE \E r \in S : pc[r] \notin {"insertUser", "write", "untag"}
    BY <2>4 DEF WaitsFor
  <2>5. CASE \A r \in S : pc[r] = "insertUser"
    BY <2>2, <2>5
  <2>6. CASE /\ \A r \in S : pc[r] \in {"insertUser", "write", "untag"}
             /\ \E r \in S : pc[r] # "insertUser"
    BY <2>3, <2>6
  <2> QED
    BY <2>4, <2>5, <2>6
<1> QED
  BY <1>1, RegistryIInv, PTL

\* No step brings a deleted member back.
THEOREM RevocationIsFinal == Spec => RevokedStaysRevoked
<1> DEFINE Kept == \A m \in Members : members[m].status = "deleted" => members'[m] = members[m]
<1>1. IInv /\ [Next]_vars => [Kept]_members
  <2> SUFFICES ASSUME IInv, Next, NEW m \in Members, members[m].status = "deleted"
               PROVE  members'[m] = members[m] \/ UNCHANGED members
    BY DEF vars
  <2> USE DEF db
  <2>0. TypeOK /\ ReqInv /\ RowInv
    BY DEF IInv
  <2>1. CASE Admin
    BY <2>1
      DEF Admin, AddEntity, CreateMembersWithTokens, DeleteMembers, DeleteMembersByKeys,
          Delete, DeleteTag, LiveOf, Live, Fresh
  <2>2. ASSUME NEW r \in Reqs, Receive(r) PROVE UNCHANGED members
    BY <2>2 DEF Receive, ValidateToken, Register, SendValidationLinks
  <2>3. ASSUME NEW r \in Reqs, pc[r] = "commit", Apply(r) PROVE members'[m] = members[m]
    <3>1. newRow[r] \in Members /\ members[newRow[r]].status # "deleted"
      BY <2>0, <2>3 DEF ReqInv, RowInv, RegSteps, TxSteps, Live, InFlight, Untagging
    <3> QED
      BY <2>0, <2>3, <3>1 DEF Apply, TypeOK
  <2>4. ASSUME NEW r \in Reqs, RemovePendingTag(r) PROVE members'[m] = members[m]
    BY <2>0, <2>4 DEF RemovePendingTag, LiveOf, Live, TypeOK
  <2>5. ASSUME NEW r \in Reqs, AddTagToMembers(r) PROVE members'[m] = members[m]
    BY <2>0, <2>5 DEF AddTagToMembers, LiveOf, Live, TypeOK
  <2>6. ASSUME NEW r \in Reqs, Step(r) PROVE members'[m] = members[m] \/ UNCHANGED members
    BY <2>3, <2>4, <2>5, <2>6 DEF Step, ReadMember, BeginAndReadUser, InsertUser,
       UpdateMemberKey, InsertMember, Commit, ReadPendingTag, CheckPendingTag, MailsSent,
       MailsFail, TagByName, AddTag, CheckTag
  <2>7. ASSUME NEW r \in Reqs, Fault(r) PROVE members'[m] = members[m] \/ UNCHANGED members
    BY <2>3, <2>7 DEF Fault, ReadUserFails, CommitUnknown, StatementFails,
       TagFailureIgnored, TaggingFails
  <2>8. CASE Crash
    BY <2>8 DEF Crash
  <2> QED
    BY <2>1, <2>2, <2>6, <2>7, <2>8 DEF Next
<1> QED
  BY <1>1, RegistryIInv, PTL DEF Spec, RevokedStaysRevoked
-----------------------------------------------------------------------------
(* Tags of members waiting for validation *)

\* The request that drew the id t was one of entity e.
TagOf(t, e) == /\ t \in Reqs /\ pc[t] # "idle"
               /\ req[t].kind = "sendLinks" /\ req[t].entity = e

\* Member m owes the tag t to request r, which is over: its arguments no longer change.
TaggedBy(m, t, r) == /\ pc[r] = "done" /\ req[r].kind = "sendLinks" /\ m \in req[r].ids
                     /\ req[r].entity = members[m].entity /\ req[r].tag = t

\* What OnlyOwnMembersTagged needs to be inductive: the tags in the table, and the ids that
\* requests about to tag members hold, whether or not those tags were deleted since, were
\* all drawn for the entity they are used for.
TagInv ==
    /\ \A m \in Members : \A t \in members[m].pending :
           TagOf(t, members[m].entity) /\ \E r \in Reqs : TaggedBy(m, t, r)
    /\ \A e \in Entities : tags[e] # NoTag => TagOf(tags[e], e)
    /\ \A r \in Reqs : pc[r] \in {"tagCheck", "tagMembers"} => TagOf(req[r].tag, req[r].entity)

\* No step takes a request back or changes whose it is, and none touches a request that is
\* over.
RequestsKept ==
    \A r \in Reqs :
        /\ pc[r] # "idle" => /\ pc'[r] # "idle" /\ req'[r].kind = req[r].kind
                             /\ req'[r].entity = req[r].entity
        /\ pc[r] = "done" => pc'[r] = "done" /\ req'[r] = req[r]

\* A step keeps TagInv when it tags no member and moves none that is tagged to another
\* entity, and the tags it adds or looks up are those of their entity.
LEMMA TagInvKept ==
    ASSUME TagInv, RequestsKept,
           \A e \in Entities : tags'[e] # NoTag => TagOf(tags'[e], e),
           \A r \in Reqs : pc'[r] \in {"tagCheck", "tagMembers"} =>
               TagOf(req'[r].tag, req'[r].entity),
           \A m \in Members : \A t \in members'[m].pending :
               t \in members[m].pending /\ members'[m].entity = members[m].entity
    PROVE  TagInv'
<1>1. ASSUME NEW t, NEW e, TagOf(t, e) PROVE TagOf(t, e)'
  BY <1>1 DEF TagOf, RequestsKept
<1>2. ASSUME NEW m \in Members, NEW t \in members'[m].pending
      PROVE  TagOf(t, members[m].entity)' /\ \E r \in Reqs : TaggedBy(m, t, r)'
  <2>1. /\ t \in members[m].pending /\ members'[m].entity = members[m].entity
        /\ TagOf(t, members[m].entity)
    BY DEF TagInv
  <2>2. PICK r \in Reqs : TaggedBy(m, t, r)
    BY <2>1 DEF TagInv
  <2>3. TaggedBy(m, t, r)'
    BY <2>1, <2>2 DEF TaggedBy, RequestsKept
  <2>4. TagOf(t, members[m].entity)'
    BY <2>1 DEF TagOf, RequestsKept
  <2> QED
    BY <2>3, <2>4
<1>3. \A e \in Entities : tags'[e] # NoTag => TagOf(tags[e], e)'
  BY DEF TagOf, RequestsKept
<1>4. \A r \in Reqs : pc'[r] \in {"tagCheck", "tagMembers"} => TagOf(req[r].tag, req[r].entity)'
  BY DEF TagOf, RequestsKept
<1> QED
  BY <1>2, <1>3, <1>4 DEF TagInv

\* Creating and deleting members, signing up and deleting the tag keep TagInv.
LEMMA AdminTagInv ==
    ASSUME TypeOK, TagInv, Admin
    PROVE  TagInv'
<1>1. UNCHANGED <<pc, req>>
  BY DEF Admin, AddEntity, CreateMembersWithTokens, DeleteMembers, DeleteMembersByKeys,
         Delete, DeleteTag
<1>2. RequestsKept
  BY <1>1 DEF RequestsKept
<1>3. \A e \in Entities : tags'[e] \in {tags[e], NoTag}
  BY DEF Admin, AddEntity, CreateMembersWithTokens, DeleteMembers, DeleteMembersByKeys,
         Delete, DeleteTag, TypeOK
<1>4. \A m \in Members : \A t \in members'[m].pending :
          t \in members[m].pending /\ members'[m].entity = members[m].entity
  <2>1. CASE \E e \in Entities : DeleteTag(e)
    BY <2>1, DeleteTagShape DEF SameRows
  <2>2. CASE \A m \in Members : members'[m].pending # {} => members'[m] = members[m]
    BY <2>2
  <2>3. (\A e \in Entities : ~DeleteTag(e)) =>
            \A m \in Members : members'[m].pending # {} => members'[m] = members[m]
    BY DEF Admin, AddEntity, CreateMembersWithTokens, DeleteMembers, DeleteMembersByKeys,
           Delete, LiveRow, Absent
  <2> QED
    BY <2>1, <2>2, <2>3
<1> QED
  BY <1>1, <1>2, <1>3, <1>4, TagInvKept DEF TagInv

\* The commit of a registration tags no member: register's row is new, validateToken's
\* only gets a key.
LEMMA ApplyTagInv ==
    ASSUME IInv, TagInv, NEW r \in Reqs, pc[r] = "commit", Apply(r), UNCHANGED req,
           NEW step \in {"done", "tagOf"}, Goto(r, step)
    PROVE  TagInv'
<1>0. TypeOK /\ ReqInv
  BY DEF IInv
<1>1. newRow[r] \in Members
  BY <1>0 DEF ReqInv, RegSteps, TxSteps, Untagging
<1>2. \A m \in Members : \A t \in members'[m].pending :
          t \in members[m].pending /\ members'[m].entity = members[m].entity
  <2>1. \A m \in Members : members[m] \in Row
    BY <1>0 DEF TypeOK
  <2> QED
    BY <1>0, <1>1, <2>1 DEF TypeOK, Apply, LiveRow, Row
<1>3. /\ RequestsKept
      /\ \A s \in Reqs : pc'[s] \in {"tagCheck", "tagMembers"} => pc[s] = pc'[s]
  BY <1>0 DEF TypeOK, Goto, RequestsKept
<1> QED
  BY <1>2, <1>3, TagInvKept DEF Apply, TagInv

\* Looking tags up, adding them, and taking them from members keeps TagInv: a tag that is
\* looked up is the entity's, and one that is added is drawn by a request of the entity.
LEMMA TagStepTagInv ==
    ASSUME IInv, TagInv, NEW r \in Reqs, TagStep(r), ~AddTagToMembers(r)
    PROVE  TagInv'
<1>0. TypeOK /\ ReqInv
  BY DEF IInv
<1>1. TagStepDone(r)
  BY <1>0, TagStepShape
<1>2. /\ pc[r] \in Untagging \cup Tagging /\ pc[r] \notin {"idle", "done"}
      /\ pc'[r] # "idle" /\ SameArguments
      /\ \A s \in Reqs \ {r} : pc'[s] = pc[s] /\ req'[s] = req[s]
  BY <1>0, <1>1 DEF TagStepDone, TypeOK, Answer, Goto, Untagging, Tagging
<1>3. RequestsKept
  BY <1>2 DEF RequestsKept, SameArguments
<1>4. \A m \in Members : \A t \in members'[m].pending :
          t \in members[m].pending /\ members'[m].entity = members[m].entity
  <2>1. CASE RemovePendingTag(r)
    BY <1>0, <2>1, RemovePendingTagShape DEF SameRows
  <2>2. CASE ~RemovePendingTag(r)
    BY <2>2 DEF TagStep, ReadPendingTag, CheckPendingTag, TagFailureIgnored, TagByName, AddTag,
                CheckTag, TaggingFails, db
  <2> QED
    BY <2>1, <2>2
<1>5. pc[r] \in Tagging => TagOf(r, req[r].entity)
  BY <1>0, <1>2 DEF ReqInv, LinkSteps, TagOf, Tagging
<1>6. \A e \in Entities : tags'[e] # NoTag => TagOf(tags'[e], e)
  <2>1. CASE AddTag(r)
    <3>1. req[r].entity \in Entities /\ TagOf(r, req[r].entity)
      BY <1>0, <1>5, <2>1 DEF AddTag, ReqInv, LinkSteps, Tagging
    <3>2. \A e \in Entities : tags'[e] = tags[e] \/ (tags'[e] = r /\ e = req[r].entity)
      BY <1>0, <2>1 DEF AddTag, TypeOK
    <3> QED
      BY <3>1, <3>2 DEF TagInv
  <2>2. CASE ~AddTag(r)
    <3>1. UNCHANGED tags
      BY <2>2 DEF TagStep, ReadPendingTag, CheckPendingTag, RemovePendingTag,
                  TagFailureIgnored, TagByName, CheckTag, TaggingFails, db
    <3> QED
      BY <3>1 DEF TagInv
  <2> QED
    BY <2>1, <2>2
<1>7. pc'[r] \in {"tagCheck", "tagMembers"} => TagOf(req'[r].tag, req'[r].entity)
  <2> SUFFICES ASSUME pc'[r] \in {"tagCheck", "tagMembers"}
               PROVE  TagOf(req'[r].tag, req[r].entity)
    BY <1>2 DEF SameArguments
  <2>1. TagByName(r) \/ AddTag(r) \/ CheckTag(r)
    BY <1>0 DEF TagStep, ReadPendingTag, CheckPendingTag, RemovePendingTag, TagFailureIgnored,
                TaggingFails, TypeOK, Answer, Goto
  <2>2. CASE TagByName(r)
    <3>1. req[r].entity \in Entities /\ tags[req[r].entity] \in TagIds \cup {NoTag}
      BY <1>0, <2>2 DEF TagByName, ReqInv, LinkSteps, Tagging, TypeOK
    <3>2. req'[r].tag = tags[req[r].entity]
      BY <1>0, <2>2, <3>1, TagRemembered DEF TagByName
    <3>3. tags[req[r].entity] # NoTag
      BY <1>0, <2>2 DEF TagByName, TypeOK, Goto
    <3> QED
      BY <3>1, <3>2, <3>3 DEF TagInv
  <2>3. CASE AddTag(r)
    <3>1. req' = [req EXCEPT ![r].tag = r] /\ pc[r] = "addTag"
      BY <1>0, <2>3 DEF AddTag, TypeOK, Answer, Goto
    <3>2. req'[r].tag = r
      BY <1>0, <3>1, TagRemembered DEF TagIds
    <3> QED
      BY <1>5, <3>1, <3>2 DEF Tagging
  <2>4. CASE CheckTag(r)
    BY <2>4 DEF CheckTag, TagInv
  <2> QED
    BY <2>1, <2>2, <2>3, <2>4
<1>8. \A s \in Reqs : pc'[s] \in {"tagCheck", "tagMembers"} => TagOf(req'[s].tag, req'[s].entity)
  BY <1>2, <1>7 DEF TagInv
<1> QED
  BY <1>3, <1>4, <1>6, <1>8, TagInvKept

\* sendValidationLinks tags members of the entity that asked, that it has mailed, with a tag
\* that was that entity's when it looked, and is over at that.
LEMMA AddTagToMembersTagInv ==
    ASSUME IInv, TagInv, NEW r \in Reqs, AddTagToMembers(r)
    PROVE  TagInv'
<1>0. TypeOK /\ ReqInv
  BY DEF IInv
<1>1. /\ UNCHANGED <<tags, req>> /\ pc[r] = "tagMembers" /\ pc' = [pc EXCEPT ![r] = "done"]
      /\ req[r].kind = "sendLinks" /\ TagOf(req[r].tag, req[r].entity)
  BY <1>0 DEF AddTagToMembers, Answer, Goto, ReqInv, LinkSteps, Tagging, TagInv
<1>2. /\ SameRows
      /\ \A m \in Members : \A t \in members'[m].pending \ members[m].pending :
             t = req[r].tag /\ m \in req[r].ids /\ members[m].entity = req[r].entity
  BY <1>0, AddTagToMembersShape
<1>3. pc \in [Reqs -> Steps] /\ RequestsKept
  BY <1>0, <1>1 DEF TypeOK, RequestsKept
<1>4. ASSUME NEW m \in Members, NEW t \in members'[m].pending
      PROVE  TagOf(t, members[m].entity)' /\ \E s \in Reqs : TaggedBy(m, t, s)'
  <2>0. members'[m].entity = members[m].entity
    BY <1>2 DEF SameRows
  <2>1. CASE t \notin members[m].pending
    <3>1. t = req[r].tag /\ m \in req[r].ids /\ members[m].entity = req[r].entity
      BY <1>2, <2>1
    <3>2. TaggedBy(m, t, r)'
      BY <1>1, <1>3, <2>0, <3>1 DEF TaggedBy
    <3>3. TagOf(t, members[m].entity)'
      BY <1>1, <1>3, <2>0, <3>1 DEF TagOf, RequestsKept
    <3> QED
      BY <3>2, <3>3
  <2>2. CASE t \in members[m].pending
    <3>1. PICK s \in Reqs : TaggedBy(m, t, s)
      BY <2>2 DEF TagInv
    <3>2. TaggedBy(m, t, s)'
      BY <1>3, <2>0, <3>1 DEF TaggedBy, RequestsKept
    <3>3. TagOf(t, members[m].entity)'
      BY <1>3, <2>0, <2>2 DEF TagInv, TagOf, RequestsKept
    <3> QED
      BY <3>2, <3>3
  <2> QED
    BY <2>1, <2>2
<1>5. \A e \in Entities : tags'[e] # NoTag => TagOf(tags[e], e)'
  BY <1>1, <1>3 DEF TagInv, TagOf, RequestsKept
<1>6. \A s \in Reqs : pc'[s] \in {"tagCheck", "tagMembers"} => TagOf(req[s].tag, req[s].entity)'
  BY <1>1, <1>3 DEF TagInv, TagOf, RequestsKept
<1> QED
  BY <1>4, <1>5, <1>6 DEF TagInv

\* Every other step of a request keeps TagInv: it touches no member and no tag, and the
\* request it moves is not over.
LEMMA OthersTagInv ==
    ASSUME IInv, TagInv, NEW r \in Reqs,
           \/ Receive(r) \/ ReadMember(r) \/ BeginAndReadUser(r) \/ InsertUser(r)
           \/ UpdateMemberKey(r) \/ InsertMember(r)
           \/ (\E T \in SUBSET Members : MailsSent(r, T)) \/ MailsFail(r)
           \/ ReadUserFails(r) \/ StatementFails(r)
    PROVE  TagInv'
<1>0. TypeOK /\ ReqInv
  BY DEF IInv
<1>1. UNCHANGED <<members, tags>>
  BY DEF Receive, ValidateToken, Register, SendValidationLinks, ReadMember,
         BeginAndReadUser, InsertUser, UpdateMemberKey, InsertMember,
         MailsSent, MailsFail, ReadUserFails, StatementFails, db
<1>2. /\ pc[r] # "done" /\ pc'[r] \notin {"idle", "tagCheck", "tagMembers"}
      /\ \A s \in Reqs \ {r} : pc'[s] = pc[s] /\ req'[s] = req[s]
  <2>0. pc \in [Reqs -> Steps] /\ req \in [Reqs -> Request]
    BY <1>0 DEF TypeOK
  <2>1. CASE Receive(r)
    <3>1. /\ pc[r] = "idle" /\ \E nr : req' = [req EXCEPT ![r] = nr]
          /\ \E step \in {"done", "member", "user", "mail"} : Goto(r, step)
      BY <2>1 DEF Receive, ValidateToken, Register, SendValidationLinks, Answer
    <3> QED
      BY <2>0, <3>1 DEF Goto
  <2>2. CASE (\E T \in SUBSET Members : MailsSent(r, T)) \/ MailsFail(r)
    BY <2>0, <2>2 DEF MailsSent, MailsFail, Goto, Answer
  <2> QED
    BY <2>0, <2>1, <2>2
      DEF ReadMember, BeginAndReadUser, InsertUser, UpdateMemberKey, InsertMember, WriteRow,
          ReadUserFails, StatementFails, Goto, Answer
<1>3. pc[r] # "idle" => req'[r].kind = req[r].kind /\ req'[r].entity = req[r].entity
  <2>1. CASE \E T \in SUBSET Members : MailsSent(r, T)
    BY <1>0, <2>1 DEF MailsSent, TypeOK, Request
  <2>2. CASE Receive(r)
    BY <2>2 DEF Receive, ValidateToken, Register, SendValidationLinks
  <2> QED
    BY <2>1, <2>2 DEF ReadMember, BeginAndReadUser, InsertUser, UpdateMemberKey, InsertMember,
         MailsFail, ReadUserFails, StatementFails
<1>4. RequestsKept
  BY <1>2, <1>3 DEF RequestsKept
<1> QED
  BY <1>1, <1>2, <1>4, TagInvKept DEF TagInv

\* Every step of Registry keeps TagInv.
LEMMA NextTagInv == IInv /\ TagInv /\ [Next]_vars => TagInv'
<1> SUFFICES ASSUME IInv, TagInv, [Next]_vars PROVE TagInv'
  OBVIOUS
<1>0. TypeOK
  BY DEF IInv
<1>1. CASE Admin
  BY <1>0, <1>1, AdminTagInv
<1>2. ASSUME NEW r \in Reqs, Receive(r) PROVE TagInv'
  BY <1>2, OthersTagInv
<1>3. ASSUME NEW r \in Reqs, Step(r) PROVE TagInv'
  <2>1. CASE Commit(r)
    BY <2>1, ApplyTagInv DEF Commit, Answer
  <2>2. CASE TagStep(r)
    BY <2>2, TagStepTagInv, AddTagToMembersTagInv
  <2> QED
    BY <1>3, <2>1, <2>2, OthersTagInv DEF Step, TagStep
<1>4. ASSUME NEW r \in Reqs, Fault(r) PROVE TagInv'
  <2>1. CASE CommitUnknown(r)
    BY <2>1, ApplyTagInv DEF CommitUnknown, Answer
  <2>2. CASE TagStep(r)
    BY <2>2, TagStepTagInv, AddTagToMembersTagInv
  <2> QED
    BY <1>4, <2>1, <2>2, OthersTagInv DEF Fault, TagStep
<1>5. CASE Crash
  <2>1. /\ UNCHANGED <<members, tags, req>> /\ RequestsKept
        /\ \A r \in Reqs : pc'[r] \notin {"tagCheck", "tagMembers"}
    BY <1>5 DEF Crash, InFlight, db, RequestsKept
  <2> QED
    BY <2>1, TagInvKept DEF TagInv
<1>6. CASE UNCHANGED vars
  <2>1. UNCHANGED <<members, tags, req, pc>> /\ RequestsKept
    BY <1>6 DEF vars, RequestsKept
  <2> QED
    BY <2>1, TagInvKept DEF TagInv
<1> QED
  BY <1>1, <1>2, <1>3, <1>4, <1>5, <1>6 DEF Next

\* Although sendValidationLinks reads members of other entities, and writes the id of a tag
\* that may have been deleted since it looked, it gives no member a tag of another entity:
\* every tag a member carries was drawn for its own entity and given to it by a request of
\* that entity that mailed it.
THEOREM TaggedAreOwn == Spec => []OnlyOwnMembersTagged
<1>1. Init => TagInv
  BY DEF Init, TagInv, Absent
<1>2. TagInv => OnlyOwnMembersTagged
  BY DEF TagInv, TagOf, TaggedBy, OnlyOwnMembersTagged
<1> QED
  BY <1>1, <1>2, NextTagInv, RegistryIInv, PTL DEF Spec

-----------------------------------------------------------------------------
(***************************************************************************)
(* Registry implements Enrolment: the initial states map to initial        *)
(* states, and every step of a handler, an administrator, a fault or a     *)
(* crash maps to a step of Enrolment or to none.                           *)
(***************************************************************************)

\* The entity of a registration in progress has signed up.
EntityKnown == \A r \in Reqs : pc[r] \in RegSteps => req[r].entity \in entities

\* A step of Enrolment, or none.
AbsStep == E!Next \/ UNCHANGED E!vars

-----------------------------------------------------------------------------
\* A step that leaves the roll, the users and the entities alone, and no request that
\* asks for enrolment further than before, does not show.
LEMMA Hidden ==
    ASSUME UNCHANGED <<entities, users>>, Roll' = Roll, Calls' = Calls, States' = States
    PROVE  AbsStep
  BY DEF AbsStep, E!vars

\* A step that changes no member but in the tag it carries leaves the roll alone.
LEMMA RollKept ==
    ASSUME SameRows
    PROVE  Roll' = Roll
  BY DEF Roll, SameRows

\* What a request asks for does not change unless its arguments do.
LEMMA CallsKept ==
    ASSUME SameArguments
    PROVE  Calls' = Calls /\ \A r \in Reqs : Enrols(r)' <=> Enrols(r)
  BY DEF Calls, Enrols, SameArguments

\* A step of one request within the part of a handler that its client cannot tell apart.
LEMMA StatesKept ==
    ASSUME TypeOK, SameArguments, UNCHANGED answer, NEW r \in Reqs, NEW step, Goto(r, step),
           \/ ~Enrols(r)
           \/ pc[r] \in {"member", "user"} \cup TxSteps /\ step \in {"member", "user"} \cup TxSteps
           \/ pc[r] \in Untagging /\ step \in Untagging
    PROVE  States' = States
  BY DEF States, Enrols, Goto, TypeOK, TxSteps, Untagging, SameArguments

\* A request in progress that ends without an ok fails in Enrolment too; one that only
\* mails links does not show.
LEMMA EndsWithError ==
    ASSUME TypeOK, ReqInv, UNCHANGED <<entities, users, members, req>>, NEW r \in Reqs,
           pc[r] \notin {"idle", "done"}, Answer(r, "error")
    PROVE  AbsStep
<1>1. Roll' = Roll
  BY DEF Roll
<1>2. Calls' = Calls
  BY CallsKept DEF SameArguments
<1>3. CASE Enrols(r)
  <2>1. States[r] \in {"open", "enrolled"}
    BY <1>3 DEF States
  <2>2. States' = [s \in Reqs |-> IF s \in {r} THEN "failed" ELSE States[s]]
    BY <1>3 DEF States, Enrols, Answer, Goto, TypeOK
  <2>3. E!Fail({r})
    BY <1>1, <1>2, <2>1, <2>2 DEF E!Fail
  <2> QED
    BY <2>3 DEF AbsStep, E!Next
<1>4. CASE ~Enrols(r)
  <2>1. States' = States
    BY <1>4 DEF States, Enrols, Answer, Goto, TypeOK
  <2> QED
    BY <1>1, <1>2, <2>1, Hidden
<1> QED
  BY <1>3, <1>4

-----------------------------------------------------------------------------
(* The entity of a registration in progress *)

\* No entity is forgotten, and a request looks its entity up before anything else.
LEMMA EntityStaysKnown ==
    ASSUME TypeOK, ReqInv, EntityKnown, [Next]_vars
    PROVE  EntityKnown'
<1> USE DEF EntityKnown, RegSteps, TxSteps, Untagging, Goto, Answer, db, txs
<1>1. CASE Admin
  BY <1>1 DEF Admin, AddEntity, CreateMembersWithTokens, DeleteMembers, DeleteMembersByKeys,
              Delete, DeleteTag
<1>2. ASSUME NEW r \in Reqs, Receive(r) PROVE EntityKnown'
  <2>1. UNCHANGED entities /\ \A s \in Reqs \ {r} : pc'[s] = pc[s] /\ req'[s] = req[s]
    BY <1>2, ZenonT(40) DEF Receive, ValidateToken, Register, SendValidationLinks, TypeOK
  <2>2. ASSUME NEW e \in Entities, NEW m \in Members \cup {NoMember}, NEW k \in Keys,
               ValidateToken(r, e, m, k) \/ Register(r, e, m, k)
        PROVE  pc'[r] = "done" \/ req'[r].entity \in entities
    <3>1. req'[r].entity = e
      BY <2>2, ZenonT(40) DEF ValidateToken, Register, TypeOK, NoRequest
    <3>2. pc'[r] = "done" \/ e \in entities
      BY <2>2 DEF ValidateToken, Register, TypeOK
    <3> QED
      BY <3>1, <3>2
  <2>3. ASSUME NEW e \in Entities, NEW S \in SUBSET Members, SendValidationLinks(r, e, S)
        PROVE  pc'[r] \in {"done", "mail"}
    BY <2>3 DEF SendValidationLinks, TypeOK
  <2> QED
    BY <1>2, <2>1, <2>2, <2>3 DEF Receive
<1>7. ASSUME NEW r \in Reqs, TagStep(r) PROVE EntityKnown'
  <2>1. TagStepDone(r)
    BY <1>7, TagStepShape
  <2> QED
    BY <2>1 DEF TagStepDone, SameArguments, TypeOK, Tagging
<1>3. ASSUME NEW r \in Reqs, Step(r) PROVE EntityKnown'
  <2> USE DEF TypeOK, ReqInv, LinkSteps
  <2>1. CASE ReadMember(r) \/ BeginAndReadUser(r) \/ InsertUser(r)
    BY <2>1 DEF ReadMember, BeginAndReadUser, InsertUser
  <2>2. CASE UpdateMemberKey(r) \/ InsertMember(r)
    BY <2>2 DEF UpdateMemberKey, InsertMember, WriteRow
  <2>3. CASE Commit(r)
    BY <2>3 DEF Commit, Apply
  <2>4. CASE (\E T \in SUBSET Members : MailsSent(r, T)) \/ MailsFail(r)
    BY <2>4 DEF MailsSent, MailsFail
  <2> QED
    BY <1>3, <1>7, <2>1, <2>2, <2>3, <2>4 DEF Step, TagStep
<1>4. ASSUME NEW r \in Reqs, Fault(r) PROVE EntityKnown'
  <2>1. CASE ReadUserFails(r) \/ CommitUnknown(r) \/ StatementFails(r)
    BY <2>1 DEF ReadUserFails, CommitUnknown, Apply, StatementFails, TypeOK
  <2> QED
    BY <1>4, <1>7, <2>1 DEF Fault, TagStep
<1>5. CASE Crash
  BY <1>5 DEF Crash, TypeOK, InFlight
<1>6. CASE UNCHANGED vars
  BY <1>6 DEF vars
<1> QED
  BY <1>1, <1>2, <1>3, <1>4, <1>5, <1>6 DEF Next

-----------------------------------------------------------------------------
(* Administrators *)

\* signUp is a Join, members with tokens are an Issue, a deletion of members is a Remove,
\* and the deletion of a tag does not show.
LEMMA AdminSimulated ==
    ASSUME IInv, Admin
    PROVE  AbsStep
<1>0. TypeOK /\ RowInv
  BY DEF IInv
<1> PICK e \in Entities :
        \/ AddEntity(e) \/ DeleteTag(e)
        \/ \E S \in SUBSET Members : CreateMembersWithTokens(e, S) \/ DeleteMembers(e, S)
        \/ \E K \in SUBSET Keys : DeleteMembersByKeys(e, K)
  BY DEF Admin
<1>1. CASE AddEntity(e)
  <2>1. Roll' = Roll /\ Calls' = Calls /\ States' = States
    BY <1>1 DEF AddEntity, Roll, Calls, States, Enrols
  <2>2. E!Join(e)
    BY <1>1, <2>1 DEF AddEntity, E!Join
  <2> QED
    BY <2>2 DEF AbsStep, E!Next
<1>2. ASSUME NEW S \in SUBSET Members, CreateMembersWithTokens(e, S) PROVE AbsStep
  <2>1. Calls' = Calls /\ States' = States
    BY <1>2 DEF CreateMembersWithTokens, Calls, States, Enrols
  <2>2. \A m \in S : Roll[m] = E!Free
    BY <1>0, <1>2 DEF CreateMembersWithTokens, Fresh, Roll, RowInv, Live, E!Free
  <2>3. Roll' = [m \in Members |-> IF m \in S THEN E!Entry(e, NoKey) ELSE Roll[m]]
    BY <1>2 DEF CreateMembersWithTokens, Roll, LiveRow, E!Entry
  <2>4. E!Issue(e, S)
    BY <1>2, <2>1, <2>2, <2>3 DEF CreateMembersWithTokens, E!Issue
  <2> QED
    BY <2>4 DEF AbsStep, E!Next
<1>3. ASSUME NEW D \in SUBSET LiveOf(e), Delete(D) PROVE AbsStep
  <2>1. Calls' = Calls /\ States' = States
    BY <1>3 DEF Delete, Calls, States, Enrols
  <2>2. D \in SUBSET Members /\ \A m \in D : Roll[m].status = "live" /\ Roll[m].entity = e
    BY DEF LiveOf, Live, Roll
  <2>3. Roll' = [m \in Members |-> IF m \in D THEN E!Removed ELSE Roll[m]]
    BY <1>3 DEF Delete, Roll, Absent, E!Removed
  <2>4. E!Remove(e, D)
    BY <1>3, <2>1, <2>2, <2>3 DEF Delete, E!Remove
  <2> QED
    BY <2>2, <2>4 DEF AbsStep, E!Next
<1>4. ASSUME NEW S \in SUBSET Members, DeleteMembers(e, S) PROVE AbsStep
  BY <1>3, <1>4 DEF DeleteMembers
<1>5. ASSUME NEW K \in SUBSET Keys, DeleteMembersByKeys(e, K) PROVE AbsStep
  <2> DEFINE D == {m \in LiveOf(e) : members[m].key \in K}
  <2>1. D \in SUBSET LiveOf(e) /\ Delete(D)
    BY <1>5 DEF DeleteMembersByKeys
  <2> HIDE DEF D
  <2> QED
    BY <2>1, <1>3
<1>6. CASE DeleteTag(e)
  <2>1. UNCHANGED <<entities, users, pc, req, answer>> /\ SameRows
    BY <1>0, <1>6, DeleteTagShape DEF txs
  <2>2. Calls' = Calls /\ States' = States
    BY <2>1 DEF Calls, States, Enrols
  <2> QED
    BY <2>1, <2>2, RollKept, Hidden
<1> QED
  BY <1>1, <1>2, <1>4, <1>5, <1>6

-----------------------------------------------------------------------------
(* Requests arrive *)

\* A validateToken or a register is an Ask; a sendValidationLinks does not show.
LEMMA ReceiveSimulated ==
    ASSUME IInv, NEW r \in Reqs, Receive(r)
    PROVE  AbsStep
<1>0. TypeOK /\ ReqInv
  BY DEF IInv
<1> PICK e \in Entities :
        \/ \E m \in Members \cup {NoMember}, k \in Keys : ValidateToken(r, e, m, k)
        \/ \E m \in Members, k \in Keys : Register(r, e, m, k)
        \/ \E S \in SUBSET Members : SendValidationLinks(r, e, S)
  BY DEF Receive
<1>1. ASSUME NEW kind \in {"validateToken", "register"}, NEW m \in Members \cup {NoMember},
             NEW k \in Keys, pc[r] = "idle",
             /\ req'[r].kind = kind /\ req'[r].entity = e
             /\ req'[r].key = k /\ req'[r].member = m
             /\ \A s \in Reqs \ {r} : req'[s] = req[s],
             \/ Answer(r, "error")
             \/ \E step \in {"member", "user"} : Goto(r, step) /\ UNCHANGED answer,
             UNCHANGED <<entities, users, members>>
      PROVE  AbsStep
  <2> DEFINE c == [new |-> kind = "register", entity |-> e, member |-> m, key |-> k]
  <2>1. Roll' = Roll
    BY <1>1 DEF Roll
  <2>3. c \in E!Call
    BY <1>1 DEF E!Call
  <2>4. Calls' = [Calls EXCEPT ![r] = c]
    BY <1>1 DEF Calls, Enrols
  <2>5. States[r] = "idle"
    BY <1>0, <1>1 DEF States, Enrols, ReqInv
  <2>6. \E s \in {"open", "failed"} : States' = [States EXCEPT ![r] = s]
    <3>1. CASE Answer(r, "error")
      <4>1. States' = [States EXCEPT ![r] = "failed"]
        BY <1>0, <1>1, <3>1 DEF States, Enrols, Answer, Goto, TypeOK
      <4> QED
        BY <4>1
    <3>2. ASSUME NEW step \in {"member", "user"}, Goto(r, step), UNCHANGED answer
          PROVE  States' = [States EXCEPT ![r] = "open"]
      BY <1>0, <1>1, <3>2 DEF States, Enrols, Goto, TypeOK
    <3> QED
      BY <1>1, <3>1, <3>2
  <2> HIDE DEF c
  <2>7. E!Ask(r)
    BY <1>1, <2>1, <2>3, <2>4, <2>5, <2>6 DEF E!Ask
  <2> QED
    BY <2>7 DEF AbsStep, E!Next
<1>2. ASSUME NEW m \in Members \cup {NoMember}, NEW k \in Keys, ValidateToken(r, e, m, k)
      PROVE  AbsStep
  <2>1. /\ req'[r].kind = "validateToken" /\ req'[r].entity = e
        /\ req'[r].key = k /\ req'[r].member = m
        /\ \A s \in Reqs \ {r} : req'[s] = req[s]
    BY <1>0, <1>2 DEF ValidateToken, TypeOK, NoRequest
  <2> QED
    BY <1>1, <1>2, <2>1 DEF ValidateToken, db
<1>3. ASSUME NEW m \in Members, NEW k \in Keys, Register(r, e, m, k)
      PROVE  AbsStep
  <2>1. /\ req'[r].kind = "register" /\ req'[r].entity = e
        /\ req'[r].key = k /\ req'[r].member = m
        /\ \A s \in Reqs \ {r} : req'[s] = req[s]
    BY <1>0, <1>3 DEF Register, TypeOK, NoRequest
  <2> QED
    BY <1>1, <1>3, <2>1 DEF Register, db
<1>4. ASSUME NEW S \in SUBSET Members, SendValidationLinks(r, e, S) PROVE AbsStep
  <2>1. /\ req'[r].kind = "sendLinks" /\ req[r].kind = "none"
        /\ \A s \in Reqs \ {r} : req'[s] = req[s] /\ pc'[s] = pc[s] /\ answer'[s] = answer[s]
    BY <1>0, <1>4, ZenonT(40) DEF SendValidationLinks, NoRequest, TypeOK, ReqInv, Answer, Goto
  <2>2. Calls' = Calls /\ States' = States
    BY <2>1 DEF Calls, States, Enrols
  <2>3. UNCHANGED <<entities, users>> /\ Roll' = Roll
    BY <1>4 DEF SendValidationLinks, db, Roll
  <2> QED
    BY <2>2, <2>3, Hidden
<1> QED
  BY <1>2, <1>3, <1>4

-----------------------------------------------------------------------------
(* The steps of a handler *)

\* Until the commit, a registration goes on unseen or fails.
LEMMA BeforeCommitSimulated ==
    ASSUME IInv, NEW r \in Reqs,
           \/ ReadMember(r) \/ BeginAndReadUser(r) \/ InsertUser(r)
           \/ UpdateMemberKey(r) \/ InsertMember(r) \/ ReadUserFails(r) \/ StatementFails(r)
    PROVE  AbsStep
<1>0. TypeOK /\ ReqInv
  BY DEF IInv
<1>1. UNCHANGED <<entities, users, members, req>>
  BY DEF ReadMember, BeginAndReadUser, InsertUser, UpdateMemberKey, InsertMember,
         ReadUserFails, StatementFails, db
<1>2. pc[r] \in {"member", "user"} \cup TxSteps
  BY DEF ReadMember, BeginAndReadUser, InsertUser, UpdateMemberKey, InsertMember,
         ReadUserFails, StatementFails, TxSteps
<1>3. \/ Answer(r, "error")
      \/ \E step \in {"member", "user"} \cup TxSteps : Goto(r, step) /\ UNCHANGED answer
  BY DEF ReadMember, BeginAndReadUser, InsertUser, UpdateMemberKey, InsertMember,
         ReadUserFails, StatementFails, WriteRow, TxSteps
<1>4. CASE Answer(r, "error")
  <2>1. pc[r] \notin {"idle", "done"}
    BY <1>2 DEF TxSteps
  <2> QED
    BY <1>0, <1>1, <1>4, <2>1, EndsWithError
<1>5. ASSUME NEW step \in {"member", "user"} \cup TxSteps, Goto(r, step), UNCHANGED answer
      PROVE  AbsStep
  <2>1. States' = States
    BY <1>0, <1>1, <1>2, <1>5, StatesKept DEF SameArguments
  <2>2. Calls' = Calls
    BY <1>1, CallsKept DEF SameArguments
  <2>3. Roll' = Roll
    BY <1>1 DEF Roll
  <2> QED
    BY <1>1, <2>1, <2>2, <2>3, Hidden
<1> QED
  BY <1>3, <1>4, <1>5

\* The commit is the one step in which a request takes effect, whether its handler
\* learns so or not.
LEMMA CommitSimulated ==
    ASSUME IInv, EntityKnown, NEW r \in Reqs, Commit(r) \/ CommitUnknown(r)
    PROVE  AbsStep
<1>0. TypeOK /\ ReqInv /\ RowInv
  BY DEF IInv
<1> DEFINE c == Calls[r]
<1>1. /\ pc[r] = "commit" /\ Apply(r) /\ UNCHANGED req
      /\ \/ \E a \in {"ok", "error"} : Answer(r, a)
         \/ Goto(r, "tagOf") /\ UNCHANGED answer
  BY DEF Commit, CommitUnknown
<1>2. /\ req[r].kind \in {"validateToken", "register"} /\ req[r].entity \in entities
      /\ req[r].key \in Keys /\ req[r].member \in Members /\ newRow[r] = req[r].member
      /\ newUser[r] \in {NoKey, req[r].key} /\ req[r].key \in users \cup {newUser[r]}
  BY <1>0, <1>1 DEF ReqInv, RegSteps, TxSteps, EntityKnown, RowInv, UserBeforeMember, Untagging
<1>3. /\ c.new = (req[r].kind = "register") /\ c.entity = req[r].entity
      /\ c.member = req[r].member /\ c.key = req[r].key
  BY <1>2 DEF Calls, Enrols
<1>4. Calls' = Calls
  BY <1>1, CallsKept DEF SameArguments
<1>5. States[r] = "open"
  BY <1>1, <1>2 DEF States, Enrols
<1>6. \E s \in {"enrolled", "ok", "failed"} : States' = [States EXCEPT ![r] = s]
  <2>1. ASSUME NEW a \in {"ok", "error"}, Answer(r, a)
        PROVE  States' = [States EXCEPT ![r] = IF a = "ok" THEN "ok" ELSE "failed"]
    BY <1>0, <1>1, <1>2, <2>1 DEF States, Enrols, Answer, Goto, TypeOK
  <2>2. ASSUME Goto(r, "tagOf"), UNCHANGED answer
        PROVE  States' = [States EXCEPT ![r] = "enrolled"]
    BY <1>0, <1>1, <1>2, <2>2 DEF States, Enrols, Goto, TypeOK
  <2> QED
    BY <1>1, <2>1, <2>2
<1>7. IF c.new THEN Roll[c.member] = E!Free
               ELSE Roll[c.member].status = "live" /\ Roll[c.member].entity = c.entity
  <2>1. CASE req[r].kind = "register"
    <3>1. members[req[r].member].status = "never"
      BY <1>0, <1>1, <2>1 DEF RowInv, InFlight
    <3> QED
      BY <1>0, <1>2, <1>3, <2>1, <3>1 DEF RowInv, Live, Roll, E!Free
  <2>2. CASE req[r].kind = "validateToken"
    BY <1>0, <1>1, <1>2, <1>3, <2>2 DEF RowInv, Live, Roll
  <2> QED
    BY <1>2, <2>1, <2>2
<1>8. \A m \in Members \ {c.member} :
         ~(Roll[m].status = "live" /\ Roll[m].entity = c.entity /\ Roll[m].key = c.key)
  BY <1>0, <1>1, <1>3 DEF RowInv, Live, Roll
<1>9. Roll' = [Roll EXCEPT ![c.member] = E!Entry(c.entity, c.key)]
  <2>1. \A m \in Members \ {c.member} : members'[m] = members[m]
    BY <1>0, <1>1, <1>2, <1>3 DEF Apply, TypeOK
  <2>2. /\ members'[c.member].status = "live" /\ members'[c.member].entity = c.entity
        /\ members'[c.member].key = c.key
    <3>1. CASE req[r].kind = "register"
      BY <1>0, <1>1, <1>2, <1>3, <3>1 DEF Apply, TypeOK, LiveRow
    <3>2. CASE req[r].kind = "validateToken"
      <4>1. Live(req[r].member) /\ members[req[r].member].entity = req[r].entity
        BY <1>0, <1>1, <3>2 DEF RowInv
      <4> QED
        BY <1>0, <1>1, <1>2, <1>3, <3>2, <4>1 DEF Apply, TypeOK, Row, Live
    <3> QED
      BY <1>2, <3>1, <3>2
  <2> QED
    BY <1>2, <1>3, <2>1, <2>2 DEF Roll, E!Entry
<1>10. users' = users \cup {c.key} /\ UNCHANGED entities
  <2>1. users' = users \cup {req[r].key}
    BY <1>1, <1>2, RegistryAssumption DEF Apply
  <2> QED
    BY <1>1, <1>3, <2>1 DEF Apply
<1> HIDE DEF c
<1>11. E!Enrol(r)
  BY <1>2, <1>3, <1>4, <1>5, <1>6, <1>7, <1>8, <1>9, <1>10 DEF E!Enrol, c
<1> QED
  BY <1>11 DEF AbsStep, E!Next

\* A request that has taken effect goes on unseen or is answered ok; tags are not on the
\* roll, and a request that mails links does not show.
LEMMA TagStepSimulated ==
    ASSUME IInv, NEW r \in Reqs, TagStep(r)
    PROVE  AbsStep
<1>0. TypeOK /\ ReqInv
  BY DEF IInv
<1>1. TagStepDone(r)
  BY <1>0, TagStepShape
<1>2. UNCHANGED <<entities, users>> /\ SameArguments
  BY <1>1 DEF TagStepDone
<1>3. Calls' = Calls
  BY <1>2, CallsKept
<1>4. Roll' = Roll
  BY <1>1, RollKept DEF TagStepDone
<1>5. CASE pc[r] \in Tagging
  <2>1. ~Enrols(r) /\ ~Enrols(r)'
    BY <1>0, <1>2, <1>5 DEF ReqInv, LinkSteps, Enrols, SameArguments, Tagging
  <2>2. \A s \in Reqs \ {r} : pc'[s] = pc[s] /\ answer'[s] = answer[s] /\ (Enrols(s)' <=> Enrols(s))
    BY <1>0, <1>1, <1>2, CallsKept DEF TagStepDone, TypeOK, Answer, Goto
  <2>3. States' = States
    BY <2>1, <2>2 DEF States
  <2> QED
    BY <1>2, <1>3, <1>4, <2>3, Hidden
<1>6. CASE pc[r] \in Untagging /\ Answer(r, "ok")
  <2>1. Enrols(r)
    BY <1>0, <1>6 DEF ReqInv, RegSteps, Enrols, Untagging
  <2>2. States[r] = "enrolled" /\ States' = [States EXCEPT ![r] = "ok"]
    BY <1>0, <1>2, <1>6, <2>1 DEF States, Enrols, Answer, Goto, TypeOK, SameArguments, Untagging
  <2>3. E!Confirm(r)
    BY <1>2, <1>3, <1>4, <2>2 DEF E!Confirm
  <2> QED
    BY <2>3 DEF AbsStep, E!Next
<1>7. ASSUME pc[r] \in Untagging, NEW step \in Untagging, Goto(r, step), UNCHANGED answer
      PROVE  AbsStep
  <2>1. States' = States
    BY <1>0, <1>2, <1>7, StatesKept
  <2> QED
    BY <1>2, <1>3, <1>4, <2>1, Hidden
<1> QED
  BY <1>1, <1>5, <1>6, <1>7 DEF TagStepDone

\* Mailing links does not show.
LEMMA MailsHidden ==
    ASSUME IInv, NEW r \in Reqs, (\E T \in SUBSET Members : MailsSent(r, T)) \/ MailsFail(r)
    PROVE  AbsStep
<1>0. TypeOK /\ ReqInv
  BY DEF IInv
<1>1. pc[r] = "mail" /\ UNCHANGED <<entities, users, members>>
  BY DEF MailsSent, MailsFail, db
<1>2. req[r].kind = "sendLinks" /\ req'[r].kind = "sendLinks"
  BY <1>0, <1>1 DEF MailsSent, MailsFail, ReqInv, LinkSteps, TypeOK, Request, Tagging
<1>3. \A s \in Reqs \ {r} : req'[s] = req[s] /\ pc'[s] = pc[s] /\ answer'[s] = answer[s]
  BY <1>0 DEF MailsSent, MailsFail, TypeOK, Answer, Goto
<1>4. Calls' = Calls /\ States' = States
  BY <1>2, <1>3 DEF Calls, States, Enrols
<1>5. Roll' = Roll
  BY <1>1 DEF Roll
<1> QED
  BY <1>1, <1>4, <1>5, Hidden

\* A crash fails every registration in progress at once.
LEMMA CrashSimulated ==
    ASSUME IInv, Crash
    PROVE  AbsStep
<1>0. TypeOK /\ ReqInv
  BY DEF IInv
<1> DEFINE R == {r \in Reqs : InFlight(r) /\ Enrols(r)}
<1>1. UNCHANGED <<entities, users, members, req>>
  BY DEF Crash, db
<1>2. Roll' = Roll
  BY <1>1 DEF Roll
<1>3. Calls' = Calls
  BY <1>1, CallsKept DEF SameArguments
<1>4. \A r \in R : States[r] \in {"open", "enrolled"}
  BY DEF States, InFlight
<1>5. States' = [r \in Reqs |-> IF r \in R THEN "failed" ELSE States[r]]
  BY <1>0, <1>1 DEF Crash, States, Enrols, InFlight, TypeOK
<1>6. CASE R = {}
  <2>1. States' = States
    BY <1>5, <1>6 DEF States
  <2> QED
    BY <1>1, <1>2, <1>3, <2>1, Hidden
<1>7. CASE R # {}
  <2>1. R \in SUBSET Reqs
    OBVIOUS
  <2> HIDE DEF R
  <2>2. E!Fail(R)
    BY <1>1, <1>2, <1>3, <1>4, <1>5, <1>7 DEF E!Fail
  <2> QED
    BY <2>1, <2>2 DEF AbsStep, E!Next
<1> QED
  BY <1>6, <1>7

-----------------------------------------------------------------------------
(* The refinement *)

\* The empty database is an empty roll, and no request has arrived.
LEMMA InitMaps == Init => E!Init /\ EntityKnown
<1> SUFFICES ASSUME Init PROVE E!Init /\ EntityKnown
  OBVIOUS
<1>1. EntityKnown
  BY DEF Init, EntityKnown, RegSteps, TxSteps, Untagging
<1>2. Roll = [m \in Members |-> E!Free]
  BY DEF Init, Roll, Absent, E!Free
<1>3. Calls = [r \in Reqs |-> E!NoCall] /\ States = [r \in Reqs |-> "idle"]
  BY DEF Init, Calls, States, Enrols, NoRequest, E!NoCall
<1> QED
  BY <1>1, <1>2, <1>3 DEF Init, E!Init

\* Every step of Registry is a step of Enrolment or none.
LEMMA NextMaps == IInv /\ EntityKnown /\ [Next]_vars => [E!Next]_(E!vars)
<1> SUFFICES ASSUME IInv, EntityKnown, [Next]_vars PROVE AbsStep
  BY DEF AbsStep
<1>1. CASE Admin
  BY <1>1, AdminSimulated
<1>2. ASSUME NEW r \in Reqs, Receive(r) PROVE AbsStep
  BY <1>2, ReceiveSimulated
<1>3. ASSUME NEW r \in Reqs, Step(r) PROVE AbsStep
  BY <1>3, BeforeCommitSimulated, CommitSimulated, TagStepSimulated, MailsHidden
     DEF Step, TagStep
<1>4. ASSUME NEW r \in Reqs, Fault(r) PROVE AbsStep
  BY <1>4, BeforeCommitSimulated, CommitSimulated, TagStepSimulated, MailsHidden
     DEF Fault, TagStep
<1>5. CASE Crash
  BY <1>5, CrashSimulated
<1>6. CASE UNCHANGED vars
  BY <1>6 DEF AbsStep, vars, E!vars, Roll, Calls, States, Enrols
<1> QED
  BY <1>1, <1>2, <1>3, <1>4, <1>5, <1>6 DEF Next

\* The handlers of the registry API implement atomic enrolment: whatever the interleaving,
\* the faults and the crashes, each registration takes effect at most once, in one step.
THEOREM RegistryImplementsEnrolment == Spec => ImplementsEnrolment
<1>1. Spec => [](IInv /\ EntityKnown)
  <2>1. IInv /\ EntityKnown /\ [Next]_vars => EntityKnown'
    BY EntityStaysKnown DEF IInv
  <2> QED
    BY <2>1, InitMaps, RegistryIInv, PTL DEF Spec
<1> QED
  BY <1>1, InitMaps, NextMaps, PTL DEF Spec, ImplementsEnrolment, E!Spec
=============================================================================
