-------------------------- MODULE OnboardingProofs --------------------------
(***************************************************************************)
(* The safety of Onboarding, for any entities, requests, lists of          *)
(* addresses and number of connections, with or without faults; and that   *)
(* of bulkInsert, which an import goes through, for any number of rows.    *)
(***************************************************************************)
EXTENDS Onboarding, BulkInsert, TLAPS

-----------------------------------------------------------------------------
(* The inductive invariant *)

\* What is known of a request from the step its handler is at: past AddEntity the entity is
\* stored, past AddTarget, unless a failure hit that statement, its target is too.
ReqInv(r) ==
    /\ pc[r] = "idle" <=> req[r].kind = "none"
    /\ IF pc[r] = "idle" THEN inserted[r] = 0 ELSE req[r].entity \in Entities
    /\ pc[r] = "begin" => req[r].kind \in {"signUp", "importMembers"}
    /\ pc[r] \in {"entity", "origins", "commitEntity", "target"} => req[r].kind = "signUp"
    /\ pc[r] = "details" => req[r].kind = "requestGas"
    /\ pc[r] = "gas" => req[r].kind \in {"signUp", "requestGas"}
    /\ pc[r] \in {"rows", "commitRows"} => req[r].kind = "importMembers"
    /\ pc[r] \in {"target", "gas"} => req[r].entity \in entities
    /\ (pc[r] = "gas" \/ AnsweredOk(r)) /\ req[r].kind = "signUp" =>
           /\ req[r].entity \in entities
           /\ r \notin hurt => req[r].entity \in targets
    /\ r \in conns => pc[r] \in {"entity", "origins", "commitEntity", "rows", "commitRows"}

\* A connection is stranded for the target of an entity by the request that stored it.
StrandInv ==
    /\ \A s \in stranded : /\ req[s[1]].kind = "signUp"
                           /\ s[2] = "target" => req[s[1]].entity \in targets
    /\ \A s, t \in stranded :
          (s[2] = "target" /\ t[2] = "target" /\ req[s[1]].entity = req[t[1]].entity) => s = t

\* The rows of r that are stored, by position.
Mine(r) == {x.n : x \in {y \in members : y.by = r}}

\* An import has nothing stored before its commit, and everything after it; its open
\* transaction holds the addresses of the first inserted[r] rows, none of them twice and
\* none of them stored.
ImportInv(r) ==
    /\ pc[r] # "done" => Mine(r) = {}
    /\ req[r].kind = "importMembers" =>
           /\ pc[r] # "done" => Len(req[r].list) > 0
           /\ pc[r] = "rows" => inserted[r] < Len(req[r].list)
           /\ pc[r] = "commitRows" => inserted[r] = Len(req[r].list)
           /\ pc[r] \notin {"rows", "commitRows"} => inserted[r] = 0
           /\ \A j, k \in 1..Len(req[r].list) :
                  (/\ j <= inserted[r] /\ k <= inserted[r]
                   /\ req[r].list[j] = req[r].list[k] /\ req[r].list[j] # NoMail) => j = k
           /\ Holding(r) \cap Stored(req[r].entity) = {}
           /\ Mine(r) \in {{}, 1..Len(req[r].list)}
           /\ AnsweredOk(r) => Mine(r) # {}
           /\ Mine(r) # {} => AnsweredOk(r) \/ r \in hurt

\* No two open imports of an entity hold the same address.
HeldOnce == \A r, s \in Reqs : r # s /\ req[r].entity = req[s].entity =>
                Holding(r) \cap Holding(s) = {}

MailInv == \A x, y \in members :
               (x.entity = y.entity /\ x.mail = y.mail /\ x.mail # NoMail) => x = y

ImportsInv == MailInv /\ HeldOnce /\ \A r \in Reqs : ImportInv(r)

OnboardingInv == /\ TypeOK /\ paid \subseteq entities /\ StrandInv /\ ImportsInv
                 /\ \A r \in Reqs : ReqInv(r)

-----------------------------------------------------------------------------
(* The addresses of an open import *)

\* Which addresses the transaction of r holds.
LEMMA HoldingIs ==
    \A r \in Reqs : \A g :
        g \in Holding(r) <=> /\ req[r].kind = "importMembers" /\ g # NoMail
                             /\ \E n \in 1..Len(req[r].list) :
                                    n <= inserted[r] /\ req[r].list[n] = g
<1> TAKE r \in Reqs
<1> TAKE g
<1> DEFINE row(n) == [entity |-> req[r].entity, mail |-> req[r].list[n], by |-> r, n |-> n]
           S == {x \in RowsOf(r) : x.n <= inserted[r]}
<1>1. \A x : x \in S <=> \E n \in 1..Len(req[r].list) : x = row(n) /\ n <= inserted[r]
  BY DEF RowsOf
<1>2. g \in MailsOf(S) <=> g # NoMail /\ \E x \in S : x.mail = g
  BY DEF MailsOf
<1>3. \A n : row(n).mail = req[r].list[n]
  OBVIOUS
<1> HIDE DEF S, row
<1>4. (\E x \in S : x.mail = g) <=>
      \E n \in 1..Len(req[r].list) : n <= inserted[r] /\ req[r].list[n] = g
  <2>1. ASSUME NEW x \in S, x.mail = g
        PROVE  \E n \in 1..Len(req[r].list) : n <= inserted[r] /\ req[r].list[n] = g
    BY <1>1, <1>3, <2>1
  <2>2. ASSUME NEW n \in 1..Len(req[r].list), n <= inserted[r], req[r].list[n] = g
        PROVE  \E x \in S : x.mail = g
    BY <1>1, <1>3, <2>2
  <2> QED
    BY <2>1, <2>2
<1> QED
  BY <1>2, <1>4 DEF Holding, S

LEMMA HoldingIsPrimed ==
    (\A r \in Reqs : \A g :
        g \in Holding(r) <=> /\ req[r].kind = "importMembers" /\ g # NoMail
                             /\ \E n \in 1..Len(req[r].list) :
                                    n <= inserted[r] /\ req[r].list[n] = g)'
BY HoldingIs, PTL

LEMMA HoldingKept ==
    ASSUME NEW r \in Reqs, req'[r] = req[r], inserted'[r] = inserted[r]
    PROVE  Holding(r)' = Holding(r)
<1>1. \A g : g \in Holding(r)' <=> g \in Holding(r)
  BY HoldingIs, HoldingIsPrimed
<1> QED
  BY <1>1

\* Which addresses are stored.
LEMMA StoredIs ==
    \A e, g : g \in Stored(e) <=> g # NoMail /\ \E x \in members : x.entity = e /\ x.mail = g
BY DEF Stored, MailsOf

LEMMA StoredIsPrimed ==
    (\A e, g : g \in Stored(e) <=> g # NoMail /\ \E x \in members : x.entity = e /\ x.mail = g)'
BY StoredIs, PTL

\* A transaction that has inserted nothing holds nothing.
LEMMA HoldsNothing ==
    ASSUME NEW r \in Reqs, inserted'[r] = 0
    PROVE  Holding(r)' = {}
<1>1. ASSUME NEW g, g \in Holding(r)' PROVE FALSE
  <2>1. PICK n \in 1..Len(req'[r].list) : n <= inserted'[r]
    BY <1>1, HoldingIsPrimed
  <2> QED
    BY <2>1
<1> QED
  BY <1>1

-----------------------------------------------------------------------------
(* A step of one request *)

\* The only request that changes in this step is r, which is not over.
Only(r) ==
    /\ pc[r] # "done"
    /\ \A q \in Reqs : q # r => /\ pc'[q] = pc[q] /\ req'[q] = req[q] /\ answer'[q] = answer[q]
                                /\ inserted'[q] = inserted[q]
                                /\ q \in hurt' <=> q \in hurt
                                /\ q \in conns' <=> q \in conns
    /\ pc[r] # "idle" => req'[r] = req[r]

\* What is left to show of a step of r that only adds to the tables.
LEMMA OneStep ==
    ASSUME OnboardingInv, NEW r \in Reqs, Only(r), TypeOK', ReqInv(r)', StrandInv', ImportsInv',
           entities \subseteq entities', targets \subseteq targets', paid' \subseteq entities'
    PROVE  OnboardingInv'
<1> SUFFICES ASSUME NEW q \in Reqs, q # r PROVE ReqInv(q)'
  BY DEF OnboardingInv
<1>1. ReqInv(q)
  BY DEF OnboardingInv
<1>2. /\ pc'[q] = pc[q] /\ req'[q] = req[q] /\ answer'[q] = answer[q]
      /\ inserted'[q] = inserted[q]
      /\ q \in hurt' <=> q \in hurt
      /\ q \in conns' <=> q \in conns
  BY DEF Only
<1> QED
  BY <1>1, <1>2 DEF ReqInv, AnsweredOk

\* A step that stores no member, after which r holds no addresses.
LEMMA ImportsKept ==
    ASSUME OnboardingInv, NEW r \in Reqs, Only(r), members' = members,
           req'[r].kind = "importMembers" =>
               /\ pc'[r] # "done" => Len(req'[r].list) > 0 /\ pc'[r] # "commitRows"
               /\ inserted'[r] = 0 /\ ~AnsweredOk(r)'
    PROVE  ImportsInv'
<1>0. TypeOK /\ ImportsInv
  BY DEF OnboardingInv
<1>1. \A q \in Reqs : Mine(q)' = Mine(q) /\ \A e : Stored(e)' = Stored(e)
  BY DEF Mine, Stored, MailsOf
<1>2. Holding(r)' = {}
  <2>1. CASE req'[r].kind = "importMembers"
    BY <2>1, HoldsNothing
  <2>2. CASE req'[r].kind # "importMembers"
    BY <2>2 DEF Holding
  <2> QED
    BY <2>1, <2>2
<1>3. \A q \in Reqs : q # r => Holding(q)' = Holding(q)
  BY HoldingKept DEF Only
<1>4. HeldOnce'
  <2> SUFFICES ASSUME NEW q \in Reqs, NEW s \in Reqs, q # s, req'[q].entity = req'[s].entity
               PROVE  Holding(q)' \cap Holding(s)' = {}
    BY DEF HeldOnce
  <2>1. CASE q = r \/ s = r
    BY <1>2, <2>1
  <2>2. CASE q # r /\ s # r
    BY <1>0, <1>3, <2>2 DEF Only, ImportsInv, HeldOnce
  <2> QED
    BY <2>1, <2>2
<1>5. MailInv'
  BY <1>0 DEF ImportsInv, MailInv
<1>6. ASSUME NEW q \in Reqs, q # r PROVE ImportInv(q)'
  <2>1. ImportInv(q)
    BY <1>0 DEF ImportsInv
  <2>2. /\ pc'[q] = pc[q] /\ req'[q] = req[q] /\ answer'[q] = answer[q]
        /\ inserted'[q] = inserted[q]
        /\ q \in hurt' <=> q \in hurt
    BY <1>6 DEF Only
  <2> QED
    BY <1>1, <1>3, <1>6, <2>1, <2>2 DEF ImportInv, AnsweredOk
<1>7. ImportInv(r)'
  <2>1. Mine(r)' = {}
    BY <1>0, <1>1 DEF ImportsInv, ImportInv, Only
  <2>2. \A n \in 1..Len(req'[r].list) : inserted'[r] = 0 => ~(n <= inserted'[r])
    OBVIOUS
  <2> QED
    BY <1>2, <2>1, <2>2 DEF ImportInv, AnsweredOk
<1> QED
  BY <1>4, <1>5, <1>6, <1>7 DEF ImportsInv

\* A step that leaves the targets and the stranded connections alone.
LEMMA StrandKept ==
    ASSUME OnboardingInv, NEW r \in Reqs, Only(r), targets \subseteq targets',
           stranded' = stranded \/ (stranded' = stranded \cup {<<r, "entity">>} /\ req'[r].kind = "signUp")
    PROVE  StrandInv'
<1>0. StrandInv /\ stranded \subseteq Reqs \X {"entity", "target"}
  BY DEF OnboardingInv, TypeOK
<1>1. \A s \in stranded : req'[s[1]] = req[s[1]]
  <2> SUFFICES ASSUME NEW s \in stranded PROVE req'[s[1]] = req[s[1]]
    OBVIOUS
  <2>1. s[1] \in Reqs /\ req[s[1]].kind = "signUp"
    BY <1>0 DEF StrandInv
  <2>2. pc[s[1]] # "idle"
    BY <2>1 DEF OnboardingInv, ReqInv
  <2> QED
    BY <2>1, <2>2 DEF Only
<1>2. \A s \in stranded' : s \in stranded \/ (s = <<r, "entity">> /\ req'[r].kind = "signUp")
  OBVIOUS
<1>3. \A s \in stranded' : /\ req'[s[1]].kind = "signUp"
                           /\ s[2] = "target" => s \in stranded
  BY <1>0, <1>1, <1>2 DEF StrandInv
<1> QED
  BY <1>0, <1>1, <1>3 DEF StrandInv

\* The type of a step of a handler, from those of what it writes.
LEMMA StepType ==
    ASSUME TypeOK, NEW r \in Reqs, NEW step \in Steps, pc[r] # "done", pc[r] # "idle",
           pc' = [pc EXCEPT ![r] = step], req' = req, eth' = eth,
           \/ answer' = answer
           \/ \E a \in {"none", "ok", "error", "lost"} : answer' = [answer EXCEPT ![r] = a],
           conns' \in {conns, conns \cup {r}, conns \ {r}},
           inserted' = inserted \/ \E n \in Nat : inserted' = [inserted EXCEPT ![r] = n],
           hurt' \in {hurt, hurt \cup {r}},
           entities' \subseteq Entities, targets' \subseteq Entities, paid' \subseteq Entities,
           members' \subseteq [entity : Entities, mail : Mails \cup {NoMail}, by : Reqs, n : Nat],
           stranded' \subseteq Reqs \X {"entity", "target"}
    PROVE  TypeOK' /\ Only(r) /\ pc'[r] = step
<1>1. pc' \in [Reqs -> Steps] /\ pc'[r] = step /\ \A q \in Reqs : q # r => pc'[q] = pc[q]
  BY DEF TypeOK
<1>2. /\ answer' \in [Reqs -> {"none", "ok", "error", "lost"}]
      /\ \A q \in Reqs : q # r => answer'[q] = answer[q]
  BY DEF TypeOK
<1>3. inserted' \in [Reqs -> Nat] /\ \A q \in Reqs : q # r => inserted'[q] = inserted[q]
  BY DEF TypeOK
<1>4. /\ conns' \subseteq Reqs /\ hurt' \subseteq Reqs
      /\ \A q \in Reqs : q # r => (q \in conns' <=> q \in conns) /\ (q \in hurt' <=> q \in hurt)
  BY DEF TypeOK
<1>5. Only(r)
  BY <1>1, <1>2, <1>3, <1>4 DEF Only
<1> QED
  BY <1>1, <1>2, <1>3, <1>4, <1>5 DEF TypeOK

\* The handler gives up, and ends its transaction if it has one.
LEMMA GivesUp ==
    ASSUME OnboardingInv, NEW r \in Reqs, InFlight(r), Answer(r, "error"),
           inserted' = [inserted EXCEPT ![r] = 0] \/ (inserted' = inserted /\ pc[r] \in {"begin", "target", "details"}),
           conns' = conns \ {r} \/ (conns' = conns /\ pc[r] \in {"begin", "target", "details"}),
           stranded' = stranded \/ (stranded' = stranded \cup {<<r, "entity">>} /\ req[r].kind = "signUp"),
           hurt' \in {hurt, hurt \cup {r}}, UNCHANGED <<db, paid, eth, req>>
    PROVE  OnboardingInv'
<1>0. /\ TypeOK /\ ReqInv(r) /\ ImportInv(r) /\ pc[r] # "idle" /\ pc[r] # "done"
      /\ paid \subseteq entities
  BY DEF OnboardingInv, ImportsInv, InFlight
<1>1. /\ UNCHANGED <<entities, targets, members, paid, eth, req>>
      /\ pc' = [pc EXCEPT ![r] = "done"] /\ answer' = [answer EXCEPT ![r] = "error"]
  BY DEF db, Answer, Goto
<1>2. TypeOK' /\ Only(r) /\ pc'[r] = "done"
  <2>1. stranded' \subseteq Reqs \X {"entity", "target"}
    BY <1>0 DEF TypeOK
  <2>2. /\ inserted' = inserted \/ \E n \in Nat : inserted' = [inserted EXCEPT ![r] = n]
        /\ conns' \in {conns, conns \cup {r}, conns \ {r}} /\ "done" \in Steps
    BY DEF Steps
  <2>3. /\ entities \subseteq Entities /\ targets \subseteq Entities /\ paid \subseteq Entities
        /\ members \subseteq [entity : Entities, mail : Mails \cup {NoMail}, by : Reqs, n : Nat]
    BY <1>0 DEF TypeOK
  <2> QED
    BY <1>0, <1>1, <2>1, <2>2, <2>3, StepType
<1>3. answer'[r] = "error"
  BY <1>0, <1>1 DEF TypeOK
<1>4. req[r].kind = "importMembers" => inserted'[r] = 0
  BY <1>0 DEF TypeOK, ImportInv
<1>5. ImportsInv'
  BY <1>1, <1>2, <1>3, <1>4, ImportsKept DEF AnsweredOk
<1>6. StrandInv'
  BY <1>1, <1>2, StrandKept
<1>7. ReqInv(r)'
  <2>1. r \notin conns'
    BY <1>0 DEF ReqInv
  <2> QED
    BY <1>0, <1>1, <1>2, <1>3, <2>1 DEF ReqInv, AnsweredOk
<1> QED
  BY <1>0, <1>1, <1>2, <1>5, <1>6, <1>7, OneStep

-----------------------------------------------------------------------------
(* Requests arrive *)

LEMMA ReceiveInv ==
    ASSUME OnboardingInv, NEW r \in Reqs, NEW kind \in {"signUp", "requestGas", "importMembers"},
           NEW e \in Entities, NEW list \in Lists \cup {<<>>}, Receive(r, kind, e, list),
           NEW step \in {"begin", "details", "done"}, Goto(r, step),
           step = "done" => answer' = [answer EXCEPT ![r] = "error"],
           step # "done" => answer' = answer,
           step = "begin" => kind = "signUp" \/ (kind = "importMembers" /\ list # <<>>),
           step = "details" => kind = "requestGas"
    PROVE  OnboardingInv'
<1> DEFINE k == [kind |-> kind, entity |-> e, list |-> list]
<1>0. TypeOK /\ ReqInv(r) /\ ImportInv(r) /\ paid \subseteq entities
  BY DEF OnboardingInv, ImportsInv
<1>1. /\ pc[r] = "idle" /\ pc' = [pc EXCEPT ![r] = step] /\ req' = [req EXCEPT ![r] = k]
      /\ UNCHANGED <<entities, targets, members, paid, eth, conns, inserted, stranded, hurt>>
  BY DEF Receive, Goto, db, links
<1>2. k \in Request /\ k.kind = kind /\ k.entity = e /\ k.list = list
  BY DEF Request
<1> HIDE DEF k
<1>3. /\ pc' \in [Reqs -> Steps] /\ req' \in [Reqs -> Request]
      /\ answer' \in [Reqs -> {"none", "ok", "error", "lost"}]
      /\ pc'[r] = step /\ req'[r] = k /\ (step = "done" => answer'[r] = "error")
      /\ inserted'[r] = 0
  BY <1>0, <1>1, <1>2 DEF TypeOK, Steps, ReqInv
<1>4. TypeOK'
  BY <1>0, <1>1, <1>3 DEF TypeOK
<1>5. Only(r)
  BY <1>0, <1>1 DEF Only, TypeOK
<1>6. kind = "importMembers" /\ step = "begin" => Len(list) > 0
  BY OnboardingAssumption
<1>7. ImportsInv'
  BY <1>1, <1>2, <1>3, <1>5, <1>6, ImportsKept DEF AnsweredOk
<1>8. StrandInv'
  BY <1>1, <1>5, StrandKept
<1>9. ReqInv(r)'
  BY <1>0, <1>1, <1>2, <1>3 DEF ReqInv, AnsweredOk
<1> QED
  BY <1>0, <1>1, <1>4, <1>5, <1>7, <1>8, <1>9, OneStep

LEMMA ArrivalInv ==
    ASSUME OnboardingInv, NEW r \in Reqs, NEW e \in Entities,
           SignUp(r, e) \/ RequestGas(r, e) \/ \E list \in Lists : ImportMembers(r, e, list)
    PROVE  OnboardingInv'
<1>1. CASE SignUp(r, e)
  BY <1>1, ReceiveInv DEF SignUp
<1>2. CASE RequestGas(r, e)
  BY <1>2, ReceiveInv DEF RequestGas, Answer
<1>3. ASSUME NEW list \in Lists, ImportMembers(r, e, list) PROVE OnboardingInv'
  <2>1. CASE list # <<>>
    BY <1>3, <2>1, ReceiveInv DEF ImportMembers
  <2>2. CASE list = <<>>
    BY <1>3, <2>2, ReceiveInv DEF ImportMembers, Answer
  <2> QED
    BY <2>1, <2>2
<1> QED
  BY <1>1, <1>2, <1>3

-----------------------------------------------------------------------------
(* signUp and requestGas *)

\* A step of a request that imports nothing, after which it is still being served or was
\* answered, and which strands nothing for a target.
LEMMA SignUpStep ==
    ASSUME OnboardingInv, NEW r \in Reqs, TypeOK', Only(r), pc[r] # "idle",
           req[r].kind \in {"signUp", "requestGas"}, members' = members,
           entities \subseteq entities', targets \subseteq targets', paid' \subseteq entities',
           ReqInv(r)', StrandInv'
    PROVE  OnboardingInv'
<1>1. ImportsInv'
  BY ImportsKept DEF Only
<1> QED
  BY <1>1, OneStep

LEMMA BeginInv ==
    ASSUME OnboardingInv, NEW r \in Reqs, Begin(r)
    PROVE  OnboardingInv'
<1>0. TypeOK /\ ReqInv(r) /\ ImportInv(r) /\ pc[r] = "begin" /\ paid \subseteq entities
  BY DEF OnboardingInv, ImportsInv, Begin
<1>1. UNCHANGED <<db, paid, eth, req, inserted, stranded, hurt>> /\ UNCHANGED <<entities, targets, members>>
  BY DEF Begin, db
<1>2. CASE Answer(r, "error") /\ conns' = conns
  BY <1>0, <1>1, <1>2, GivesUp DEF InFlight
<1>3. ASSUME NEW step, step = IF req[r].kind = "signUp" THEN "entity" ELSE "rows",
             conns' = conns \cup {r}, Goto(r, step), answer' = answer
      PROVE  OnboardingInv'
  <2>1. TypeOK' /\ Only(r) /\ pc'[r] = step
    BY <1>0, <1>1, <1>3, StepType DEF TypeOK, Steps, Goto
  <2>2. ImportsInv'
    BY <1>0, <1>1, <1>3, <2>1, ImportsKept DEF ImportInv, AnsweredOk
  <2>3. StrandInv'
    BY <1>1, <2>1, StrandKept
  <2>4. ReqInv(r)'
    BY <1>0, <1>1, <1>3, <2>1 DEF ReqInv, AnsweredOk
  <2> QED
    BY <1>0, <1>1, <2>1, <2>2, <2>3, <2>4, OneStep
<1> QED
  BY <1>2, <1>3 DEF Begin

LEMMA AddEntityInv ==
    ASSUME OnboardingInv, NEW r \in Reqs, AddEntity(r)
    PROVE  OnboardingInv'
<1>0. TypeOK /\ ReqInv(r) /\ pc[r] = "entity" /\ req[r].kind = "signUp" /\ paid \subseteq entities
  BY DEF OnboardingInv, AddEntity, ReqInv
<1>1. UNCHANGED <<paid, eth, req, answer, hurt>> /\ UNCHANGED <<entities, targets, members>>
  BY DEF AddEntity, db
<1>2. CASE req[r].entity \in entities /\ Strand(r) /\ Goto(r, "target")
  <2>1. /\ conns' = conns \ {r} /\ inserted' = [inserted EXCEPT ![r] = 0]
        /\ stranded' = stranded \cup {<<r, "entity">>} /\ pc' = [pc EXCEPT ![r] = "target"]
    BY <1>2 DEF Strand, Goto
  <2>2. TypeOK' /\ Only(r) /\ pc'[r] = "target"
    <3>1. stranded' \subseteq Reqs \X {"entity", "target"}
      BY <1>0, <2>1 DEF TypeOK
    <3> QED
      BY <1>0, <1>1, <2>1, <3>1, StepType DEF TypeOK, Steps
  <2>3. StrandInv'
    BY <1>0, <1>1, <2>1, <2>2, StrandKept
  <2>4. ReqInv(r)'
    BY <1>0, <1>1, <1>2, <2>1, <2>2 DEF ReqInv, AnsweredOk
  <2> QED
    BY <1>0, <1>1, <2>2, <2>3, <2>4, SignUpStep
<1>3. CASE /\ inserted' = [inserted EXCEPT ![r] = 1] /\ Goto(r, "origins")
           /\ UNCHANGED <<conns, stranded>>
  <2>1. TypeOK' /\ Only(r) /\ pc'[r] = "origins"
    BY <1>0, <1>1, <1>3, StepType DEF TypeOK, Steps, Goto
  <2>2. StrandInv'
    BY <1>1, <1>3, <2>1, StrandKept
  <2>3. ReqInv(r)'
    BY <1>0, <1>1, <1>3, <2>1 DEF ReqInv, AnsweredOk
  <2> QED
    BY <1>0, <1>1, <2>1, <2>2, <2>3, SignUpStep
<1> QED
  BY <1>2, <1>3 DEF AddEntity

LEMMA AddEntityFailsInv ==
    ASSUME OnboardingInv, NEW r \in Reqs, AddEntityFails(r)
    PROVE  OnboardingInv'
<1>1. pc[r] = "entity" /\ req[r].kind = "signUp"
  BY DEF OnboardingInv, AddEntityFails, ReqInv
<1> QED
  BY <1>1, GivesUp DEF AddEntityFails, End, Strand, Hurt, InFlight

LEMMA InsertOriginsInv ==
    ASSUME OnboardingInv, NEW r \in Reqs, InsertOrigins(r)
    PROVE  OnboardingInv'
<1>0. TypeOK /\ ReqInv(r) /\ pc[r] = "origins" /\ req[r].kind = "signUp" /\ paid \subseteq entities
  BY DEF OnboardingInv, InsertOrigins, ReqInv
<1>1. /\ UNCHANGED <<entities, targets, members, paid, eth, req, answer, conns, inserted, stranded, hurt>>
      /\ pc' = [pc EXCEPT ![r] = "commitEntity"]
  BY DEF InsertOrigins, db, links, Goto
<1>2. TypeOK' /\ Only(r) /\ pc'[r] = "commitEntity"
  BY <1>0, <1>1, StepType DEF TypeOK, Steps
<1>3. StrandInv'
  BY <1>1, <1>2, StrandKept
<1>4. ReqInv(r)'
  BY <1>0, <1>1, <1>2 DEF ReqInv, AnsweredOk
<1> QED
  BY <1>0, <1>1, <1>2, <1>3, <1>4, SignUpStep

LEMMA CommitEntityInv ==
    ASSUME OnboardingInv, NEW r \in Reqs, CommitEntity(r)
    PROVE  OnboardingInv'
<1>0. /\ TypeOK /\ ReqInv(r) /\ pc[r] = "commitEntity" /\ req[r].kind = "signUp"
      /\ req[r].entity \in Entities /\ paid \subseteq entities
  BY DEF OnboardingInv, CommitEntity, ReqInv
<1>1. /\ entities' = entities \cup {req[r].entity} /\ pc' = [pc EXCEPT ![r] = "target"]
      /\ conns' = conns \ {r} /\ inserted' = [inserted EXCEPT ![r] = 0]
      /\ UNCHANGED <<targets, members, paid, eth, req, answer, stranded, hurt>>
  BY DEF CommitEntity, End, Goto
<1>2. TypeOK' /\ Only(r) /\ pc'[r] = "target"
  BY <1>0, <1>1, StepType DEF TypeOK, Steps
<1>3. StrandInv'
  BY <1>1, <1>2, StrandKept
<1>4. ReqInv(r)'
  BY <1>0, <1>1, <1>2 DEF ReqInv, AnsweredOk
<1> QED
  BY <1>0, <1>1, <1>2, <1>3, <1>4, SignUpStep

\* The target of an entity is stored once, and only then a connection is stranded for it.
LEMMA AddTargetInv ==
    ASSUME OnboardingInv, NEW r \in Reqs, AddTarget(r)
    PROVE  OnboardingInv'
<1>0. /\ TypeOK /\ ReqInv(r) /\ StrandInv /\ pc[r] = "target" /\ req[r].kind = "signUp"
      /\ req[r].entity \in Entities /\ req[r].entity \in entities /\ paid \subseteq entities
  BY DEF OnboardingInv, AddTarget, ReqInv
<1>1. /\ UNCHANGED <<entities, members, paid, eth, req, conns, inserted, hurt>>
  BY DEF AddTarget
<1>2. CASE Answer(r, "error") /\ UNCHANGED <<targets, stranded>>
  BY <1>0, <1>1, <1>2, GivesUp DEF InFlight, db
<1>3. CASE Goto(r, "gas") /\ answer' = answer /\ UNCHANGED <<targets, stranded>> /\ BreaksTargets(r)
  <2>1. TypeOK' /\ Only(r) /\ pc'[r] = "gas"
    BY <1>0, <1>1, <1>3, StepType DEF TypeOK, Steps, Goto
  <2>2. StrandInv'
    BY <1>1, <1>3, <2>1, StrandKept
  <2>3. ReqInv(r)'
    BY <1>0, <1>1, <1>3, <2>1 DEF ReqInv, AnsweredOk, BreaksTargets
  <2> QED
    BY <1>0, <1>1, <1>3, <2>1, <2>2, <2>3, SignUpStep
<1>4. CASE /\ Goto(r, "gas") /\ answer' = answer /\ ~BreaksTargets(r)
           /\ targets' = targets \cup {req[r].entity}
           /\ stranded' = stranded \cup {<<r, "target">>}
  <2>0. stranded' \subseteq Reqs \X {"entity", "target"} /\ targets' \subseteq Entities
    BY <1>0, <1>4 DEF TypeOK
  <2>1. TypeOK' /\ Only(r) /\ pc'[r] = "gas"
    BY <1>0, <1>1, <1>4, <2>0, StepType DEF TypeOK, Steps, Goto
  <2>2. StrandInv'
    <3>1. req[r].entity \notin targets
      BY <1>4 DEF BreaksTargets
    <3>2. \A s \in stranded' : s \in stranded \/ s = <<r, "target">>
      BY <1>4
    <3>3. \A s \in stranded : s[2] = "target" => req[s[1]].entity # req[r].entity
      BY <1>0, <3>1 DEF StrandInv
    <3>4. \A s \in stranded' : /\ req[s[1]].kind = "signUp"
                               /\ s[2] = "target" => req[s[1]].entity \in targets'
      BY <1>0, <1>4, <3>2 DEF StrandInv
    <3>5. ASSUME NEW s \in stranded', NEW t \in stranded', s[2] = "target", t[2] = "target",
                 req[s[1]].entity = req[t[1]].entity
          PROVE  s = t
      BY <1>0, <3>2, <3>3, <3>5 DEF StrandInv
    <3> QED
      BY <1>1, <3>4, <3>5 DEF StrandInv
  <2>3. ReqInv(r)'
    BY <1>0, <1>1, <1>4, <2>1 DEF ReqInv, AnsweredOk
  <2> QED
    BY <1>0, <1>1, <1>4, <2>1, <2>2, <2>3, SignUpStep
<1> QED
  BY <1>2, <1>3, <1>4 DEF AddTarget

LEMMA AddTargetUnknownInv ==
    ASSUME OnboardingInv, NEW r \in Reqs, AddTargetUnknown(r)
    PROVE  OnboardingInv'
<1>0. /\ TypeOK /\ ReqInv(r) /\ pc[r] = "target" /\ req[r].kind = "signUp"
      /\ req[r].entity \in Entities /\ req[r].entity \in entities /\ paid \subseteq entities
  BY DEF OnboardingInv, AddTargetUnknown, ReqInv
<1>1. /\ UNCHANGED <<entities, members, paid, eth, req, answer, conns, inserted, stranded>>
      /\ targets' = targets \/ targets' = targets \cup {req[r].entity}
      /\ pc' = [pc EXCEPT ![r] = "gas"] /\ hurt' = hurt \cup {r}
  BY DEF AddTargetUnknown, links, Goto, Hurt
<1>2. TypeOK' /\ Only(r) /\ pc'[r] = "gas"
  BY <1>0, <1>1, StepType DEF TypeOK, Steps
<1>3. StrandInv'
  BY <1>1, <1>2, StrandKept
<1>4. ReqInv(r)'
  BY <1>0, <1>1, <1>2 DEF ReqInv, AnsweredOk
<1> QED
  BY <1>0, <1>1, <1>2, <1>3, <1>4, SignUpStep

LEMMA ReadEntityInv ==
    ASSUME OnboardingInv, NEW r \in Reqs, ReadEntity(r)
    PROVE  OnboardingInv'
<1>0. /\ TypeOK /\ ReqInv(r) /\ pc[r] = "details" /\ req[r].kind = "requestGas"
      /\ paid \subseteq entities
  BY DEF OnboardingInv, ReadEntity, ReqInv
<1>1. UNCHANGED <<entities, targets, members, paid, eth, req, conns, inserted, stranded, hurt>>
  BY DEF ReadEntity, db, links
<1>2. CASE Answer(r, "error")
  BY <1>0, <1>1, <1>2, GivesUp DEF InFlight, db
<1>3. CASE req[r].entity \in entities /\ Goto(r, "gas") /\ answer' = answer
  <2>1. TypeOK' /\ Only(r) /\ pc'[r] = "gas"
    BY <1>0, <1>1, <1>3, StepType DEF TypeOK, Steps, Goto
  <2>2. StrandInv'
    BY <1>1, <2>1, StrandKept
  <2>3. ReqInv(r)'
    BY <1>0, <1>1, <1>3, <2>1 DEF ReqInv, AnsweredOk
  <2> QED
    BY <1>0, <1>1, <2>1, <2>2, <2>3, SignUpStep
<1> QED
  BY <1>2, <1>3 DEF ReadEntity

LEMMA SendTokensInv ==
    ASSUME OnboardingInv, NEW r \in Reqs, SendTokens(r)
    PROVE  OnboardingInv'
<1>0. /\ TypeOK /\ ReqInv(r) /\ pc[r] = "gas" /\ req[r].kind \in {"signUp", "requestGas"}
      /\ req[r].entity \in entities /\ req[r].entity \in Entities /\ paid \subseteq entities
  BY DEF OnboardingInv, SendTokens, ReqInv
<1>1. /\ UNCHANGED <<entities, targets, members, eth, req, conns, inserted, stranded, hurt>>
      /\ paid' = paid \/ paid' = paid \cup {req[r].entity}
  BY DEF SendTokens, db, links
<1>2. PICK a \in {"ok", "error"} : Answer(r, a)
  BY DEF SendTokens
<1>3. TypeOK' /\ Only(r) /\ pc'[r] = "done"
  BY <1>0, <1>1, <1>2, StepType DEF TypeOK, Steps, Answer, Goto
<1>4. StrandInv'
  BY <1>1, <1>3, StrandKept
<1>5. ReqInv(r)'
  BY <1>0, <1>1, <1>3 DEF ReqInv, AnsweredOk
<1> QED
  BY <1>0, <1>1, <1>3, <1>4, <1>5, SignUpStep

-----------------------------------------------------------------------------
(* importMembers *)

\* The list of a request is a sequence of addresses.
LEMMA ListType ==
    ASSUME TypeOK, NEW r \in Reqs
    PROVE  req[r].list \in Seq(Mails \cup {NoMail})
<1>1. req[r].list \in Lists \cup {<<>>}
  BY DEF TypeOK, Request
<1>2. Lists \subseteq Seq(Mails \cup {NoMail})
  BY OnboardingAssumption
<1>3. <<>> \in Seq(Mails \cup {NoMail})
  OBVIOUS
<1> QED
  BY <1>1, <1>2, <1>3

\* A row is inserted: its address is held by nobody else and is not stored.
LEMMA InsertRowInv ==
    ASSUME OnboardingInv, NEW r \in Reqs, InsertRow(r)
    PROVE  OnboardingInv'
<1> DEFINE n == inserted[r] + 1
           g == req[r].list[n]
<1>0. /\ TypeOK /\ ReqInv(r) /\ ImportsInv /\ ImportInv(r) /\ pc[r] = "rows" /\ paid \subseteq entities
      /\ req[r].kind = "importMembers" /\ UNCHANGED <<db, paid, eth, req, hurt>>
      /\ UNCHANGED <<entities, targets, members>>
  BY DEF OnboardingInv, ImportsInv, InsertRow, ReqInv, db
<1>1. CASE Answer(r, "error") /\ End(r)
  BY <1>0, <1>1, GivesUp DEF End, InFlight
<1>2. CASE /\ ~BreaksMembers(r) /\ inserted' = [inserted EXCEPT ![r] = @ + 1]
           /\ Goto(r, AfterRow(r)) /\ UNCHANGED <<answer, conns, stranded>>
  <2>1. /\ inserted[r] \in Nat /\ Len(req[r].list) \in Nat /\ inserted[r] < Len(req[r].list)
        /\ n \in 1..Len(req[r].list) /\ n \in Nat
    <3>1. inserted[r] \in Nat /\ inserted[r] < Len(req[r].list)
      BY <1>0 DEF TypeOK, ImportInv
    <3>2. req[r].list \in Seq(Mails \cup {NoMail})
      BY <1>0, ListType
    <3> QED
      BY <3>1, <3>2
  <2>2. AfterRow(r) \in Steps /\ AfterRow(r) \in {"rows", "commitRows"}
    BY DEF AfterRow, Steps
  <2>3. TypeOK' /\ Only(r) /\ pc'[r] = AfterRow(r)
    <3>1. inserted' = [inserted EXCEPT ![r] = n]
      BY <1>2
    <3> QED
      BY <1>0, <1>2, <2>1, <2>2, <3>1, StepType DEF TypeOK, Goto
  <2>4. inserted'[r] = n /\ answer' = answer /\ req' = req
    BY <1>0, <1>2 DEF TypeOK
  <2>5. g \notin Stored(req[r].entity) /\ g \notin Holding(r)
    BY <1>2 DEF BreaksMembers, NextMail
  <2>6. \A s \in Reqs : s # r /\ req[s].entity = req[r].entity => g \notin Holding(s)
    BY <1>0 DEF InsertRow, Waits, NextMail
  <2>7. \A h : h \in Holding(r)' => h \in Holding(r) \/ h = g
    <3> SUFFICES ASSUME NEW h, h \in Holding(r)', h # g PROVE h \in Holding(r)
      OBVIOUS
    <3>1. PICK j \in 1..Len(req[r].list) : j <= n /\ req[r].list[j] = h
      BY <2>4, HoldingIsPrimed
    <3>2. j <= inserted[r]
      BY <2>1, <3>1
    <3> QED
      BY <1>0, <3>1, <3>2, HoldingIs, HoldingIsPrimed
  <2>8. \A q \in Reqs : q # r => Holding(q)' = Holding(q)
    BY HoldingKept, <2>3 DEF Only
  <2>9. /\ \A q \in Reqs : Mine(q)' = Mine(q)
        /\ \A e : Stored(e)' = Stored(e)
    BY <1>0 DEF Mine, Stored, MailsOf
  <2>10. MailInv'
    BY <1>0 DEF ImportsInv, MailInv
  <2>11. HeldOnce'
    <3>1. \A s \in Reqs : s # r /\ req[s].entity = req[r].entity => Holding(r)' \cap Holding(s)' = {}
      BY <1>0, <2>6, <2>7, <2>8 DEF ImportsInv, HeldOnce
    <3>2. \A q, s \in Reqs : (q # r /\ s # r /\ q # s /\ req[q].entity = req[s].entity) =>
              Holding(q)' \cap Holding(s)' = {}
      BY <1>0, <2>8 DEF ImportsInv, HeldOnce
    <3> QED
      BY <2>4, <3>1, <3>2 DEF HeldOnce
  <2>12. ASSUME NEW q \in Reqs, q # r PROVE ImportInv(q)'
    <3>1. ImportInv(q)
      BY <1>0 DEF ImportsInv
    <3>2. /\ pc'[q] = pc[q] /\ req'[q] = req[q] /\ answer'[q] = answer[q]
          /\ inserted'[q] = inserted[q] /\ hurt' = hurt
      BY <1>0, <2>3, <2>12 DEF Only
    <3> QED
      BY <2>8, <2>9, <2>12, <3>1, <3>2 DEF ImportInv, AnsweredOk
  <2>13. ImportInv(r)'
    <3>1. Mine(r)' = {} /\ Len(req[r].list) > 0
      BY <1>0, <2>9 DEF ImportInv
    <3>2. ASSUME NEW d \in 1..Len(req[r].list), NEW j \in 1..Len(req[r].list), d <= n, j <= n,
                 req[r].list[d] = req[r].list[j], req[r].list[d] # NoMail
          PROVE  d = j
      <4>1. d <= inserted[r] /\ j <= inserted[r] => d = j
        BY <1>0, <3>2 DEF ImportInv
      <4>2. \A k \in 1..Len(req[r].list) : k <= inserted[r] /\ req[r].list[k] # NoMail => req[r].list[k] # g
        BY <1>0, <2>5, HoldingIs
      <4>3. \A k \in 1..Len(req[r].list) : k <= n => k <= inserted[r] \/ k = n
        BY <2>1
      <4> QED
        BY <3>2, <4>1, <4>2, <4>3
    <3>3. Holding(r)' \cap Stored(req[r].entity)' = {}
      BY <1>0, <2>5, <2>7, <2>9 DEF ImportInv
    <3>4. /\ AfterRow(r) = "rows" => n < Len(req[r].list)
          /\ AfterRow(r) = "commitRows" => n = Len(req[r].list)
      BY <2>1 DEF AfterRow
    <3> QED
      BY <1>0, <2>2, <2>3, <2>4, <3>1, <3>2, <3>3, <3>4 DEF ImportInv, AnsweredOk
  <2>14. ImportsInv'
    BY <2>10, <2>11, <2>12, <2>13 DEF ImportsInv
  <2>15. StrandInv'
    BY <1>0, <1>2, <2>3, StrandKept
  <2>16. ReqInv(r)'
    BY <1>0, <1>2, <2>2, <2>3, <2>4 DEF ReqInv, AnsweredOk
  <2> QED
    BY <1>0, <2>3, <2>14, <2>15, <2>16, OneStep
<1> QED
  BY <1>1, <1>2 DEF InsertRow

\* The rows of a list are stored all together: none of their addresses is stored or held
\* by another request.
LEMMA StoresRows ==
    ASSUME OnboardingInv, NEW r \in Reqs, pc[r] = "commitRows", members' = members \cup RowsOf(r),
           End(r), UNCHANGED <<entities, targets, paid, eth, req>>,
           Goto(r, "done"), NEW a \in {"ok", "error"}, answer' = [answer EXCEPT ![r] = a],
           (hurt' = hurt /\ a = "ok") \/ hurt' = hurt \cup {r}
    PROVE  OnboardingInv'
<1> DEFINE N == Len(req[r].list)
           row(n) == [entity |-> req[r].entity, mail |-> req[r].list[n], by |-> r, n |-> n]
<1>0. /\ TypeOK /\ ReqInv(r) /\ ImportsInv /\ ImportInv(r) /\ MailInv /\ HeldOnce /\ paid \subseteq entities
      /\ req[r].kind = "importMembers" /\ req[r].entity \in Entities /\ req' = req
      /\ inserted[r] = N /\ N > 0 /\ Mine(r) = {}
      /\ Holding(r) \cap Stored(req[r].entity) = {}
  BY DEF OnboardingInv, ImportsInv, ImportInv, ReqInv
<1>1. /\ req[r].list \in Seq(Mails \cup {NoMail}) /\ N \in Nat
      /\ \A n \in 1..N : req[r].list[n] \in Mails \cup {NoMail}
  BY <1>0, ListType
<1>2. /\ \A x : x \in RowsOf(r) <=> \E n \in 1..N : x = row(n)
      /\ \A n : /\ row(n).entity = req[r].entity /\ row(n).mail = req[r].list[n]
                /\ row(n).by = r /\ row(n).n = n
  BY DEF RowsOf
<1>3. members' \subseteq [entity : Entities, mail : Mails \cup {NoMail}, by : Reqs, n : Nat]
  BY <1>0, <1>1 DEF TypeOK, RowsOf
<1> HIDE DEF row
<1>4. TypeOK' /\ Only(r) /\ pc'[r] = "done"
  BY <1>0, <1>3, StepType DEF TypeOK, Steps, Goto, End
<1>5. answer'[r] = a /\ inserted'[r] = 0 /\ r \notin conns' /\ stranded' = stranded
  BY <1>0 DEF TypeOK, End
<1>6. \A n \in 1..N : req[r].list[n] # NoMail => req[r].list[n] \in Holding(r)
  BY <1>0, <1>1, HoldingIs
<1>7. \A x \in RowsOf(r) : /\ x.entity = req[r].entity /\ x.by = r
                           /\ x.mail # NoMail => x.mail \in Holding(r)
  BY <1>2, <1>6
<1>8. \A x, y \in RowsOf(r) : x.mail = y.mail /\ x.mail # NoMail => x = y
  <2> SUFFICES ASSUME NEW x \in RowsOf(r), NEW y \in RowsOf(r), x.mail = y.mail, x.mail # NoMail
               PROVE  x = y
    OBVIOUS
  <2>1. PICK d \in 1..N : x = row(d)
    BY <1>2
  <2>2. PICK j \in 1..N : y = row(j)
    BY <1>2
  <2>3. d <= inserted[r] /\ j <= inserted[r]
    BY <1>0, <1>1
  <2>4. d = j
    BY <1>0, <1>2, <2>1, <2>2, <2>3 DEF ImportInv
  <2> QED
    BY <2>1, <2>2, <2>4
<1>9. \A x \in members : x.entity = req[r].entity /\ x.mail # NoMail => x.mail \notin Holding(r)
  BY <1>0, StoredIs
<1>10. MailInv'
  <2> SUFFICES ASSUME NEW x \in members', NEW y \in members', x.entity = y.entity,
                      x.mail = y.mail, x.mail # NoMail
               PROVE  x = y
    BY DEF MailInv
  <2>1. CASE x \in members /\ y \in members
    BY <1>0, <2>1 DEF MailInv
  <2>2. CASE x \in RowsOf(r) /\ y \in RowsOf(r)
    BY <1>8, <2>2
  <2>3. CASE x \in members /\ y \in RowsOf(r)
    BY <1>7, <1>9, <2>3
  <2>4. CASE x \in RowsOf(r) /\ y \in members
    BY <1>7, <1>9, <2>4
  <2> QED
    BY <2>1, <2>2, <2>3, <2>4
<1>11. Holding(r)' = {} /\ \A q \in Reqs : q # r => Holding(q)' = Holding(q)
  BY <1>4, <1>5, HoldsNothing, HoldingKept DEF Only
<1>12. HeldOnce'
  BY <1>0, <1>11 DEF HeldOnce
<1>13. Mine(r)' = 1..N
  <2>1. \A x \in members : x.by # r
    BY <1>0 DEF Mine
  <2>2. \A x \in members' : x.by = r => x \in RowsOf(r)
    BY <2>1
  <2>3. \A k : k \in Mine(r)' <=> \E x \in members' : x.by = r /\ x.n = k
    BY DEF Mine
  <2>4. \A k : k \in Mine(r)' => k \in 1..N
    BY <1>2, <2>2, <2>3
  <2>5. \A k \in 1..N : k \in Mine(r)'
    <3> TAKE k \in 1..N
    <3>1. row(k) \in members' /\ row(k).by = r /\ row(k).n = k
      BY <1>2
    <3> QED
      BY <2>3, <3>1
  <2> QED
    BY <2>4, <2>5
<1>14. ImportInv(r)'
  <2>1. 1..N # {}
    BY <1>0, <1>1
  <2>2. \A n \in 1..N : ~(n <= inserted'[r])
    BY <1>5
  <2>3. (a = "ok" \/ r \in hurt')
    OBVIOUS
  <2> QED
    BY <1>0, <1>4, <1>5, <1>11, <1>13, <2>1, <2>2, <2>3 DEF ImportInv, AnsweredOk
<1>15. ASSUME NEW q \in Reqs, q # r PROVE ImportInv(q)'
  <2>1. ImportInv(q)
    BY <1>0 DEF ImportsInv
  <2>2. /\ pc'[q] = pc[q] /\ req'[q] = req[q] /\ answer'[q] = answer[q]
        /\ inserted'[q] = inserted[q] /\ (q \in hurt' <=> q \in hurt)
    BY <1>4, <1>15 DEF Only
  <2>3. Mine(q)' = Mine(q)
    <3>1. \A x : (x \in members' /\ x.by = q) <=> (x \in members /\ x.by = q)
      BY <1>7, <1>15
    <3> QED
      BY <3>1 DEF Mine
  <2>4. Holding(q) \cap Stored(req[q].entity) = {} => Holding(q) \cap Stored(req[q].entity)' = {}
    <3> SUFFICES ASSUME NEW g, g \in Holding(q), g \in Stored(req[q].entity)',
                        g \notin Stored(req[q].entity)
                 PROVE  FALSE
      OBVIOUS
    <3>1. PICK x \in members' : x.entity = req[q].entity /\ x.mail = g /\ g # NoMail
      BY StoredIsPrimed
    <3>2. x \in RowsOf(r)
      BY <3>1, StoredIs
    <3>3. req[q].entity = req[r].entity /\ g \in Holding(r)
      BY <1>7, <3>1, <3>2
    <3> QED
      BY <1>0, <1>15, <3>3 DEF HeldOnce
  <2> QED
    BY <1>0, <1>11, <1>15, <2>1, <2>2, <2>3, <2>4 DEF ImportInv, AnsweredOk
<1>16. ImportsInv'
  BY <1>10, <1>12, <1>14, <1>15 DEF ImportsInv
<1>17. StrandInv'
  BY <1>4, <1>5, StrandKept
<1>18. ReqInv(r)'
  BY <1>0, <1>4, <1>5 DEF ReqInv
<1> QED
  BY <1>0, <1>4, <1>16, <1>17, <1>18, OneStep

LEMMA CommitRowsInv ==
    ASSUME OnboardingInv, NEW r \in Reqs, CommitRows(r)
    PROVE  OnboardingInv'
BY StoresRows DEF CommitRows, Answer

LEMMA CommitUnknownInv ==
    ASSUME OnboardingInv, NEW r \in Reqs, CommitUnknown(r)
    PROVE  OnboardingInv'
<1>1. CASE pc[r] = "commitRows"
  BY <1>1, StoresRows DEF CommitUnknown, Answer, Hurt
<1>2. CASE pc[r] = "commitEntity"
  <2>0. /\ TypeOK /\ ReqInv(r) /\ req[r].kind = "signUp"
        /\ req[r].entity \in Entities /\ paid \subseteq entities
    BY <1>2 DEF OnboardingInv, ReqInv
  <2>1. /\ entities' = entities \cup {req[r].entity} /\ pc' = [pc EXCEPT ![r] = "done"]
        /\ conns' = conns \ {r} /\ inserted' = [inserted EXCEPT ![r] = 0]
        /\ answer' = [answer EXCEPT ![r] = "error"] /\ hurt' = hurt \cup {r}
        /\ UNCHANGED <<targets, members, paid, eth, req, stranded>>
    BY <1>2 DEF CommitUnknown, End, Goto, Answer, Hurt
  <2>2. TypeOK' /\ Only(r) /\ pc'[r] = "done"
    BY <1>2, <2>0, <2>1, StepType DEF TypeOK, Steps
  <2>3. answer'[r] = "error" /\ r \notin conns'
    BY <2>0, <2>1 DEF TypeOK
  <2>4. StrandInv'
    BY <2>1, <2>2, StrandKept
  <2>5. ReqInv(r)'
    BY <1>2, <2>0, <2>1, <2>2, <2>3 DEF ReqInv, AnsweredOk
  <2> QED
    BY <1>2, <2>0, <2>1, <2>2, <2>4, <2>5, SignUpStep
<1> QED
  BY <1>1, <1>2 DEF CommitUnknown

LEMMA UpdateMemberInv ==
    ASSUME OnboardingInv, NEW x \in members, NEW mail \in Mails, UpdateMember(x, mail)
    PROVE  OnboardingInv'
<1> DEFINE z == [x EXCEPT !.mail = mail]
<1>0. /\ TypeOK /\ ImportsInv /\ MailInv /\ HeldOnce
      /\ x \in [entity : Entities, mail : Mails \cup {NoMail}, by : Reqs, n : Nat]
      /\ UNCHANGED <<entities, targets, paid, eth, pc, req, answer, conns, inserted, stranded, hurt>>
  BY DEF OnboardingInv, ImportsInv, TypeOK, UpdateMember, links
<1>1. /\ z \in [entity : Entities, mail : Mails \cup {NoMail}, by : Reqs, n : Nat]
      /\ z.mail = mail /\ z.entity = x.entity /\ z.by = x.by /\ z.n = x.n
  BY <1>0
<1>2. members' = (members \ {x}) \cup {z}
  BY DEF UpdateMember
<1> HIDE DEF z
<1>3. TypeOK'
  BY <1>0, <1>1, <1>2 DEF TypeOK
<1>4. /\ \A y \in members : y.entity = x.entity => y.mail # mail
      /\ \A r \in Reqs : req[r].entity = x.entity => mail \notin Holding(r)
  <2>1. mail # NoMail
    BY OnboardingAssumption
  <2> QED
    BY <2>1, StoredIs DEF UpdateMember
<1>5. MailInv'
  BY <1>0, <1>1, <1>2, <1>4 DEF MailInv
<1>6. \A q \in Reqs : Holding(q)' = Holding(q)
  BY <1>0, HoldingKept
<1>7. HeldOnce'
  BY <1>0, <1>6 DEF HeldOnce
<1>8. ASSUME NEW q \in Reqs PROVE ImportInv(q)'
  <2>1. ImportInv(q)
    BY <1>0 DEF ImportsInv
  <2>2. Mine(q)' = Mine(q)
    <3>1. /\ \A k : k \in Mine(q)' <=> \E y \in members' : y.by = q /\ y.n = k
          /\ \A k : k \in Mine(q) <=> \E y \in members : y.by = q /\ y.n = k
      BY DEF Mine
    <3>2. \A k : k \in Mine(q) => k \in Mine(q)'
      BY <1>1, <1>2, <3>1
    <3>3. \A k : k \in Mine(q)' => k \in Mine(q)
      BY <1>1, <1>2, <3>1
    <3> QED
      BY <3>2, <3>3
  <2>3. Holding(q) \cap Stored(req[q].entity) = {} => Holding(q) \cap Stored(req[q].entity)' = {}
    <3> SUFFICES ASSUME NEW g, g \in Holding(q), g \in Stored(req[q].entity)',
                        g \notin Stored(req[q].entity)
                 PROVE  FALSE
      OBVIOUS
    <3>1. PICK y \in members' : y.entity = req[q].entity /\ y.mail = g /\ g # NoMail
      BY <1>0, StoredIsPrimed
    <3>2. y = z
      BY <1>2, <3>1, StoredIs
    <3> QED
      BY <1>1, <1>4, <3>1, <3>2
  <2> QED
    BY <1>0, <1>6, <2>1, <2>2, <2>3 DEF ImportInv, AnsweredOk
<1>9. \A q \in Reqs : ReqInv(q)'
  BY <1>0 DEF OnboardingInv, ReqInv, AnsweredOk
<1>10. StrandInv' /\ paid' \subseteq entities'
  BY <1>0 DEF OnboardingInv, StrandInv
<1> QED
  BY <1>3, <1>5, <1>7, <1>8, <1>9, <1>10 DEF OnboardingInv, ImportsInv

-----------------------------------------------------------------------------
(* Failures *)

LEMMA DeadlockDetectedInv ==
    ASSUME OnboardingInv, NEW r \in Reqs, DeadlockDetected(r)
    PROVE  OnboardingInv'
<1>1. pc[r] = "rows"
  BY DEF DeadlockDetected, Waits
<1> QED
  BY <1>1, GivesUp DEF DeadlockDetected, End, Hurt, InFlight

LEMMA StatementFailsInv ==
    ASSUME OnboardingInv, NEW r \in Reqs, StatementFails(r)
    PROVE  OnboardingInv'
BY GivesUp DEF StatementFails, End, Hurt, InFlight

\* The process dies: the tables stay, and nothing is held or stranded any more.
LEMMA CrashInv ==
    ASSUME OnboardingInv, Crash
    PROVE  OnboardingInv'
<1>0. /\ TypeOK /\ ImportsInv /\ paid \subseteq entities
      /\ UNCHANGED <<entities, targets, members, paid, eth, req>>
      /\ conns' = {} /\ stranded' = {} /\ inserted' = [r \in Reqs |-> 0]
      /\ hurt' = hurt \cup {r \in Reqs : InFlight(r)}
  BY DEF OnboardingInv, Crash, db
<1>1. \A q \in Reqs : /\ InFlight(q) => pc'[q] = "done" /\ answer'[q] = "lost"
                      /\ ~InFlight(q) => pc'[q] = pc[q] /\ answer'[q] = answer[q]
                      /\ inserted'[q] = 0 /\ Holding(q)' = {}
                      /\ Mine(q)' = Mine(q)
  BY <1>0, HoldsNothing DEF Crash, Mine
<1>2. \A q \in Reqs : /\ pc'[q] \in {"idle", "done"} /\ (pc'[q] = "idle" <=> pc[q] = "idle")
                      /\ AnsweredOk(q)' <=> AnsweredOk(q)
                      /\ AnsweredOk(q) => (q \in hurt' <=> q \in hurt)
  BY <1>0, <1>1 DEF InFlight, AnsweredOk
<1>3. TypeOK'
  BY <1>0 DEF TypeOK, Crash, Steps
<1>4. StrandInv'
  BY <1>0 DEF StrandInv
<1>5. ASSUME NEW q \in Reqs PROVE ImportInv(q)'
  <2>1. ImportInv(q)
    BY <1>0 DEF ImportsInv
  <2>2. \A n \in 1..Len(req[q].list) : ~(n <= inserted'[q])
    BY <1>1
  <2>3. pc'[q] # "done" => pc[q] # "done"
    BY <1>1
  <2> QED
    BY <1>0, <1>1, <1>2, <2>1, <2>2, <2>3 DEF ImportInv
<1>6. MailInv' /\ HeldOnce'
  BY <1>0, <1>1 DEF ImportsInv, MailInv, HeldOnce
<1>7. \A q \in Reqs : ReqInv(q)'
  BY <1>0, <1>1, <1>2 DEF OnboardingInv, ReqInv
<1> QED
  BY <1>0, <1>3, <1>4, <1>5, <1>6, <1>7 DEF OnboardingInv, ImportsInv

-----------------------------------------------------------------------------
(* The invariant holds *)

LEMMA OnboardingInit ==
    ASSUME Init
    PROVE  OnboardingInv
<1>1. /\ entities = {} /\ targets = {} /\ members = {} /\ paid = {} /\ eth \in BOOLEAN
      /\ pc = [r \in Reqs |-> "idle"] /\ req = [r \in Reqs |-> NoRequest]
      /\ answer = [r \in Reqs |-> "none"]
      /\ conns = {} /\ inserted = [r \in Reqs |-> 0] /\ stranded = {} /\ hurt = {}
  BY DEF Init
<1>2. NoRequest \in Request /\ NoRequest.kind = "none"
  BY DEF NoRequest, Request
<1>3. TypeOK
  <2>1. pc \in [Reqs -> Steps]
    BY <1>1 DEF Steps
  <2> QED
    BY <1>1, <1>2, <2>1 DEF TypeOK
<1>4. \A r \in Reqs : Holding(r) = {} /\ Mine(r) = {}
  BY <1>1, <1>2 DEF Holding, Mine
<1>5. ImportsInv
  BY <1>1, <1>2, <1>4 DEF ImportsInv, MailInv, HeldOnce, ImportInv
<1>6. \A r \in Reqs : ReqInv(r)
  BY <1>1, <1>2 DEF ReqInv, AnsweredOk
<1> QED
  BY <1>1, <1>3, <1>5, <1>6 DEF OnboardingInv, StrandInv

LEMMA OnboardingNext ==
    ASSUME OnboardingInv, [Next]_vars
    PROVE  OnboardingInv'
<1>1. CASE UNCHANGED vars
  <2>1. UNCHANGED <<entities, targets, members, paid, eth, pc, req, answer, conns, inserted, stranded, hurt>>
    BY <1>1 DEF vars
  <2>2. TypeOK' /\ StrandInv' /\ paid' \subseteq entities'
    BY <2>1 DEF OnboardingInv, TypeOK, StrandInv
  <2>3. \A r \in Reqs : Holding(r)' = Holding(r) /\ Mine(r)' = Mine(r) /\ \A e : Stored(e)' = Stored(e)
    BY <2>1, HoldingKept DEF Mine, Stored, MailsOf
  <2>4. \A r \in Reqs : ImportInv(r)'
    BY <2>1, <2>3 DEF OnboardingInv, ImportsInv, ImportInv, AnsweredOk
  <2>5. MailInv' /\ HeldOnce'
    BY <2>1, <2>3 DEF OnboardingInv, ImportsInv, MailInv, HeldOnce
  <2>6. \A r \in Reqs : ReqInv(r)'
    BY <2>1 DEF OnboardingInv, ReqInv, AnsweredOk
  <2> QED
    BY <2>2, <2>4, <2>5, <2>6 DEF OnboardingInv, ImportsInv
<1>2. ASSUME NEW r \in Reqs, Step(r) PROVE OnboardingInv'
  BY <1>2, BeginInv, AddEntityInv, InsertOriginsInv, CommitEntityInv, AddTargetInv, ReadEntityInv,
     SendTokensInv, InsertRowInv, DeadlockDetectedInv, CommitRowsInv DEF Step
<1>3. ASSUME NEW r \in Reqs, Fault(r) PROVE OnboardingInv'
  BY <1>3, AddEntityFailsInv, AddTargetUnknownInv, StatementFailsInv, CommitUnknownInv DEF Fault
<1> QED
  BY <1>1, <1>2, <1>3, ArrivalInv, UpdateMemberInv, CrashInv DEF Next

LEMMA OnboardingIsInv == Spec => []OnboardingInv
  BY OnboardingInit, OnboardingNext, PTL DEF Spec

-----------------------------------------------------------------------------
(* The theorems *)

\* Every variable keeps its type, whatever the requests, faults and crashes.
THEOREM OnboardingTypeCorrect == Spec => []TypeOK
<1>1. OnboardingInv => TypeOK
  BY DEF OnboardingInv
<1> QED
  BY <1>1, OnboardingIsInv, PTL

\* signUp stores the entity and its target with separate statements; still, one that is
\* answered ok and met no failure leaves both, whoever failed or died before it.
THEOREM SignUpsComplete == Spec => []SignUpCompletes
<1>1. OnboardingInv => SignUpCompletes
  BY DEF OnboardingInv, ReqInv, SignUpCompletes
<1> QED
  BY <1>1, OnboardingIsInv, PTL

\* signUp and requestGas never ask the faucet to pay an entity that is not stored, although
\* signUp goes on after AddEntity failed for a duplicate and ignores AddTarget's failures.
THEOREM OnlySignedUpArePaid == Spec => []PaidAreSignedUp
<1>1. OnboardingInv => PaidAreSignedUp
  BY DEF OnboardingInv, PaidAreSignedUp
<1> QED
  BY <1>1, OnboardingIsInv, PTL

\* The connections that AddEntity and AddTarget never give back are taken by signUps, and
\* for the target of an entity at most once; nobody else keeps one after its answer.
THEOREM StrandingIsBounded == Spec => []StrandedBounded
<1>1. OnboardingInv => StrandedBounded
  BY DEF OnboardingInv, ReqInv, StrandInv, TypeOK, StrandedBounded, InFlight
<1> QED
  BY <1>1, OnboardingIsInv, PTL

\* importMembers stores a list as a whole or not at all, and overlapping or repeated imports
\* and updates never give an address to two members of an entity (bulkInsert, AddMemberBulk).
THEOREM ImportsAreWhole == Spec => []ImportedWholeOnce
<1>1. OnboardingInv => ImportedWholeOnce
  BY DEF OnboardingInv, ImportsInv, ImportInv, MailInv, Mine, ImportedWholeOnce
<1> QED
  BY <1>1, OnboardingIsInv, PTL

-----------------------------------------------------------------------------
(* bulkInsert, through which the lists of members are inserted: for every limit on the  *)
(* placeholders, every call site and every number of rows, the batches fit and cover    *)
(* the rows exactly.                                                                    *)

\* What the loop of bulkInsert maintains: the rows inserted so far are those below i.
BulkInv ==
    /\ BulkTypeOK
    /\ batch <= Size
    /\ status # "error" => rows = 0..(Minimum(i, len) - 1)
    /\ status = "ok" => i >= len
    /\ status = "error" => rows = {}

\* maxBulkInsert of bulkInsert is positive, and that many rows of any call site stay
\* within the placeholders of one statement.
LEMMA SizeFits ==
    ASSUME NEW sh \in Shapes
    PROVE  /\ MaxBulkInsert(sh.numField) \in Nat \ {0}
           /\ MaxBulkInsert(sh.numField) * sh.numField <= MaxParams
<1> DEFINE f == sh.numField
           q == (MaxParams + 1) \div f
<1>1. f \in Nat \ {0} /\ 2 * f <= MaxParams + 1 /\ MaxParams \in Nat
  BY BulkInsertAssumption
<1>2. q \in Int /\ f * q <= MaxParams + 1 /\ MaxParams + 1 < f * (q + 1)
  BY <1>1
<1>3. q >= 2
  <2>1. SUFFICES ASSUME q <= 1 PROVE FALSE
    BY <1>2
  <2>2. f * (q + 1) <= f * 2
    BY <2>1, <1>1, <1>2
  <2>3. QED
    BY <2>2, <1>1, <1>2
<1>4. (q - 1) * f = f * q - f
  BY <1>1, <1>2
<1>5. QED
  BY <1>1, <1>2, <1>3, <1>4 DEF MaxBulkInsert

\* k rows with p placeholders each are within s rows with f placeholders each.
LEMMA Monotone ==
    ASSUME NEW k \in Nat, NEW s \in Nat, NEW p \in Nat, NEW f \in Nat, k <= s, p <= f
    PROVE  k * p <= s * f
<1>1. k * p <= s * p
  OBVIOUS
<1>2. s * p <= s * f
  OBVIOUS
<1>3. QED
  BY <1>1, <1>2

\* The loop invariant holds when bulkInsert is called.
LEMMA InitBulkInv == BulkInit => BulkInv
<1> SUFFICES ASSUME BulkInit PROVE BulkInv
  OBVIOUS
<1>1. shape \in Shapes /\ len \in 0..MaxLen /\ i = 0 /\ batch = 0 /\ rows = {}
      /\ status = "running" /\ MaxLen \in Nat
  BY BulkInsertAssumption DEF BulkInit
<1>2. Size \in Nat
  BY <1>1, SizeFits DEF Size
<1>3. 0..(Minimum(i, len) - 1) = {}
  BY <1>1 DEF Minimum
<1>4. QED
  BY <1>1, <1>2, <1>3 DEF BulkInv, BulkTypeOK

\* Every batch, a failing one included, and the return keep the loop invariant.
LEMMA NextBulkInv == BulkInv /\ [BulkNext]_bulkVars => BulkInv'
<1> SUFFICES ASSUME BulkInv, [BulkNext]_bulkVars PROVE BulkInv'
  OBVIOUS
<1>0. shape \in Shapes /\ len \in Nat /\ i \in Nat /\ batch \in Nat /\ MaxLen \in Nat
  BY BulkInsertAssumption DEF BulkInv, BulkTypeOK
<1>1. Size \in Nat \ {0}
  BY <1>0, SizeFits DEF Size
<1>2. shape' = shape => Size' = Size
  BY DEF Size, MaxBulkInsert
<1>3. CASE Batch
  <2>1. i < len /\ rows = 0..(i - 1) /\ status = "running" /\ len' = len /\ shape' = shape
    BY <1>0, <1>3 DEF Batch, BulkInv, Minimum
  <2>2. Limit \in Nat /\ i <= Limit /\ Limit - i <= Size
    BY <1>0, <1>1, <2>1 DEF Limit, Minimum
  <2>3. Limit = Minimum(i', len')
    BY <1>3, <2>1 DEF Batch, Limit
  <2>4. (0..(i - 1)) \cup (i..(Limit - 1)) = 0..(Limit - 1)
    BY <1>0, <2>2
  <2>5. rows' = 0..(Minimum(i', len') - 1)
    BY <1>3, <2>1, <2>3, <2>4 DEF Batch
  <2>6. i' \in Nat /\ batch' \in Nat /\ batch' <= Size' /\ status' = "running"
    BY <1>0, <1>1, <1>2, <1>3, <2>1, <2>2 DEF Batch
  <2>7. rows' \subseteq Nat
    BY <2>2, <2>3, <2>5
  <2>8. QED
    BY <2>1, <2>5, <2>6, <2>7 DEF BulkInv, BulkTypeOK
<1>4. CASE BatchFails
  <2>1. Limit \in Nat /\ i <= Limit /\ Limit - i <= Size
    BY <1>0, <1>1, <1>4 DEF BatchFails, Limit, Minimum
  <2>2. QED
    BY <1>0, <1>2, <1>4, <2>1 DEF BatchFails, BulkInv, BulkTypeOK
<1>5. CASE Return
  BY <1>0, <1>2, <1>5 DEF Return, BulkInv, BulkTypeOK
<1>6. CASE UNCHANGED bulkVars
  BY <1>2, <1>6 DEF bulkVars, BulkInv, BulkTypeOK
<1>7. QED
  BY <1>3, <1>4, <1>5, <1>6 DEF BulkNext

\* BulkInv gives both properties.
LEMMA BulkInvSafe == BulkInv => BatchFits /\ AllOrNothing
<1> SUFFICES ASSUME BulkInv PROVE BatchFits /\ AllOrNothing
  OBVIOUS
<1>0. shape \in Shapes /\ len \in Nat /\ i \in Nat /\ batch \in Nat
  BY BulkInsertAssumption DEF BulkInv, BulkTypeOK
<1>1. Size \in Nat /\ Size * shape.numField <= MaxParams /\ batch <= Size
  BY <1>0, SizeFits DEF Size, BulkInv
<1>2. shape.placeholders \in Nat /\ shape.numField \in Nat
      /\ shape.placeholders <= shape.numField /\ MaxParams \in Nat
  BY <1>0, BulkInsertAssumption
<1>3. batch * shape.placeholders <= Size * shape.numField
  BY <1>0, <1>1, <1>2, Monotone
<1>4. BatchFits
  BY <1>0, <1>1, <1>2, <1>3 DEF BatchFits
<1>5. AllOrNothing
  BY <1>0 DEF BulkInv, AllOrNothing, Minimum
<1>6. QED
  BY <1>4, <1>5

\* bulkInsert never exceeds the placeholders of a statement, for every size of import.
THEOREM BatchesFit == BulkSpec => []BatchFits
<1>1. BulkInit => BulkInv
  BY InitBulkInv
<1>2. BulkInv /\ [BulkNext]_bulkVars => BulkInv'
  BY NextBulkInv
<1>3. BulkInv => BatchFits
  BY BulkInvSafe
<1>4. QED
  BY <1>1, <1>2, <1>3, PTL DEF BulkSpec

\* bulkInsert inserts every row exactly once, or none.
THEOREM BulkInsertAllOrNothing == BulkSpec => []AllOrNothing
<1>1. BulkInit => BulkInv
  BY InitBulkInv
<1>2. BulkInv /\ [BulkNext]_bulkVars => BulkInv'
  BY NextBulkInv
<1>3. BulkInv => AllOrNothing
  BY BulkInvSafe
<1>4. QED
  BY <1>1, <1>2, <1>3, PTL DEF BulkSpec
=============================================================================
