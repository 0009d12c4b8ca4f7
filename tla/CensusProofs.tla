---------------------------- MODULE CensusProofs ----------------------------
(***************************************************************************)
(* The safety of Census, for any sets of members, censuses, dumps and      *)
(* senders, with or without deletions and faults.                          *)
(***************************************************************************)
EXTENDS Census, FiniteSetTheorems, TLAPS

-----------------------------------------------------------------------------
(* The inductive invariant *)

DumpSteps == {"members", "insert", "size", "commit"}
TxSteps   == {"size", "commit"}

\* At most one claim per member.
Single(S) == \A x, y \in S : x.member = y.member => x = y

\* What is known of a request from the step it is at: a dump has read a list from the step
\* "insert" on, and its open transaction has inserted exactly that list.
DumpInv(r) ==
    /\ pc[r] \in DumpSteps \cup {"idle", "done"}
    /\ pc[r] \in {"idle", "members", "done"} => req[r].list = {}
    /\ pc[r] \in DumpSteps => req[r].census \in Censuses
    /\ pc[r] # "done" => answer[r] = "none"
    /\ inserted[r] = IF pc[r] \in TxSteps THEN req[r].list ELSE {}
    /\ Single(req[r].list) /\ \A x \in req[r].list : x.key \in {"own", r}

ReqInv ==
    /\ \A r \in Reqs : DumpInv(r)
    /\ \A v \in Senders : req[v].list # {} => req[v].census \in Censuses

\* A committed claim is stored until its member is deleted, and a stored one was committed.
ClaimInv ==
    \A c \in Censuses :
        /\ given[c] # {} => censuses[c].live
        /\ \A g \in given[c] : /\ req[g[1]].census = c /\ answer[g[1]] \in {"ok", "unknown"}
                               /\ g[2] \in rows[c] \/ members[g[2].member] = "deleted"
        /\ \A x \in rows[c] : /\ Live(x.member)
                              /\ \E s \in Reqs : /\ <<s, x>> \in given[c]
                                                 /\ x.key # "own" => s = x.key

\* The locks of the open transactions: the census and the members of their rows are kept,
\* and no two of them insert, or insert again, a claim for one member.
TxInv ==
    /\ \A r \in Reqs : inserted[r] # {} => censuses[req[r].census].live
    /\ \A r \in Reqs : \A x \in inserted[r] :
        /\ Live(x.member)
        /\ \A g \in given[req[r].census] : g[2].member # x.member
    /\ \A r, s \in Reqs : (r # s /\ req[r].census = req[s].census) =>
        Names(inserted[r]) \cap Names(inserted[s]) = {}

\* The members a dump has read, or has committed claims for.
Took(r) == Names(req[r].list)
           \cup {m \in Members : \E c \in Censuses : \E g \in given[c] :
                                     g[1] = r /\ g[2].member = m}

\* What two dumps of one census have read is ordered by inclusion, as far as the members
\* still exist: a member of the target stays in it until it is deleted.
ReadInv ==
    /\ \A r \in Reqs : ~req[r].stale =>
        /\ pc[r] \in DumpSteps => /\ censuses[req[r].census].live
                                  /\ req[r].ephemeral = censuses[req[r].census].ephemeral
        /\ \A m \in Took(r) : /\ members[m] # "never"
                              /\ members[m] = "plain" => censuses[req[r].census].ephemeral
    /\ \A r, s \in Reqs : (/\ ~req[r].stale /\ ~req[s].stale
                           /\ req[r].census = req[s].census) =>
        \/ \A m \in Took(r) : Live(m) => m \in Took(s)
        \/ \A m \in Took(s) : Live(m) => m \in Took(r)

CensusInv == TypeOK /\ ReqInv /\ ClaimInv /\ TxInv /\ OneClaimPerMember /\ LinksAreClaims /\ ReadInv

-----------------------------------------------------------------------------
(* What the steps have in common *)

\* A list with one claim per member is no longer than the members are many.
LEMMA ListSize ==
    ASSUME NEW L \in SUBSET Claim, Single(L)
    PROVE  Cardinality(L) \in 0..Cardinality(Members)
<1> DEFINE f == [x \in L |-> x.member]
<1>1. f \in [L -> Members]
  BY DEF Claim
<1>2. \A x, y \in L : f[x] = f[y] => x = y
  BY DEF Single
<1>3. f \in Injection(L, Members)
  BY <1>1, <1>2 DEF Injection, IsInjective
<1>4. IsFiniteSet(L) /\ Cardinality(L) <= Cardinality(Members)
  BY <1>3, FS_Injection, CensusAssumption
<1>5. Cardinality(L) \in Nat /\ Cardinality(Members) \in Nat
  BY <1>4, FS_CardinalityType, CensusAssumption
<1> QED
  BY <1>4, <1>5

\* What a returning handler leaves of its request.
LEMMA AnswerReq ==
    ASSUME TypeOK, NEW r \in Reqs, NEW a \in {"ok", "error", "unknown"}, Answer(r, a)
    PROVE  /\ pc' \in [All -> Steps] /\ req' \in [All -> Request]
           /\ answer' \in [Reqs -> {"none", "ok", "error", "unknown", "lost"}]
           /\ pc'[r] = "done" /\ answer'[r] = a /\ req'[r].list = {}
           /\ req'[r].census = req[r].census /\ req'[r].stale = req[r].stale
           /\ \A q \in All : q # r => pc'[q] = pc[q] /\ req'[q] = req[q]
           /\ \A q \in Reqs : q # r => answer'[q] = answer[q]
<1>1. r \in All /\ req[r] \in Request
  BY DEF All, TypeOK
<1>2. pc' = [pc EXCEPT ![r] = "done"] /\ answer' = [answer EXCEPT ![r] = a]
  BY DEF Answer, Goto
<1>3. req' = [req EXCEPT ![r] = [req[r] EXCEPT !.list = {}, !.ephemeral = FALSE]]
  BY DEF Answer, TypeOK
<1>4. [req[r] EXCEPT !.list = {}, !.ephemeral = FALSE] \in Request
  BY <1>1 DEF Request
<1>5. req' \in [All -> Request] /\ \A q \in All : q # r => req'[q] = req[q]
  BY <1>1, <1>3, <1>4 DEF TypeOK
<1>6. req'[r].list = {} /\ req'[r].census = req[r].census /\ req'[r].stale = req[r].stale
  BY <1>1, <1>3 DEF TypeOK, Request
<1>7. pc' \in [All -> Steps] /\ pc'[r] = "done" /\ \A q \in All : q # r => pc'[q] = pc[q]
  BY <1>1, <1>2 DEF TypeOK, Steps
<1>8. /\ answer' \in [Reqs -> {"none", "ok", "error", "unknown", "lost"}] /\ answer'[r] = a
      /\ \A q \in Reqs : q # r => answer'[q] = answer[q]
  BY <1>2 DEF TypeOK
<1> QED
  BY <1>5, <1>6, <1>7, <1>8

\* What the request of a handler starts from.
LEMMA EmptyRequest == NoRequest \in Request /\ ~NoRequest.stale /\ NoRequest.list = {}
BY DEF NoRequest, Request

\* A request whose list changes: a dump reads its target, or a link is mailed.
LEMMA ListReq ==
    ASSUME TypeOK, NEW q \in All, NEW L \in SUBSET Claim, req' = [req EXCEPT ![q].list = L]
    PROVE  /\ req' \in [All -> Request]
           /\ req'[q].census = req[q].census /\ req'[q].ephemeral = req[q].ephemeral
           /\ req'[q].stale = req[q].stale /\ req'[q].list = L
           /\ \A z \in All : z # q => req'[z] = req[z]
<1> DEFINE n == [req[q] EXCEPT !.list = L]
<1>1. req[q] \in Request
  BY DEF TypeOK
<1>2. /\ n \in Request /\ n.census = req[q].census /\ n.ephemeral = req[q].ephemeral
      /\ n.stale = req[q].stale /\ n.list = L
  BY <1>1 DEF Request
<1>3. req' = [req EXCEPT ![q] = n]
  BY DEF TypeOK
<1> HIDE DEF n
<1> QED
  BY <1>2, <1>3 DEF TypeOK

\* The deletion of a census marks the requests that still use what they read of it.
LEMMA ForgetReq ==
    ASSUME TypeOK, NEW c \in Censuses, Forget(c)
    PROVE  /\ req' \in [All -> Request]
           /\ \A q \in All : /\ req'[q].census = req[q].census /\ req'[q].list = req[q].list
                             /\ req'[q].ephemeral = req[q].ephemeral
                             /\ ~req'[q].stale => /\ ~req[q].stale
                                                  /\ Reading(q) => req[q].census # c
<1>1. req' = [r \in All |-> [req[r] EXCEPT !.stale = @ \/ (Reading(r) /\ req[r].census = c)]]
  BY DEF Forget
<1>2. ASSUME NEW q \in All
      PROVE  /\ req'[q] \in Request
             /\ req'[q].census = req[q].census /\ req'[q].list = req[q].list
             /\ req'[q].ephemeral = req[q].ephemeral
             /\ req'[q].stale = (req[q].stale \/ (Reading(q) /\ req[q].census = c))
  <2>1. req[q] \in Request /\ Reading(q) \in BOOLEAN
    BY DEF TypeOK, Reading, InFlight
  <2>2. req'[q] = [req[q] EXCEPT !.stale = @ \/ (Reading(q) /\ req[q].census = c)]
    BY <1>1
  <2> QED
    BY <2>1, <2>2 DEF Request
<1>3. req' \in [All -> Request]
  BY <1>1, <1>2
<1> QED
  BY <1>2, <1>3

\* The death of the process empties every list and keeps the rest of the requests.
LEMMA DieReq ==
    ASSUME TypeOK, NEW S \in SUBSET All, Die(S)
    PROVE  /\ req' \in [All -> Request] /\ pc' \in [All -> Steps]
           /\ answer' \in [Reqs -> {"none", "ok", "error", "unknown", "lost"}]
           /\ \A q \in All : /\ req'[q].census = req[q].census /\ req'[q].list = {}
                             /\ req'[q].stale = req[q].stale
                             /\ pc'[q] = IF q \in S THEN "done" ELSE pc[q]
           /\ \A q \in Reqs : /\ answer'[q] = IF q \in S THEN "lost" ELSE answer[q]
                              /\ inserted'[q] = {}
           /\ inserted' \in [Reqs -> SUBSET Claim]
           /\ UNCHANGED db
<1>1. /\ pc' = [r \in All |-> IF r \in S THEN "done" ELSE pc[r]]
      /\ answer' = [r \in Reqs |-> IF r \in S THEN "lost" ELSE answer[r]]
      /\ inserted' = [r \in Reqs |-> {}] /\ UNCHANGED db
  BY DEF Die
<1>2. req' = [r \in All |-> [req[r] EXCEPT !.list = {}, !.ephemeral = FALSE]]
  BY DEF Die
<1>3. ASSUME NEW q \in All
      PROVE  /\ req'[q] \in Request /\ req'[q].census = req[q].census /\ req'[q].list = {}
             /\ req'[q].stale = req[q].stale
  <2>1. req[q] \in Request /\ req'[q] = [req[q] EXCEPT !.list = {}, !.ephemeral = FALSE]
    BY <1>2 DEF TypeOK
  <2> QED
    BY <2>1 DEF Request
<1>4. req' \in [All -> Request]
  BY <1>2, <1>3
<1>5. pc' \in [All -> Steps] /\ answer' \in [Reqs -> {"none", "ok", "error", "unknown", "lost"}]
  BY <1>1 DEF TypeOK, Steps
<1> QED
  BY <1>1, <1>3, <1>4, <1>5

\* The claims a dump reads are well formed, at most one per member, and its own.
Target(r) == {[member |-> m, key |-> "own"] : m \in {n \in Members : members[n] = "registered"}}
             \cup {[member |-> m, key |-> r] :
                     m \in {n \in Members : members[n] = "plain" /\ req[r].ephemeral}}

LEMMA TargetList ==
    ASSUME NEW r \in Reqs
    PROVE  /\ Target(r) \in SUBSET Claim /\ Single(Target(r))
           /\ \A x \in Target(r) : x.key \in {"own", r}
           /\ \A m \in Members : m \in Names(Target(r)) <=>
                  members[m] = "registered" \/ (members[m] = "plain" /\ req[r].ephemeral)
<1>1. Target(r) \in SUBSET Claim /\ \A x \in Target(r) : x.key \in {"own", r}
  BY DEF Target, Claim
<1>2. Single(Target(r))
  <2> SUFFICES ASSUME NEW x \in Target(r), NEW y \in Target(r), x.member = y.member
               PROVE  x = y
    BY DEF Single
  <2>1. \/ x.key = "own" /\ members[x.member] = "registered"
        \/ x.key = r /\ members[x.member] = "plain"
    BY DEF Target
  <2>2. \/ y.key = "own" /\ members[y.member] = "registered"
        \/ y.key = r /\ members[y.member] = "plain"
    BY DEF Target
  <2>3. x.key = y.key
    BY <2>1, <2>2
  <2> QED
    BY <1>1, <2>3 DEF Claim
<1>3. ASSUME NEW m \in Members
      PROVE  m \in Names(Target(r)) <=>
                  members[m] = "registered" \/ (members[m] = "plain" /\ req[r].ephemeral)
  <2>1. ASSUME m \in Names(Target(r))
        PROVE  members[m] = "registered" \/ (members[m] = "plain" /\ req[r].ephemeral)
    BY <2>1 DEF Names, Target
  <2>2. ASSUME members[m] = "registered" PROVE m \in Names(Target(r))
    <3>1. [member |-> m, key |-> "own"] \in Target(r)
      BY <2>2 DEF Target
    <3> QED
      BY <3>1 DEF Names
  <2>3. ASSUME members[m] = "plain", req[r].ephemeral PROVE m \in Names(Target(r))
    <3>1. [member |-> m, key |-> r] \in Target(r)
      BY <2>3 DEF Target
    <3> QED
      BY <3>1 DEF Names
  <2> QED
    BY <2>1, <2>2, <2>3
<1> QED
  BY <1>1, <1>2, <1>3

-----------------------------------------------------------------------------
(* What keeps each part of the invariant *)

\* A dump has committed nothing before it returns, and keeps no list afterwards.
LEMMA TookCases ==
    ASSUME CensusInv, NEW r \in Reqs
    PROVE  /\ pc[r] # "done" => Took(r) = Names(req[r].list)
           /\ pc[r] \in {"idle", "members"} => Took(r) = {}
           /\ Took(r) \subseteq Members
<1>1. r \in All /\ req[r].list \in SUBSET Claim
  BY DEF CensusInv, TypeOK, All, Request
<1>2. Names(req[r].list) \subseteq Members
  BY <1>1 DEF Names, Claim
<1>3. ASSUME pc[r] # "done", NEW c \in Censuses, NEW g \in given[c], g[1] = r PROVE FALSE
  BY <1>3 DEF CensusInv, ClaimInv, ReqInv, DumpInv
<1>4. pc[r] # "done" => Took(r) = Names(req[r].list)
  BY <1>3 DEF Took
<1>5. pc[r] \in {"idle", "members"} => Took(r) = {}
  BY <1>4 DEF CensusInv, ReqInv, DumpInv, Names
<1> QED
  BY <1>2, <1>4, <1>5 DEF Took

\* The claims, when the tables stay as they are and no finished dump is touched.
LEMMA ClaimsKeep ==
    ASSUME CensusInv, UNCHANGED <<members, censuses, rows, given>>,
           \A r \in Reqs : answer[r] \in {"ok", "unknown"} =>
               answer'[r] = answer[r] /\ req'[r].census = req[r].census
    PROVE  ClaimInv' /\ OneClaimPerMember'
<1>1. OneClaimPerMember'
  BY DEF CensusInv, OneClaimPerMember
<1>2. \A c \in Censuses : \A g \in given[c] : g[1] \in Reqs
  BY DEF CensusInv, TypeOK
<1>3. ASSUME NEW c \in Censuses, NEW g \in given[c]
      PROVE  /\ req'[g[1]].census = c /\ answer'[g[1]] \in {"ok", "unknown"}
             /\ g[2] \in rows'[c] \/ members'[g[2].member] = "deleted"
  BY <1>2, <1>3 DEF CensusInv, ClaimInv
<1>4. ASSUME NEW c \in Censuses, NEW x \in rows[c]
      PROVE  /\ Live(x.member)'
             /\ \E s \in Reqs : <<s, x>> \in given'[c] /\ (x.key # "own" => s = x.key)
  BY <1>4 DEF CensusInv, ClaimInv, Live
<1>5. \A c \in Censuses : given'[c] # {} => censuses'[c].live
  BY DEF CensusInv, ClaimInv
<1>6. ClaimInv'
  BY <1>3, <1>4, <1>5 DEF ClaimInv
<1> QED
  BY <1>1, <1>6

\* The locks, when the tables stay as they are and no transaction inserts anything.
LEMMA TxKeep ==
    ASSUME CensusInv, UNCHANGED <<members, censuses, given>>,
           \A r \in Reqs : \/ inserted'[r] = {}
                           \/ inserted'[r] = inserted[r] /\ req'[r].census = req[r].census
    PROVE  TxInv'
<1>1. \A r \in Reqs : inserted'[r] # {} => censuses'[req'[r].census].live
  BY DEF CensusInv, TxInv
<1>2. \A r \in Reqs : \A x \in inserted'[r] :
        Live(x.member)' /\ \A g \in given'[req'[r].census] : g[2].member # x.member
  BY DEF CensusInv, TxInv, Live
<1>3. ASSUME NEW r \in Reqs, NEW s \in Reqs, r # s, req'[r].census = req'[s].census
      PROVE  Names(inserted'[r]) \cap Names(inserted'[s]) = {}
  <2>1. CASE inserted'[r] = {} \/ inserted'[s] = {}
    BY <2>1 DEF Names
  <2>2. CASE inserted'[r] # {} /\ inserted'[s] # {}
    <3>1. /\ inserted'[r] = inserted[r] /\ inserted'[s] = inserted[s]
          /\ req[r].census = req[s].census
      BY <1>3, <2>2
    <3> QED
      BY <1>3, <3>1 DEF CensusInv, TxInv
  <2> QED
    BY <2>1, <2>2
<1> QED
  BY <1>1, <1>2, <1>3 DEF TxInv

\* The links, when no sender reads anything.
LEMMA LinksKeep ==
    ASSUME CensusInv, UNCHANGED given,
           \A v \in Senders : /\ req'[v].list \subseteq req[v].list
                              /\ req'[v].census = req[v].census /\ req'[v].stale = req[v].stale
    PROVE  LinksAreClaims'
BY DEF CensusInv, LinksAreClaims

\* What the dumps have read, when each of them keeps it or forgets it.
LEMMA ReadKeep ==
    ASSUME CensusInv,
           \A m \in Members : members[m] # "never" =>
               /\ members'[m] # "never"
               /\ Live(m)' => Live(m)
               /\ members'[m] = "plain" => members[m] = "plain",
           \A r \in Reqs : ~req'[r].stale =>
               /\ pc'[r] \in DumpSteps =>
                      /\ censuses'[req'[r].census].live
                      /\ req'[r].ephemeral = censuses'[req'[r].census].ephemeral
               /\ Took(r)' # {} =>
                      /\ Took(r)' = Took(r) /\ ~req[r].stale
                      /\ req'[r].census = req[r].census
                      /\ censuses'[req[r].census].ephemeral = censuses[req[r].census].ephemeral
    PROVE  ReadInv'
<1>1. ASSUME NEW r \in Reqs, ~req'[r].stale, NEW m \in Took(r)'
      PROVE  members'[m] # "never" /\ (members'[m] = "plain" => censuses'[req'[r].census].ephemeral)
  <2>1. m \in Took(r) /\ ~req[r].stale /\ m \in Members
    BY <1>1, TookCases
  <2>2. members[m] # "never" /\ (members[m] = "plain" => censuses[req[r].census].ephemeral)
    BY <2>1 DEF CensusInv, ReadInv
  <2> QED
    BY <1>1, <2>1, <2>2
<1>2. ASSUME NEW r \in Reqs, NEW s \in Reqs, ~req'[r].stale, ~req'[s].stale,
             req'[r].census = req'[s].census
      PROVE  \/ \A m \in Took(r)' : Live(m)' => m \in Took(s)'
             \/ \A m \in Took(s)' : Live(m)' => m \in Took(r)'
  <2>1. CASE Took(r)' = {} \/ Took(s)' = {}
    BY <2>1
  <2>2. CASE Took(r)' # {} /\ Took(s)' # {}
    <3>1. /\ Took(r)' = Took(r) /\ Took(s)' = Took(s) /\ ~req[r].stale /\ ~req[s].stale
          /\ req[r].census = req[s].census
      BY <1>2, <2>2
    <3>2. \/ \A m \in Took(r) : Live(m) => m \in Took(s)
          \/ \A m \in Took(s) : Live(m) => m \in Took(r)
      BY <3>1 DEF CensusInv, ReadInv
    <3>3. \A m \in Took(r) \cup Took(s) : Live(m)' => Live(m)
      <4> SUFFICES ASSUME NEW m \in Took(r) \cup Took(s), Live(m)' PROVE Live(m)
        OBVIOUS
      <4>1. m \in Members /\ members[m] # "never"
        BY <3>1, TookCases DEF CensusInv, ReadInv
      <4> QED
        BY <4>1
    <3> QED
      BY <3>1, <3>2, <3>3
  <2> QED
    BY <2>1, <2>2
<1> QED
  BY <1>1, <1>2 DEF ReadInv

-----------------------------------------------------------------------------
(* The actions *)

\* Members are added and register, and roots are published.
LEMMA MembersGrow ==
    ASSUME CensusInv, UNCHANGED <<censuses, rows, given, pc, req, answer, inserted>>,
           members' \in [Members -> {"never", "plain", "registered", "deleted"}],
           root' \in [Censuses -> Reqs \cup {"none"}],
           \A m \in Members : \/ members'[m] = members[m]
                              \/ members[m] = "never" /\ Live(m)'
                              \/ members[m] = "plain" /\ members'[m] = "registered"
    PROVE  CensusInv'
<1>0. TypeOK /\ ReqInv /\ ClaimInv /\ TxInv /\ OneClaimPerMember /\ LinksAreClaims
  BY DEF CensusInv
<1>1. TypeOK'
  BY <1>0 DEF TypeOK
<1>2. ReqInv' /\ OneClaimPerMember' /\ LinksAreClaims'
  BY <1>0 DEF ReqInv, DumpInv, OneClaimPerMember, LinksAreClaims
<1>3. \A m \in Members : /\ Live(m) => Live(m)'
                         /\ members[m] = "deleted" => members'[m] = "deleted"
  BY DEF Live
<1>4. \A c \in Censuses : /\ \A x \in rows[c] : x.member \in Members
                          /\ \A g \in given[c] : g[2].member \in Members
  BY <1>0 DEF TypeOK, Claim
<1>5. \A r \in Reqs : \A x \in inserted[r] : x.member \in Members
  BY <1>0 DEF TypeOK, Claim
<1>6. ClaimInv'
  <2>1. ASSUME NEW c \in Censuses, NEW g \in given'[c]
        PROVE  /\ req'[g[1]].census = c /\ answer'[g[1]] \in {"ok", "unknown"}
               /\ g[2] \in rows'[c] \/ members'[g[2].member] = "deleted"
    BY <1>0, <1>3, <1>4, <2>1 DEF ClaimInv
  <2>2. ASSUME NEW c \in Censuses, NEW x \in rows'[c]
        PROVE  /\ Live(x.member)'
               /\ \E s \in Reqs : <<s, x>> \in given'[c] /\ (x.key # "own" => s = x.key)
    BY <1>0, <1>3, <1>4, <2>2 DEF ClaimInv
  <2>3. \A c \in Censuses : given'[c] # {} => censuses'[c].live
    BY <1>0 DEF ClaimInv
  <2> QED
    BY <2>1, <2>2, <2>3 DEF ClaimInv
<1>7. TxInv'
  BY <1>0, <1>3, <1>5 DEF TxInv
<1>8. \A r \in Reqs : Took(r)' = Took(r)
  BY DEF Took
<1>9. ReadInv'
  <2>1. \A m \in Members : members[m] # "never" =>
               /\ members'[m] # "never" /\ (Live(m)' => Live(m))
               /\ (members'[m] = "plain" => members[m] = "plain")
    BY DEF Live
  <2>2. \A r \in Reqs : ~req[r].stale => (pc[r] \in DumpSteps =>
               /\ censuses[req[r].census].live
               /\ req[r].ephemeral = censuses[req[r].census].ephemeral)
    BY DEF CensusInv, ReadInv
  <2> QED
    BY <1>8, <2>1, <2>2, ReadKeep
<1> QED
  BY <1>1, <1>2, <1>6, <1>7, <1>9 DEF CensusInv

\* A member is deleted, and its claims with it.
LEMMA MemberDeleted ==
    ASSUME CensusInv, NEW m \in Members, DeleteMember(m) PROVE CensusInv'
<1>0. TypeOK /\ ReqInv /\ ClaimInv /\ TxInv /\ OneClaimPerMember /\ LinksAreClaims
  BY DEF CensusInv
<1>a. /\ Live(m) /\ ~RefersToMember(m)
      /\ members' = [members EXCEPT ![m] = "deleted"]
      /\ rows' = [c \in Censuses |-> {x \in rows[c] : x.member # m}]
      /\ UNCHANGED <<censuses, root, given, pc, req, answer, inserted>>
  BY DEF DeleteMember
<1>1. TypeOK'
  BY <1>0, <1>a DEF TypeOK
<1>2. ReqInv' /\ OneClaimPerMember' /\ LinksAreClaims'
  BY <1>0, <1>a DEF ReqInv, DumpInv, OneClaimPerMember, LinksAreClaims
<1>3. members'[m] = "deleted" /\ \A n \in Members : n # m => members'[n] = members[n]
  BY <1>0, <1>a DEF TypeOK
<1>4. \A c \in Censuses : /\ \A x \in rows[c] : x.member \in Members
                          /\ \A g \in given[c] : g[2].member \in Members
  BY <1>0 DEF TypeOK, Claim
<1>5. \A c \in Censuses : rows'[c] = {x \in rows[c] : x.member # m}
  BY <1>a
<1>6. ClaimInv'
  <2>1. ASSUME NEW c \in Censuses, NEW g \in given'[c]
        PROVE  g[2] \in rows'[c] \/ members'[g[2].member] = "deleted"
    BY <1>0, <1>a, <1>3, <1>4, <1>5, <2>1 DEF ClaimInv
  <2>2. ASSUME NEW c \in Censuses, NEW x \in rows'[c]
        PROVE  /\ Live(x.member)'
               /\ \E s \in Reqs : <<s, x>> \in given'[c] /\ (x.key # "own" => s = x.key)
    <3>1. x \in rows[c] /\ x.member # m /\ x.member \in Members
      BY <1>4, <1>5, <2>2
    <3>2. members'[x.member] = members[x.member]
      BY <1>3, <3>1
    <3>3. Live(x.member) /\ \E s \in Reqs : <<s, x>> \in given[c] /\ (x.key # "own" => s = x.key)
      BY <1>0, <3>1 DEF ClaimInv
    <3> QED
      BY <1>a, <3>2, <3>3 DEF Live
  <2>3. \A c \in Censuses :
          /\ given'[c] # {} => censuses'[c].live
          /\ \A g \in given'[c] : req'[g[1]].census = c /\ answer'[g[1]] \in {"ok", "unknown"}
    BY <1>0, <1>a DEF ClaimInv
  <2> QED
    BY <2>1, <2>2, <2>3 DEF ClaimInv
<1>7. TxInv'
  <2>1. ASSUME NEW r \in Reqs, NEW x \in inserted[r] PROVE Live(x.member)'
    <3>1. x.member # m /\ x.member \in Members
      BY <1>0, <1>a, <2>1 DEF RefersToMember, Names, TypeOK, Claim
    <3> QED
      BY <1>0, <1>3, <2>1, <3>1 DEF TxInv, Live
  <2> QED
    BY <1>0, <1>a, <2>1 DEF TxInv
<1>8. \A r \in Reqs : Took(r)' = Took(r)
  BY <1>a DEF Took
<1>9. ReadInv'
  <2>1. \A n \in Members : members[n] # "never" =>
               /\ members'[n] # "never" /\ (Live(n)' => Live(n))
               /\ (members'[n] = "plain" => members[n] = "plain")
    BY <1>3 DEF Live
  <2>2. \A r \in Reqs : ~req[r].stale => (pc[r] \in DumpSteps =>
               /\ censuses[req[r].census].live
               /\ req[r].ephemeral = censuses[req[r].census].ephemeral)
    BY DEF CensusInv, ReadInv
  <2> QED
    BY <1>8, <1>a, <2>1, <2>2, ReadKeep
<1> QED
  BY <1>1, <1>2, <1>6, <1>7, <1>9 DEF CensusInv

\* What a dump that is not stale has read belongs to a census that exists.
LEMMA TookLive ==
    ASSUME CensusInv, NEW r \in Reqs, ~req[r].stale, Took(r) # {}
    PROVE  req[r].census \in Censuses /\ censuses[req[r].census].live
<1>1. CASE req[r].list # {}
  BY <1>1 DEF CensusInv, ReqInv, DumpInv, ReadInv
<1>2. CASE req[r].list = {}
  <2>1. PICK c \in Censuses : \E g \in given[c] : g[1] = r
    BY <1>2 DEF Took, Names
  <2> QED
    BY <2>1 DEF CensusInv, ClaimInv
<1> QED
  BY <1>1, <1>2

\* A census is created.
LEMMA CensusAdded ==
    ASSUME CensusInv, NEW c \in Censuses, NEW e \in BOOLEAN, AddCensus(c, e) PROVE CensusInv'
<1>0. TypeOK /\ ReqInv /\ ClaimInv /\ TxInv /\ OneClaimPerMember /\ LinksAreClaims
  BY DEF CensusInv
<1>a. ~censuses[c].live /\ UNCHANGED <<members, rows, root, given, pc, req, answer, inserted>>
  BY DEF AddCensus
<1> DEFINE n == [NoCensus EXCEPT !.live = TRUE, !.ephemeral = e]
<1>b. n \in CensusRow /\ n.live
  <2>1. NoCensus \in CensusRow
    <3>1. Cardinality(Members) \in Nat
      BY CensusAssumption, FS_CardinalityType
    <3> QED
      BY <3>1 DEF NoCensus, CensusRow
  <2> QED
    BY <2>1 DEF CensusRow
<1>c. censuses' = [censuses EXCEPT ![c] = n]
  BY DEF AddCensus
<1> HIDE DEF n
<1>1. TypeOK'
  BY <1>0, <1>a, <1>b, <1>c DEF TypeOK
<1>2. ReqInv' /\ OneClaimPerMember' /\ LinksAreClaims'
  BY <1>0, <1>a DEF ReqInv, DumpInv, OneClaimPerMember, LinksAreClaims
<1>3. censuses'[c].live /\ \A d \in Censuses : d # c => censuses'[d] = censuses[d]
  BY <1>0, <1>b, <1>c DEF TypeOK
<1>4. ClaimInv'
  BY <1>0, <1>a, <1>3 DEF ClaimInv, Live
<1>5. TxInv'
  <2>1. ASSUME NEW r \in Reqs, inserted[r] # {} PROVE censuses'[req[r].census].live
    BY <1>0, <1>3, <2>1 DEF TxInv, ReqInv, DumpInv, TxSteps, DumpSteps
  <2> QED
    BY <1>0, <1>a, <2>1 DEF TxInv, Live
<1>6. ReadInv'
  <2>1. \A r \in Reqs : Took(r)' = Took(r)
    BY <1>a DEF Took
  <2>2. ASSUME NEW r \in Reqs, ~req[r].stale, pc[r] \in DumpSteps
        PROVE  /\ censuses'[req[r].census].live
               /\ req[r].ephemeral = censuses'[req[r].census].ephemeral
    BY <1>0, <1>a, <1>3, <2>2 DEF CensusInv, ReadInv, ReqInv, DumpInv
  <2>3. ASSUME NEW r \in Reqs, ~req[r].stale, Took(r) # {}
        PROVE  censuses'[req[r].census].ephemeral = censuses[req[r].census].ephemeral
    BY <1>a, <1>3, <2>3, TookLive
  <2>4. \A m \in Members : Live(m)' => Live(m)
    BY <1>a DEF Live
  <2> QED
    BY <1>a, <2>1, <2>2, <2>3, <2>4, ReadKeep
<1> QED
  BY <1>1, <1>2, <1>4, <1>5, <1>6 DEF CensusInv

\* A census is deleted, and its claims with it.
LEMMA CensusDeleted ==
    ASSUME CensusInv, NEW c \in Censuses, DeleteCensus(c) PROVE CensusInv'
<1>0. TypeOK /\ ReqInv /\ ClaimInv /\ TxInv /\ OneClaimPerMember /\ LinksAreClaims
  BY DEF CensusInv
<1>a. /\ ~RefersToCensus(c) /\ Forget(c)
      /\ censuses' = [censuses EXCEPT ![c] = NoCensus]
      /\ rows' = [rows EXCEPT ![c] = {}] /\ root' = [root EXCEPT ![c] = "none"]
      /\ given' = [given EXCEPT ![c] = {}]
      /\ UNCHANGED <<members, pc, answer, inserted>>
  BY DEF DeleteCensus, Forget
<1>b. /\ req' \in [All -> Request]
      /\ \A q \in All : /\ req'[q].census = req[q].census /\ req'[q].list = req[q].list
                        /\ req'[q].ephemeral = req[q].ephemeral
                        /\ ~req'[q].stale => /\ ~req[q].stale
                                             /\ Reading(q) => req[q].census # c
  BY <1>0, <1>a, ForgetReq
<1>c. Reqs \subseteq All /\ Senders \subseteq All
  BY DEF All
<1>1. TypeOK'
  <2>1. NoCensus \in CensusRow
    <3>1. Cardinality(Members) \in Nat
      BY CensusAssumption, FS_CardinalityType
    <3> QED
      BY <3>1 DEF NoCensus, CensusRow
  <2> QED
    BY <1>0, <1>a, <1>b, <2>1 DEF TypeOK
<1>2. /\ rows'[c] = {} /\ given'[c] = {}
      /\ \A d \in Censuses : d # c => /\ rows'[d] = rows[d] /\ given'[d] = given[d]
                                      /\ censuses'[d] = censuses[d]
  BY <1>0, <1>a DEF TypeOK
<1>3. ReqInv'
  BY <1>0, <1>a, <1>b, <1>c DEF ReqInv, DumpInv
<1>4. OneClaimPerMember'
  BY <1>0, <1>2 DEF OneClaimPerMember
<1>5. ClaimInv'
  <2>1. \A d \in Censuses : \A g \in given[d] : g[1] \in All
    BY <1>0 DEF TypeOK, All
  <2>2. ASSUME NEW d \in Censuses, NEW g \in given'[d]
        PROVE  /\ req'[g[1]].census = d /\ answer'[g[1]] \in {"ok", "unknown"}
               /\ g[2] \in rows'[d] \/ members'[g[2].member] = "deleted"
    BY <1>0, <1>a, <1>b, <1>2, <2>1, <2>2 DEF ClaimInv
  <2>3. ASSUME NEW d \in Censuses, NEW x \in rows'[d]
        PROVE  /\ Live(x.member)'
               /\ \E s \in Reqs : <<s, x>> \in given'[d] /\ (x.key # "own" => s = x.key)
    BY <1>0, <1>a, <1>2, <2>3 DEF ClaimInv, Live
  <2>4. \A d \in Censuses : given'[d] # {} => censuses'[d].live
    BY <1>0, <1>2 DEF ClaimInv
  <2> QED
    BY <2>2, <2>3, <2>4 DEF ClaimInv
<1>6. TxInv'
  <2>1. ASSUME NEW r \in Reqs, inserted[r] # {}
        PROVE  req[r].census # c /\ req[r].census \in Censuses
    BY <1>0, <1>a, <2>1 DEF RefersToCensus, ReqInv, DumpInv, TxSteps, DumpSteps
  <2>2. ASSUME NEW r \in Reqs, inserted[r] # {}
        PROVE  /\ censuses'[req'[r].census].live /\ given'[req'[r].census] = given[req[r].census]
    BY <1>0, <1>2, <1>b, <1>c, <2>1, <2>2 DEF TxInv
  <2>3. ASSUME NEW r \in Reqs, NEW x \in inserted[r]
        PROVE  Live(x.member)' /\ \A g \in given'[req'[r].census] : g[2].member # x.member
    BY <1>0, <1>a, <2>2, <2>3 DEF TxInv, Live
  <2>4. ASSUME NEW r \in Reqs, NEW s \in Reqs, r # s, req'[r].census = req'[s].census
        PROVE  Names(inserted'[r]) \cap Names(inserted'[s]) = {}
    BY <1>0, <1>a, <1>b, <1>c, <2>4 DEF TxInv
  <2> QED
    BY <1>a, <2>2, <2>3, <2>4 DEF TxInv
<1>7. LinksAreClaims'
  <2> SUFFICES ASSUME NEW v \in Senders, NEW x \in req'[v].list, ~req'[v].stale
               PROVE  x.key # "own" /\ <<x.key, x>> \in given'[req'[v].census]
    BY DEF LinksAreClaims
  <2>1. x \in req[v].list /\ ~req[v].stale /\ req'[v].census = req[v].census /\ Reading(v)
    BY <1>b, <1>c DEF Reading
  <2>2. req[v].census # c /\ req[v].census \in Censuses
    BY <1>0, <1>b, <1>c, <2>1 DEF ReqInv, DumpInv
  <2> QED
    BY <1>0, <1>2, <2>1, <2>2 DEF LinksAreClaims
<1>8. ReadInv'
  <2>1. ASSUME NEW r \in Reqs, ~req'[r].stale, pc'[r] \in DumpSteps
        PROVE  /\ censuses'[req'[r].census].live
               /\ req'[r].ephemeral = censuses'[req'[r].census].ephemeral
    <3>1. req[r].census # c /\ req[r].census \in Censuses /\ ~req[r].stale
      BY <1>0, <1>a, <1>b, <1>c, <2>1 DEF ReqInv, DumpInv, Reading, InFlight, DumpSteps
    <3> QED
      BY <1>a, <1>b, <1>c, <1>2, <2>1, <3>1 DEF CensusInv, ReadInv
  <2>2. ASSUME NEW r \in Reqs, ~req'[r].stale, Took(r)' # {}
        PROVE  /\ Took(r)' = Took(r) /\ ~req[r].stale
               /\ req'[r].census = req[r].census
               /\ censuses'[req[r].census].ephemeral = censuses[req[r].census].ephemeral
    <3>1. ~req[r].stale /\ req'[r].list = req[r].list /\ req'[r].census = req[r].census
      BY <1>b, <1>c, <2>2
    <3>2. \A d \in Censuses : \A g \in given[d] : g[1] = r => d = req[r].census
      BY <1>0 DEF ClaimInv
    <3>3. req[r].census # c
      <4>1. CASE req[r].list # {}
        BY <1>b, <1>c, <2>2, <4>1 DEF Reading
      <4>2. CASE req[r].list = {}
        <5>1. PICK d \in Censuses : \E g \in given'[d] : g[1] = r
          BY <2>2, <3>1, <4>2 DEF Took, Names
        <5> QED
          BY <1>2, <3>2, <5>1
      <4> QED
        BY <4>1, <4>2
    <3>4. Took(r)' = Took(r)
      <4>1. ASSUME NEW d \in Censuses, NEW g, g[1] = r PROVE g \in given'[d] <=> g \in given[d]
        BY <1>2, <3>2, <3>3, <4>1
      <4> QED
        BY <3>1, <4>1 DEF Took
    <3>5. censuses'[req[r].census] = censuses[req[r].census]
      BY <1>a, <3>3, <1>2, <3>1, <3>4, <2>2, TookLive
    <3> QED
      BY <3>1, <3>4, <3>5
  <2>3. \A m \in Members : members'[m] = members[m] /\ (Live(m)' => Live(m))
    BY <1>a DEF Live
  <2> QED
    BY <2>1, <2>2, <2>3, ReadKeep
<1> QED
  BY <1>1, <1>3, <1>4, <1>5, <1>6, <1>7, <1>8 DEF CensusInv

\* The part of the invariant that a step on the tables of nobody keeps: what is left to
\* show is the types, the requests and what the dumps have read.
LEMMA TablesKeep ==
    ASSUME CensusInv, UNCHANGED db,
           \A r \in Reqs : answer[r] \in {"ok", "unknown"} =>
               answer'[r] = answer[r] /\ req'[r].census = req[r].census,
           \A r \in Reqs : \/ inserted'[r] = {}
                           \/ inserted'[r] = inserted[r] /\ req'[r].census = req[r].census
    PROVE  ClaimInv' /\ OneClaimPerMember' /\ TxInv'
BY ClaimsKeep, TxKeep DEF db

\* Reading that depends only on the request, when the tables stay as they are.
LEMMA ReadsKeep ==
    ASSUME CensusInv, UNCHANGED db,
           \A r \in Reqs : ~req'[r].stale =>
               /\ pc'[r] \in DumpSteps =>
                      /\ censuses[req'[r].census].live
                      /\ req'[r].ephemeral = censuses[req'[r].census].ephemeral
               /\ Took(r)' # {} => /\ Took(r)' = Took(r) /\ ~req[r].stale
                                   /\ req'[r].census = req[r].census
    PROVE  ReadInv'
<1>1. \A m \in Members : members'[m] = members[m] /\ (Live(m)' => Live(m))
  BY DEF db, Live
<1> QED
  BY <1>1, ReadKeep DEF db

\* What a dump is said to have taken, after a step that commits nothing.
LEMMA TookAfter ==
    ASSUME CensusInv, UNCHANGED given, NEW r \in Reqs
    PROVE  /\ req'[r].list = req[r].list => Took(r)' = Took(r)
           /\ pc[r] # "done" => Took(r)' = Names(req'[r].list)
<1>1. ASSUME pc[r] # "done", NEW c \in Censuses, NEW g \in given[c], g[1] = r PROVE FALSE
  BY <1>1 DEF CensusInv, ClaimInv, ReqInv, DumpInv
<1> QED
  BY <1>1 DEF Took

\* A dump returns an error without anything left in its transaction: it did not find the
\* census, its rows break a constraint, or a statement failed.
LEMMA DumpGivesUp ==
    ASSUME CensusInv, NEW r \in Reqs, pc[r] # "done", Answer(r, "error"), UNCHANGED db,
           inserted' = [inserted EXCEPT ![r] = {}]
    PROVE  CensusInv'
<1>0. TypeOK /\ ReqInv /\ ClaimInv /\ TxInv /\ OneClaimPerMember /\ LinksAreClaims
  BY DEF CensusInv
<1>a. /\ pc' \in [All -> Steps] /\ req' \in [All -> Request]
      /\ answer' \in [Reqs -> {"none", "ok", "error", "unknown", "lost"}]
      /\ pc'[r] = "done" /\ answer'[r] = "error" /\ req'[r].list = {}
      /\ req'[r].census = req[r].census /\ req'[r].stale = req[r].stale
      /\ \A q \in All : q # r => pc'[q] = pc[q] /\ req'[q] = req[q]
      /\ \A q \in Reqs : q # r => answer'[q] = answer[q]
  BY <1>0, AnswerReq
<1>b. inserted'[r] = {} /\ \A q \in Reqs : q # r => inserted'[q] = inserted[q]
  BY <1>0 DEF TypeOK
<1>c. Reqs \subseteq All /\ Senders \subseteq All /\ r \notin Senders
  BY CensusAssumption DEF All
<1>d. answer[r] = "none"
  BY <1>0 DEF ReqInv, DumpInv
<1>1. TypeOK'
  BY <1>0, <1>a DEF TypeOK, db
<1>2. ReqInv'
  <2>1. /\ Single(req'[r].list) /\ \A x \in req'[r].list : x.key \in {"own", r}
    BY <1>a DEF Single
  <2>2. DumpInv(r)'
    BY <1>a, <1>b, <2>1 DEF DumpInv, DumpSteps, TxSteps
  <2>3. ASSUME NEW q \in Reqs, q # r PROVE DumpInv(q)'
    BY <1>0, <1>a, <1>b, <1>c, <2>3 DEF ReqInv, DumpInv
  <2> QED
    BY <1>0, <1>a, <1>c, <2>2, <2>3 DEF ReqInv
<1>3. ClaimInv' /\ OneClaimPerMember' /\ TxInv'
  BY <1>a, <1>b, <1>c, <1>d, TablesKeep
<1>4. LinksAreClaims'
  BY <1>a, <1>c, LinksKeep DEF db
<1>5. ReadInv'
  <2>1. Took(r)' = {}
    BY <1>a, TookAfter DEF Names, db
  <2>2. \A q \in Reqs : q # r => Took(q)' = Took(q)
    BY <1>a, <1>c, TookAfter DEF db
  <2>3. \A q \in Reqs : ~req[q].stale /\ pc[q] \in DumpSteps =>
           censuses[req[q].census].live /\ req[q].ephemeral = censuses[req[q].census].ephemeral
    BY DEF CensusInv, ReadInv
  <2> QED
    BY <1>a, <1>c, <2>1, <2>2, <2>3, ReadsKeep DEF DumpSteps
<1> QED
  BY <1>1, <1>2, <1>3, <1>4, <1>5 DEF CensusInv

\* dumpCensus finds the census.
LEMMA DumpBegins ==
    ASSUME CensusInv, NEW r \in Reqs, NEW c \in Censuses, DumpCensus(r, c), censuses[c].live
    PROVE  CensusInv'
<1>0. TypeOK /\ ReqInv /\ ClaimInv /\ TxInv /\ OneClaimPerMember /\ LinksAreClaims
  BY DEF CensusInv
<1> DEFINE n == [NoRequest EXCEPT !.census = c, !.ephemeral = censuses[c].ephemeral]
<1>a. /\ pc[r] = "idle" /\ pc' = [pc EXCEPT ![r] = "members"]
      /\ req' = [req EXCEPT ![r] = n] /\ UNCHANGED <<db, answer, inserted>>
  BY DEF DumpCensus, Goto
<1>b. /\ n \in Request /\ n.census = c /\ n.ephemeral = censuses[c].ephemeral
      /\ n.list = {} /\ ~n.stale
  <2>1. censuses[c].ephemeral \in BOOLEAN
    BY <1>0 DEF TypeOK, CensusRow
  <2> QED
    BY <2>1, EmptyRequest DEF Request
<1> HIDE DEF n
<1>c. Reqs \subseteq All /\ Senders \subseteq All /\ r \notin Senders
  BY CensusAssumption DEF All
<1>d. /\ pc'[r] = "members" /\ req'[r] = n
      /\ \A q \in All : q # r => pc'[q] = pc[q] /\ req'[q] = req[q]
  BY <1>0, <1>a, <1>c DEF TypeOK
<1>e. answer[r] = "none" /\ inserted[r] = {}
  BY <1>0, <1>a DEF ReqInv, DumpInv, TxSteps
<1>1. TypeOK'
  BY <1>0, <1>a, <1>b, <1>c DEF TypeOK, db, Steps
<1>2. ReqInv'
  <2>1. /\ Single(req'[r].list) /\ \A x \in req'[r].list : x.key \in {"own", r}
    BY <1>b, <1>d DEF Single
  <2> QED
    BY <1>0, <1>a, <1>b, <1>c, <1>d, <1>e, <2>1 DEF ReqInv, DumpInv, DumpSteps, TxSteps
<1>3. ClaimInv' /\ OneClaimPerMember' /\ TxInv'
  BY <1>a, <1>c, <1>d, <1>e, TablesKeep
<1>4. LinksAreClaims'
  BY <1>a, <1>c, <1>d, LinksKeep DEF db
<1>5. ReadInv'
  <2>1. Took(r)' = {}
    BY <1>a, <1>b, <1>d, TookAfter DEF Names, db
  <2>2. \A q \in Reqs : q # r => Took(q)' = Took(q)
    BY <1>a, <1>c, <1>d, TookAfter DEF db
  <2>3. \A q \in Reqs : ~req[q].stale /\ pc[q] \in DumpSteps =>
           censuses[req[q].census].live /\ req[q].ephemeral = censuses[req[q].census].ephemeral
    BY DEF CensusInv, ReadInv
  <2> QED
    BY <1>a, <1>b, <1>c, <1>d, <2>1, <2>2, <2>3, ReadsKeep
<1> QED
  BY <1>1, <1>2, <1>3, <1>4, <1>5 DEF CensusInv

\* A dump goes on to a step with its request and its transaction as they are.
LEMMA DumpGoesOn ==
    ASSUME CensusInv, NEW r \in Reqs, pc[r] = "size", Goto(r, "commit"),
           UNCHANGED <<db, req, answer, inserted>>
    PROVE  CensusInv'
<1>0. TypeOK /\ ReqInv /\ ClaimInv /\ TxInv /\ OneClaimPerMember /\ LinksAreClaims
  BY DEF CensusInv
<1>a. r \in All /\ pc' = [pc EXCEPT ![r] = "commit"] /\ Reqs \subseteq All
  BY DEF Goto, All
<1>b. pc'[r] = "commit" /\ \A q \in All : q # r => pc'[q] = pc[q]
  BY <1>0, <1>a DEF TypeOK
<1>1. TypeOK'
  BY <1>0, <1>a DEF TypeOK, db, Steps
<1>2. ReqInv'
  BY <1>0, <1>a, <1>b DEF ReqInv, DumpInv, DumpSteps, TxSteps
<1>3. ClaimInv' /\ OneClaimPerMember' /\ TxInv' /\ LinksAreClaims'
  BY TablesKeep, LinksKeep DEF db
<1>4. ReadInv'
  <2>1. \A q \in Reqs : Took(q)' = Took(q)
    BY TookAfter DEF db
  <2>2. \A q \in Reqs : ~req[q].stale /\ pc[q] \in DumpSteps =>
           censuses[req[q].census].live /\ req[q].ephemeral = censuses[req[q].census].ephemeral
    BY DEF CensusInv, ReadInv
  <2> QED
    BY <1>a, <1>b, <2>1, <2>2, ReadsKeep DEF DumpSteps
<1> QED
  BY <1>1, <1>2, <1>3, <1>4 DEF CensusInv

\* A dump reads the members of its target.
LEMMA DumpReads ==
    ASSUME CensusInv, NEW r \in Reqs, TargetMembers(r) PROVE CensusInv'
<1>0. TypeOK /\ ReqInv /\ ClaimInv /\ TxInv /\ OneClaimPerMember /\ LinksAreClaims /\ ReadInv
  BY DEF CensusInv
<1>a. /\ pc[r] = "members" /\ pc' = [pc EXCEPT ![r] = "insert"]
      /\ req' = [req EXCEPT ![r].list = Target(r)] /\ UNCHANGED <<db, answer, inserted>>
  BY DEF TargetMembers, Target, Goto
<1>b. Reqs \subseteq All /\ Senders \subseteq All /\ r \notin Senders
  BY CensusAssumption DEF All
<1>c. /\ Target(r) \in SUBSET Claim /\ Single(Target(r))
      /\ \A x \in Target(r) : x.key \in {"own", r}
      /\ \A m \in Members : m \in Names(Target(r)) <=>
             members[m] = "registered" \/ (members[m] = "plain" /\ req[r].ephemeral)
  BY TargetList
<1>d. /\ req' \in [All -> Request] /\ req'[r].census = req[r].census
      /\ req'[r].ephemeral = req[r].ephemeral /\ req'[r].stale = req[r].stale
      /\ req'[r].list = Target(r) /\ \A q \in All : q # r => req'[q] = req[q]
  BY <1>0, <1>a, <1>b, <1>c, ListReq
<1>e. pc'[r] = "insert" /\ \A q \in All : q # r => pc'[q] = pc[q]
  BY <1>0, <1>a, <1>b DEF TypeOK
<1>1. TypeOK'
  BY <1>0, <1>a, <1>d DEF TypeOK, db, Steps
<1>2. ReqInv'
  <2>1. DumpInv(r)'
    BY <1>0, <1>a, <1>c, <1>d, <1>e DEF ReqInv, DumpInv, DumpSteps, TxSteps
  <2>2. ASSUME NEW q \in Reqs, q # r PROVE DumpInv(q)'
    BY <1>0, <1>a, <1>b, <1>d, <1>e, <2>2 DEF ReqInv, DumpInv
  <2> QED
    BY <1>0, <1>b, <1>d, <2>1, <2>2 DEF ReqInv
<1>3. \A q \in Reqs : req'[q].census = req[q].census
  BY <1>b, <1>d
<1>4. ClaimInv' /\ OneClaimPerMember' /\ TxInv'
  BY <1>a, <1>3, TablesKeep
<1>5. LinksAreClaims'
  BY <1>a, <1>b, <1>d, LinksKeep DEF db
<1>6. Took(r)' = Names(Target(r)) /\ \A q \in Reqs : q # r => Took(q)' = Took(q)
  BY <1>a, <1>b, <1>d, TookAfter DEF db
<1>7. \A q \in Reqs : Took(q) \subseteq Members
  BY TookCases
<1>8. ReadInv'
  <2>1. ASSUME NEW q \in Reqs, ~req'[q].stale, pc'[q] \in DumpSteps
        PROVE  /\ censuses'[req'[q].census].live
               /\ req'[q].ephemeral = censuses'[req'[q].census].ephemeral
    BY <1>0, <1>a, <1>b, <1>d, <1>e, <2>1 DEF ReadInv, DumpSteps, db
  <2>2. ASSUME NEW q \in Reqs, ~req'[q].stale, NEW m \in Took(q)'
        PROVE  /\ members'[m] # "never"
               /\ members'[m] = "plain" => censuses'[req'[q].census].ephemeral
    <3>1. CASE q = r
      <4>1. m \in Members
        BY <1>c, <1>6, <2>2, <3>1 DEF Names, Claim
      <4>2. req[r].ephemeral = censuses[req[r].census].ephemeral
        BY <1>0, <1>a, <1>d, <2>2, <3>1 DEF ReadInv, DumpSteps
      <4> QED
        BY <1>a, <1>c, <1>d, <1>6, <2>2, <3>1, <4>1, <4>2 DEF db
    <3>2. CASE q # r
      BY <1>0, <1>a, <1>b, <1>d, <1>6, <2>2, <3>2 DEF ReadInv, db
    <3> QED
      BY <3>1, <3>2
  <2>3. ASSUME NEW q \in Reqs, q # r, ~req'[q].stale, ~req'[r].stale,
               req'[q].census = req'[r].census, NEW m \in Took(q)', Live(m)'
        PROVE  m \in Took(r)'
    <3>1. m \in Took(q) /\ m \in Members /\ Live(m) /\ ~req[q].stale /\ ~req[r].stale
          /\ req[q].census = req[r].census
      BY <1>a, <1>b, <1>d, <1>6, <1>7, <2>3 DEF Live, db
    <3>2. members[m] = "registered" \/ (members[m] = "plain" /\ req[r].ephemeral)
      BY <1>0, <1>a, <3>1 DEF ReadInv, Live, DumpSteps
    <3> QED
      BY <1>c, <1>6, <3>1, <3>2
  <2>4. ASSUME NEW p \in Reqs, NEW q \in Reqs, ~req'[p].stale, ~req'[q].stale,
               req'[p].census = req'[q].census
        PROVE  \/ \A m \in Took(p)' : Live(m)' => m \in Took(q)'
               \/ \A m \in Took(q)' : Live(m)' => m \in Took(p)'
    <3>1. CASE p = r \/ q = r
      BY <2>3, <2>4, <3>1
    <3>2. CASE p # r /\ q # r
      <4>1. /\ Took(p)' = Took(p) /\ Took(q)' = Took(q) /\ ~req[p].stale /\ ~req[q].stale
            /\ req[p].census = req[q].census
        BY <1>b, <1>d, <1>6, <2>4, <3>2
      <4>2. \A m : Live(m)' <=> Live(m)
        BY <1>a DEF Live, db
      <4>3. \/ \A m \in Took(p) : Live(m) => m \in Took(q)
            \/ \A m \in Took(q) : Live(m) => m \in Took(p)
        BY <1>0, <4>1 DEF ReadInv
      <4> QED
        BY <4>1, <4>2, <4>3
    <3> QED
      BY <3>1, <3>2
  <2> QED
    BY <2>1, <2>2, <2>4 DEF ReadInv
<1> QED
  BY <1>1, <1>2, <1>4, <1>5, <1>8 DEF CensusInv

\* A dump inserts its rows.
LEMMA DumpInserts ==
    ASSUME CensusInv, NEW r \in Reqs, InsertMembers(r), ~BreaksConstraint(r)
    PROVE  CensusInv'
<1>0. TypeOK /\ ReqInv /\ ClaimInv /\ TxInv /\ OneClaimPerMember /\ LinksAreClaims /\ ReadInv
  BY DEF CensusInv
<1> DEFINE c == req[r].census
           L == req[r].list
<1>a. /\ pc[r] = "insert" /\ pc' = [pc EXCEPT ![r] = "size"]
      /\ inserted' = [inserted EXCEPT ![r] = L] /\ UNCHANGED <<db, req, answer>>
      /\ \A q \in Reqs \ {r} : req[q].census = c => Names(inserted[q]) \cap Names(L) = {}
  BY DEF InsertMembers, Goto
<1>b. r \in All /\ Reqs \subseteq All /\ L \in SUBSET Claim /\ c \in Censuses
  BY <1>0, <1>a DEF All, TypeOK, Request, ReqInv, DumpInv, DumpSteps
<1>c. pc'[r] = "size" /\ \A q \in All : q # r => pc'[q] = pc[q]
  BY <1>0, <1>a, <1>b DEF TypeOK
<1>d. inserted'[r] = L /\ \A q \in Reqs : q # r => inserted'[q] = inserted[q]
  BY <1>0, <1>a DEF TypeOK
<1>1. TypeOK'
  BY <1>0, <1>a, <1>b DEF TypeOK, db, Steps
<1>2. ReqInv'
  BY <1>0, <1>a, <1>b, <1>c, <1>d DEF ReqInv, DumpInv, DumpSteps, TxSteps
<1>3. ClaimInv' /\ OneClaimPerMember'
  BY <1>a, ClaimsKeep DEF db
<1>4. LinksAreClaims'
  BY <1>a, LinksKeep DEF db
<1>5. TxInv'
  <2>1. ASSUME NEW x \in L PROVE Live(x.member) /\ censuses[c].live
    BY <2>1 DEF BreaksConstraint, BreaksForeignKeys, Names
  <2>2. ASSUME NEW x \in L, NEW g \in given[c] PROVE g[2].member # x.member
    <3>1. CASE g[2] \in rows[c]
      BY <2>2, <3>1 DEF BreaksConstraint, Names
    <3>2. CASE members[g[2].member] = "deleted"
      BY <2>1, <2>2, <3>2 DEF Live
    <3> QED
      BY <1>0, <1>b, <2>2, <3>1, <3>2 DEF ClaimInv
  <2>3. ASSUME NEW p \in Reqs, NEW q \in Reqs, p # q, req[p].census = req[q].census
        PROVE  Names(inserted'[p]) \cap Names(inserted'[q]) = {}
    <3>1. CASE p # r /\ q # r
      BY <1>0, <1>d, <2>3, <3>1 DEF TxInv
    <3>2. CASE p = r
      BY <1>a, <1>d, <2>3, <3>2
    <3>3. CASE q = r
      BY <1>a, <1>d, <2>3, <3>3
    <3> QED
      BY <3>1, <3>2, <3>3
  <2>4. \A q \in Reqs : inserted'[q] # {} => censuses'[req'[q].census].live
    BY <1>0, <1>a, <1>d, <2>1 DEF TxInv, db
  <2>5. ASSUME NEW q \in Reqs, NEW x \in inserted'[q]
        PROVE  Live(x.member)' /\ \A g \in given'[req'[q].census] : g[2].member # x.member
    <3>1. CASE q = r
      BY <1>a, <1>d, <2>1, <2>2, <2>5, <3>1 DEF Live, db
    <3>2. CASE q # r
      BY <1>0, <1>a, <1>d, <2>5, <3>2 DEF TxInv, Live, db
    <3> QED
      BY <3>1, <3>2
  <2> QED
    BY <1>a, <2>3, <2>4, <2>5 DEF TxInv
<1>6. ReadInv'
  <2>1. \A q \in Reqs : Took(q)' = Took(q)
    BY <1>a, TookAfter DEF db
  <2> QED
    BY <1>0, <1>a, <1>b, <1>c, <2>1, ReadsKeep DEF ReadInv, DumpSteps
<1> QED
  BY <1>1, <1>2, <1>3, <1>4, <1>5, <1>6 DEF CensusInv

\* A dump commits, whether or not the client gets the answer.
LEMMA DumpCommits ==
    ASSUME CensusInv, NEW r \in Reqs, NEW a \in {"ok", "unknown"}, pc[r] = "commit",
           Apply(r), Answer(r, a)
    PROVE  CensusInv'
<1>0. TypeOK /\ ReqInv /\ ClaimInv /\ TxInv /\ OneClaimPerMember /\ LinksAreClaims /\ ReadInv
  BY DEF CensusInv
<1> DEFINE c == req[r].census
           L == req[r].list
           G == {<<r, x>> : x \in L}
<1>a. /\ c \in Censuses /\ L \in SUBSET Claim /\ Single(L) /\ inserted[r] = L
      /\ answer[r] = "none" /\ \A x \in L : x.key \in {"own", r}
  BY <1>0 DEF ReqInv, DumpInv, DumpSteps, TxSteps, TypeOK, Request, All
<1>b. /\ rows' = [rows EXCEPT ![c] = @ \cup L]
      /\ censuses' = [censuses EXCEPT ![c].size = Cardinality(L)]
      /\ given' = [given EXCEPT ![c] = @ \cup G]
      /\ inserted' = [inserted EXCEPT ![r] = {}] /\ UNCHANGED <<members, root>>
  BY <1>a DEF Apply, Rollback
<1>c. /\ pc' \in [All -> Steps] /\ req' \in [All -> Request]
      /\ answer' \in [Reqs -> {"none", "ok", "error", "unknown", "lost"}]
      /\ pc'[r] = "done" /\ answer'[r] = a /\ req'[r].list = {}
      /\ req'[r].census = c /\ req'[r].stale = req[r].stale
      /\ \A q \in All : q # r => pc'[q] = pc[q] /\ req'[q] = req[q]
      /\ \A q \in Reqs : q # r => answer'[q] = answer[q]
  BY <1>0, AnswerReq
<1>d. Reqs \subseteq All /\ Senders \subseteq All /\ r \notin Senders
  BY CensusAssumption DEF All
<1>e. /\ rows'[c] = rows[c] \cup L /\ given'[c] = given[c] \cup G
      /\ \A d \in Censuses : d # c => rows'[d] = rows[d] /\ given'[d] = given[d]
      /\ inserted'[r] = {} /\ \A q \in Reqs : q # r => inserted'[q] = inserted[q]
  BY <1>0, <1>a, <1>b DEF TypeOK
<1>f. /\ censuses' \in [Censuses -> CensusRow]
      /\ \A d \in Censuses : /\ censuses'[d].live = censuses[d].live
                             /\ censuses'[d].ephemeral = censuses[d].ephemeral
  <2>1. Cardinality(L) \in 0..Cardinality(Members)
    BY <1>a, ListSize
  <2>2. censuses[c] \in CensusRow
    BY <1>0, <1>a DEF TypeOK
  <2> DEFINE n == [censuses[c] EXCEPT !.size = Cardinality(L)]
  <2>3. n \in CensusRow /\ n.live = censuses[c].live /\ n.ephemeral = censuses[c].ephemeral
    BY <2>1, <2>2 DEF CensusRow
  <2>4. censuses' = [censuses EXCEPT ![c] = n]
    BY <1>0, <1>a, <1>b DEF TypeOK
  <2> HIDE DEF n
  <2> QED
    BY <1>0, <1>a, <2>3, <2>4 DEF TypeOK
<1>g. \A g \in G : g[1] = r /\ g[2] \in L
  OBVIOUS
<1>h. \A x \in L : <<r, x>> \in G
  OBVIOUS
<1>i. G \subseteq Reqs \X Claim
  BY <1>a
<1>j. \A x \in L : Live(x.member) /\ \A g \in given[c] : g[2].member # x.member
  BY <1>0, <1>a DEF TxInv
<1> HIDE DEF G
<1>1. TypeOK'
  <2>1. rows' \in [Censuses -> SUBSET Claim] /\ given' \in [Censuses -> SUBSET (Reqs \X Claim)]
    BY <1>0, <1>a, <1>b, <1>i DEF TypeOK
  <2>2. inserted' \in [Reqs -> SUBSET Claim]
    BY <1>0, <1>b DEF TypeOK
  <2> QED
    BY <1>0, <1>b, <1>c, <1>f, <2>1, <2>2 DEF TypeOK
<1>2. ReqInv'
  <2>1. DumpInv(r)'
    BY <1>c, <1>e DEF DumpInv, DumpSteps, TxSteps, Single
  <2>2. ASSUME NEW q \in Reqs, q # r PROVE DumpInv(q)'
    BY <1>0, <1>c, <1>d, <1>e, <2>2 DEF ReqInv, DumpInv
  <2> QED
    BY <1>0, <1>c, <1>d, <2>1, <2>2 DEF ReqInv
<1>3. OneClaimPerMember'
  <2> SUFFICES ASSUME NEW d \in Censuses, NEW g \in given'[d], NEW h \in given'[d],
                      g[2].member = h[2].member
               PROVE  g = h
    BY DEF OneClaimPerMember
  <2>1. CASE g \in given[d] /\ h \in given[d]
    BY <1>0, <2>1 DEF OneClaimPerMember
  <2>2. CASE g \in G /\ h \in G
    BY <1>a, <1>g, <1>i, <2>2 DEF Single
  <2> QED
    BY <1>e, <1>g, <1>j, <2>1, <2>2
<1>4. ClaimInv'
  <2>1. \A d \in Censuses : given'[d] # {} => censuses'[d].live
    <3> SUFFICES ASSUME NEW d \in Censuses, given'[d] # {} PROVE censuses[d].live
      BY <1>f
    <3>1. CASE given[d] # {}
      BY <1>0, <3>1 DEF ClaimInv
    <3>2. CASE d = c /\ L # {}
      BY <1>0, <1>a, <3>2 DEF TxInv
    <3> QED
      BY <1>e, <1>g, <3>1, <3>2
  <2>2. ASSUME NEW d \in Censuses, NEW g \in given'[d]
        PROVE  /\ req'[g[1]].census = d /\ answer'[g[1]] \in {"ok", "unknown"}
               /\ g[2] \in rows'[d] \/ members'[g[2].member] = "deleted"
    <3>1. CASE g \in given[d]
      <4>1. /\ g[1] \in Reqs /\ req[g[1]].census = d /\ answer[g[1]] \in {"ok", "unknown"}
            /\ g[2] \in rows[d] \/ members[g[2].member] = "deleted"
        BY <1>0, <3>1 DEF ClaimInv, TypeOK
      <4>2. g[1] # r
        BY <1>a, <4>1
      <4> QED
        BY <1>b, <1>c, <1>d, <1>e, <4>1, <4>2
    <3>2. CASE g \in G /\ d = c
      BY <1>c, <1>e, <1>g, <3>2
    <3> QED
      BY <1>e, <2>2, <3>1, <3>2
  <2>3. ASSUME NEW d \in Censuses, NEW x \in rows'[d]
        PROVE  /\ Live(x.member)'
               /\ \E s \in Reqs : <<s, x>> \in given'[d] /\ (x.key # "own" => s = x.key)
    <3>1. CASE x \in rows[d]
      BY <1>0, <1>b, <1>e, <3>1 DEF ClaimInv, Live
    <3>2. CASE x \in L /\ d = c
      BY <1>a, <1>b, <1>e, <1>h, <1>j, <3>2 DEF Live
    <3> QED
      BY <1>e, <2>3, <3>1, <3>2
  <2> QED
    BY <2>1, <2>2, <2>3 DEF ClaimInv
<1>5. TxInv'
  <2>1. \A q \in Reqs : inserted'[q] # {} => q # r /\ inserted'[q] = inserted[q]
                                             /\ req'[q].census = req[q].census
                                             /\ req[q].census \in Censuses
    BY <1>0, <1>c, <1>d, <1>e DEF ReqInv, DumpInv, TxSteps, DumpSteps
  <2>2. \A q \in Reqs : inserted'[q] # {} => censuses'[req'[q].census].live
    BY <1>0, <1>f, <2>1 DEF TxInv
  <2>3. ASSUME NEW q \in Reqs, NEW x \in inserted'[q]
        PROVE  Live(x.member)' /\ \A g \in given'[req'[q].census] : g[2].member # x.member
    <3>1. /\ q # r /\ x \in inserted[q] /\ req'[q].census = req[q].census
          /\ req[q].census \in Censuses
      BY <2>1, <2>3
    <3>2. Live(x.member) /\ \A g \in given[req[q].census] : g[2].member # x.member
      BY <1>0, <3>1 DEF TxInv
    <3>3. req[q].census = c => \A g \in G : g[2].member # x.member
      <4> SUFFICES ASSUME req[q].census = c, NEW g \in G, g[2].member = x.member PROVE FALSE
        OBVIOUS
      <4>1. Names(inserted[q]) \cap Names(inserted[r]) = {}
        BY <1>0, <3>1 DEF TxInv
      <4>2. x.member \in Names(inserted[q]) /\ g[2].member \in Names(inserted[r])
        BY <1>a, <1>g, <3>1 DEF Names
      <4> QED
        BY <4>1, <4>2
    <3> QED
      BY <1>b, <1>e, <3>1, <3>2, <3>3 DEF Live
  <2>4. ASSUME NEW p \in Reqs, NEW q \in Reqs, p # q, req'[p].census = req'[q].census
        PROVE  Names(inserted'[p]) \cap Names(inserted'[q]) = {}
    <3>1. CASE inserted'[p] = {} \/ inserted'[q] = {}
      BY <3>1 DEF Names
    <3>2. CASE inserted'[p] # {} /\ inserted'[q] # {}
      <4>1. /\ inserted'[p] = inserted[p] /\ inserted'[q] = inserted[q]
            /\ req[p].census = req[q].census
        BY <2>1, <2>4, <3>2
      <4> QED
        BY <1>0, <2>4, <4>1 DEF TxInv
    <3> QED
      BY <3>1, <3>2
  <2> QED
    BY <2>2, <2>3, <2>4 DEF TxInv
<1>6. LinksAreClaims'
  <2>1. \A d \in Censuses : given[d] \subseteq given'[d]
    BY <1>e
  <2>2. \A v \in Senders : req'[v] = req[v]
    BY <1>c, <1>d
  <2> QED
    BY <1>0, <2>1, <2>2 DEF LinksAreClaims, ReqInv
<1>7. ReadInv'
  <2>1. Took(r) = Names(L)
    BY TookCases
  <2>2. \A d \in Censuses : \A g \in given[d] : g[1] # r
    BY <1>0, <1>a DEF ClaimInv
  <2>3. Took(r)' = {m \in Members : \E d \in Censuses : \E g \in given'[d] :
                                        g[1] = r /\ g[2].member = m}
    BY <1>c DEF Took, Names
  <2>4. \A m \in Took(r)' : m \in Names(L)
    BY <1>e, <1>g, <2>2, <2>3 DEF Names
  <2>5. \A m \in Names(L) : m \in Took(r)'
    <3> SUFFICES ASSUME NEW x \in L PROVE x.member \in Took(r)'
      BY DEF Names
    <3>1. <<r, x>> \in given'[c] /\ x.member \in Members
      BY <1>a, <1>e, <1>h DEF Claim
    <3> QED
      BY <1>a, <2>3, <3>1
  <2>6. Took(r)' = Took(r)
    BY <2>1, <2>4, <2>5
  <2>7. ASSUME NEW q \in Reqs, q # r PROVE Took(q)' = Took(q)
    <3>1. \A d \in Censuses : \A g : g[1] = q => (g \in given'[d] <=> g \in given[d])
      BY <1>e, <1>g, <2>7
    <3>2. req'[q].list = req[q].list
      BY <1>c, <1>d, <2>7
    <3> QED
      BY <3>1, <3>2 DEF Took
  <2>8. \A m \in Members : members'[m] = members[m] /\ (Live(m)' => Live(m))
    BY <1>b DEF Live
  <2>9. ASSUME NEW q \in Reqs, ~req'[q].stale, pc'[q] \in DumpSteps
        PROVE  /\ censuses'[req'[q].census].live
               /\ req'[q].ephemeral = censuses'[req'[q].census].ephemeral
    <3>1. q # r /\ pc[q] \in DumpSteps /\ req'[q] = req[q]
      BY <1>c, <1>d, <2>9 DEF DumpSteps
    <3> QED
      BY <1>0, <1>f, <2>9, <3>1 DEF ReadInv, ReqInv, DumpInv
  <2>10. ASSUME NEW q \in Reqs, ~req'[q].stale, Took(q)' # {}
         PROVE  /\ Took(q)' = Took(q) /\ ~req[q].stale /\ req'[q].census = req[q].census
                /\ censuses'[req[q].census].ephemeral = censuses[req[q].census].ephemeral
    <3>1. Took(q)' = Took(q) /\ ~req[q].stale /\ req'[q].census = req[q].census
      BY <1>c, <1>d, <2>6, <2>7, <2>10
    <3> QED
      BY <1>f, <2>10, <3>1, TookLive
  <2> QED
    BY <2>8, <2>9, <2>10, ReadKeep
<1> QED
  BY <1>1, <1>2, <1>3, <1>4, <1>5, <1>6, <1>7 DEF CensusInv

\* A sender does something to its own request.
LEMMA SenderSteps ==
    ASSUME CensusInv, NEW v \in Senders, UNCHANGED <<db, answer, inserted>>,
           pc' \in [All -> Steps], req' \in [All -> Request],
           \A q \in All : q # v => pc'[q] = pc[q] /\ req'[q] = req[q],
           req'[v].list # {} => req'[v].census \in Censuses,
           \A x \in req'[v].list : ~req'[v].stale =>
               x.key # "own" /\ <<x.key, x>> \in given[req'[v].census]
    PROVE  CensusInv'
<1>0. TypeOK /\ ReqInv /\ ClaimInv /\ TxInv /\ OneClaimPerMember /\ LinksAreClaims /\ ReadInv
  BY DEF CensusInv
<1>a. Reqs \subseteq All /\ Senders \subseteq All /\ v \notin Reqs
  BY CensusAssumption DEF All
<1>b. \A r \in Reqs : pc'[r] = pc[r] /\ req'[r] = req[r]
  BY <1>a
<1>1. TypeOK'
  BY <1>0 DEF TypeOK, db
<1>2. ReqInv'
  BY <1>0, <1>a, <1>b DEF ReqInv, DumpInv
<1>3. ClaimInv' /\ OneClaimPerMember' /\ TxInv'
  BY <1>b, TablesKeep
<1>4. LinksAreClaims'
  BY <1>0, <1>a DEF LinksAreClaims, db
<1>5. \A r \in Reqs : Took(r)' = Took(r)
  BY <1>b, TookAfter DEF db
<1>6. ReadInv'
  BY <1>0, <1>b, <1>5, ReadsKeep DEF ReadInv
<1> QED
  BY <1>1, <1>2, <1>3, <1>4, <1>6 DEF CensusInv

\* The process dies with every dump that is being served.
LEMMA ProcessDies ==
    ASSUME CensusInv, NEW S \in SUBSET All, \A r \in Reqs : r \in S <=> InFlight(r), Die(S)
    PROVE  CensusInv'
<1>0. TypeOK /\ ReqInv /\ ClaimInv /\ TxInv /\ OneClaimPerMember /\ LinksAreClaims /\ ReadInv
  BY DEF CensusInv
<1>a. /\ req' \in [All -> Request] /\ pc' \in [All -> Steps]
      /\ answer' \in [Reqs -> {"none", "ok", "error", "unknown", "lost"}]
      /\ \A q \in All : /\ req'[q].census = req[q].census /\ req'[q].list = {}
                        /\ req'[q].stale = req[q].stale
                        /\ pc'[q] = IF q \in S THEN "done" ELSE pc[q]
      /\ \A q \in Reqs : /\ answer'[q] = IF q \in S THEN "lost" ELSE answer[q]
                         /\ inserted'[q] = {}
      /\ inserted' \in [Reqs -> SUBSET Claim] /\ UNCHANGED db
  BY <1>0, DieReq
<1>b. Reqs \subseteq All /\ Senders \subseteq All
  BY DEF All
<1>c. \A r \in Reqs : pc'[r] \in {"idle", "done"} /\ (pc[r] = "idle" <=> pc'[r] = "idle")
  BY <1>a, <1>b DEF InFlight
<1>1. TypeOK'
  BY <1>0, <1>a DEF TypeOK, db
<1>2. ReqInv'
  <2>1. ASSUME NEW r \in Reqs PROVE DumpInv(r)'
    BY <1>0, <1>a, <1>b, <1>c, <2>1 DEF ReqInv, DumpInv, DumpSteps, TxSteps, Single, InFlight
  <2> QED
    BY <1>a, <1>b, <2>1 DEF ReqInv
<1>3. ClaimInv' /\ OneClaimPerMember' /\ TxInv'
  <2>1. \A r \in Reqs : answer[r] \in {"ok", "unknown"} =>
            answer'[r] = answer[r] /\ req'[r].census = req[r].census
    BY <1>0, <1>a, <1>b DEF ReqInv, DumpInv, InFlight
  <2> QED
    BY <1>a, <2>1, TablesKeep
<1>4. LinksAreClaims'
  BY <1>a, <1>b DEF LinksAreClaims
<1>5. ReadInv'
  <2>1. ASSUME NEW r \in Reqs PROVE Took(r)' = Took(r) \/ Took(r)' = {}
    <3>1. CASE pc[r] = "done"
      <4>1. req[r].list = {} /\ req'[r].list = {}
        BY <1>0, <1>a, <1>b, <3>1 DEF ReqInv, DumpInv
      <4> QED
        BY <1>a, <4>1, TookAfter DEF db
    <3>2. CASE pc[r] # "done"
      BY <1>a, <1>b, <3>2, TookAfter DEF Names, db
    <3> QED
      BY <3>1, <3>2
  <2> QED
    BY <1>a, <1>b, <1>c, <2>1, ReadsKeep DEF DumpSteps
<1> QED
  BY <1>1, <1>2, <1>3, <1>4, <1>5 DEF CensusInv

-----------------------------------------------------------------------------
(* The results *)

\* Every step keeps the invariant.
LEMMA CensusNext == ASSUME CensusInv, [Next]_vars PROVE CensusInv'
<1>0. TypeOK /\ ReqInv
  BY DEF CensusInv
<1>1. CASE Admin
  <2>1. ASSUME NEW m \in Members, AddMember(m) \/ RegisterMember(m) PROVE CensusInv'
    <3>1. /\ UNCHANGED <<censuses, rows, root, given, pc, req, answer, inserted>>
          /\ \/ members[m] = "never" /\ members' = [members EXCEPT ![m] = "plain"]
             \/ members[m] = "never" /\ members' = [members EXCEPT ![m] = "registered"]
             \/ members[m] = "plain" /\ members' = [members EXCEPT ![m] = "registered"]
      BY <2>1 DEF AddMember, RegisterMember
    <3>2. members' \in [Members -> {"never", "plain", "registered", "deleted"}]
      BY <1>0, <3>1 DEF TypeOK
    <3>3. root' \in [Censuses -> Reqs \cup {"none"}]
      BY <1>0, <3>1 DEF TypeOK
    <3>4. \A n \in Members : \/ members'[n] = members[n]
                             \/ members[n] = "never" /\ Live(n)'
                             \/ members[n] = "plain" /\ members'[n] = "registered"
      BY <1>0, <3>1 DEF TypeOK, Live
    <3> QED
      BY <3>1, <3>2, <3>3, <3>4, MembersGrow
  <2>2. ASSUME NEW c \in Censuses, NEW r \in Reqs, UpdateCensus(c, r) PROVE CensusInv'
    <3>1. /\ UNCHANGED <<members, censuses, rows, given, pc, req, answer, inserted>>
          /\ root' = [root EXCEPT ![c] = r]
      BY <2>2 DEF UpdateCensus, SetRoot
    <3>2. /\ members' \in [Members -> {"never", "plain", "registered", "deleted"}]
          /\ root' \in [Censuses -> Reqs \cup {"none"}]
      BY <1>0, <3>1 DEF TypeOK
    <3> QED
      BY <3>1, <3>2, MembersGrow
  <2> QED
    BY <1>1, <2>1, <2>2, MemberDeleted, CensusAdded, CensusDeleted DEF Admin
<1>2. ASSUME NEW r \in Reqs, NEW c \in Censuses, DumpCensus(r, c) PROVE CensusInv'
  <2>1. CASE censuses[c].live
    BY <1>2, <2>1, DumpBegins
  <2>2. CASE ~censuses[c].live
    <3>1. pc[r] = "idle" /\ Answer(r, "error") /\ UNCHANGED <<db, inserted>>
      BY <1>2, <2>2 DEF DumpCensus
    <3>2. inserted[r] = {}
      BY <1>0, <3>1 DEF ReqInv, DumpInv, TxSteps
    <3>3. inserted' = [inserted EXCEPT ![r] = {}]
      BY <1>0, <3>1, <3>2 DEF TypeOK
    <3> QED
      BY <3>1, <3>3, DumpGivesUp
  <2> QED
    BY <2>1, <2>2
<1>3. ASSUME NEW r \in Reqs, InsertMembers(r) PROVE CensusInv'
  <2>1. CASE BreaksConstraint(r)
    BY <1>3, <2>1, DumpGivesUp DEF InsertMembers, Rollback
  <2> QED
    BY <1>3, <2>1, DumpInserts
<1>4. ASSUME NEW r \in Reqs, SetSize(r) PROVE CensusInv'
  <2>1. CASE censuses[req[r].census].live
    BY <1>4, <2>1, DumpGoesOn DEF SetSize
  <2>2. CASE ~censuses[req[r].census].live
    <3>1. pc[r] = "size" /\ Answer(r, "error") /\ UNCHANGED <<db, inserted>>
      BY <1>4, <2>2 DEF SetSize
    <3>2. inserted[r] = {}
      BY <2>2 DEF CensusInv, TxInv
    <3>3. inserted' = [inserted EXCEPT ![r] = {}]
      BY <1>0, <3>1, <3>2 DEF TypeOK
    <3> QED
      BY <3>1, <3>3, DumpGivesUp
  <2> QED
    BY <2>1, <2>2
<1>5. ASSUME NEW r \in Reqs, Commit(r) \/ CommitUnknown(r) PROVE CensusInv'
  BY <1>5, DumpCommits DEF Commit, CommitUnknown
<1>6. ASSUME NEW r \in Reqs, StatementFails(r) PROVE CensusInv'
  BY <1>6, DumpGivesUp DEF StatementFails, InFlight, Rollback
<1>7. ASSUME NEW v \in Senders, NEW c \in Censuses, NEW L \in SUBSET ReadClaims(c),
             NEW step \in Steps, req' = [req EXCEPT ![v] = [NoRequest EXCEPT !.census = c, !.list = L]],
             Goto(v, step), UNCHANGED <<db, answer, inserted>>
      PROVE  CensusInv'
  <2> DEFINE n == [NoRequest EXCEPT !.census = c, !.list = L]
  <2>1. L \in SUBSET Claim /\ v \in All
    BY <1>0 DEF ReadClaims, TypeOK, All
  <2>2. n \in Request /\ n.census = c /\ n.list = L
    BY <2>1, EmptyRequest DEF Request
  <2>3. req' = [req EXCEPT ![v] = n] /\ pc' = [pc EXCEPT ![v] = step]
    BY <1>7 DEF Goto
  <2> HIDE DEF n
  <2>4. /\ pc' \in [All -> Steps] /\ req' \in [All -> Request] /\ req'[v] = n
        /\ \A q \in All : q # v => pc'[q] = pc[q] /\ req'[q] = req[q]
    BY <1>0, <2>1, <2>2, <2>3 DEF TypeOK
  <2>5. \A x \in L : x.key # "own" /\ <<x.key, x>> \in given[c]
    BY DEF ReadClaims, CensusInv, ClaimInv
  <2> QED
    BY <1>7, <2>2, <2>4, <2>5, SenderSteps
<1>8. ASSUME NEW v \in Senders, NEW c \in Censuses, SendVotingLinks(v, c) PROVE CensusInv'
  <2>1. ReadClaims(c) \in SUBSET ReadClaims(c)
    OBVIOUS
  <2>2. (IF ReadClaims(c) = {} THEN "done" ELSE "mail") \in Steps
    BY DEF Steps
  <2> QED
    BY <1>7, <1>8, <2>1, <2>2 DEF SendVotingLinks
<1>9. ASSUME NEW v \in Senders, NEW c \in Censuses, SendVotingLink(v, c) PROVE CensusInv'
  <2>1. PICK x \in ReadClaims(c) :
          req' = [req EXCEPT ![v] = [NoRequest EXCEPT !.census = c, !.list = {x}]]
    BY <1>9 DEF SendVotingLink
  <2>2. {x} \in SUBSET ReadClaims(c) /\ "mailOne" \in Steps
    BY DEF Steps
  <2> QED
    BY <1>7, <1>9, <2>1, <2>2 DEF SendVotingLink
<1>10. ASSUME NEW v \in Senders, NEW x \in Claim, MailLink(v, x) PROVE CensusInv'
  <2>1. v \in All /\ req[v].list \in SUBSET Claim
    BY <1>0 DEF All, TypeOK, Request
  <2>2. /\ req' = [req EXCEPT ![v].list = req[v].list \ {x}] /\ UNCHANGED <<db, answer, inserted>>
        /\ pc' = pc \/ pc' = [pc EXCEPT ![v] = "done"]
    BY <1>0, <1>10, <2>1 DEF MailLink, Goto, TypeOK
  <2>3. /\ req' \in [All -> Request]
        /\ req'[v].census = req[v].census /\ req'[v].stale = req[v].stale
        /\ req'[v].list = req[v].list \ {x}
        /\ \A z \in All : z # v => req'[z] = req[z]
    <3> DEFINE L == req[v].list \ {x}
    <3>1. L \in SUBSET Claim /\ req' = [req EXCEPT ![v].list = L]
      BY <2>1, <2>2
    <3> HIDE DEF L
    <3>2. /\ req' \in [All -> Request]
          /\ req'[v].census = req[v].census /\ req'[v].stale = req[v].stale /\ req'[v].list = L
          /\ \A z \in All : z # v => req'[z] = req[z]
      BY <1>0, <2>1, <3>1, ListReq
    <3> QED
      BY <3>2 DEF L
  <2>4. pc' \in [All -> Steps] /\ \A q \in All : q # v => pc'[q] = pc[q]
    BY <1>0, <2>1, <2>2 DEF TypeOK, Steps
  <2>5. \A y \in req'[v].list : ~req'[v].stale =>
            y.key # "own" /\ <<y.key, y>> \in given[req'[v].census]
    BY <2>3 DEF CensusInv, LinksAreClaims
  <2>6. req'[v].list # {} => req'[v].census \in Censuses
    BY <1>0, <2>3 DEF ReqInv
  <2> QED
    BY <2>2, <2>3, <2>4, <2>5, <2>6, SenderSteps
<1>11. ASSUME NEW v \in Senders, NEW step \in Steps, Goto(v, step),
              UNCHANGED <<db, req, answer, inserted>>
       PROVE  CensusInv'
  <2>1. v \in All /\ pc' \in [All -> Steps] /\ \A q \in All : q # v => pc'[q] = pc[q]
    BY <1>0, <1>11 DEF TypeOK, Goto, All
  <2>2. req' \in [All -> Request] /\ (req'[v].list # {} => req'[v].census \in Censuses)
    BY <1>0, <1>11 DEF TypeOK, ReqInv
  <2>3. \A y \in req'[v].list : ~req'[v].stale =>
            y.key # "own" /\ <<y.key, y>> \in given[req'[v].census]
    BY <1>11 DEF CensusInv, LinksAreClaims
  <2> QED
    BY <1>11, <2>1, <2>2, <2>3, SenderSteps
<1>12. ASSUME NEW v \in Senders, MailsCounted(v) \/ TagMailed(v) PROVE CensusInv'
  BY <1>11, <1>12 DEF MailsCounted, TagMailed, Steps
<1>13. ASSUME NEW v \in Senders, UnknownMail(v) PROVE CensusInv'
  <2>1. CASE Die(Working \cup {v})
    <3>1. /\ Working \cup {v} \in SUBSET All
          /\ \A r \in Reqs : r \in Working \cup {v} <=> InFlight(r)
      BY CensusAssumption DEF Working, All
    <3> QED
      BY <2>1, <3>1, ProcessDies
  <2>2. CASE Goto(v, "done") /\ UNCHANGED <<db, req, answer, inserted>>
    BY <1>11, <2>2 DEF Steps
  <2> QED
    BY <1>13, <2>1, <2>2 DEF UnknownMail
<1>14. CASE Crash
  <2>1. Working \in SUBSET All /\ \A r \in Reqs : r \in Working <=> InFlight(r)
    BY DEF Working, All
  <2> QED
    BY <1>14, <2>1, ProcessDies DEF Crash
<1>15. CASE UNCHANGED vars
  <2>1. UNCHANGED <<db, req, answer, inserted, pc>>
    BY <1>15 DEF vars, db
  <2>2. ReqInv' /\ LinksAreClaims' /\ TypeOK'
    BY <1>0, <2>1 DEF ReqInv, DumpInv, LinksAreClaims, CensusInv, TypeOK, db
  <2>3. ClaimInv' /\ OneClaimPerMember' /\ TxInv'
    BY <2>1, TablesKeep
  <2>4. \A r \in Reqs : Took(r)' = Took(r)
    BY <2>1, TookAfter DEF db
  <2>5. ReadInv'
    BY <2>1, <2>4, ReadsKeep DEF CensusInv, ReadInv
  <2> QED
    BY <2>2, <2>3, <2>5 DEF CensusInv
<1> QED
  BY <1>1, <1>2, <1>3, <1>4, <1>5, <1>6, <1>8, <1>9, <1>10, <1>12, <1>13, <1>14, <1>15,
     DumpReads
  DEF Next, Step

\* The invariant holds with no census and no request.
LEMMA CensusInit == Init => CensusInv
<1> SUFFICES ASSUME Init PROVE CensusInv
  OBVIOUS
<1>1. Reqs \subseteq All /\ Senders \subseteq All /\ Cardinality(Members) \in Nat
  BY CensusAssumption, FS_CardinalityType DEF All
<1>2. TypeOK
  <2>1. NoCensus \in CensusRow /\ NoRequest \in Request
    BY <1>1 DEF NoCensus, CensusRow, NoRequest, Request
  <2> QED
    BY <2>1 DEF Init, TypeOK, Steps
<1>3. \A q \in All : pc[q] = "idle" /\ req[q].list = {}
  BY DEF Init, NoRequest
<1>4. ReqInv
  BY <1>1, <1>3 DEF Init, ReqInv, DumpInv, DumpSteps, TxSteps, Single
<1>5. ClaimInv /\ OneClaimPerMember
  BY DEF Init, ClaimInv, OneClaimPerMember
<1>6. TxInv
  BY DEF Init, TxInv, Names
<1>7. LinksAreClaims
  BY <1>1, <1>3 DEF LinksAreClaims
<1>8. \A r \in Reqs : Took(r) = {}
  BY <1>1, <1>3 DEF Took, Names, Init
<1>9. ReadInv
  BY <1>1, <1>3, <1>8 DEF ReadInv, DumpSteps
<1> QED
  BY <1>2, <1>4, <1>5, <1>6, <1>7, <1>9 DEF CensusInv

\* The invariant as a whole.
LEMMA CensusIsInv == Spec => []CensusInv
BY CensusInit, CensusNext, PTL DEF Spec

\* Every variable of the census model keeps its type; in particular the size of a census is
\* never more than there are members.
THEOREM CensusTypeCorrect == Spec => []TypeOK
<1>1. CensusInv => TypeOK
  BY DEF CensusInv
<1> QED
  BY <1>1, CensusIsInv, PTL

\* However many dumpCensus of a census run at once, fail, are repeated or lose their
\* answer, no member is given two claims in it (ExpandCensusMembers).
THEOREM OneVotePerMember == Spec => []OneClaimPerMember
<1>1. CensusInv => OneClaimPerMember
  BY DEF CensusInv
<1> QED
  BY <1>1, CensusIsInv, PTL

\* Though the census and its members are read before the transaction of dumpCensus begins,
\* every claim stored belongs to an existing member of an existing census, and an ephemeral
\* one to a dump that was committed.
THEOREM StoredClaimsBacked == Spec => []ClaimsAreBacked
<1>1. CensusInv => ClaimsAreBacked
  <2> SUFFICES ASSUME CensusInv, NEW c \in Censuses, NEW x \in rows[c]
               PROVE  /\ censuses[c].live /\ Live(x.member)
                      /\ x.key # "own" => answer[x.key] \in {"ok", "unknown"}
    BY DEF ClaimsAreBacked
  <2>1. PICK s \in Reqs : <<s, x>> \in given[c] /\ (x.key # "own" => s = x.key)
    BY DEF CensusInv, ClaimInv
  <2>2. answer[s] \in {"ok", "unknown"} /\ censuses[c].live /\ Live(x.member)
    <3> DEFINE g == <<s, x>>
    <3>1. g \in given[c] /\ g[1] = s
      BY <2>1
    <3> HIDE DEF g
    <3> QED
      BY <3>1 DEF CensusInv, ClaimInv
  <2> QED
    BY <2>1, <2>2
<1> QED
  BY <1>1, CensusIsInv, PTL

\* The key that sendVotingLinks is about to mail to a member is the one that a committed
\* dump of the census gave it, unless the census was deleted since it was read.
THEOREM LinksMatchClaims == Spec => []LinksAreClaims
<1>1. CensusInv => LinksAreClaims
  BY DEF CensusInv
<1> QED
  BY <1>1, CensusIsInv, PTL

\* The root that updateCensus publishes, of the claims that one dump returned, covers all
\* the stored claims as soon as it covers one, however many dumps were served meanwhile.
THEOREM RootsCoverClaims == Spec => []RootCoversClaims
<1>1. CensusInv => RootCoversClaims
  <2> SUFFICES ASSUME CensusInv, NEW c \in Censuses, NEW x \in rows[c], NEW y \in rows[c],
                      \A g \in given[c] : ~req[g[1]].stale,
                      NEW h \in given[c], h[1] = root[c], h[2] = x
               PROVE  \E g \in given[c] : g[1] = root[c] /\ g[2] = y
    BY DEF RootCoversClaims
  <2>0. TypeOK /\ ReqInv /\ ClaimInv /\ OneClaimPerMember /\ ReadInv
    BY DEF CensusInv
  <2> DEFINE p == h[1]
  <2>1. PICK q \in Reqs : <<q, y>> \in given[c]
    BY <2>0 DEF ClaimInv
  <2>2. /\ p \in Reqs /\ req[p].census = c /\ req[q].census = c /\ ~req[p].stale
        /\ ~req[q].stale /\ x.member \in Members /\ y.member \in Members
    <3> DEFINE k == <<q, y>>
    <3>1. k \in given[c] /\ k[1] = q
      BY <2>1
    <3> HIDE DEF k
    <3>2. req[q].census = c /\ ~req[q].stale
      BY <2>0, <3>1 DEF ClaimInv
    <3> QED
      BY <2>0, <3>2 DEF ClaimInv, TypeOK, Claim
  <2>3. Live(x.member) /\ Live(y.member)
    BY <2>0 DEF ClaimInv
  <2>4. x.member \in Took(p) /\ y.member \in Took(q)
    <3>1. x.member \in Took(p)
      BY <2>2 DEF Took
    <3>2. y.member \in Took(q)
      BY <2>1, <2>2 DEF Took
    <3> QED
      BY <3>1, <3>2
  <2>5. ASSUME NEW r \in Reqs, NEW s \in Reqs, NEW z, <<r, z>> \in given[c],
               req[r].census = c, req[s].census = c, NEW w \in given[c], w[1] = s,
               z.member \in Took(s)
        PROVE  r = s
    <3>1. req[s].list = {}
      BY <2>0, <2>5 DEF ClaimInv, ReqInv, DumpInv
    <3>2. PICK d \in Censuses : \E g \in given[d] : g[1] = s /\ g[2].member = z.member
      BY <2>5, <3>1 DEF Took, Names
    <3>3. PICK g \in given[d] : g[1] = s /\ g[2].member = z.member
      BY <3>2
    <3>4. d = c
      BY <2>0, <2>5, <3>3 DEF ClaimInv
    <3> DEFINE k == <<r, z>>
    <3>5. k \in given[c] /\ k[1] = r /\ k[2] = z
      BY <2>5
    <3> HIDE DEF k
    <3>6. k = g
      BY <2>0, <3>3, <3>4, <3>5 DEF OneClaimPerMember
    <3> QED
      BY <3>3, <3>5, <3>6
  <2>6. <<p, x>> \in given[c]
    BY <2>0 DEF TypeOK
  <2>7. \/ \A m \in Took(p) : Live(m) => m \in Took(q)
        \/ \A m \in Took(q) : Live(m) => m \in Took(p)
    BY <2>0, <2>2 DEF ReadInv
  <2>8. CASE x.member \in Took(q)
    <3> DEFINE k == <<q, y>>
    <3>1. k \in given[c] /\ k[1] = q
      BY <2>1
    <3> HIDE DEF k
    <3>2. p = q
      BY <2>2, <2>5, <2>6, <2>8, <3>1
    <3> QED
      BY <2>1, <3>2
  <2>9. CASE y.member \in Took(p)
    <3>1. q = p
      BY <2>1, <2>2, <2>5, <2>9
    <3> QED
      BY <2>1, <3>1
  <2> QED
    BY <2>3, <2>4, <2>7, <2>8, <2>9
<1> QED
  BY <1>1, CensusIsInv, PTL
=============================================================================
