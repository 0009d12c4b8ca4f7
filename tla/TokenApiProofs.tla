--------------------------- MODULE TokenApiProofs ---------------------------
(***************************************************************************)
(* The safety of TokenApi, for any entities, requests, lists of keys and   *)
(* window, with or without faults, as long as ClockAssumption holds.       *)
(***************************************************************************)
EXTENDS TokenApi, FiniteSetTheorems, TLAPS

-----------------------------------------------------------------------------
(* The inductive invariant *)

\* Before Auth, what was stale when the request arrived still is; after Auth nothing is.
ReqInv(r) ==
    /\ pc[r] = "idle" => req[r] = NoRequest
    /\ pc[r] # "done" => answer[r] = "none"
    /\ pc[r] \in {"auth", "run", "commit"} => req[r].entity \in Entities
    /\ pc[r] = "auth" => /\ req[r].late => req[r].made + AuthWindowSeconds < clock
                         /\ req[r].old => req[r].secret < version[req[r].entity]
    /\ Executed(r) => ~req[r].late /\ ~req[r].old
    /\ pc[r] = "commit" => req[r].kind = "importKeysBulk" /\ held[r] = KeysOf(r)

\* The keys a transaction holds are the first ones of its list, and no users yet.
HeldInv(r) ==
    /\ IsFiniteSet(held[r]) /\ Cardinality(held[r]) <= Len(req[r].keys)
    /\ held[r] = {req[r].keys[i] : i \in 1..Cardinality(held[r])}
    /\ held[r] \cap users = {}
    /\ held[r] # {} => /\ pc[r] \in {"run", "commit"} /\ req[r].kind = "importKeysBulk"
                       /\ NoKey \notin KeysOf(r)

HeldOnce == \A r, s \in Reqs : r # s => held[r] \cap held[s] = {}

\* The keys that r has imported.
Mine(r) == {w.id.item : w \in {v \in rows : v.id.by = r}}

MineInv(r) ==
    /\ pc[r] # "done" => Mine(r) = {}
    /\ req[r].kind = "importKeysBulk" =>
           /\ Mine(r) \in {{}, KeysOf(r)}
           /\ answer[r] = "ok" => Mine(r) = KeysOf(r)

\* An imported key is a user, is in one row, and every user is in some row.
RowInv ==
    /\ ImportedOnce
    /\ \A w \in rows : w.id.item # NoKey => w.id.item \in users
    /\ \A k \in users : \E w \in rows : w.key = k

TokenInv == /\ TypeOK /\ RowInv /\ HeldOnce
            /\ \A r \in Reqs : ReqInv(r) /\ HeldInv(r) /\ MineInv(r)

-----------------------------------------------------------------------------
(* The window of checkAuth *)

\* An int32, for values that are at most one turn away.
LEMMA Int32Is ==
    ASSUME NEW x \in Int
    PROVE  /\ -Half <= x /\ x < Half => Int32(x) = x
           /\ Half <= x /\ x < 3 * Half => Int32(x) = x - 2 * Half
           /\ -3 * Half <= x /\ x < -Half => Int32(x) = x + 2 * Half
<1> DEFINE b == 2 * Half
           y == x + Half
<1>0. Half \in Nat \ {0}
  BY TokenApiAssumption
<1>1. b \in Nat \ {0} /\ y \in Int
  BY <1>0
<1>2. Int32(x) = (y % b) - Half
  BY DEF Int32
<1> HIDE DEF b, y
<1>3. /\ 0 <= y /\ y < b => y % b = y
      /\ b <= y /\ y < 2 * b => y % b = y - b
      /\ 0 - b <= y /\ y < 0 => y % b = y + b
  BY <1>1
<1> QED
  BY <1>0, <1>2, <1>3 DEF b, y

\* A timestamp whose window has passed is refused, on both sides of the end of int32 time.
LEMMA LateRefused ==
    ASSUME NEW made \in Nat, NEW now \in Nat, now <= End, made + AuthWindowSeconds < now
    PROVE  ~CheckAuth(Int32(made), Int32(now))
<1> DEFINE W == AuthWindowSeconds
<1>0. W \in Nat /\ Half \in Nat \ {0} /\ End \in Nat /\ now + W < 2 * Half
  BY TokenApiAssumption, ClockAssumption
<1>1. CASE now < Half
  <2>1. Int32(now) = now /\ Int32(made) = made
    BY <1>0, <1>1, Int32Is
  <2>2. Int32(now - W) = now - W
    BY <1>0, <1>1, Int32Is
  <2> QED
    BY <1>0, <2>1, <2>2 DEF CheckAuth
<1>2. CASE now >= Half
  <2>1. Int32(now) = now - 2 * Half
    BY <1>0, <1>2, Int32Is
  <2>2. CASE made < Half
    <3>1. Int32(made) = made
      BY <1>0, <2>2, Int32Is
    <3>2. (now - 2 * Half) + W \in Int /\ -Half <= (now - 2 * Half) + W /\ (now - 2 * Half) + W < 0
      BY <1>0, <1>2
    <3>3. Int32((now - 2 * Half) + W) = (now - 2 * Half) + W
      BY <1>0, <3>2, Int32Is
    <3> QED
      BY <1>0, <2>1, <3>1, <3>2, <3>3 DEF CheckAuth
  <2>3. CASE made >= Half
    <3>1. Int32(made) = made - 2 * Half
      BY <1>0, <2>3, Int32Is
    <3>2. (now - 2 * Half) - W \in Int /\ -Half <= (now - 2 * Half) - W /\ (now - 2 * Half) - W < Half
      BY <1>0, <2>3
    <3>3. Int32((now - 2 * Half) - W) = (now - 2 * Half) - W
      BY <1>0, <3>2, Int32Is
    <3> QED
      BY <1>0, <2>1, <3>1, <3>2, <3>3 DEF CheckAuth
  <2> QED
    BY <1>0, <2>2, <2>3
<1> QED
  BY <1>0, <1>1, <1>2

-----------------------------------------------------------------------------
(* The table members *)

\* What r has imported depends on the ids of the rows only.
LEMMA MineKept ==
    ASSUME NEW q, \A i : (\E w \in rows' : w.id = i) <=> (\E w \in rows : w.id = i)
    PROVE  Mine(q)' = Mine(q)
<1>1. /\ \A k : k \in Mine(q) <=> \E w \in rows : w.id.by = q /\ w.id.item = k
      /\ \A k : k \in Mine(q)' <=> \E w \in rows' : w.id.by = q /\ w.id.item = k
  BY DEF Mine
<1>2. ASSUME NEW k PROVE k \in Mine(q) <=> k \in Mine(q)'
  <2>1. ASSUME NEW w \in rows, w.id.by = q, w.id.item = k PROVE k \in Mine(q)'
    BY <1>1, <2>1
  <2>2. ASSUME NEW w \in rows', w.id.by = q, w.id.item = k PROVE k \in Mine(q)
    BY <1>1, <2>2
  <2> QED
    BY <1>1, <2>1, <2>2
<1> QED
  BY <1>2

\* Deleting rows: they stay as history, with their ids and keys.
LEMMA RemoveRows ==
    ASSUME TypeOK, RowInv, NEW S \in SUBSET rows, Remove(S), users' = users
    PROVE  rows' \subseteq Row /\ RowInv' /\ \A q : Mine(q)' = Mine(q)
<1> DEFINE dead(w) == [w EXCEPT !.live = FALSE]
<1>1. /\ \A w \in rows : w \in Row
      /\ \A w \in S : w \in rows /\ dead(w) \in Row /\ dead(w).id = w.id /\ dead(w).key = w.key
  <2>1. \A w \in rows : w \in Row
    BY DEF TypeOK
  <2>2. \A w \in Row : dead(w) \in Row /\ dead(w).id = w.id /\ dead(w).key = w.key
    BY DEF Row
  <2> QED
    BY <2>1, <2>2
<1>2. rows' = (rows \ S) \cup {dead(w) : w \in S}
  BY DEF Remove
<1> HIDE DEF dead
<1>3. \A w \in rows' : \E v \in rows : /\ v.id = w.id /\ v.key = w.key
                                       /\ w = IF v \in S THEN dead(v) ELSE v
  BY <1>1, <1>2
<1>4. \A v \in rows : \E w \in rows' : v.id = w.id /\ v.key = w.key
  <2> TAKE v \in rows
  <2>1. CASE v \in S
    BY <1>1, <1>2, <2>1
  <2>2. CASE v \notin S
    BY <1>2, <2>2
  <2> QED
    BY <2>1, <2>2
<1>5. rows' \subseteq Row
  BY <1>1, <1>2
<1>6. RowInv'
  <2>1. ASSUME NEW x \in rows', NEW y \in rows', x.id.item # NoKey, x.id.item = y.id.item
        PROVE  x = y
    <3>1. PICK v \in rows : v.id = x.id /\ x = IF v \in S THEN dead(v) ELSE v
      BY <1>3
    <3>2. PICK w \in rows : w.id = y.id /\ y = IF w \in S THEN dead(w) ELSE w
      BY <1>3
    <3>3. v = w
      BY <2>1, <3>1, <3>2 DEF RowInv, ImportedOnce
    <3> QED
      BY <3>1, <3>2, <3>3
  <2>2. \A w \in rows' : w.id.item # NoKey => w.id.item \in users'
    BY <1>3 DEF RowInv
  <2>3. \A k \in users' : \E w \in rows' : w.key = k
    BY <1>4 DEF RowInv
  <2> QED
    BY <2>1, <2>2, <2>3 DEF RowInv, ImportedOnce
<1> QED
  BY <1>3, <1>4, <1>5, <1>6, MineKept

-----------------------------------------------------------------------------
(* A step of the environment, or of one request *)

\* A request that is left alone keeps its part of the invariant.
LEMMA Kept ==
    ASSUME TokenInv, NEW q \in Reqs, pc'[q] = pc[q], req'[q] = req[q], answer'[q] = answer[q],
           held'[q] = held[q], clock' \in Nat, clock <= clock',
           \A e \in Entities : version'[e] \in Nat /\ version[e] <= version'[e],
           held[q] \cap users' = {}, Mine(q)' = Mine(q)
    PROVE  ReqInv(q)' /\ HeldInv(q)' /\ MineInv(q)'
<1>1. /\ ReqInv(q) /\ HeldInv(q) /\ MineInv(q) /\ clock \in Nat
      /\ \A e \in Entities : version[e] \in Nat
      /\ AuthWindowSeconds \in Nat /\ req[q].made \in Nat /\ req[q].secret \in Nat
  BY TokenApiAssumption DEF TokenInv, TypeOK, Request
<1>2. KeysOf(q)' = KeysOf(q) /\ (Executed(q)' <=> Executed(q))
  BY DEF KeysOf, Executed
<1>3. pc[q] = "auth" => /\ req[q].late => req[q].made + AuthWindowSeconds < clock'
                        /\ req[q].old => req[q].secret < version'[req[q].entity]
  BY <1>1 DEF ReqInv
<1>4. ReqInv(q)'
  BY <1>1, <1>2, <1>3 DEF ReqInv
<1>5. HeldInv(q)'
  BY <1>1, <1>2 DEF HeldInv
<1>6. MineInv(q)'
  BY <1>1, <1>2 DEF MineInv
<1> QED
  BY <1>4, <1>5, <1>6

\* A step of the environment.
LEMMA EnvStep ==
    ASSUME TokenInv, UNCHANGED <<pc, req, answer, held>>, TypeOK', RowInv', clock <= clock',
           \A e \in Entities : version[e] <= version'[e],
           \A q \in Reqs : held[q] \cap users' = {} /\ Mine(q)' = Mine(q)
    PROVE  TokenInv'
<1>1. clock' \in Nat /\ \A e \in Entities : version'[e] \in Nat
  BY TokenApiAssumption DEF TypeOK
<1>2. \A q \in Reqs : ReqInv(q)' /\ HeldInv(q)' /\ MineInv(q)'
  BY <1>1, Kept
<1> QED
  BY <1>2 DEF TokenInv, HeldOnce

LEMMA TickInv ==
    ASSUME TokenInv, Tick
    PROVE  TokenInv'
<1>1. TypeOK' /\ clock <= clock' /\ \A e \in Entities : version[e] <= version'[e]
  BY TokenApiAssumption DEF TokenInv, TypeOK, Tick
<1>2. RowInv' /\ \A q \in Reqs : held[q] \cap users' = {} /\ Mine(q)' = Mine(q)
  BY DEF TokenInv, HeldInv, Tick, RowInv, ImportedOnce, Mine
<1> QED
  BY <1>1, <1>2, EnvStep DEF Tick

LEMMA UpdateEntityInv ==
    ASSUME TokenInv, NEW e \in Entities, UpdateEntity(e)
    PROVE  TokenInv'
<1>1. TypeOK' /\ clock <= clock' /\ \A f \in Entities : version[f] <= version'[f]
  BY TokenApiAssumption DEF TokenInv, TypeOK, UpdateEntity
<1>2. RowInv' /\ \A q \in Reqs : held[q] \cap users' = {} /\ Mine(q)' = Mine(q)
  BY DEF TokenInv, HeldInv, UpdateEntity, RowInv, ImportedOnce, Mine
<1> QED
  BY <1>1, <1>2, EnvStep DEF UpdateEntity

LEMMA DeleteMembersInv ==
    ASSUME TokenInv, NEW w \in rows, DeleteMembers(w)
    PROVE  TokenInv'
<1>0. TypeOK /\ RowInv /\ UNCHANGED <<clock, version, users, pc, req, answer, held>>
  BY DEF TokenInv, DeleteMembers
<1>1. rows' \subseteq Row /\ RowInv' /\ \A q : Mine(q)' = Mine(q)
  <2>1. {w} \in SUBSET rows /\ Remove({w})
    BY DEF DeleteMembers
  <2> QED
    BY <1>0, <2>1, RemoveRows
<1>2. TypeOK'
  BY <1>0, <1>1 DEF TypeOK
<1>3. \A q \in Reqs : held[q] \cap users' = {}
  BY <1>0 DEF TokenInv, HeldInv
<1>4. clock <= clock' /\ \A f \in Entities : version[f] <= version'[f]
  BY <1>0, TokenApiAssumption DEF TypeOK
<1> QED
  BY <1>0, <1>1, <1>2, <1>3, <1>4, EnvStep

LEMMA ValidateTokenInv ==
    ASSUME TokenInv, NEW w \in rows, NEW k \in Keys, ValidateToken(w, k)
    PROVE  TokenInv'
<1> DEFINE z == [w EXCEPT !.key = k]
<1>0. TypeOK /\ RowInv /\ UNCHANGED <<clock, version, pc, req, answer, held>>
  BY DEF TokenInv, ValidateToken
<1>1. z \in Row /\ z.id = w.id /\ z.key = k
  BY <1>0 DEF TypeOK, Row
<1>2. /\ rows' = (rows \ {w}) \cup {z} /\ users' = users \cup {k} /\ w.key = NoKey
      /\ \A q \in Reqs : k \notin held[q]
  BY DEF ValidateToken
<1> HIDE DEF z
<1>3. TypeOK'
  BY <1>0, <1>1, <1>2 DEF TypeOK
<1>4. \A i : (\E v \in rows' : v.id = i) <=> (\E v \in rows : v.id = i)
  BY <1>1, <1>2
<1>5. RowInv'
  <2>1. ImportedOnce'
    BY <1>0, <1>1, <1>2 DEF RowInv, ImportedOnce
  <2>2. \A v \in rows' : v.id.item # NoKey => v.id.item \in users'
    BY <1>0, <1>1, <1>2 DEF RowInv
  <2>3. NoKey \notin users
    BY <1>0, TokenApiAssumption DEF TypeOK
  <2>4. \A j \in users' : \E v \in rows' : v.key = j
    BY <1>0, <1>1, <1>2, <2>3 DEF RowInv
  <2> QED
    BY <2>1, <2>2, <2>4 DEF RowInv
<1>6. \A q \in Reqs : held[q] \cap users' = {} /\ Mine(q)' = Mine(q)
  BY <1>2, <1>4, MineKept DEF TokenInv, HeldInv
<1>7. clock <= clock' /\ \A f \in Entities : version[f] <= version'[f]
  BY <1>0, TokenApiAssumption DEF TypeOK
<1> QED
  BY <1>0, <1>3, <1>5, <1>6, <1>7, EnvStep

\* The only request that changes in this step is r, which is not over.
Only(r) ==
    /\ pc[r] # "done"
    /\ \A q \in Reqs : q # r => /\ pc'[q] = pc[q] /\ req'[q] = req[q]
                                /\ answer'[q] = answer[q] /\ held'[q] = held[q]

\* What is left to show of a step of r.
LEMMA OneStep ==
    ASSUME TokenInv, NEW r \in Reqs, Only(r), UNCHANGED <<clock, version>>, TypeOK', RowInv',
           ReqInv(r)', HeldInv(r)', MineInv(r)',
           \A q \in Reqs : q # r => /\ held[q] \cap users' = {} /\ Mine(q)' = Mine(q)
                                    /\ held'[r] \cap held[q] = {}
    PROVE  TokenInv'
<1>1. /\ clock' \in Nat /\ clock <= clock'
      /\ \A e \in Entities : version'[e] \in Nat /\ version[e] <= version'[e]
  BY TokenApiAssumption DEF TokenInv, TypeOK
<1>2. \A q \in Reqs : q # r => ReqInv(q)' /\ HeldInv(q)' /\ MineInv(q)'
  BY <1>1, Kept DEF Only
<1>3. HeldOnce'
  BY DEF Only, HeldOnce, TokenInv
<1> QED
  BY <1>2, <1>3 DEF TokenInv

\* The type of a step of a request, from those of what it writes.
LEMMA StepType ==
    ASSUME TypeOK, NEW r \in Reqs, NEW step \in {"auth", "run", "commit", "done"}, pc[r] # "done",
           pc' = [pc EXCEPT ![r] = step],
           req' = req \/ \E n \in Request : req' = [req EXCEPT ![r] = n],
           \/ answer' = answer
           \/ \E a \in {"refused", "ok", "error", "lost", "invalid", "available", "registered"} :
                  answer' = [answer EXCEPT ![r] = a],
           held' = held \/ \E L \in SUBSET Keys : held' = [held EXCEPT ![r] = L],
           UNCHANGED <<clock, version>>, users' \subseteq Keys, rows' \subseteq Row
    PROVE  TypeOK' /\ Only(r) /\ pc'[r] = step
<1>1. /\ pc' \in [Reqs -> {"idle", "auth", "run", "commit", "done"}]
      /\ pc'[r] = step /\ \A q \in Reqs : q # r => pc'[q] = pc[q]
  BY DEF TypeOK
<1>2. req' \in [Reqs -> Request] /\ \A q \in Reqs : q # r => req'[q] = req[q]
  BY DEF TypeOK
<1>3. /\ answer' \in [Reqs -> {"none", "refused", "ok", "error", "lost",
                               "invalid", "available", "registered"}]
      /\ \A q \in Reqs : q # r => answer'[q] = answer[q]
  BY DEF TypeOK
<1>4. held' \in [Reqs -> SUBSET Keys] /\ \A q \in Reqs : q # r => held'[q] = held[q]
  BY DEF TypeOK
<1> QED
  BY <1>1, <1>2, <1>3, <1>4 DEF TypeOK, Only

\* A step that writes no table, and after which r holds what it held or nothing.
LEMMA QuietStep ==
    ASSUME TokenInv, NEW r \in Reqs, Only(r), UNCHANGED db, TypeOK', ReqInv(r)', HeldInv(r)',
           pc'[r] # "done" \/ answer'[r] # "ok" \/ req'[r].kind # "importKeysBulk",
           held'[r] \subseteq held[r]
    PROVE  TokenInv'
<1>0. UNCHANGED <<clock, version, users, rows>>
  BY DEF db
<1>1. RowInv' /\ \A q : Mine(q)' = Mine(q)
  BY <1>0 DEF TokenInv, RowInv, ImportedOnce, Mine
<1>2. \A q \in Reqs : q # r => held[q] \cap users' = {} /\ held'[r] \cap held[q] = {}
  BY <1>0 DEF TokenInv, HeldInv, HeldOnce
<1>3. MineInv(r)'
  <2>1. Mine(r)' = {}
    BY <1>1 DEF TokenInv, MineInv, Only
  <2>2. pc'[r] # "done" => answer'[r] = "none"
    BY DEF ReqInv
  <2> QED
    BY <2>1, <2>2 DEF MineInv
<1> QED
  BY <1>0, <1>1, <1>2, <1>3, OneStep

\* The keys of a request.
LEMMA KeysType ==
    ASSUME TypeOK, NEW r \in Reqs
    PROVE  /\ req[r].keys \in Seq(Keys \cup {NoKey}) /\ Len(req[r].keys) \in Nat
           /\ KeysOf(r) = {req[r].keys[i] : i \in 1..Len(req[r].keys)}
<1>1. req[r].keys \in KeyLists \cup {<<>>}
  BY DEF TypeOK, Request
<1>2. KeyLists \subseteq Seq(Keys \cup {NoKey}) /\ <<>> \in Seq(Keys \cup {NoKey})
  BY TokenApiAssumption
<1>3. req[r].keys \in Seq(Keys \cup {NoKey})
  BY <1>1, <1>2
<1> QED
  BY <1>3 DEF KeysOf

LEMMA KeysTypePrimed ==
    ASSUME TypeOK', NEW r \in Reqs
    PROVE  Len(req'[r].keys) \in Nat
<1>1. req'[r].keys \in KeyLists \cup {<<>>}
  BY DEF TypeOK, Request
<1>2. KeyLists \subseteq Seq(Keys \cup {NoKey}) /\ <<>> \in Seq(Keys \cup {NoKey})
  BY TokenApiAssumption
<1> QED
  BY <1>1, <1>2

\* A request that holds nothing.
LEMMA HoldsNothing ==
    ASSUME TypeOK', NEW r \in Reqs, held'[r] = {}
    PROVE  HeldInv(r)'
<1>1. IsFiniteSet({}) /\ Cardinality({}) = 0
  BY FS_EmptySet
<1>2. Len(req'[r].keys) \in Nat
  BY KeysTypePrimed
<1>3. {req'[r].keys[i] : i \in 1..0} = {}
  OBVIOUS
<1> QED
  BY <1>1, <1>2, <1>3 DEF HeldInv

\* A handler that is past Auth answers and changes no table.
LEMMA Answers ==
    ASSUME TokenInv, NEW r \in Reqs, pc[r] \in {"run", "commit"}, UNCHANGED <<db, req>>,
           NEW a \in {"error", "invalid", "available", "registered"}, Answer(r, a),
           held' = [held EXCEPT ![r] = {}] \/ (held' = held /\ held[r] = {})
    PROVE  TokenInv'
<1>0. TypeOK /\ ReqInv(r) /\ UNCHANGED <<clock, version, users, rows>>
  BY DEF TokenInv, db
<1>1. TypeOK' /\ Only(r) /\ pc'[r] = "done"
  BY <1>0, StepType DEF Answer, Goto, TypeOK
<1>2. answer'[r] = a /\ held'[r] = {}
  BY <1>0 DEF Answer, TypeOK
<1>3. HeldInv(r)'
  BY <1>1, <1>2, HoldsNothing
<1>4. ReqInv(r)'
  BY <1>0, <1>1, <1>2 DEF ReqInv, Executed
<1> QED
  BY <1>1, <1>2, <1>3, <1>4, QuietStep

-----------------------------------------------------------------------------
(* Arrival and authentication *)

LEMMA ArriveInv ==
    ASSUME TokenInv, NEW r \in Reqs, NEW kind, NEW e \in Entities, NEW made \in 0..End,
           NEW secret \in 0..version[e], NEW token \in Ids, NEW keys \in KeyLists \cup {<<>>},
           Arrive(r, kind, e, made, secret, token, keys)
    PROVE  TokenInv'
<1> DEFINE late == made + AuthWindowSeconds < clock
           old == secret < version[e]
           n == [kind |-> kind, entity |-> e, token |-> token, keys |-> keys,
                 made |-> made, secret |-> secret, late |-> late, old |-> old]
<1>0. /\ TypeOK /\ ReqInv(r) /\ HeldInv(r) /\ pc[r] = "idle" /\ kind \in Kinds
      /\ UNCHANGED <<clock, version, users, rows, answer, held>> /\ UNCHANGED db
      /\ pc' = [pc EXCEPT ![r] = "auth"] /\ req' = [req EXCEPT ![r] = n]
  BY DEF TokenInv, Arrive, db, Goto
<1>1. secret \in 0..MaxVersion
  BY <1>0, TokenApiAssumption DEF TypeOK
<1>2. /\ n \in Request /\ n.entity = e /\ n.made = made /\ n.secret = secret
      /\ n.late => made + AuthWindowSeconds < clock
      /\ n.old => secret < version[e]
  <2>1. late \in BOOLEAN /\ old \in BOOLEAN
    OBVIOUS
  <2> HIDE DEF late, old
  <2>2. n \in Request /\ n.entity = e /\ n.made = made /\ n.secret = secret /\ n.late = late /\ n.old = old
    BY <1>0, <1>1, <2>1 DEF Request
  <2> QED
    BY <2>2 DEF late, old
<1> HIDE DEF n
<1>3. TypeOK' /\ Only(r) /\ pc'[r] = "auth"
  BY <1>0, <1>2, StepType DEF TypeOK
<1>4. req'[r] = n /\ held'[r] = {} /\ held[r] = {} /\ answer'[r] = "none"
  BY <1>0 DEF TypeOK, HeldInv, ReqInv
<1>5. ReqInv(r)'
  BY <1>0, <1>2, <1>3, <1>4 DEF ReqInv, Executed
<1>6. HeldInv(r)'
  BY <1>3, <1>4, HoldsNothing
<1> QED
  BY <1>0, <1>3, <1>4, <1>5, <1>6, QuietStep

LEMMA ReceiveInv ==
    ASSUME TokenInv, NEW r \in Reqs, Receive(r)
    PROVE  TokenInv'
<1>0. TypeOK
  BY DEF TokenInv
<1>1. PICK e \in Entities, made \in {clock - d : d \in Delays} : \E s \in 0..version[e] :
        \/ Generate(r, e, made, s)
        \/ \E w \in rows : Revoke(r, e, made, s, w.id) \/ Status(r, e, made, s, w.id)
        \/ \E ks \in KeyLists : ImportKeysBulk(r, e, made, s, ks) \/ DeleteKeys(r, e, made, s, ks)
  BY DEF Receive
<1>2. PICK s \in 0..version[e] :
        \/ Generate(r, e, made, s)
        \/ \E w \in rows : Revoke(r, e, made, s, w.id) \/ Status(r, e, made, s, w.id)
        \/ \E ks \in KeyLists : ImportKeysBulk(r, e, made, s, ks) \/ DeleteKeys(r, e, made, s, ks)
  BY <1>1
<1>3. made \in 0..End
  BY <1>0, TokenApiAssumption DEF TypeOK
<1>4. NoToken \in Ids /\ \A w \in rows : w.id \in Ids
  BY <1>0 DEF NoToken, Ids, TypeOK, Row
<1> QED
  BY <1>2, <1>3, <1>4, ArriveInv DEF Generate, Revoke, Status, ImportKeysBulk, DeleteKeys

\* Auth: whoever was late or used an old secret is refused.
LEMMA AuthInv ==
    ASSUME TokenInv, NEW r \in Reqs, Auth(r)
    PROVE  TokenInv'
<1>0. /\ TypeOK /\ ReqInv(r) /\ HeldInv(r) /\ pc[r] = "auth" /\ req[r] \in Request
      /\ UNCHANGED <<clock, version, users, rows, held>> /\ UNCHANGED db
      /\ held[r] = {} /\ held'[r] = {} /\ answer[r] = "none"
  BY DEF TokenInv, TypeOK, HeldInv, ReqInv, Auth, db
<1>1. CASE /\ CheckAuth(Int32(req[r].made), Int32(clock)) /\ req[r].secret = version[req[r].entity]
           /\ req' = [req EXCEPT ![r].made = Start, ![r].secret = 0]
           /\ Goto(r, "run") /\ UNCHANGED answer
  <2> DEFINE n == [req[r] EXCEPT !.made = Start, !.secret = 0]
  <2>1. /\ n \in Request /\ n.kind = req[r].kind /\ n.entity = req[r].entity
        /\ n.late = req[r].late /\ n.old = req[r].old
    <3>1. Start \in 0..End /\ 0 \in 0..MaxVersion
      BY TokenApiAssumption
    <3> QED
      BY <1>0, <3>1 DEF Request
  <2>2. req' = [req EXCEPT ![r] = n]
    BY <1>0, <1>1 DEF TypeOK
  <2> HIDE DEF n
  <2>3. TypeOK' /\ Only(r) /\ pc'[r] = "run"
    BY <1>0, <1>1, <2>1, <2>2, StepType DEF TypeOK, Goto
  <2>4. req'[r] = n /\ answer'[r] = "none"
    BY <1>0, <1>1, <2>2 DEF TypeOK
  <2>5. ~req[r].late
    <3>1. clock \in Nat /\ clock <= End /\ req[r].made \in Nat
      BY <1>0, TokenApiAssumption DEF TypeOK, Request
    <3> QED
      BY <1>0, <1>1, <3>1, LateRefused DEF ReqInv
  <2>6. ~req[r].old
    BY <1>0, <1>1, TokenApiAssumption DEF ReqInv, TypeOK, Request
  <2>7. ReqInv(r)'
    BY <1>0, <2>1, <2>3, <2>4, <2>5, <2>6 DEF ReqInv, Executed
  <2>8. HeldInv(r)'
    BY <1>0, <2>3, HoldsNothing
  <2> QED
    BY <1>0, <2>3, <2>7, <2>8, QuietStep
<1>2. CASE req' = [req EXCEPT ![r] = NoRequest] /\ Answer(r, "refused")
  <2>1. NoRequest \in Request
    BY TokenApiAssumption DEF NoRequest, Request, NoToken, Ids
  <2>2. TypeOK' /\ Only(r) /\ pc'[r] = "done"
    BY <1>0, <1>2, <2>1, StepType DEF TypeOK, Goto, Answer
  <2>3. req'[r] = NoRequest /\ answer'[r] = "refused"
    BY <1>0, <1>2 DEF TypeOK, Answer
  <2>4. ReqInv(r)'
    BY <2>2, <2>3 DEF ReqInv, Executed
  <2>5. HeldInv(r)'
    BY <1>0, <2>2, HoldsNothing
  <2> QED
    BY <1>0, <2>2, <2>3, <2>4, <2>5, QuietStep
<1> QED
  BY <1>1, <1>2 DEF Auth

-----------------------------------------------------------------------------
(* The handlers of single statements *)

\* A handler that imports nothing writes the table members and answers.
LEMMA WritesRows ==
    ASSUME TokenInv, NEW r \in Reqs, pc[r] = "run", req[r].kind # "importKeysBulk",
           UNCHANGED <<clock, version, users, req, held>>, NEW a \in {"ok", "error"}, Answer(r, a),
           rows' \subseteq Row, RowInv', \A q \in Reqs : q # r => Mine(q)' = Mine(q)
    PROVE  TokenInv'
<1>0. TypeOK /\ ReqInv(r) /\ HeldInv(r)
  BY DEF TokenInv
<1>1. TypeOK' /\ Only(r) /\ pc'[r] = "done"
  BY <1>0, StepType DEF TypeOK, Answer, Goto
<1>2. answer'[r] = a /\ held'[r] = {}
  BY <1>0 DEF TypeOK, Answer, HeldInv
<1>3. ReqInv(r)'
  BY <1>0, <1>1, <1>2 DEF ReqInv, Executed
<1>4. HeldInv(r)'
  BY <1>1, <1>2, HoldsNothing
<1>5. MineInv(r)'
  BY <1>1 DEF MineInv
<1>6. \A q \in Reqs : held[q] \cap users' = {}
  BY DEF TokenInv, HeldInv
<1> QED
  BY <1>1, <1>2, <1>3, <1>4, <1>5, <1>6, OneStep

LEMMA CreateMembersWithTokensInv ==
    ASSUME TokenInv, NEW r \in Reqs, CreateMembersWithTokens(r)
    PROVE  TokenInv'
<1> DEFINE i == [by |-> r, item |-> NoKey]
           z == [id |-> i, entity |-> req[r].entity, key |-> NoKey, live |-> TRUE]
<1>0. /\ TypeOK /\ RowInv /\ ReqInv(r) /\ HeldInv(r) /\ pc[r] = "run" /\ req[r].kind = "generate"
      /\ UNCHANGED <<clock, version, users, req, held>>
  BY DEF TokenInv, CreateMembersWithTokens, Runs
<1>1. CASE Answer(r, "error") /\ UNCHANGED rows
  <2>1. held[r] = {}
    BY <1>0 DEF HeldInv
  <2> QED
    BY <1>0, <1>1, <2>1, Answers DEF db
<1>2. CASE rows' = rows \cup {z} /\ Reply(r, "ok")
  <2>1. i \in Ids /\ i.by = r /\ i.item = NoKey
    BY DEF Ids
  <2>2. req[r].entity \in Entities
    BY <1>0 DEF ReqInv
  <2> HIDE DEF i
  <2>3. z \in Row /\ z.id = i /\ z.key = NoKey
    BY <2>1, <2>2 DEF Row
  <2> HIDE DEF z
  <2>4. rows' \subseteq Row
    BY <1>0, <1>2, <2>3 DEF TypeOK
  <2>5. RowInv'
    <3>1. ImportedOnce'
      BY <1>0, <1>2, <2>1, <2>3 DEF RowInv, ImportedOnce
    <3>2. \A w \in rows' : w.id.item # NoKey => w.id.item \in users'
      BY <1>0, <1>2, <2>1, <2>3 DEF RowInv
    <3>3. \A k \in users' : \E w \in rows' : w.key = k
      BY <1>0, <1>2 DEF RowInv
    <3> QED
      BY <3>1, <3>2, <3>3 DEF RowInv
  <2>6. \A q \in Reqs : q # r => Mine(q)' = Mine(q)
    <3> SUFFICES ASSUME NEW q \in Reqs, q # r PROVE Mine(q)' = Mine(q)
      OBVIOUS
    <3>1. {v \in rows' : v.id.by = q} = {v \in rows : v.id.by = q}
      BY <1>2, <2>1, <2>3
    <3> QED
      BY <3>1 DEF Mine
  <2>7. PICK a \in {"ok", "error"} : Answer(r, a)
    BY <1>2 DEF Reply
  <2> QED
    BY <1>0, <2>4, <2>5, <2>6, <2>7, WritesRows
<1> QED
  BY <1>1, <1>2 DEF CreateMembersWithTokens

LEMMA DeletesInv ==
    ASSUME TokenInv, NEW r \in Reqs, DeleteMember(r) \/ DeleteMembersByKeys(r)
    PROVE  TokenInv'
<1>0. /\ TypeOK /\ RowInv /\ pc[r] = "run" /\ req[r].kind # "importKeysBulk"
      /\ UNCHANGED <<clock, version, users, req, held>>
  BY DEF TokenInv, DeleteMember, DeleteMembersByKeys, Runs
<1>1. PICK S \in SUBSET rows : Remove(S)
  <2>1. Found(r) \in SUBSET rows
    BY DEF Found, Live
  <2>2. {w \in Live(req[r].entity) : w.key \in KeysOf(r) \cap Keys} \in SUBSET rows
    BY DEF Live
  <2> QED
    BY <2>1, <2>2 DEF DeleteMember, DeleteMembersByKeys
<1>2. rows' \subseteq Row /\ RowInv' /\ \A q : Mine(q)' = Mine(q)
  BY <1>0, <1>1, RemoveRows
<1>3. PICK a \in {"ok", "error"} : Answer(r, a)
  BY DEF DeleteMember, DeleteMembersByKeys, Reply
<1> QED
  BY <1>0, <1>2, <1>3, WritesRows

LEMMA TokenStatusInv ==
    ASSUME TokenInv, NEW r \in Reqs, TokenStatus(r)
    PROVE  TokenInv'
<1>1. pc[r] = "run" /\ held[r] = {} /\ UNCHANGED <<db, req, held>>
  BY DEF TokenInv, HeldInv, TokenStatus, Runs
<1>2. PICK a \in {"invalid", "available", "registered"} : Answer(r, a)
  <2>1. (CASE Found(r) = {} -> "invalid"
           [] \E w \in Found(r) : w.key \in Keys \ ShortKeys -> "registered"
           [] OTHER -> "available") \in {"invalid", "available", "registered"}
    OBVIOUS
  <2> QED
    BY <2>1 DEF TokenStatus
<1> QED
  BY <1>1, <1>2, Answers

-----------------------------------------------------------------------------
(* importKeysBulk *)

LEMMA EmptyKeyInv ==
    ASSUME TokenInv, NEW r \in Reqs, EmptyKey(r)
    PROVE  TokenInv'
<1>1. pc[r] = "run" /\ held[r] = {} /\ UNCHANGED <<db, req, held>>
  BY DEF TokenInv, HeldInv, EmptyKey, Runs
<1> QED
  BY <1>1, Answers DEF EmptyKey

\* One more key is held: the next of the list, which is no user and held by nobody.
LEMMA InsertUsersInv ==
    ASSUME TokenInv, NEW r \in Reqs, InsertUsers(r)
    PROVE  TokenInv'
<1> DEFINE c == Cardinality(held[r])
           k == req[r].keys[c + 1]
           L == held[r] \cup {k}
<1>0. /\ TypeOK /\ ReqInv(r) /\ HeldInv(r) /\ pc[r] = "run" /\ req[r].kind = "importKeysBulk"
      /\ NoKey \notin KeysOf(r) /\ c < Len(req[r].keys)
      /\ UNCHANGED <<db, req>> /\ UNCHANGED <<clock, version, users, rows>>
  BY DEF TokenInv, InsertUsers, Inserting, Runs, MoreKeys, db
<1>1. CASE Answer(r, "error") /\ Unlock(r)
  BY <1>0, <1>1, Answers DEF Unlock
<1>2. CASE /\ k \notin users \cup held[r] /\ held' = [held EXCEPT ![r] = L]
           /\ UNCHANGED <<pc, answer>>
  <2>1. /\ c \in Nat /\ c + 1 \in 1..Len(req[r].keys) /\ IsFiniteSet(held[r])
        /\ Len(req[r].keys) \in Nat
    BY <1>0, KeysType, FS_CardinalityType DEF HeldInv
  <2>2. k \in KeysOf(r) /\ k \in Keys
    <3>1. k \in KeysOf(r) /\ k \in Keys \cup {NoKey}
      BY <1>0, <2>1, KeysType
    <3> QED
      BY <1>0, <3>1
  <2>3. TypeOK' /\ Only(r) /\ pc'[r] = "run"
    <3>1. L \in SUBSET Keys
      BY <1>0, <2>2 DEF TypeOK
    <3>2. pc' = [pc EXCEPT ![r] = "run"]
      BY <1>0, <1>2 DEF TypeOK
    <3> QED
      BY <1>0, <1>2, <3>1, <3>2, StepType DEF TypeOK
  <2>4. held'[r] = L
    BY <1>0, <1>2 DEF TypeOK
  <2>5. IsFiniteSet(L) /\ Cardinality(L) = c + 1
    BY <1>2, <2>1, FS_AddElement
  <2>6. L = {req[r].keys[i] : i \in 1..(c + 1)}
    <3>1. held[r] = {req[r].keys[i] : i \in 1..c}
      BY <1>0 DEF HeldInv
    <3>2. \A i : i \in 1..(c + 1) <=> (i \in 1..c \/ i = c + 1)
      BY <2>1
    <3> HIDE DEF c
    <3> QED
      BY <3>1, <3>2
  <2>7. KeysOf(r)' = KeysOf(r)
    BY <1>0 DEF KeysOf
  <2> HIDE DEF L, k
  <2>8. HeldInv(r)'
    <3>1. IsFiniteSet(L) /\ Cardinality(L) <= Len(req[r].keys) /\ L = {req[r].keys[i] : i \in 1..Cardinality(L)}
      BY <2>1, <2>5, <2>6
    <3>2. L \cap users = {}
      BY <1>0, <1>2 DEF HeldInv, L
    <3> QED
      BY <1>0, <2>3, <2>4, <2>7, <3>1, <3>2 DEF HeldInv
  <2>9. ReqInv(r)'
    BY <1>0, <1>2, <2>3 DEF ReqInv, Executed
  <2>10. \A q \in Reqs : q # r => held[q] \cap users' = {} /\ L \cap held[q] = {}
    <3>1. \A q \in Reqs : q # r => k \notin held[q]
      BY DEF InsertUsers, Waits, NextKey, k
    <3> QED
      BY <1>0, <3>1 DEF TokenInv, HeldInv, HeldOnce, L
  <2>11. RowInv' /\ \A q : Mine(q)' = Mine(q)
    BY <1>0 DEF TokenInv, RowInv, ImportedOnce, Mine
  <2>12. MineInv(r)'
    BY <1>0, <1>2, <2>3, <2>7, <2>11 DEF TokenInv, MineInv, ReqInv
  <2> QED
    BY <1>0, <2>3, <2>4, <2>8, <2>9, <2>10, <2>11, <2>12, OneStep
<1> QED
  BY <1>1, <1>2 DEF InsertUsers, NextKey

LEMMA DeadlockDetectedInv ==
    ASSUME TokenInv, NEW r \in Reqs, DeadlockDetected(r)
    PROVE  TokenInv'
<1>1. pc[r] = "run"
  BY DEF DeadlockDetected, Waits, Inserting, Runs
<1> QED
  BY <1>1, Answers DEF DeadlockDetected, Unlock

\* When no key is left, the transaction holds all of them.
LEMMA InsertMembersInv ==
    ASSUME TokenInv, NEW r \in Reqs, InsertMembers(r)
    PROVE  TokenInv'
<1>0. /\ TypeOK /\ ReqInv(r) /\ HeldInv(r) /\ pc[r] = "run" /\ req[r].kind = "importKeysBulk"
      /\ NoKey \notin KeysOf(r) /\ ~(Cardinality(held[r]) < Len(req[r].keys))
      /\ UNCHANGED <<db, req>> /\ UNCHANGED <<clock, version, users, rows>>
  BY DEF TokenInv, InsertMembers, Runs, MoreKeys, db
<1>1. CASE Answer(r, "error") /\ Unlock(r)
  BY <1>0, <1>1, Answers DEF Unlock
<1>2. CASE Goto(r, "commit") /\ UNCHANGED <<answer, held>>
  <2>1. TypeOK' /\ Only(r) /\ pc'[r] = "commit"
    BY <1>0, <1>2, StepType DEF TypeOK, Goto
  <2>2. Cardinality(held[r]) = Len(req[r].keys)
    BY <1>0, KeysType, FS_CardinalityType DEF HeldInv
  <2>3. held[r] = KeysOf(r) /\ KeysOf(r)' = KeysOf(r)
    BY <1>0, <2>2, KeysType DEF HeldInv, KeysOf
  <2>4. ReqInv(r)'
    BY <1>0, <1>2, <2>1, <2>3 DEF ReqInv, Executed
  <2>5. HeldInv(r)'
    BY <1>0, <1>2, <2>1, <2>3 DEF HeldInv
  <2> QED
    BY <1>0, <1>2, <2>1, <2>4, <2>5, QuietStep
<1> QED
  BY <1>1, <1>2 DEF InsertMembers

\* All keys become users and members together; none of them was a user before.
LEMMA CommitInv ==
    ASSUME TokenInv, NEW r \in Reqs, Commit(r)
    PROVE  TokenInv'
<1> DEFINE K == KeysOf(r)
           new(k) == [id |-> [by |-> r, item |-> k], entity |-> req[r].entity, key |-> k, live |-> TRUE]
<1>0. /\ TypeOK /\ RowInv /\ ReqInv(r) /\ HeldInv(r) /\ MineInv(r) /\ pc[r] = "commit"
      /\ UNCHANGED <<clock, version, req>> /\ users' = users \cup K
      /\ rows' = rows \cup {new(k) : k \in K} /\ held' = [held EXCEPT ![r] = {}]
      /\ held[r] = K /\ req[r].kind = "importKeysBulk" /\ req[r].entity \in Entities
      /\ Mine(r) = {}
  BY DEF TokenInv, Commit, Unlock, ReqInv, MineInv
<1>1. K \subseteq Keys /\ K \cap users = {} /\ NoKey \notin K
  BY <1>0, TokenApiAssumption DEF TypeOK, HeldInv
<1>2. PICK a \in {"ok", "error"} : Answer(r, a)
  BY DEF Commit, Reply
<1>3. \A k \in K : /\ new(k) \in Row /\ new(k).id.by = r /\ new(k).id.item = k /\ new(k).key = k
  <2> TAKE k \in K
  <2> DEFINE i == [by |-> r, item |-> k]
  <2>1. i \in Ids /\ i.by = r /\ i.item = k
    BY <1>1 DEF Ids
  <2> HIDE DEF i
  <2>2. [id |-> i, entity |-> req[r].entity, key |-> k, live |-> TRUE] \in Row
    BY <1>0, <1>1, <2>1 DEF Row
  <2> QED
    BY <2>1, <2>2 DEF i
<1> HIDE DEF K, new
<1>4. rows' \subseteq Row /\ users' \subseteq Keys
  BY <1>0, <1>1, <1>3 DEF TypeOK
<1>5. TypeOK' /\ Only(r) /\ pc'[r] = "done"
  BY <1>0, <1>2, <1>4, StepType DEF TypeOK, Answer, Goto
<1>6. answer'[r] = a /\ held'[r] = {}
  BY <1>0, <1>2 DEF TypeOK, Answer
<1>7. RowInv'
  <2>1. \A w \in rows : w.id.item \notin K
    BY <1>0, <1>1 DEF RowInv
  <2>2. ImportedOnce'
    <3> SUFFICES ASSUME NEW v \in rows', NEW w \in rows', v.id.item # NoKey, v.id.item = w.id.item
                 PROVE  v = w
      BY DEF ImportedOnce
    <3>1. CASE v \in rows /\ w \in rows
      BY <1>0, <3>1 DEF RowInv, ImportedOnce
    <3>2. CASE v \notin rows \/ w \notin rows
      <4>1. v.id.item \in K
        BY <1>0, <1>3, <3>2
      <4>2. v \notin rows /\ w \notin rows
        BY <2>1, <4>1
      <4>3. v = new(v.id.item) /\ w = new(w.id.item)
        BY <1>0, <1>3, <4>2
      <4> QED
        BY <4>3
    <3> QED
      BY <3>1, <3>2
  <2>3. \A w \in rows' : w.id.item # NoKey => w.id.item \in users'
    BY <1>0, <1>3 DEF RowInv
  <2>4. \A k \in users' : \E w \in rows' : w.key = k
    BY <1>0, <1>3 DEF RowInv
  <2> QED
    BY <2>2, <2>3, <2>4 DEF RowInv
<1>8. ASSUME NEW q \in Reqs, q # r PROVE Mine(q)' = Mine(q)
  <2>1. {v \in rows' : v.id.by = q} = {v \in rows : v.id.by = q}
    BY <1>0, <1>3, <1>8
  <2> QED
    BY <2>1 DEF Mine
<1>9. Mine(r)' = K
  <2>1. \A v \in rows : v.id.by # r
    BY <1>0 DEF Mine
  <2>2. {v \in rows' : v.id.by = r} = {new(k) : k \in K}
    BY <1>0, <1>3, <2>1
  <2>3. \A j : j \in Mine(r)' <=> \E w \in {new(k) : k \in K} : w.id.item = j
    BY <2>2 DEF Mine
  <2>4. \A j : j \in Mine(r)' <=> j \in K
    BY <1>3, <2>3
  <2> QED
    BY <2>4
<1>10. KeysOf(r)' = K
  BY <1>0 DEF K, KeysOf
<1>11. MineInv(r)'
  BY <1>5, <1>9, <1>10 DEF MineInv
<1>12. HeldInv(r)'
  BY <1>5, <1>6, HoldsNothing
<1>13. ReqInv(r)'
  BY <1>0, <1>5, <1>6 DEF ReqInv, Executed
<1>14. \A q \in Reqs : q # r => held[q] \cap users' = {}
  BY <1>0 DEF TokenInv, HeldInv, HeldOnce
<1> QED
  BY <1>0, <1>5, <1>6, <1>7, <1>8, <1>11, <1>12, <1>13, <1>14, OneStep

-----------------------------------------------------------------------------
(* Failures *)

LEMMA StatementFailsInv ==
    ASSUME TokenInv, NEW r \in Reqs, StatementFails(r)
    PROVE  TokenInv'
<1>0. /\ TypeOK /\ pc[r] \in {"auth", "run", "commit"} /\ UNCHANGED db
      /\ UNCHANGED <<clock, version, users, rows>>
      /\ held' = [held EXCEPT ![r] = {}]
      /\ req' = [req EXCEPT ![r] = IF pc[r] = "auth" THEN NoRequest ELSE @]
  BY DEF TokenInv, TypeOK, StatementFails, InFlight, Unlock, db
<1>1. CASE pc[r] = "auth"
  <2>1. NoRequest \in Request /\ NoRequest.kind = "none"
    BY TokenApiAssumption DEF NoRequest, Request, NoToken, Ids
  <2>2. Answer(r, "refused") /\ req' = [req EXCEPT ![r] = NoRequest]
    <3>1. (CASE pc[r] = "auth" -> "refused"
             [] Runs(r, "status") -> "invalid"
             [] OTHER -> "error") = "refused"
      BY <1>1 DEF Runs
    <3> QED
      BY <1>0, <1>1, <3>1 DEF StatementFails
  <2>3. TypeOK' /\ Only(r) /\ pc'[r] = "done"
    BY <1>0, <2>1, <2>2, StepType DEF TypeOK, Goto, Answer
  <2>4. req'[r] = NoRequest /\ answer'[r] = "refused" /\ held'[r] = {}
    BY <1>0, <2>2 DEF TypeOK, Answer
  <2>5. ReqInv(r)'
    BY <2>3, <2>4 DEF ReqInv, Executed
  <2>6. HeldInv(r)'
    BY <2>3, <2>4, HoldsNothing
  <2> QED
    BY <1>0, <2>3, <2>4, <2>5, <2>6, QuietStep
<1>2. CASE pc[r] # "auth"
  <2>1. req' = req
    BY <1>0, <1>2 DEF TypeOK
  <2>2. PICK a \in {"error", "invalid"} : Answer(r, a)
    BY <1>2 DEF StatementFails
  <2> QED
    BY <1>0, <1>2, <2>1, <2>2, Answers
<1> QED
  BY <1>1, <1>2

\* The process dies: the tables stay, and nothing is held any more.
LEMMA CrashInv ==
    ASSUME TokenInv, Crash
    PROVE  TokenInv'
<1>0. /\ TypeOK /\ RowInv /\ UNCHANGED <<clock, version, users, rows>>
      /\ req' = [r \in Reqs |-> IF pc[r] = "auth" THEN NoRequest ELSE req[r]]
      /\ held' = [r \in Reqs |-> {}]
  BY DEF TokenInv, Crash, db
<1>1. \A q \in Reqs : /\ InFlight(q) => pc'[q] = "done" /\ answer'[q] = "lost"
                      /\ ~InFlight(q) => pc'[q] = pc[q] /\ answer'[q] = answer[q]
                      /\ held'[q] = {} /\ Mine(q)' = Mine(q)
                      /\ pc[q] = "auth" => req'[q] = NoRequest
                      /\ pc[q] # "auth" => req'[q] = req[q]
  BY <1>0 DEF Crash, Mine
<1>2. NoRequest \in Request /\ NoRequest.kind = "none"
  BY TokenApiAssumption DEF NoRequest, Request, NoToken, Ids
<1>3. TypeOK'
  <2>1. /\ pc' \in [Reqs -> {"idle", "auth", "run", "commit", "done"}]
        /\ answer' \in [Reqs -> {"none", "refused", "ok", "error", "lost",
                                 "invalid", "available", "registered"}]
    BY <1>0 DEF Crash, TypeOK
  <2>2. req' \in [Reqs -> Request] /\ held' \in [Reqs -> SUBSET Keys]
    BY <1>0, <1>2 DEF TypeOK
  <2> QED
    BY <1>0, <2>1, <2>2 DEF TypeOK
<1>4. RowInv' /\ HeldOnce'
  BY <1>0, <1>1 DEF RowInv, ImportedOnce, HeldOnce
<1>5. ASSUME NEW q \in Reqs PROVE ReqInv(q)' /\ HeldInv(q)' /\ MineInv(q)'
  <2>0. ReqInv(q) /\ MineInv(q) /\ pc[q] \in {"idle", "auth", "run", "commit", "done"}
    BY DEF TokenInv, TypeOK
  <2>1. HeldInv(q)'
    BY <1>1, <1>3, HoldsNothing
  <2>2. CASE pc[q] \in {"idle", "done"}
    <3>1. pc'[q] = pc[q] /\ answer'[q] = answer[q] /\ req'[q] = req[q]
      BY <1>1, <2>2 DEF InFlight
    <3>2. KeysOf(q)' = KeysOf(q) /\ (Executed(q)' <=> Executed(q))
      BY <3>1 DEF KeysOf, Executed
    <3>3. ReqInv(q)' /\ MineInv(q)'
      BY <1>1, <2>0, <2>2, <3>1, <3>2 DEF ReqInv, MineInv
    <3> QED
      BY <2>1, <3>3
  <2>3. CASE pc[q] \notin {"idle", "done"}
    <3>1. pc'[q] = "done" /\ answer'[q] = "lost" /\ Mine(q)' = {}
      BY <1>1, <2>0, <2>3 DEF InFlight, MineInv
    <3>2. ReqInv(q)' /\ MineInv(q)'
      BY <3>1 DEF ReqInv, MineInv, Executed
    <3> QED
      BY <2>1, <3>2
  <2> QED
    BY <2>2, <2>3
<1> QED
  BY <1>3, <1>4, <1>5 DEF TokenInv

-----------------------------------------------------------------------------
(* The invariant holds *)

LEMMA TokenInit ==
    ASSUME Init
    PROVE  TokenInv
<1> DEFINE seed == [by |-> "seed", item |-> NoKey]
           row(e) == [id |-> seed, entity |-> e, key |-> NoKey, live |-> TRUE]
<1>1. /\ clock = Start /\ version = [e \in Entities |-> 0] /\ users = {}
      /\ rows = {row(e) : e \in Entities} /\ pc = [r \in Reqs |-> "idle"]
      /\ req = [r \in Reqs |-> NoRequest] /\ answer = [r \in Reqs |-> "none"]
      /\ held = [r \in Reqs |-> {}]
  BY DEF Init
<1>2. /\ NoRequest \in Request /\ NoRequest.kind = "none"
      /\ NoRequest.keys = <<>> /\ ~NoRequest.late /\ ~NoRequest.old
  BY TokenApiAssumption DEF NoRequest, Request, NoToken, Ids
<1>3. seed \in Ids /\ seed.item = NoKey /\ seed.by = "seed"
  BY DEF Ids
<1> HIDE DEF seed
<1>4. \A e \in Entities : row(e) \in Row /\ row(e).id = seed
  BY <1>3 DEF Row
<1> HIDE DEF row
<1>5. TypeOK
  <2>1. clock \in Start..End /\ version \in [Entities -> 0..MaxVersion]
    BY <1>1, TokenApiAssumption
  <2> QED
    BY <1>1, <1>2, <1>4, <2>1 DEF TypeOK
<1>6. RowInv
  BY <1>1, <1>3, <1>4 DEF RowInv, ImportedOnce
<1>7. HeldOnce
  BY <1>1 DEF HeldOnce
<1>8. ASSUME NEW r \in Reqs PROVE ReqInv(r) /\ HeldInv(r) /\ MineInv(r)
  <2>1. Mine(r) = {}
    BY <1>1, <1>3, <1>4, TokenApiAssumption DEF Mine
  <2>2. IsFiniteSet({}) /\ Cardinality({}) = 0 /\ {req[r].keys[i] : i \in 1..0} = {}
    BY FS_EmptySet
  <2>3. Len(<<>>) = 0
    OBVIOUS
  <2>4. ReqInv(r)
    BY <1>1, <1>2 DEF ReqInv, Executed
  <2>5. HeldInv(r)
    BY <1>1, <1>2, <2>2, <2>3 DEF HeldInv
  <2> QED
    BY <1>1, <1>2, <2>1, <2>4, <2>5 DEF MineInv
<1> QED
  BY <1>5, <1>6, <1>7, <1>8 DEF TokenInv

LEMMA TokenNext ==
    ASSUME TokenInv, [Next]_vars
    PROVE  TokenInv'
<1>1. CASE UNCHANGED vars
  <2>1. UNCHANGED <<clock, version, users, rows, pc, req, answer, held>>
    BY <1>1 DEF vars
  <2>2. TypeOK' /\ RowInv' /\ \A q \in Reqs : held[q] \cap users' = {} /\ Mine(q)' = Mine(q)
    BY <2>1 DEF TokenInv, TypeOK, RowInv, ImportedOnce, Mine, HeldInv
  <2>3. clock <= clock' /\ \A e \in Entities : version[e] <= version'[e]
    BY <2>1, TokenApiAssumption DEF TokenInv, TypeOK
  <2> QED
    BY <2>1, <2>2, <2>3, EnvStep
<1>2. ASSUME NEW r \in Reqs, Step(r) PROVE TokenInv'
  BY <1>2, AuthInv, CreateMembersWithTokensInv, DeletesInv, TokenStatusInv, EmptyKeyInv,
     InsertUsersInv, DeadlockDetectedInv, InsertMembersInv, CommitInv DEF Step
<1>3. ASSUME NEW w \in rows, DeleteMembers(w) \/ \E k \in Keys : ValidateToken(w, k) PROVE TokenInv'
  BY <1>3, DeleteMembersInv, ValidateTokenInv
<1> QED
  BY <1>1, <1>2, <1>3, TickInv, UpdateEntityInv, ReceiveInv, StatementFailsInv, CrashInv DEF Next

LEMMA TokenIsInv == Spec => []TokenInv
  BY TokenInit, TokenNext, PTL DEF Spec

-----------------------------------------------------------------------------
(* The theorems *)

\* Every variable keeps its type.
THEOREM TokenApiTypeCorrect == Spec => []TypeOK
<1>1. TokenInv => TypeOK
  BY DEF TokenInv
<1> QED
  BY <1>1, TokenIsInv, PTL

\* checkAuth fails closed for every width of the integer and every window, on both sides of
\* the overflow: a request that came late or with a replaced secret is never executed.
THEOREM StaleNeverRuns == Spec => []StaleRefused
<1>1. TokenInv => StaleRefused
  BY DEF TokenInv, ReqInv, StaleRefused
<1> QED
  BY <1>1, TokenIsInv, PTL

\* However importKeysBulk calls overlap, repeat, fail or crash, no key is imported twice.
THEOREM KeysImportedOnce == Spec => []ImportedOnce
<1>1. TokenInv => ImportedOnce
  BY DEF TokenInv, RowInv
<1> QED
  BY <1>1, TokenIsInv, PTL

\* AddMemberBulk stores the users and members of an import together, or none of them.
THEOREM ImportsAllOrNothing == Spec => []NoHalfImport
<1>1. TokenInv => NoHalfImport
  BY DEF TokenInv, RowInv, MineInv, Mine, NoHalfImport
<1> QED
  BY <1>1, TokenIsInv, PTL
=============================================================================
