----------------------------- MODULE Enrolment ------------------------------
(***************************************************************************)
(* What the registration of members promises, without handlers, locks and  *)
(* transactions: a request enrols its own member with its own key in one   *)
(* step, at most once, after it arrived and before it is answered ok; the  *)
(* user exists from then on; the keys of an entity are unique; and who was *)
(* removed from the roll never returns.  Registry implements it.           *)
(***************************************************************************)
CONSTANTS Entities, Keys, Members, Reqs, NoEntity, NoKey, NoMember

VARIABLES entities,   \* the entities that signed up
          users,      \* the keys of users
          roll,       \* who each member id stands for
          call,       \* what each request asks for
          state       \* how far each request is

vars == <<entities, users, roll, call, state>>

Call       == [new : BOOLEAN, entity : Entities, member : Members \cup {NoMember}, key : Keys]
NoCall     == [new |-> FALSE, entity |-> NoEntity, member |-> NoMember, key |-> NoKey]
Free       == [status |-> "never", entity |-> NoEntity, key |-> NoKey]
Removed    == [status |-> "deleted", entity |-> NoEntity, key |-> NoKey]
Entry(e,k) == [status |-> "live", entity |-> e, key |-> k]

Init == /\ entities = {} /\ users = {}
        /\ roll = [m \in Members |-> Free]
        /\ call = [r \in Reqs |-> NoCall]
        /\ state = [r \in Reqs |-> "idle"]

\* The entity joins.
Join(e) == /\ entities' = entities \cup {e}
           /\ UNCHANGED <<users, roll, call, state>>

\* The entity puts members on its roll, each with a token and without key.
Issue(e, S) ==
    /\ S # {} /\ e \in entities /\ \A m \in S : roll[m] = Free
    /\ roll' = [m \in Members |-> IF m \in S THEN Entry(e, NoKey) ELSE roll[m]]
    /\ UNCHANGED <<entities, users, call, state>>

\* The entity removes some of its members.
Remove(e, S) ==
    /\ S # {} /\ \A m \in S : roll[m].status = "live" /\ roll[m].entity = e
    /\ roll' = [m \in Members |-> IF m \in S THEN Removed ELSE roll[m]]
    /\ UNCHANGED <<entities, users, call, state>>

\* A request arrives: the holder of a token, or someone new, asks to be enrolled, and is
\* refused at once or not.
Ask(r) ==
    /\ state[r] = "idle"
    /\ \E s \in {"open", "failed"} : state' = [state EXCEPT ![r] = s]
    /\ \E c \in Call : call' = [call EXCEPT ![r] = c]
    /\ UNCHANGED <<entities, users, roll>>

\* The request takes effect: its member, new or on the roll of its entity already, has its
\* key, which no other member of the entity has.  Its client may learn so at once,
\* later, or never.
Enrol(r) ==
    LET c == call[r] IN
    /\ state[r] = "open"
    /\ \E s \in {"enrolled", "ok", "failed"} : state' = [state EXCEPT ![r] = s]
    /\ c.entity \in entities
    /\ IF c.new THEN roll[c.member] = Free
                ELSE roll[c.member].status = "live" /\ roll[c.member].entity = c.entity
    /\ \A m \in Members \ {c.member} :
          ~(roll[m].status = "live" /\ roll[m].entity = c.entity /\ roll[m].key = c.key)
    /\ roll' = [roll EXCEPT ![c.member] = Entry(c.entity, c.key)]
    /\ users' = users \cup {c.key}
    /\ UNCHANGED <<entities, call>>

\* A request that took effect is answered.
Confirm(r) ==
    /\ state[r] = "enrolled"
    /\ state' = [state EXCEPT ![r] = "ok"]
    /\ UNCHANGED <<entities, users, roll, call>>

\* Requests end without an ok: one of them, or all that are in progress.
Fail(R) ==
    /\ R # {} /\ \A r \in R : state[r] \in {"open", "enrolled"}
    /\ state' = [r \in Reqs |-> IF r \in R THEN "failed" ELSE state[r]]
    /\ UNCHANGED <<entities, users, roll, call>>

Next ==
    \/ \E e \in Entities : Join(e) \/ \E S \in SUBSET Members : Issue(e, S) \/ Remove(e, S)
    \/ \E r \in Reqs : Ask(r) \/ Enrol(r) \/ Confirm(r)
    \/ \E R \in SUBSET Reqs : Fail(R)

Spec == Init /\ [][Next]_vars
=============================================================================
