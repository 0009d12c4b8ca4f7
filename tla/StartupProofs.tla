--------------------------- MODULE StartupProofs ----------------------------
(***************************************************************************)
(* Starts and migrations, for any number of processes, starts and          *)
(* failures, and any of the releases of the repository.                    *)
(***************************************************************************)
EXTENDS Startup, FiniteSetTheorems, TLAPS

-----------------------------------------------------------------------------
(* The inductive invariant *)

\* What the database shows, unless a "down" overlapped another migration, and that then
\* all plans that are being executed go the same way.
RecordInv ==
    ~raced => /\ schema = records /\ \E k \in 0..7 : records = 1..k
              /\ \A p, q \in Procs : pc[p] = "apply" /\ pc[q] = "apply" /\ Down(p) => Down(q)

\* What the step of a process implies about its memory.
ProcInv(p) ==
    /\ pc[p] \in Ended => mem[p] = Fresh
    /\ pc[p] \notin Ended => mem[p].act \in Actions /\ mem[p].total \in Releases
    /\ mem[p].attempt < Retries
    /\ pc[p] \in {"connect", "status", "plan"} => mem[p].n = 0
    /\ pc[p] = "status" => mem[p].act \in Sync
    /\ pc[p] \in {"services", "serving"} => mem[p].act = "serve"

Pending(p) == {m.id : m \in mem[p].plan}

\* A plan is never ahead of the records: whatever lies below a migration to be applied is
\* recorded or planned as well, and one to be taken back has no record above it.
PlanInv(p) ==
    ~raced /\ pc[p] = "apply" =>
        \A m \in mem[p].plan :
            IF Down(p) THEN ~m.up /\ \A x \in records : x <= m.id
                       ELSE m.up /\ \A x \in Migrations : x < m.id => x \in records \cup Pending(p)

\* A start that brings the schema up to date, and during which none was taken back, plans
\* whatever is missing and has it recorded in the end.
FullInv(p) ==
    ~raced /\ p \notin undone /\ mem[p].act \in Sync =>
        /\ pc[p] = "apply" => 1..mem[p].total \subseteq records \cup Pending(p)
        /\ pc[p] \in {"report", "services", "serving"} => 1..mem[p].total \subseteq records

\* As long as no other process migrates, the number of records a start has read stays
\* right, up to the migrations it has run itself, and what it plans is not there.
AloneInv(p) ==
    ~raced /\ p \notin touched /\ mem[p].act \in Sync /\ Starting(p) =>
        /\ p \notin undone
        /\ pc[p] = "plan" => mem[p].applied = Cardinality(records)
        /\ pc[p] = "apply" => /\ mem[p].applied + mem[p].n = Cardinality(records)
                              /\ Pending(p) \cap records = {}

StartInv(p) == ProcInv(p) /\ PlanInv(p) /\ FullInv(p) /\ AloneInv(p)

StartupInv == TypeOK /\ RecordInv /\ \A p \in Procs : StartInv(p)

-----------------------------------------------------------------------------
(* Facts about the numbers of migrations *)

\* The numbers from 1 to k are k.
LEMMA UpTo ==
    ASSUME NEW k \in 0..7
    PROVE  IsFiniteSet(1..k) /\ Cardinality(1..k) = k
<1>1. 1 \in Int /\ k \in Int
  OBVIOUS
<1>2. IsFiniteSet(1..k) /\ Cardinality(1..k) = IF 1 > k THEN 0 ELSE k - 1 + 1
  BY <1>1, FS_Interval, Zenon
<1> QED
  BY <1>2

\* The number of records, when they have no gap.
LEMMA Counted ==
    ASSUME NEW k \in 0..7, records = 1..k
    PROVE  Cardinality(records) = k
  BY UpTo

\* However many records there are, their number is at most that of the migrations.
LEMMA CountType ==
    ASSUME records \subseteq Migrations
    PROVE  Cardinality(records) \in 0..7
<1>1. IsFiniteSet(1..7) /\ Cardinality(1..7) = 7
  BY UpTo
<1>2. IsFiniteSet(records) /\ Cardinality(records) <= 7
  BY <1>1, FS_Subset DEF Migrations
<1> QED
  BY <1>2, FS_CardinalityType

\* More records than a release has migrations include one the release does not have.
LEMMA MoreThanTotal ==
    ASSUME NEW t \in 1..7, t < Cardinality(records)
    PROVE  ~(records \subseteq 1..t)
<1> SUFFICES ASSUME records \subseteq 1..t PROVE FALSE
  OBVIOUS
<1>0. t \in 0..7
  OBVIOUS
<1>1. IsFiniteSet(1..t) /\ Cardinality(1..t) = t
  BY <1>0, UpTo
<1>2. IsFiniteSet(records) /\ Cardinality(records) <= t
  BY <1>1, FS_Subset
<1> QED
  BY <1>2, FS_CardinalityType

\* A migration that has no record while all below it have is the next one.
LEMMA OneForward ==
    ASSUME NEW k \in 0..7, records = 1..k, NEW x \in Migrations, x \notin records,
           \A y \in Migrations : y < x => y \in records
    PROVE  x = k + 1 /\ k + 1 \in 0..7 /\ records \cup {x} = 1..(k + 1)
<1>1. x = k + 1
  <2>1. x > k
    BY DEF Migrations
  <2>2. k + 1 \in Migrations
    BY <2>1 DEF Migrations
  <2> QED
    BY <2>1, <2>2 DEF Migrations
<1> QED
  BY <1>1 DEF Migrations

\* A migration that has a record while none above it has is the last one.
LEMMA OneBack ==
    ASSUME NEW k \in 0..7, records = 1..k, NEW x \in records, \A y \in records : y <= x
    PROVE  x = k /\ k - 1 \in 0..7 /\ records \ {x} = 1..(k - 1)
<1>1. k \in records
  OBVIOUS
<1>2. x = k
  BY <1>1
<1> QED
  BY <1>2

-----------------------------------------------------------------------------
(* Steps of one process that leave the database alone *)

\* A process that does not move, while the database does not change, keeps its part.
LEMMA Untouched ==
    ASSUME NEW q \in Procs, StartInv(q), UNCHANGED db, raced => raced',
           pc'[q] = pc[q], mem'[q] = mem[q], q \in touched => q \in touched',
           q \in undone' <=> q \in undone
    PROVE  StartInv(q)'
<1>1. ProcInv(q)'
  BY DEF StartInv, ProcInv
<1>2. PlanInv(q)'
  BY DEF StartInv, PlanInv, Pending, Down, db
<1>3. FullInv(q)'
  BY DEF StartInv, FullInv, Pending, db
<1>4. AloneInv(q)'
  BY DEF StartInv, AloneInv, Pending, Starting, Up, db
<1> QED
  BY <1>1, <1>2, <1>3, <1>4 DEF StartInv

\* Only p moves, not into the execution of a plan, and the database does not change.
LEMMA LocalStep ==
    ASSUME StartupInv, NEW p \in Procs, UNCHANGED <<db, raced>>, TypeOK', StartInv(p)',
           pc'[p] # "apply",
           \A q \in Procs \ {p} : /\ pc'[q] = pc[q] /\ mem'[q] = mem[q]
                                  /\ q \in touched => q \in touched'
                                  /\ q \in undone' <=> q \in undone
    PROVE  StartupInv'
<1>1. RecordInv'
  BY DEF StartupInv, RecordInv, Down, db
<1>2. ASSUME NEW q \in Procs, q # p PROVE StartInv(q)'
  BY <1>2, Untouched DEF StartupInv
<1> QED
  BY <1>1, <1>2 DEF StartupInv

\* A process ends: it has no memory any more.
LEMMA Exits ==
    ASSUME StartupInv, NEW p \in Procs, NEW how \in Ended, Exit(p, how),
           UNCHANGED <<db, raced, undone>>, touched \subseteq touched', touched' \subseteq Procs,
           starts' \in 0..MaxStarts, faults' \in 0..MaxFaults
    PROVE  StartupInv'
<1>0. TypeOK
  BY DEF StartupInv
<1>1. Fresh \in Memory
  BY StartupAssumption DEF Fresh, Memory
<1>2. /\ pc'[p] = how /\ mem'[p] = Fresh
      /\ \A q \in Procs \ {p} : pc'[q] = pc[q] /\ mem'[q] = mem[q]
  BY <1>0 DEF Exit, TypeOK
<1>3. mem' \in [Procs -> Memory]
  BY <1>0, <1>1 DEF Exit, TypeOK
<1>4. TypeOK'
  BY <1>0, <1>3 DEF Exit, TypeOK, db
<1>5. StartInv(p)'
  <2>1. ProcInv(p)'
    BY <1>2, StartupAssumption DEF ProcInv, Fresh, Ended
  <2>2. PlanInv(p)' /\ FullInv(p)' /\ AloneInv(p)'
    BY <1>2 DEF PlanInv, FullInv, AloneInv, Starting, Up, Ended
  <2> QED
    BY <2>1, <2>2 DEF StartInv
<1> QED
  BY <1>2, <1>4, <1>5, LocalStep DEF Ended

\* A process goes on to a step outside the execution of a plan.
LEMMA Moves ==
    ASSUME StartupInv, NEW p \in Procs,
           NEW step \in {"status", "plan", "report", "services", "serving"}, Goto(p, step),
           UNCHANGED <<db, starts, faults, history>>, StartInv(p)'
    PROVE  StartupInv'
<1>1. TypeOK'
  BY DEF StartupInv, TypeOK, Goto, db, history
<1>2. \A q \in Procs \ {p} : pc'[q] = pc[q] /\ mem'[q] = mem[q]
  BY DEF StartupInv, TypeOK, Goto
<1>3. pc'[p] # "apply"
  BY DEF StartupInv, TypeOK, Goto
<1> QED
  BY <1>1, <1>2, <1>3, LocalStep DEF history

\* A process is started.
LEMMA StartPreserves ==
    ASSUME StartupInv, NEW p \in Procs, NEW a \in Actions, NEW release \in Releases,
           Start(p, a, release)
    PROVE  StartupInv'
<1>0. TypeOK /\ mem[p] = Fresh
  BY DEF StartupInv, StartInv, ProcInv, Start, Up
<1>1. /\ pc'[p] = "connect"
      /\ mem'[p] = [Fresh EXCEPT !.act = a, !.total = release]
      /\ \A q \in Procs \ {p} : pc'[q] = pc[q] /\ mem'[q] = mem[q]
  BY <1>0 DEF Start, TypeOK
<1>2. mem'[p] \in Memory
  <2>1. mem'[p] = [act |-> a, total |-> release, attempt |-> 0, applied |-> 0, plan |-> {}, n |-> 0]
    BY <1>1 DEF Fresh
  <2> QED
    BY <2>1, StartupAssumption DEF Memory
<1>3. mem' \in [Procs -> Memory]
  BY <1>0, <1>2 DEF Start, TypeOK
<1>4. starts' \in 0..MaxStarts
  BY <1>0, StartupAssumption DEF Start, TypeOK
<1>5. TypeOK'
  BY <1>0, <1>3, <1>4 DEF Start, TypeOK, db
<1>6. StartInv(p)'
  <2>1. ProcInv(p)'
    BY <1>1, StartupAssumption DEF ProcInv, Fresh, Ended
  <2>2. PlanInv(p)' /\ FullInv(p)' /\ AloneInv(p)'
    BY <1>1 DEF PlanInv, FullInv, AloneInv, Start
  <2> QED
    BY <2>1, <2>2 DEF StartInv
<1>7. UNCHANGED <<db, raced>>
      /\ \A q \in Procs \ {p} : /\ q \in touched => q \in touched'
                                /\ q \in undone' <=> q \in undone
  BY DEF Start
<1> QED
  BY <1>1, <1>5, <1>6, <1>7, LocalStep

\* The connection is there.
LEMMA ConnectPreserves ==
    ASSUME StartupInv, NEW p \in Procs, Connect(p)
    PROVE  StartupInv'
<1> DEFINE step == IF mem[p].act \in Sync THEN "status" ELSE "plan"
<1>1. Goto(p, step) /\ step \in {"status", "plan"} /\ UNCHANGED <<db, starts, faults, history>>
  BY DEF Connect
<1>2. pc[p] = "connect" /\ pc'[p] = step /\ mem'[p] = mem[p]
  BY DEF Connect, Goto, StartupInv, TypeOK
<1>3. StartInv(p)'
  <2>1. ProcInv(p)'
    BY <1>2 DEF StartupInv, StartInv, ProcInv, Ended
  <2>2. PlanInv(p)' /\ FullInv(p)'
    BY <1>2 DEF PlanInv, FullInv
  <2>3. AloneInv(p)'
    BY <1>1, <1>2 DEF StartupInv, StartInv, AloneInv, Starting, Up, Ended, history
  <2> QED
    BY <2>1, <2>2, <2>3 DEF StartInv
<1> HIDE DEF step
<1> QED
  BY <1>1, <1>3, Moves

\* The database does not answer: another attempt is left, or the process ends.
LEMMA ConnectFailsPreserves ==
    ASSUME StartupInv, NEW p \in Procs, ConnectFails(p)
    PROVE  StartupInv'
<1>0. /\ TypeOK /\ pc[p] = "connect" /\ UNCHANGED <<db, starts, faults, undone, raced>>
      /\ touched' = touched \cup {p}
  BY DEF StartupInv, ConnectFails
<1>1. CASE Exit(p, "failed")
  BY <1>0, <1>1, Exits DEF Ended, TypeOK
<1>2. CASE mem[p].attempt + 1 # Retries /\ UNCHANGED pc
           /\ mem' = [mem EXCEPT ![p].attempt = @ + 1]
  <2>1. mem[p] \in Memory /\ mem[p].attempt < Retries
    BY <1>0 DEF TypeOK, StartupInv, StartInv, ProcInv
  <2>2. mem[p].attempt \in 0..Retries
    BY <2>1 DEF Memory
  <2>3. mem[p].attempt + 1 \in 0..Retries /\ mem[p].attempt + 1 < Retries
    BY <1>2, <2>1, <2>2, StartupAssumption
  <2>4. mem'[p] = [mem[p] EXCEPT !.attempt = @ + 1]
    BY <1>0, <1>2 DEF TypeOK
  <2>5. mem'[p] \in Memory /\ mem'[p].attempt < Retries
    BY <2>1, <2>3, <2>4 DEF Memory
  <2>6. mem' \in [Procs -> Memory] /\ \A q \in Procs \ {p} : mem'[q] = mem[q]
    BY <1>0, <1>2, <2>5 DEF TypeOK
  <2>7. TypeOK'
    BY <1>0, <1>2, <2>6 DEF TypeOK, db
  <2>8. mem'[p].act = mem[p].act /\ mem'[p].total = mem[p].total /\ mem'[p].n = mem[p].n
    BY <2>1, <2>4 DEF Memory
  <2>9. StartInv(p)'
    <3>1. ProcInv(p)'
      BY <1>0, <1>2, <2>5, <2>8 DEF StartupInv, StartInv, ProcInv, Ended
    <3>2. PlanInv(p)' /\ FullInv(p)' /\ AloneInv(p)'
      BY <1>0, <1>2 DEF PlanInv, FullInv, AloneInv
    <3> QED
      BY <3>1, <3>2 DEF StartInv
  <2> QED
    BY <1>0, <1>2, <2>6, <2>7, <2>9, LocalStep
<1> QED
  BY <1>1, <1>2 DEF ConnectFails

\* The status is read: the process ends, or knows the number of the records, which are
\* all of its release when it has nothing to apply.
LEMMA ReadStatusPreserves ==
    ASSUME StartupInv, NEW p \in Procs, ReadStatus(p)
    PROVE  StartupInv'
<1> DEFINE mTotal == mem[p].total
           mApplied == Cardinality(records)
           step == IF UpToDate(mTotal, mApplied) THEN "report" ELSE "plan"
<1>0. /\ TypeOK /\ RecordInv /\ ProcInv(p) /\ AloneInv(p) /\ pc[p] = "status"
      /\ UNCHANGED <<db, starts, faults, history>>
  BY DEF StartupInv, StartInv, ReadStatus
<1>1. CASE Exit(p, "failed")
  BY <1>0, <1>1, Exits DEF Ended, TypeOK, history
<1>2. CASE /\ mTotal >= mApplied
           /\ mem' = [mem EXCEPT ![p].applied = mApplied]
           /\ pc' = [pc EXCEPT ![p] = step]
  <2>1. mApplied \in 0..7
    BY <1>0, CountType DEF TypeOK
  <2>2. mem[p] \in Memory /\ mTotal \in 1..7 /\ mem[p].act \in Sync /\ mem[p].n = 0
    BY <1>0, StartupAssumption DEF TypeOK, ProcInv, Ended
  <2>3. mem'[p] = [mem[p] EXCEPT !.applied = mApplied] /\ pc'[p] = step
    BY <1>0, <1>2 DEF TypeOK
  <2>4. mem'[p] \in Memory
    BY <2>1, <2>2, <2>3 DEF Memory
  <2>5. /\ mem'[p].applied = mApplied /\ mem'[p].act = mem[p].act /\ mem'[p].n = 0
        /\ mem'[p].total = mTotal /\ mem'[p].attempt = mem[p].attempt
    BY <2>2, <2>3 DEF Memory
  <2>6. /\ mem' \in [Procs -> Memory]
        /\ \A q \in Procs \ {p} : pc'[q] = pc[q] /\ mem'[q] = mem[q]
    BY <1>0, <1>2, <2>4 DEF TypeOK
  <2>7. TypeOK'
    BY <1>0, <1>2, <2>6 DEF TypeOK, db, history
  <2>8. ProcInv(p)'
    BY <1>0, <2>3, <2>5 DEF ProcInv, Ended
  <2>9. FullInv(p)'
    <3>1. ASSUME ~raced, mTotal <= mApplied PROVE 1..mTotal \subseteq records
      <4>1. PICK k \in 0..7 : records = 1..k
        BY <1>0, <3>1 DEF RecordInv
      <4>2. mTotal <= k
        BY <3>1, <4>1, Counted
      <4> QED
        BY <2>2, <4>1, <4>2
    <3> QED
      BY <1>0, <2>3, <2>5, <3>1 DEF FullInv, UpToDate, db, history
  <2>10. PlanInv(p)' /\ AloneInv(p)'
    BY <1>0, <2>3, <2>5 DEF PlanInv, AloneInv, Starting, Up, Ended, db, history
  <2>11. StartInv(p)'
    BY <2>8, <2>9, <2>10 DEF StartInv
  <2> QED
    BY <1>0, <2>3, <2>6, <2>7, <2>11, LocalStep DEF history
<1>3. mTotal < mApplied \/ mTotal >= mApplied
  <2>1. mApplied \in 0..7
    BY <1>0, CountType DEF TypeOK
  <2>2. mTotal \in 1..7
    BY <1>0, StartupAssumption DEF ProcInv, Ended
  <2> QED
    BY <2>1, <2>2
<1> QED
  BY <1>1, <1>2, <1>3 DEF ReadStatus

\* A plan that fails ends the process.
LEMMA ApplyRefusedPreserves ==
    ASSUME StartupInv, NEW p \in Procs, NEW m, ApplyRefused(p, m)
    PROVE  StartupInv'
  BY Exits DEF ApplyRefused, Ended, StartupInv, TypeOK, history

\* A plan is executed: the process ends, or the whole schema of its release is there.
LEMMA AppliedAllPreserves ==
    ASSUME StartupInv, NEW p \in Procs, AppliedAll(p)
    PROVE  StartupInv'
<1>0. /\ TypeOK /\ ProcInv(p) /\ FullInv(p) /\ AloneInv(p) /\ pc[p] = "apply"
      /\ mem[p].plan = {} /\ UNCHANGED <<db, starts, faults, history>>
  BY DEF StartupInv, StartInv, AppliedAll
<1>1. CASE Exit(p, "failed")
  BY <1>0, <1>1, Exits DEF Ended, TypeOK, history
<1>2. CASE Goto(p, "report")
  <2>1. pc'[p] = "report" /\ mem' = mem
    BY <1>0, <1>2 DEF Goto, TypeOK
  <2>2. Pending(p) = {}
    BY <1>0 DEF Pending
  <2>3. ProcInv(p)'
    BY <1>0, <2>1 DEF ProcInv, Ended
  <2>4. FullInv(p)'
    BY <1>0, <2>1, <2>2 DEF FullInv, db, history
  <2>5. PlanInv(p)' /\ AloneInv(p)'
    BY <1>0, <2>1 DEF PlanInv, AloneInv, Starting, Up, Ended, history
  <2> QED
    BY <1>0, <1>2, <2>3, <2>4, <2>5, Moves DEF StartInv
<1> QED
  BY <1>1, <1>2 DEF AppliedAll, GotoOrFail

\* After the migration: a standalone run ends, a process that is to serve goes on.
LEMMA ReportPreserves ==
    ASSUME StartupInv, NEW p \in Procs, Report(p)
    PROVE  StartupInv'
<1>0. /\ TypeOK /\ ProcInv(p) /\ FullInv(p) /\ AloneInv(p) /\ pc[p] = "report"
      /\ UNCHANGED <<db, starts, faults, history>>
  BY DEF StartupInv, StartInv, Report
<1>1. CASE Exit(p, "off")
  BY <1>0, <1>1, Exits DEF Ended, TypeOK, history
<1>2. CASE mem[p].act = "serve" /\ Goto(p, "services")
  <2>1. pc'[p] = "services" /\ mem' = mem
    BY <1>0, <1>2 DEF Goto, TypeOK
  <2>2. ProcInv(p)'
    BY <1>0, <1>2, <2>1 DEF ProcInv, Ended
  <2>3. PlanInv(p)' /\ FullInv(p)' /\ AloneInv(p)'
    BY <1>0, <2>1 DEF PlanInv, FullInv, AloneInv, Starting, Up, Ended, db, history
  <2> QED
    BY <1>0, <1>2, <2>2, <2>3, Moves DEF StartInv
<1> QED
  BY <1>1, <1>2 DEF Report

\* The services are started.
LEMMA StartServicesPreserves ==
    ASSUME StartupInv, NEW p \in Procs, StartServices(p)
    PROVE  StartupInv'
<1>0. /\ TypeOK /\ ProcInv(p) /\ FullInv(p) /\ AloneInv(p) /\ pc[p] = "services"
      /\ UNCHANGED <<db, starts, faults, history>> /\ Goto(p, "serving")
  BY DEF StartupInv, StartInv, StartServices
<1>1. pc'[p] = "serving" /\ mem' = mem
  BY <1>0 DEF Goto, TypeOK
<1>2. ProcInv(p)'
  BY <1>0, <1>1 DEF ProcInv, Ended
<1>3. PlanInv(p)' /\ FullInv(p)' /\ AloneInv(p)'
  BY <1>0, <1>1 DEF PlanInv, FullInv, AloneInv, Starting, Up, Ended, db, history
<1> QED
  BY <1>0, <1>2, <1>3, Moves DEF StartInv

\* A failing call and a stop end the process.
LEMMA FaultsPreserve ==
    ASSUME StartupInv, NEW p \in Procs, CallFails(p) \/ Stop(p)
    PROVE  StartupInv'
<1>0. TypeOK /\ UNCHANGED <<db, starts, undone, raced>> /\ Fault
  BY DEF StartupInv, CallFails, Stop, history
<1>1. faults' \in 0..MaxFaults
  BY <1>0, StartupAssumption DEF Fault, TypeOK
<1>2. touched \subseteq touched' /\ touched' \subseteq Procs
  BY <1>0 DEF CallFails, Stop, history, TypeOK
<1>3. starts' \in 0..MaxStarts
  BY <1>0 DEF TypeOK
<1>4. Exit(p, "failed") \/ Exit(p, "off")
  BY DEF CallFails, Stop
<1> QED
  BY <1>0, <1>1, <1>2, <1>3, <1>4, Exits DEF Ended

-----------------------------------------------------------------------------
(* Planning *)

\* What is planned forwards.
LEMMA ForwardIs ==
    ASSUME NEW S
    PROVE  /\ \A x \in S : [id |-> x, up |-> TRUE] \in Forward(S)
           /\ \A m \in Forward(S) : m = [id |-> m.id, up |-> TRUE] /\ m.id \in S /\ m.up
<1>1. \A x \in S : [id |-> x, up |-> TRUE] \in Forward(S)
  BY DEF Forward
<1>2. ASSUME NEW m \in Forward(S) PROVE m = [id |-> m.id, up |-> TRUE] /\ m.id \in S /\ m.up
  <2>1. PICK x \in S : m = [id |-> x, up |-> TRUE]
    BY DEF Forward
  <2> QED
    BY <2>1
<1> QED
  BY <1>1, <1>2

\* What a process plans are migrations.
LEMMA PlanType ==
    ASSUME TypeOK, NEW p \in Procs, mem[p].act \in {"serve", "upSync", "up", "down"},
           mem[p].total \in 1..7
    PROVE  PlanFor(p) \subseteq Planned
<1>1. Missed \subseteq Migrations /\ LastRun \subseteq Migrations
  BY DEF TypeOK, Missed, LastRun
<1>2. NewOnes(p) \subseteq Migrations /\ First(NewOnes(p)) \subseteq Migrations
  <2>1. NewOnes(p) \subseteq Migrations
    BY DEF NewOnes, Migrations
  <2> QED
    BY <2>1 DEF First
<1>3. {[id |-> m, up |-> FALSE] : m \in LastRun} \subseteq Planned
  <2>1. \A m \in LastRun : [id |-> m, up |-> FALSE] \in Planned
    BY <1>1 DEF Planned
  <2> QED
    BY <2>1
<1>4. /\ Forward(Missed) \subseteq Planned /\ Forward(NewOnes(p)) \subseteq Planned
      /\ Forward(First(NewOnes(p))) \subseteq Planned
  <2>1. ASSUME NEW S, S \subseteq Migrations PROVE Forward(S) \subseteq Planned
    <3>1. ASSUME NEW m \in Forward(S) PROVE m \in Planned
      <4>1. PICK x \in S : m = [id |-> x, up |-> TRUE]
        BY DEF Forward
      <4>2. [id |-> x, up |-> TRUE] \in Planned
        BY <2>1 DEF Planned
      <4> QED
        BY <4>1, <4>2
    <3> QED
      BY <3>1
  <2> QED
    BY <1>1, <1>2, <2>1
<1> QED
  BY <1>3, <1>4 DEF PlanFor, Sync, Down

\* Forwards, and without gaps in the records, the plan goes on from them: a migration is in
\* it only with those between the records and itself.
LEMMA PlanForwards ==
    ASSUME NEW p \in Procs, NEW k \in 0..7, records = 1..k, mem[p].total \in 1..7,
           mem[p].act \in {"serve", "upSync", "up"}
    PROVE  /\ \A m \in PlanFor(p) : m.up /\ m.id \in Int /\ k < m.id
           /\ \A m \in PlanFor(p) : \A x \in Int :
                 k < x /\ x <= m.id => [id |-> x, up |-> TRUE] \in PlanFor(p)
           /\ mem[p].act \in Sync =>
                 \A x \in 1..mem[p].total : k < x => [id |-> x, up |-> TRUE] \in PlanFor(p)
<1> DEFINE t == mem[p].total
<1>1. Missed = {}
  BY DEF Missed, Migrations
<1>2. NewOnes(p) = {x \in 1..t : k < x}
  BY DEF NewOnes
<1>3. CASE mem[p].act \in Sync
  <2> DEFINE S == {x \in 1..t : k < x}
  <2>1. PlanFor(p) = Forward(S)
    BY <1>1, <1>2, <1>3 DEF PlanFor, Forward, Sync, Down
  <2>2. /\ \A x \in S : [id |-> x, up |-> TRUE] \in PlanFor(p)
        /\ \A m \in PlanFor(p) : m.id \in S /\ m.up
    BY <2>1, ForwardIs
  <2> QED
    BY <2>2
<1>4. CASE mem[p].act = "up"
  <2> DEFINE S == {x \in 1..t : x = k + 1}
  <2>1. First(NewOnes(p)) = S
    <3>1. S \subseteq First(NewOnes(p))
      BY <1>2 DEF First
    <3>2. ASSUME NEW x \in First(NewOnes(p)) PROVE x \in S
      <4>1. x \in 1..t /\ k < x /\ \A y \in 1..t : k < y => x <= y
        BY <1>2 DEF First
      <4>2. k + 1 \in 1..t
        BY <4>1
      <4> QED
        BY <4>1, <4>2
    <3> QED
      BY <3>1, <3>2
  <2>2. PlanFor(p) = Forward(S)
    BY <1>1, <2>1, <1>4 DEF PlanFor, Forward, Sync, Down
  <2>3. /\ \A x \in S : [id |-> x, up |-> TRUE] \in PlanFor(p)
        /\ \A m \in PlanFor(p) : m.id \in S /\ m.up
    BY <2>2, ForwardIs
  <2> QED
    BY <1>4, <2>3 DEF Sync
<1> QED
  BY <1>3, <1>4 DEF Sync

\* Backwards, and without gaps, the plan is the last of the records.
LEMMA PlanBack ==
    ASSUME NEW p \in Procs, NEW k \in 0..7, records = 1..k, Down(p)
    PROVE  \A m \in PlanFor(p) : ~m.up /\ m.id = k
<1>1. Missed = {}
  BY DEF Missed, Migrations
<1>2. PlanFor(p) = {[id |-> x, up |-> FALSE] : x \in LastRun}
  BY <1>1 DEF PlanFor, Forward, Sync, Down
<1>3. \A x \in LastRun : x = k
  BY DEF LastRun
<1> QED
  BY <1>2, <1>3

\* A plan is made, or the records name a migration the release does not have.
LEMMA MakePlanPreserves ==
    ASSUME StartupInv, NEW p \in Procs, MakePlan(p)
    PROVE  StartupInv'
<1>0. /\ TypeOK /\ RecordInv /\ ProcInv(p) /\ AloneInv(p) /\ pc[p] = "plan"
      /\ UNCHANGED <<db, starts, faults, touched, undone>>
  BY DEF StartupInv, StartInv, MakePlan
<1>1. CASE Exit(p, "failed") /\ UNCHANGED raced
  BY <1>0, <1>1, Exits DEF Ended, TypeOK
<1>2. CASE /\ mem' = [mem EXCEPT ![p].plan = PlanFor(p)]
           /\ pc' = [pc EXCEPT ![p] = "apply"]
           /\ raced' = (raced \/ \E q \in Procs \ {p} : pc[q] = "apply" /\ Down(p) # Down(q))
  <2>1. /\ mem[p] \in Memory /\ mem[p].total \in 1..7 /\ mem[p].n = 0
        /\ mem[p].act \in {"serve", "upSync", "up", "down"}
    BY <1>0, StartupAssumption DEF TypeOK, ProcInv, Ended
  <2>2. PlanFor(p) \subseteq Planned
    BY <1>0, <2>1, PlanType
  <2>3. mem'[p] = [mem[p] EXCEPT !.plan = PlanFor(p)] /\ pc'[p] = "apply"
    BY <1>0, <1>2 DEF TypeOK
  <2>4. mem'[p] \in Memory
    BY <2>1, <2>2, <2>3 DEF Memory
  <2>5. /\ mem'[p].plan = PlanFor(p) /\ mem'[p].act = mem[p].act /\ mem'[p].n = 0
        /\ mem'[p].total = mem[p].total /\ mem'[p].attempt = mem[p].attempt
        /\ mem'[p].applied = mem[p].applied
    BY <2>1, <2>3 DEF Memory
  <2>6. /\ mem' \in [Procs -> Memory]
        /\ \A q \in Procs \ {p} : pc'[q] = pc[q] /\ mem'[q] = mem[q]
    BY <1>0, <1>2, <2>4 DEF TypeOK
  <2>7. raced' \in BOOLEAN /\ (raced => raced')
    BY <1>2
  <2>8. TypeOK'
    BY <1>0, <1>2, <2>6, <2>7 DEF TypeOK, db
  <2>9. ASSUME ~raced' PROVE ~raced /\ \A q \in Procs \ {p} : pc[q] = "apply" => Down(p) = Down(q)
    BY <1>2, <2>9
  <2>10. RecordInv'
    <3>1. \A q \in Procs : Down(q)' <=> Down(q)
      BY <2>5, <2>6 DEF Down
    <3>2. ASSUME ~raced', NEW q \in Procs, NEW r \in Procs, pc'[q] = "apply", pc'[r] = "apply", Down(q)
          PROVE  Down(r)
      <4>1. q = p \/ (pc[q] = "apply" /\ (Down(p) <=> Down(q)))
        BY <2>6, <2>9, <3>2
      <4>2. r = p \/ (pc[r] = "apply" /\ (Down(p) <=> Down(r)))
        BY <2>6, <2>9, <3>2
      <4> QED
        BY <3>2, <4>1, <4>2
    <3>3. ~raced' => schema' = records' /\ \E k \in 0..7 : records' = 1..k
      BY <1>0, <2>9 DEF RecordInv, db
    <3> QED
      BY <3>1, <3>2, <3>3 DEF RecordInv
  <2>11. ASSUME NEW q \in Procs, q # p PROVE StartInv(q)'
    BY <1>0, <2>6, <2>7, <2>11, Untouched DEF StartupInv
  <2>12. StartInv(p)'
    <3>1. ProcInv(p)'
      BY <1>0, <2>3, <2>5 DEF ProcInv, Ended
    <3>2. ASSUME ~raced' PROVE PlanInv(p)' /\ FullInv(p)' /\ AloneInv(p)'
      <4>1. PICK k \in 0..7 : records = 1..k
        BY <1>0, <2>9, <3>2 DEF RecordInv
      <4>2. records' = 1..k /\ (Down(p)' <=> Down(p))
        BY <1>0, <2>5, <4>1 DEF db, Down
      <4>3. CASE Down(p)
        <5>0. \A m \in PlanFor(p) : ~m.up /\ m.id = k
          BY <4>1, <4>3, PlanBack
        <5>1. PlanInv(p)'
          BY <2>5, <4>2, <4>3, <5>0 DEF PlanInv
        <5> QED
          BY <2>5, <4>3, <5>1 DEF FullInv, AloneInv, Down, Sync
      <4>4. CASE ~Down(p)
        <5>0. mem[p].act \in {"serve", "upSync", "up"}
          BY <2>1, <4>4 DEF Down
        <5>1. /\ \A m \in PlanFor(p) : m.up /\ m.id \in Int /\ k < m.id
              /\ \A m \in PlanFor(p) : \A x \in Int :
                    k < x /\ x <= m.id => [id |-> x, up |-> TRUE] \in PlanFor(p)
              /\ mem[p].act \in Sync =>
                    \A x \in 1..mem[p].total : k < x => [id |-> x, up |-> TRUE] \in PlanFor(p)
          BY <2>1, <4>1, <5>0, PlanForwards
        <5>2. \A x : [id |-> x, up |-> TRUE] \in PlanFor(p) => x \in Pending(p)'
          BY <2>5 DEF Pending
        <5>3. PlanInv(p)'
          <6>1. ASSUME NEW m \in PlanFor(p), NEW x \in Migrations, x < m.id
                PROVE  x \in records' \cup Pending(p)'
            <7>1. x \in Int /\ (x <= k => x \in records')
              BY <4>2 DEF Migrations
            <7>2. x > k => [id |-> x, up |-> TRUE] \in PlanFor(p)
              BY <5>1, <6>1, <7>1
            <7> QED
              BY <5>2, <7>1, <7>2
          <6> QED
            BY <2>5, <4>2, <4>4, <5>1, <6>1 DEF PlanInv
        <5>4. FullInv(p)'
          <6>1. mem[p].act \in Sync => 1..mem[p].total \subseteq records' \cup Pending(p)'
            <7>1. ASSUME mem[p].act \in Sync, NEW x \in 1..mem[p].total
                  PROVE  x \in records' \cup Pending(p)'
              <8>1. x \in Int /\ x >= 1 /\ (x <= k => x \in records')
                BY <2>1, <4>2
              <8>2. x > k => x \in Pending(p)'
                BY <5>1, <5>2, <7>1
              <8> QED
                BY <8>1, <8>2
            <7> QED
              BY <7>1
          <6> QED
            BY <2>3, <2>5, <6>1 DEF FullInv
        <5>5. AloneInv(p)'
          <6>1. Pending(p)' \cap records' = {}
            BY <2>5, <4>2, <5>1 DEF Pending
          <6>2. mem[p].applied \in Int
            BY <2>1 DEF Memory
          <6>3. UNCHANGED <<records, touched, undone>>
            BY <1>0 DEF db
          <6> QED
            BY <1>0, <2>3, <2>5, <2>9, <3>2, <6>1, <6>2, <6>3 DEF AloneInv, Starting, Up, Ended
        <5> QED
          BY <5>3, <5>4, <5>5
      <4> QED
        BY <4>3, <4>4
    <3> QED
      BY <3>1, <3>2 DEF StartInv, PlanInv, FullInv, AloneInv
  <2> QED
    BY <2>8, <2>10, <2>11, <2>12 DEF StartupInv
<1> QED
  BY <1>1, <1>2 DEF MakePlan

-----------------------------------------------------------------------------
(* Migrating *)

\* What a process at the execution of its plan, the next of which PostgreSQL can run, does
\* to the database.
Runs(p, m) == pc[p] = "apply" /\ Due(p, m) /\ CanRun(p, m) /\ Run(p, m)

\* The types of the database survive a migration.
LEMMA RunType ==
    ASSUME TypeOK, NEW p \in Procs, NEW m \in Planned, Run(p, m)
    PROVE  schema' \subseteq Migrations /\ records' \subseteq Migrations /\ undone' \subseteq Procs
<1>1. m.id \in Migrations /\ m.up \in BOOLEAN
  BY DEF Planned
<1>2. schema' \subseteq Migrations
  BY <1>1 DEF TypeOK, Run
<1>3. records' \subseteq Migrations /\ undone' \subseteq Procs
  BY <1>1 DEF TypeOK, Run
<1> QED
  BY <1>2, <1>3

\* A migration applied is the one after the records, and is recorded.
LEMMA RunForward ==
    ASSUME StartupInv, ~raced, NEW p \in Procs, NEW m \in Planned, Runs(p, m), ~Down(p)
    PROVE  \E k \in 0..7 : /\ records = 1..k /\ k + 1 \in 0..7 /\ m.id = k + 1
                           /\ records' = 1..(k + 1) /\ schema' = records' /\ undone' = undone
<1>1. PICK k \in 0..7 : records = 1..k /\ schema = records
  BY DEF StartupInv, RecordInv
<1>2. m.id \in Migrations /\ m \in mem[p].plan /\ \A x \in mem[p].plan : m.id <= x.id
  BY DEF Planned, Runs, Due
<1>3. m.up /\ \A x \in Migrations : x < m.id => x \in records \cup Pending(p)
  BY <1>2 DEF StartupInv, StartInv, PlanInv, Runs
<1>4. m.id \notin records
  BY <1>1, <1>3 DEF Runs, CanRun
<1>5. \A x \in Migrations : x < m.id => x \in records
  <2>1. ASSUME NEW x \in Migrations, x < m.id, x \in Pending(p) PROVE FALSE
    <3>1. m.id <= x
      BY <1>2, <2>1 DEF Pending
    <3> QED
      BY <1>2, <2>1, <3>1 DEF Migrations
  <2> QED
    BY <1>3, <2>1
<1>6. m.id = k + 1 /\ k + 1 \in 0..7 /\ records \cup {m.id} = 1..(k + 1)
  BY <1>1, <1>2, <1>4, <1>5, OneForward
<1>7. schema' = schema \cup {m.id} /\ records' = records \cup {m.id} /\ undone' = undone
  BY <1>3 DEF Runs, Run
<1> QED
  BY <1>1, <1>6, <1>7

\* A migration taken back is the last of the records, and is recorded no more.
LEMMA RunBack ==
    ASSUME StartupInv, ~raced, NEW p \in Procs, NEW m \in Planned, Runs(p, m), Down(p)
    PROVE  /\ \E k \in 0..7 : records' = 1..k
           /\ schema' = records' /\ records' \subseteq records
           /\ undone' = undone \cup {q \in Procs : Up(q)}
<1>1. PICK k \in 0..7 : records = 1..k /\ schema = records
  BY DEF StartupInv, RecordInv
<1>2. ~m.up /\ \A x \in records : x <= m.id
  BY DEF StartupInv, StartInv, PlanInv, Runs, Due
<1>3. m.id \in records
  BY <1>1, <1>2 DEF Runs, CanRun
<1>4. m.id = k /\ k - 1 \in 0..7 /\ records \ {m.id} = 1..(k - 1)
  BY <1>1, <1>2, <1>3, OneBack
<1>5. records' = records \ {m.id} /\ undone' = undone \cup {q \in Procs : Up(q)}
  BY DEF Runs, Run
<1>6. schema' = records'
  <2>1. CASE m.id = Base
    <3>1. schema' = {}
      BY <1>2, <2>1 DEF Runs, Run
    <3>2. records \ {m.id} = {}
      BY <1>4, <2>1 DEF Base
    <3> QED
      BY <1>5, <3>1, <3>2
  <2>2. CASE m.id # Base
    BY <1>1, <1>2, <1>5, <2>2 DEF Runs, Run
  <2> QED
    BY <2>1, <2>2
<1> QED
  BY <1>4, <1>5, <1>6

\* The records after a migration have no gap and are what the tables show.
LEMMA RunRecords ==
    ASSUME StartupInv, ~raced, NEW p \in Procs, NEW m \in Planned, Runs(p, m)
    PROVE  schema' = records' /\ \E k \in 0..7 : records' = 1..k
  BY RunForward, RunBack

\* The migration of one process leaves another one's part true: if that is being started
\* the history knows it, and if it executes a plan too it goes the same way.
LEMMA RunOther ==
    ASSUME StartupInv, NEW p \in Procs, NEW m \in Planned, Runs(p, m),
           NEW q \in Procs \ {p}, pc'[q] = pc[q], mem'[q] = mem[q],
           touched \cup Others(p) \subseteq touched', raced' = raced
    PROVE  StartInv(q)'
<1>1. StartInv(q)
  BY DEF StartupInv
<1>2. ProcInv(q)'
  BY <1>1 DEF StartInv, ProcInv
<1>3. Pending(q)' = Pending(q) /\ (Down(q)' <=> Down(q))
  BY DEF Pending, Down
<1>4. AloneInv(q)'
  <2>1. Starting(q)' => q \in touched'
    BY DEF Starting, Up, Others
  <2> QED
    BY <2>1 DEF AloneInv
<1>5. ASSUME ~raced PROVE PlanInv(q)' /\ FullInv(q)'
  <2>1. CASE Down(p)
    <3>1. records' \subseteq records /\ undone' = undone \cup {r \in Procs : Up(r)}
      BY <1>5, <2>1, RunBack
    <3>2. pc[q] = "apply" => Down(q)
      BY <1>5, <2>1 DEF StartupInv, RecordInv, Runs
    <3>3. PlanInv(q)'
      BY <1>1, <1>3, <1>5, <3>1, <3>2 DEF StartInv, PlanInv
    <3>4. FullInv(q)'
      BY <3>1 DEF FullInv, Up, Ended
    <3> QED
      BY <3>3, <3>4
  <2>2. CASE ~Down(p)
    <3>1. records \subseteq records' /\ undone' = undone
      BY <2>2 DEF Runs, Run
    <3>2. pc[q] = "apply" => ~Down(q)
      BY <1>5, <2>2 DEF StartupInv, RecordInv, Runs
    <3>3. PlanInv(q)'
      BY <1>1, <1>3, <1>5, <3>1, <3>2 DEF StartInv, PlanInv
    <3>4. FullInv(q)'
      BY <1>1, <1>3, <1>5, <3>1 DEF StartInv, FullInv
    <3> QED
      BY <3>3, <3>4
  <2> QED
    BY <2>1, <2>2
<1> QED
  BY <1>2, <1>4, <1>5 DEF StartInv, PlanInv, FullInv

\* A migration is applied, or taken back, and the process goes on with the rest of its plan.
LEMMA ApplyPreserves ==
    ASSUME StartupInv, NEW p \in Procs, NEW m \in Planned, Apply(p, m)
    PROVE  StartupInv'
<1>0. /\ TypeOK /\ RecordInv /\ StartInv(p) /\ Runs(p, m) /\ UNCHANGED <<pc, starts, faults, raced>>
      /\ touched' = touched \cup Others(p)
      /\ mem' = [mem EXCEPT ![p].plan = @ \ {m}, ![p].n = @ + 1]
  BY DEF StartupInv, Apply, Runs
<1>1. mem[p] \in Memory /\ pc[p] = "apply" /\ pc'[p] = "apply"
  BY <1>0 DEF TypeOK, Runs
<1>2. mem'[p] = [mem[p] EXCEPT !.plan = @ \ {m}, !.n = @ + 1]
  BY <1>0 DEF TypeOK
<1>3. mem'[p] \in Memory
  <2>1. mem[p].plan \ {m} \in SUBSET Planned /\ mem[p].n + 1 \in Nat
    BY <1>1 DEF Memory
  <2> QED
    BY <1>1, <1>2, <2>1 DEF Memory
<1>4. /\ mem'[p].plan = mem[p].plan \ {m} /\ mem'[p].n = mem[p].n + 1
      /\ mem'[p].act = mem[p].act /\ mem'[p].total = mem[p].total
      /\ mem'[p].attempt = mem[p].attempt /\ mem'[p].applied = mem[p].applied
  BY <1>1, <1>2 DEF Memory
<1>5. mem' \in [Procs -> Memory] /\ \A q \in Procs \ {p} : mem'[q] = mem[q]
  BY <1>0, <1>3 DEF TypeOK
<1>6. schema' \subseteq Migrations /\ records' \subseteq Migrations /\ undone' \subseteq Procs
  BY <1>0, RunType DEF Runs
<1>7. TypeOK'
  BY <1>0, <1>5, <1>6 DEF TypeOK, Others
<1>8. \A q \in Procs : Down(q)' <=> Down(q)
  BY <1>4, <1>5 DEF Down
<1>9. RecordInv'
  BY <1>0, <1>8, RunRecords DEF RecordInv
<1>10. ASSUME NEW q \in Procs, q # p PROVE StartInv(q)'
  BY <1>0, <1>5, <1>10, RunOther
<1>11. StartInv(p)'
  <2>1. ProcInv(p)'
    BY <1>0, <1>1, <1>4 DEF StartInv, ProcInv, Ended
  <2>2. /\ Pending(p) \subseteq Pending(p)' \cup {m.id} /\ Pending(p)' \subseteq Pending(p)
        /\ m \in mem[p].plan
    BY <1>0, <1>4 DEF Pending, Runs, Due
  <2>3. ASSUME ~raced, Down(p) PROVE PlanInv(p)' /\ FullInv(p)' /\ AloneInv(p)'
    <3>1. records' \subseteq records
      BY <1>0, <2>3, RunBack
    <3>2. PlanInv(p)'
      BY <1>0, <1>1, <1>4, <1>8, <2>3, <3>1 DEF StartInv, PlanInv
    <3> QED
      BY <1>4, <2>3, <3>2 DEF FullInv, AloneInv, Sync, Down
  <2>4. ASSUME ~raced, ~Down(p) PROVE PlanInv(p)' /\ FullInv(p)' /\ AloneInv(p)'
    <3>1. PICK k \in 0..7 : /\ records = 1..k /\ k + 1 \in 0..7 /\ m.id = k + 1
                            /\ records' = 1..(k + 1) /\ undone' = undone
      BY <1>0, <2>4, RunForward
    <3>2. records' = records \cup {m.id}
      BY <1>0, <2>4 DEF Runs, Run
    <3>3. records \cup Pending(p) \subseteq records' \cup Pending(p)'
      BY <2>2, <3>2
    <3>4. PlanInv(p)'
      BY <1>0, <1>1, <1>4, <1>8, <2>4, <3>3 DEF StartInv, PlanInv
    <3>5. FullInv(p)'
      BY <1>0, <1>1, <1>4, <2>4, <3>1, <3>3 DEF StartInv, FullInv
    <3>6. AloneInv(p)'
      <4>1. Cardinality(records) = k /\ Cardinality(records') = k + 1
        BY <3>1, UpTo
      <4>2. mem[p].applied \in Int /\ mem[p].n \in Int
        BY <1>1 DEF Memory
      <4>3. m.id \notin Pending(p)'
        <5>1. SUFFICES ASSUME NEW x \in mem[p].plan, x # m, x.id = m.id PROVE FALSE
          BY <1>4 DEF Pending
        <5>2. x \in Planned /\ x.up /\ m.up
          BY <1>0, <1>1, <2>2, <2>4 DEF StartInv, PlanInv, Memory
        <5>3. x = [id |-> x.id, up |-> TRUE] /\ m = [id |-> m.id, up |-> TRUE]
          BY <5>2 DEF Planned
        <5> QED
          BY <5>1, <5>3
      <4>4. SUFFICES ASSUME p \notin touched, mem[p].act \in Sync
                     PROVE  /\ p \notin undone' /\ mem'[p].applied + mem'[p].n = Cardinality(records')
                            /\ Pending(p)' \cap records' = {}
        BY <1>0, <1>1, <1>4 DEF AloneInv
      <4>5. /\ p \notin undone /\ mem[p].applied + mem[p].n = Cardinality(records)
            /\ Pending(p) \cap records = {}
        BY <1>0, <1>1, <2>4, <4>4 DEF StartInv, AloneInv, Starting, Up, Ended
      <4>6. Pending(p)' \cap records' = {}
        BY <2>2, <3>2, <4>3, <4>5
      <4>7. mem'[p].applied + mem'[p].n = Cardinality(records')
        BY <1>4, <4>1, <4>2, <4>5
      <4> QED
        BY <3>1, <4>5, <4>6, <4>7
    <3> QED
      BY <3>4, <3>5, <3>6
  <2> QED
    BY <1>0, <2>1, <2>3, <2>4 DEF StartInv, PlanInv, FullInv, AloneInv
<1> QED
  BY <1>7, <1>9, <1>10, <1>11 DEF StartupInv

\* The same, with the answer lost: the process ends.
LEMMA CommitLostPreserves ==
    ASSUME StartupInv, NEW p \in Procs, NEW m \in Planned, CommitLost(p, m)
    PROVE  StartupInv'
<1>0. /\ TypeOK /\ RecordInv /\ Runs(p, m) /\ UNCHANGED <<starts, raced>> /\ Fault
      /\ touched' = touched \cup Others(p) \cup {p} /\ Exit(p, "failed")
  BY DEF StartupInv, CommitLost, Runs
<1>1. Fresh \in Memory
  BY StartupAssumption DEF Fresh, Memory
<1>2. /\ pc'[p] = "failed" /\ mem'[p] = Fresh
      /\ \A q \in Procs \ {p} : pc'[q] = pc[q] /\ mem'[q] = mem[q]
  BY <1>0 DEF Exit, TypeOK
<1>3. mem' \in [Procs -> Memory]
  BY <1>0, <1>1 DEF Exit, TypeOK
<1>4. schema' \subseteq Migrations /\ records' \subseteq Migrations /\ undone' \subseteq Procs
  BY <1>0, RunType DEF Runs
<1>5. faults' \in 0..MaxFaults
  BY <1>0, StartupAssumption DEF Fault, TypeOK
<1>6. TypeOK'
  <2>1. touched' \subseteq Procs
    BY <1>0 DEF TypeOK, Others
  <2>2. pc' \in [Procs -> Ended \cup {"connect", "status", "plan", "apply", "report",
                                      "services", "serving"}]
    BY <1>0 DEF TypeOK, Exit, Ended
  <2> QED
    BY <1>0, <1>3, <1>4, <1>5, <2>1, <2>2 DEF TypeOK
<1>7. RecordInv'
  <2>1. \A q \in Procs : pc'[q] = "apply" => pc[q] = "apply" /\ (Down(q)' <=> Down(q))
    BY <1>2 DEF Down
  <2> QED
    BY <1>0, <2>1, RunRecords DEF RecordInv
<1>8. ASSUME NEW q \in Procs, q # p PROVE StartInv(q)'
  BY <1>0, <1>2, <1>8, RunOther
<1>9. StartInv(p)'
  <2>1. ProcInv(p)'
    BY <1>2, StartupAssumption DEF ProcInv, Fresh, Ended
  <2>2. PlanInv(p)' /\ FullInv(p)' /\ AloneInv(p)'
    BY <1>2 DEF PlanInv, FullInv, AloneInv, Starting, Up, Ended
  <2> QED
    BY <2>1, <2>2 DEF StartInv
<1> QED
  BY <1>6, <1>7, <1>8, <1>9 DEF StartupInv

-----------------------------------------------------------------------------
(* The invariant *)

\* The database may begin empty or with the schema of any release.
LEMMA InitStartupInv == Init => StartupInv
<1> SUFFICES ASSUME Init PROVE StartupInv
  OBVIOUS
<1>1. PICK k \in 0..7 : records = 1..k /\ schema = records
  BY DEF Init
<1>2. records \subseteq Migrations
  BY <1>1 DEF Migrations
<1>3. Fresh \in Memory
  BY StartupAssumption DEF Fresh, Memory
<1>4. starts \in 0..MaxStarts /\ faults \in 0..MaxFaults
  BY StartupAssumption DEF Init
<1>5. TypeOK
  BY <1>1, <1>2, <1>3, <1>4 DEF Init, TypeOK, Ended
<1>6. RecordInv
  BY <1>1, <1>2 DEF Init, RecordInv
<1>7. ASSUME NEW p \in Procs PROVE StartInv(p)
  <2>1. pc[p] = "off" /\ mem[p] = Fresh
    BY DEF Init
  <2>2. ProcInv(p)
    BY <2>1, StartupAssumption DEF ProcInv, Fresh, Ended
  <2>3. PlanInv(p) /\ FullInv(p) /\ AloneInv(p)
    BY <2>1 DEF PlanInv, FullInv, AloneInv, Starting, Up, Ended
  <2> QED
    BY <2>2, <2>3 DEF StartInv
<1> QED
  BY <1>5, <1>6, <1>7 DEF StartupInv

\* Every step of every process keeps it.
LEMMA NextStartupInv == StartupInv /\ [Next]_vars => StartupInv'
<1> SUFFICES ASSUME StartupInv, [Next]_vars PROVE StartupInv'
  OBVIOUS
<1>1. ASSUME NEW p \in Procs, NEW a \in Actions, NEW release \in Releases, Start(p, a, release)
      PROVE  StartupInv'
  BY <1>1, StartPreserves
<1>2. ASSUME NEW p \in Procs, Connect(p) \/ ConnectFails(p) \/ ReadStatus(p) \/ MakePlan(p)
      PROVE  StartupInv'
  BY <1>2, ConnectPreserves, ConnectFailsPreserves, ReadStatusPreserves, MakePlanPreserves
<1>3. ASSUME NEW p \in Procs, NEW m \in Planned,
             Apply(p, m) \/ ApplyRefused(p, m) \/ CommitLost(p, m)
      PROVE  StartupInv'
  BY <1>3, ApplyPreserves, ApplyRefusedPreserves, CommitLostPreserves
<1>4. ASSUME NEW p \in Procs, AppliedAll(p) \/ Report(p) \/ StartServices(p)
      PROVE  StartupInv'
  BY <1>4, AppliedAllPreserves, ReportPreserves, StartServicesPreserves
<1>5. ASSUME NEW p \in Procs, CallFails(p) \/ Stop(p) PROVE StartupInv'
  BY <1>5, FaultsPreserve
<1>6. CASE UNCHANGED vars
  <2>1. UNCHANGED <<db, pc, mem, starts, faults, history>>
    BY <1>6 DEF vars
  <2>2. TypeOK' /\ RecordInv'
    BY <2>1 DEF StartupInv, TypeOK, RecordInv, Down, db, history
  <2>3. \A p \in Procs : StartInv(p)'
    BY <2>1, Untouched DEF StartupInv, history
  <2> QED
    BY <2>2, <2>3 DEF StartupInv
<1> QED
  BY <1>1, <1>2, <1>3, <1>4, <1>5, <1>6 DEF Next, Step

\* It holds throughout.
LEMMA SpecStartupInv == Spec => []StartupInv
  BY InitStartupInv, NextStartupInv, PTL DEF Spec

-----------------------------------------------------------------------------
(* The theorems *)

\* Type correctness of the starts and migrations of dvotemanager.
THEOREM StartupTypeCorrect == Spec => []TypeOK
<1>1. StartupInv => TypeOK
  BY DEF StartupInv
<1> QED
  BY <1>1, SpecStartupInv, PTL

\* The tables show what sql-migrate has recorded, and that has no gap, however many
\* processes run Migrator at once and wherever they end, unless a "down" overlaps another
\* migration.
THEOREM SchemaAlwaysRecorded == Spec => []SchemaIsRecorded
<1>1. StartupInv => SchemaIsRecorded
  BY Counted DEF StartupInv, RecordInv, SchemaIsRecorded
<1> QED
  BY <1>1, SpecStartupInv, PTL

\* main goes on to serve only on the whole schema of its release: comparing the numbers of
\* migrations, read before the plan is made and executed, is enough.
THEOREM ServesOnFullSchema == Spec => []ServesFullSchema
<1>1. ASSUME StartupInv PROVE ServesFullSchema
  <2>1. ASSUME NEW p \in Procs, pc[p] = "serving", p \notin undone, ~raced
        PROVE  1..mem[p].total \subseteq schema
    <3>1. FullInv(p) /\ ProcInv(p) /\ schema = records
      BY <1>1, <2>1 DEF StartupInv, StartInv, RecordInv
    <3>2. mem[p].act \in Sync
      BY <2>1, <3>1 DEF ProcInv, Sync
    <3> QED
      BY <2>1, <3>1, <3>2 DEF FullInv
  <2> QED
    BY <2>1 DEF ServesFullSchema
<1> QED
  BY <1>1, SpecStartupInv, PTL

\* The plan of a start that was alone so far is one PostgreSQL can run.
LEMMA NotRefused ==
    ASSUME StartupInv, NEW p \in Procs, NEW m \in Planned, pc[p] = "apply", Due(p, m),
           mem[p].act \in Sync, ~raced, p \notin touched
    PROVE  CanRun(p, m)
<1>1. PICK k \in 0..7 : records = 1..k /\ schema = records
  BY DEF StartupInv, RecordInv
<1>2. m.id \in Migrations /\ m \in mem[p].plan /\ \A x \in mem[p].plan : m.id <= x.id
  BY DEF Planned, Due
<1>3. ~Down(p)
  BY DEF Down, Sync
<1>4. m.up /\ \A x \in Migrations : x < m.id => x \in records \cup Pending(p)
  BY <1>2, <1>3 DEF StartupInv, StartInv, PlanInv
<1>5. m.id \notin records
  BY <1>2 DEF StartupInv, StartInv, AloneInv, Starting, Up, Ended, Pending
<1>6. m.id = Base \/ Base \in records
  <2>1. Base \in Migrations /\ (m.id = Base \/ Base < m.id)
    BY <1>2 DEF Base, Migrations
  <2>2. Base < m.id => Base \notin Pending(p)
    <3>1. ASSUME Base < m.id, Base \in Pending(p) PROVE FALSE
      <4>1. m.id <= Base
        BY <1>2, <3>1 DEF Pending
      <4> QED
        BY <1>2, <3>1, <4>1 DEF Base, Migrations
    <3> QED
      BY <3>1
  <2> QED
    BY <1>4, <2>1, <2>2
<1> QED
  BY <1>1, <1>4, <1>5, <1>6 DEF CanRun

\* A start that was alone, and whose release knows all records, has run what it expected to.
LEMMA AllApplied ==
    ASSUME StartupInv, NEW p \in Procs, pc[p] = "apply", mem[p].plan = {}, mem[p].act \in Sync,
           ~raced, p \notin touched, records \subseteq 1..mem[p].total
    PROVE  mem[p].n = Expected(p)
<1>1. PICK k \in 0..7 : records = 1..k
  BY DEF StartupInv, RecordInv
<1>2. mem[p] \in Memory /\ mem[p].total \in 1..7
  BY StartupAssumption DEF StartupInv, TypeOK, StartInv, ProcInv, Ended
<1>3. p \notin undone /\ mem[p].applied + mem[p].n = k
  BY <1>1, Counted DEF StartupInv, StartInv, AloneInv, Starting, Up, Ended
<1>4. 1..mem[p].total \subseteq records
  BY <1>3 DEF StartupInv, StartInv, FullInv, Pending
<1>5. mem[p].total = k
  <2>1. mem[p].total \in 1..k
    BY <1>1, <1>2, <1>4
  <2>2. k \in 1..mem[p].total
    BY <1>1, <1>2, <2>1
  <2> QED
    BY <1>2, <2>1, <2>2
<1>6. mem[p].applied \in Int /\ mem[p].n \in Int
  BY <1>2 DEF Memory
<1> QED
  BY <1>3, <1>5, <1>6 DEF Expected

\* log.Fatal ends a start only if something failed, another process migrated meanwhile, or
\* the schema is newer than the release.
THEOREM RefusalsHaveCause == Spec => RefusedForCause
<1>1. ASSUME StartupInv, [Next]_vars, NEW p \in Procs,
             pc[p] # "failed", pc'[p] = "failed", mem[p].act \in Sync,
             ~raced, records \subseteq 1..mem[p].total
      PROVE  p \in touched'
  <2>0. TypeOK /\ StartInv(p)
    BY <1>1 DEF StartupInv
  <2>1. ASSUME NEW q \in Procs, NEW step, Goto(q, step), step # "failed" PROVE FALSE
    BY <1>1, <2>0, <2>1 DEF Goto, TypeOK
  <2>2. ASSUME NEW q \in Procs, NEW how, pc' = [pc EXCEPT ![q] = how] PROVE q = p /\ how = "failed"
    BY <1>1, <2>0, <2>2 DEF TypeOK
  <2>3. pc' # pc
    BY <1>1
  <2>4. ASSUME NEW q \in Procs, NEW a \in Actions, NEW release \in Releases, Start(q, a, release)
        PROVE  p \in touched'
    <3>1. pc' = [pc EXCEPT ![q] = "connect"]
      BY <2>4 DEF Start
    <3>2. q = p
      BY <2>2, <3>1
    <3> QED
      BY <1>1, <2>0, <3>1, <3>2 DEF TypeOK
  <2>5. ASSUME NEW q \in Procs, Connect(q) \/ ConnectFails(q) PROVE p \in touched'
    BY <2>1, <2>2, <2>3, <2>5 DEF Connect, ConnectFails, Exit
  <2>6. ASSUME NEW q \in Procs, ReadStatus(q) PROVE p \in touched'
    <3>1. q = p /\ mem[p].total < Cardinality(records)
      BY <2>2, <2>6 DEF ReadStatus, Exit
    <3>2. mem[p].total \in 1..7
      BY <2>0, <2>6, <3>1, StartupAssumption DEF StartInv, ProcInv, ReadStatus, Ended
    <3> QED
      BY <1>1, <3>1, <3>2, MoreThanTotal
  <2>7. ASSUME NEW q \in Procs, MakePlan(q) PROVE p \in touched'
    BY <1>1, <2>2, <2>7 DEF MakePlan, Exit
  <2>8. ASSUME NEW q \in Procs, NEW m \in Planned,
               Apply(q, m) \/ ApplyRefused(q, m) \/ CommitLost(q, m)
        PROVE  p \in touched'
    <3>1. CASE Apply(q, m)
      BY <2>3, <3>1 DEF Apply
    <3>2. CASE CommitLost(q, m)
      BY <2>2, <3>2 DEF CommitLost, Exit
    <3>3. CASE ApplyRefused(q, m)
      <4>1. q = p /\ pc[p] = "apply" /\ Due(p, m) /\ ~CanRun(p, m) /\ touched' = touched
        BY <2>2, <3>3 DEF ApplyRefused, Exit, history
      <4> QED
        BY <1>1, <4>1, NotRefused
    <3> QED
      BY <2>8, <3>1, <3>2, <3>3
  <2>9. ASSUME NEW q \in Procs, AppliedAll(q) PROVE p \in touched'
    <3>1. GotoOrFail(q, mem[q].n = Expected(q), "report")
      BY <2>9 DEF AppliedAll
    <3>2. mem[q].n # Expected(q) /\ Exit(q, "failed")
      BY <2>1, <3>1 DEF GotoOrFail
    <3>3. q = p
      BY <2>2, <3>2 DEF Exit
    <3>4. pc[p] = "apply" /\ mem[p].plan = {} /\ touched' = touched
      BY <2>9, <3>3 DEF AppliedAll, history
    <3> QED
      BY <1>1, <3>2, <3>3, <3>4, AllApplied
  <2>10. ASSUME NEW q \in Procs, Report(q) \/ StartServices(q) \/ Stop(q) PROVE p \in touched'
    <3>1. \/ Goto(q, "services") \/ Goto(q, "serving") \/ Exit(q, "off")
      BY <2>10 DEF Report, StartServices, Stop
    <3> QED
      BY <2>1, <2>2, <3>1 DEF Exit
  <2>11. ASSUME NEW q \in Procs, CallFails(q) PROVE p \in touched'
    BY <2>2, <2>11 DEF CallFails, Exit
  <2>12. ~UNCHANGED vars
    BY <2>3 DEF vars
  <2> QED
    BY <1>1, <2>4, <2>5, <2>6, <2>7, <2>8, <2>9, <2>10, <2>11, <2>12 DEF Next, Step
<1>2. StartupInv /\ [Next]_vars =>
        [\A p \in Procs : pc[p] # "failed" /\ pc'[p] = "failed" /\ mem[p].act \in Sync
           => p \in touched' \/ raced \/ ~(records \subseteq 1..mem[p].total)]_vars
  BY <1>1
<1> QED
  BY <1>2, SpecStartupInv, PTL DEF Spec, RefusedForCause

-----------------------------------------------------------------------------
(* The end of a start *)

Stage == [connect |-> 0, status |-> 1, plan |-> 2, apply |-> 3, report |-> 4,
          services |-> 5, serving |-> 6, off |-> 7, failed |-> 7]

\* A step uses up a stage, one of the attempts to connect or one migration of the plan.
UsesUp(p) ==
    \/ Stage[pc'[p]] > Stage[pc[p]]
    \/ /\ pc'[p] = "connect" /\ pc[p] = "connect"
       /\ mem'[p].attempt = mem[p].attempt + 1 /\ mem'[p].attempt < Retries
    \/ /\ pc'[p] = "apply" /\ pc[p] = "apply"
       /\ mem'[p].plan \subseteq mem[p].plan /\ mem'[p].plan # mem[p].plan

\* Whatever the processes do, one that was started only ever gets nearer to its end: no
\* failure, no migration of another process and no retry takes it back.
StartRunsOut ==
    [][\A p \in Procs : Up(p) /\ <<pc[p], mem[p]>>' # <<pc[p], mem[p]>> => UsesUp(p)]_vars

\* So a start takes at most as many steps as there are stages, attempts to connect (pgsql.New
\* counts them) and migrations planned: it can be stuck, but it cannot go on for ever.  With
\* the steps' fairness, and with each step but the last leading to one that is possible, this
\* is why a start ends (StartEnds).
THEOREM StartsRunOut == Spec => StartRunsOut
<1>1. ASSUME StartupInv, [Next]_vars, NEW p \in Procs, Up(p), <<pc[p], mem[p]>>' # <<pc[p], mem[p]>>
      PROVE  UsesUp(p)
  <2>0. TypeOK /\ ProcInv(p)
    BY <1>1 DEF StartupInv, StartInv
  <2>1. pc[p] \in {"connect", "status", "plan", "apply", "report", "services", "serving"}
    BY <1>1, <2>0 DEF TypeOK, Up, Ended
  <2>2. ASSUME NEW q \in Procs, NEW step, Goto(q, step) PROVE q = p /\ pc'[p] = step
    BY <1>1, <2>0, <2>2 DEF TypeOK, Goto
  <2>3. ASSUME NEW q \in Procs, NEW how \in Ended, Exit(q, how) PROVE UsesUp(p)
    <3>1. q = p
      BY <1>1, <2>0, <2>3 DEF TypeOK, Exit
    <3>2. pc'[p] = how
      BY <2>0, <2>3, <3>1 DEF TypeOK, Exit
    <3> QED
      BY <2>1, <3>2 DEF UsesUp, Stage, Ended
  <2>4. ASSUME NEW q \in Procs, NEW a \in Actions, NEW release \in Releases, Start(q, a, release)
        PROVE  UsesUp(p)
    <3>1. q # p
      BY <1>1, <2>4 DEF Start
    <3> QED
      BY <1>1, <2>0, <2>4, <3>1 DEF Start, TypeOK
  <2>5. ASSUME NEW q \in Procs, Connect(q) PROVE UsesUp(p)
    BY <2>2, <2>5 DEF Connect, UsesUp, Stage
  <2>6. ASSUME NEW q \in Procs, ConnectFails(q) PROVE UsesUp(p)
    <3>1. CASE Exit(q, "failed")
      BY <2>3, <3>1 DEF Ended
    <3>2. CASE mem[q].attempt + 1 # Retries /\ UNCHANGED pc
               /\ mem' = [mem EXCEPT ![q].attempt = @ + 1]
      <4>1. q = p
        BY <1>1, <2>0, <3>2 DEF TypeOK
      <4>2. pc[p] = "connect" /\ pc'[p] = "connect" /\ mem[p] \in Memory
        BY <2>0, <2>6, <3>2, <4>1 DEF ConnectFails, TypeOK
      <4>3. mem'[p] = [mem[p] EXCEPT !.attempt = @ + 1]
        BY <2>0, <3>2, <4>1 DEF TypeOK
      <4>4. mem'[p].attempt = mem[p].attempt + 1 /\ mem[p].attempt \in Nat
        BY <4>2, <4>3, StartupAssumption DEF Memory
      <4>5. mem[p].attempt + 1 < Retries
        BY <2>0, <3>2, <4>1, <4>4, StartupAssumption DEF ProcInv
      <4> QED
        BY <4>2, <4>4, <4>5 DEF UsesUp
    <3> QED
      BY <2>6, <3>1, <3>2 DEF ConnectFails
  <2>7. ASSUME NEW q \in Procs, ReadStatus(q) PROVE UsesUp(p)
    <3>1. CASE Exit(q, "failed")
      BY <2>3, <3>1 DEF Ended
    <3>2. CASE ~Exit(q, "failed")
      <4>1. q = p /\ pc[p] = "status"
        BY <1>1, <2>0, <2>7, <3>2 DEF ReadStatus, TypeOK
      <4>2. pc'[p] \in {"report", "plan"}
        BY <2>0, <2>7, <3>2, <4>1 DEF ReadStatus, TypeOK
      <4> QED
        BY <4>1, <4>2 DEF UsesUp, Stage
    <3> QED
      BY <3>1, <3>2
  <2>8. ASSUME NEW q \in Procs, MakePlan(q) PROVE UsesUp(p)
    <3>1. CASE Exit(q, "failed")
      BY <2>3, <3>1 DEF Ended
    <3>2. CASE ~Exit(q, "failed")
      <4>1. q = p /\ pc[p] = "plan"
        BY <1>1, <2>0, <2>8, <3>2 DEF MakePlan, TypeOK
      <4>2. pc'[p] = "apply"
        BY <2>0, <2>8, <3>2, <4>1 DEF MakePlan, TypeOK
      <4> QED
        BY <4>1, <4>2 DEF UsesUp, Stage
    <3> QED
      BY <3>1, <3>2
  <2>9. ASSUME NEW q \in Procs, NEW m \in Planned, Apply(q, m) PROVE UsesUp(p)
    <3>1. /\ pc' = pc /\ pc[q] = "apply" /\ m \in mem[q].plan
          /\ mem' = [mem EXCEPT ![q].plan = @ \ {m}, ![q].n = @ + 1]
      BY <2>9 DEF Apply, Due
    <3>2. q = p
      BY <1>1, <2>0, <3>1 DEF TypeOK
    <3>3. mem'[p] = [mem[p] EXCEPT !.plan = @ \ {m}, !.n = @ + 1] /\ mem[p] \in Memory
      BY <2>0, <3>1, <3>2 DEF TypeOK
    <3>4. mem'[p].plan = mem[p].plan \ {m}
      BY <3>3 DEF Memory
    <3> QED
      BY <3>1, <3>2, <3>4 DEF UsesUp
  <2>10. ASSUME NEW q \in Procs, NEW m \in Planned, ApplyRefused(q, m) \/ CommitLost(q, m)
         PROVE  UsesUp(p)
    BY <2>3, <2>10 DEF ApplyRefused, CommitLost, Ended
  <2>11. ASSUME NEW q \in Procs, AppliedAll(q) \/ Report(q) \/ StartServices(q) PROVE UsesUp(p)
    <3>1. CASE Exit(q, "failed") \/ Exit(q, "off")
      BY <2>3, <3>1 DEF Ended
    <3>2. CASE pc[q] = "apply" /\ Goto(q, "report")
      BY <2>2, <3>2 DEF UsesUp, Stage
    <3>3. CASE pc[q] = "report" /\ Goto(q, "services")
      BY <2>2, <3>3 DEF UsesUp, Stage
    <3>4. CASE pc[q] = "services" /\ Goto(q, "serving")
      BY <2>2, <3>4 DEF UsesUp, Stage
    <3> QED
      BY <2>11, <3>1, <3>2, <3>3, <3>4 DEF AppliedAll, GotoOrFail, Report, StartServices
  <2>12. ASSUME NEW q \in Procs, CallFails(q) \/ Stop(q) PROVE UsesUp(p)
    BY <2>3, <2>12 DEF CallFails, Stop, Ended
  <2>13. ~UNCHANGED vars
    BY <1>1 DEF vars
  <2> QED
    BY <1>1, <2>4, <2>5, <2>6, <2>7, <2>8, <2>9, <2>10, <2>11, <2>12, <2>13 DEF Next, Step
<1>2. StartupInv /\ [Next]_vars =>
        [\A p \in Procs : Up(p) /\ <<pc[p], mem[p]>>' # <<pc[p], mem[p]>> => UsesUp(p)]_vars
  BY <1>1
<1> QED
  BY <1>2, SpecStartupInv, PTL DEF Spec, StartRunsOut
=============================================================================
