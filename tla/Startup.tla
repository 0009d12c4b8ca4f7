------------------------------ MODULE Startup -------------------------------
(***************************************************************************)
(* The start of dvotemanager: connect to the database, bring its schema up *)
(* to date (Migrator "upSync"), start the services, serve; and the stand-  *)
(* alone runs of Migrator (migrateAction).  Several processes, possibly of *)
(* different releases, start on one database, and nothing but PostgreSQL   *)
(* keeps them apart.                                                       *)
(*                                                                         *)
(* The migrations are those of the repository by number: 1 creates the     *)
(* tables all others alter and 3 a table that refers to them.  sql-migrate *)
(* (external) keeps the ids it has applied in a table of its own and runs  *)
(* each migration, with its record, in one transaction.                    *)
(***************************************************************************)
EXTENDS Integers, FiniteSets

CONSTANTS Procs,
          Releases,   \* the releases in use, by the number of migrations they have
          Retries,    \* connectionRetries
          Actions,    \* what a process is started for: "serve" or a migrateAction
          MaxStarts,  \* bound: how many processes are started
          MaxFaults   \* bound: how many calls fail and processes crash

ASSUME StartupAssumption ==
    /\ Releases \subseteq 1..7
    /\ Retries \in Nat \ {0} /\ MaxStarts \in Nat /\ MaxFaults \in Nat
    /\ Actions \subseteq {"serve", "upSync", "up", "down"}

VARIABLES
    schema,   \* the migrations whose effect the tables show
    records,  \* the table gorp_migrations
    pc,
    mem,      \* the memory of each process
    starts, faults,
    touched,  \* history: processes hit by a failure or by the migration of another
    undone,   \* history: processes that were up while a migration was taken back
    raced     \* history: a "down" and another migration had a plan at the same time

db      == <<schema, records>>
history == <<touched, undone, raced>>
vars    == <<db, pc, mem, starts, faults, history>>

Migrations == 1..7
Base       == 1
Tags       == 3
Planned    == [id : Migrations, up : BOOLEAN]

\* What a process was started for, mTotal (the migrations of its release), the failed
\* attempts to connect, mApplied, the migrations planned and the number of those run.
Memory == [act : Actions \cup {"none"}, total : Releases \cup {0}, attempt : 0..Retries,
           applied : 0..7, plan : SUBSET Planned, n : Nat]
Fresh  == [act |-> "none", total |-> 0, attempt |-> 0, applied |-> 0, plan |-> {}, n |-> 0]

Sync        == {"serve", "upSync"}
Ended       == {"off", "failed"}
Up(p)       == pc[p] \notin Ended
Starting(p) == Up(p) /\ pc[p] # "serving"
Down(p)     == mem[p].act = "down"

Init ==
    /\ \E k \in 0..7 : records = 1..k
    /\ schema = records
    /\ pc = [p \in Procs |-> "off"] /\ mem = [p \in Procs |-> Fresh]
    /\ starts = 0 /\ faults = 0
    /\ touched = {} /\ undone = {} /\ raced = FALSE

Goto(p, step) == pc' = [pc EXCEPT ![p] = step] /\ UNCHANGED mem

\* The process ends ("failed": log.Fatal).
Exit(p, how) == pc' = [pc EXCEPT ![p] = how] /\ mem' = [mem EXCEPT ![p] = Fresh]

GotoOrFail(p, ok, step) == IF ok THEN Goto(p, step) ELSE Exit(p, "failed")

-----------------------------------------------------------------------------
(* main and pgsql.New *)

\* A process is started to serve, or by an operator for a single migration.
Start(p, a, release) ==
    /\ ~Up(p) /\ starts < MaxStarts
    /\ starts' = starts + 1
    /\ pc' = [pc EXCEPT ![p] = "connect"]
    /\ mem' = [mem EXCEPT ![p].act = a, ![p].total = release]
    /\ touched' = touched \ {p} /\ undone' = undone \ {p}
    /\ UNCHANGED <<db, faults, raced>>

\* Migrator begins with the status or, for "up" and "down", at once with a plan.
Connect(p) ==
    /\ pc[p] = "connect"
    /\ Goto(p, IF mem[p].act \in Sync THEN "status" ELSE "plan")
    /\ UNCHANGED <<db, starts, faults, history>>

\* Mutant: the attempts are counted anew after the last one.
ConnectFailsForEver(p) ==
    /\ pc[p] = "connect"
    /\ mem' = [mem EXCEPT ![p].attempt = (@ + 1) % Retries]
    /\ touched' = touched \cup {p}
    /\ UNCHANGED <<db, pc, starts, faults, undone, raced>>

\* The database is not there yet: sleep and try again, connectionRetries times.
ConnectFails(p) ==
    /\ pc[p] = "connect"
    /\ IF mem[p].attempt + 1 = Retries
         THEN Exit(p, "failed")
         ELSE mem' = [mem EXCEPT ![p].attempt = @ + 1] /\ UNCHANGED pc
    /\ touched' = touched \cup {p}
    /\ UNCHANGED <<db, starts, faults, undone, raced>>

-----------------------------------------------------------------------------
(* Migrator and sql-migrate *)

\* Mutant: a schema that misses one migration counts as up to date.
UpToDateTolerant(mTotal, mApplied) == mTotal <= mApplied + 1

\* upSync has nothing to apply.
UpToDate(mTotal, mApplied) == mTotal <= mApplied

\* MigrateStatus: only the number of the records counts; more than the release has
\* migrations is an error.
ReadStatus(p) ==
    LET mTotal   == mem[p].total
        mApplied == Cardinality(records)
    IN  /\ pc[p] = "status"
        /\ IF mTotal < mApplied
             THEN Exit(p, "failed")
             ELSE /\ mem' = [mem EXCEPT ![p].applied = mApplied]
                  /\ pc' = [pc EXCEPT ![p] = IF UpToDate(mTotal, mApplied) THEN "report"
                                                                         ELSE "plan"]
        /\ UNCHANGED <<db, starts, faults, history>>

Forward(S) == {[id |-> m, up |-> TRUE] : m \in S}
First(S)   == {m \in S : \A x \in S : m <= x}

\* The migrations without a record below a recorded one.
Missed == {m \in Migrations \ records : \E x \in records : m < x}

\* The last recorded migration, if there is one.
LastRun == {m \in records : \A x \in records : x <= m}

\* Mutant: the new migrations start one too late.
NewOnesLate(p) == {m \in 2..mem[p].total : \A x \in records : x + 1 < m}

\* The migrations above the last recorded one.
NewOnes(p) == {m \in 1..mem[p].total : \A x \in records : x < m}

\* PlanMigration: the missed migrations (in the direction up, always), then all new
\* ones, or the next one, or the last one back.  That is the order of their numbers.
PlanFor(p) ==
    Forward(Missed) \cup
        CASE mem[p].act \in Sync -> Forward(NewOnes(p))
          [] mem[p].act = "up"   -> Forward(First(NewOnes(p)))
          [] Down(p)             -> {[id |-> m, up |-> FALSE] : m \in LastRun}

\* A record of a migration this release does not have is an error.
MakePlan(p) ==
    /\ pc[p] = "plan"
    /\ IF records \subseteq 1..mem[p].total
         THEN /\ mem' = [mem EXCEPT ![p].plan = PlanFor(p)]
              /\ pc' = [pc EXCEPT ![p] = "apply"]
              /\ raced' = (raced \/ \E q \in Procs \ {p} : pc[q] = "apply" /\ Down(p) # Down(q))
         ELSE Exit(p, "failed") /\ UNCHANGED raced
    /\ UNCHANGED <<db, starts, faults, touched, undone>>

\* Whether PostgreSQL can run a migration and its record: what it creates must not be
\* there, what it alters or drops must, and tables others refer to are not dropped.
CanRun(p, m) ==
    IF m.up THEN /\ m.id \notin schema /\ (m.id = Base \/ Base \in schema)
                 /\ (Down(p) \/ m.id \notin records)
            ELSE m.id \in schema /\ (m.id = Base => Tags \notin schema)

\* The transaction of one migration, with its record.  Without the tables of the first
\* migration nothing is left of the others.
Run(p, m) ==
    /\ schema' = CASE m.up                   -> schema \cup {m.id}
                   [] ~m.up /\ m.id = Base   -> {}
                   [] ~m.up /\ m.id # Base   -> schema \ {m.id}
    /\ records' = IF Down(p) THEN records \ {m.id} ELSE records \cup {m.id}
    /\ undone' = IF Down(p) THEN undone \cup {q \in Procs : Up(q)} ELSE undone

Others(p) == {q \in Procs \ {p} : Starting(q)}

\* The migration of the plan that is next.
Due(p, m) == m \in mem[p].plan /\ \A x \in mem[p].plan : m.id <= x.id

Apply(p, m) ==
    /\ pc[p] = "apply" /\ Due(p, m) /\ CanRun(p, m)
    /\ Run(p, m)
    /\ mem' = [mem EXCEPT ![p].plan = @ \ {m}, ![p].n = @ + 1]
    /\ touched' = touched \cup Others(p)
    /\ UNCHANGED <<pc, starts, faults, raced>>

\* The migration is rolled back and the process gives up.
ApplyRefused(p, m) ==
    /\ pc[p] = "apply" /\ Due(p, m) /\ ~CanRun(p, m)
    /\ Exit(p, "failed")
    /\ UNCHANGED <<db, starts, faults, history>>

\* Mutant: the number run is compared with all migrations.
ExpectedAll(p) == IF mem[p].act \in Sync THEN mem[p].total ELSE 1

\* The number of migrations the process expects to have run.
Expected(p) == IF mem[p].act \in Sync THEN mem[p].total - mem[p].applied ELSE 1

AppliedAll(p) ==
    /\ pc[p] = "apply" /\ mem[p].plan = {}
    /\ GotoOrFail(p, mem[p].n = Expected(p), "report")
    /\ UNCHANGED <<db, starts, faults, history>>

\* The status is read again, for the log; a standalone run ends here.
Report(p) ==
    /\ pc[p] = "report"
    /\ IF mem[p].act = "serve" THEN Goto(p, "services") ELSE Exit(p, "off")
    /\ UNCHANGED <<db, starts, faults, history>>

\* The mail pool, the Ethereum client and the APIs.
StartServices(p) ==
    /\ pc[p] = "services"
    /\ Goto(p, "serving")
    /\ UNCHANGED <<db, starts, faults, history>>

-----------------------------------------------------------------------------
(* Failures *)

Fault == faults < MaxFaults /\ faults' = faults + 1

\* A call to the database, or to another service, fails.
CallFails(p) ==
    /\ Fault /\ pc[p] \in {"status", "plan", "apply", "report", "services"}
    /\ pc[p] = "apply" => mem[p].plan # {}
    /\ Exit(p, "failed")
    /\ touched' = touched \cup {p}
    /\ UNCHANGED <<db, starts, undone, raced>>

\* A migration is committed and its answer lost: the process takes it for a failure.
CommitLost(p, m) ==
    /\ Fault /\ pc[p] = "apply" /\ Due(p, m) /\ CanRun(p, m)
    /\ Run(p, m)
    /\ Exit(p, "failed")
    /\ touched' = touched \cup Others(p) \cup {p}
    /\ UNCHANGED <<starts, raced>>

\* SIGTERM, or a crash; a transaction of the process is rolled back.
Stop(p) ==
    /\ Fault /\ Up(p)
    /\ Exit(p, "off")
    /\ UNCHANGED <<db, starts, history>>

-----------------------------------------------------------------------------
Step(p) ==
    \/ Connect(p) \/ ConnectFails(p)
    \/ ReadStatus(p) \/ MakePlan(p)
    \/ \E m \in Planned : Apply(p, m) \/ ApplyRefused(p, m) \/ CommitLost(p, m)
    \/ AppliedAll(p) \/ Report(p) \/ StartServices(p)
    \/ CallFails(p)

Next ==
    \E p \in Procs :
        \/ \E a \in Actions, release \in Releases : Start(p, a, release)
        \/ Step(p) \/ Stop(p)

Spec     == Init /\ [][Next]_vars
FairSpec == Spec /\ \A p \in Procs : WF_vars(Step(p))

-----------------------------------------------------------------------------
(* Properties *)

\* Type invariant.
TypeOK ==
    /\ schema \subseteq Migrations /\ records \subseteq Migrations
    /\ pc \in [Procs -> Ended \cup {"connect", "status", "plan", "apply", "report",
                                    "services", "serving"}]
    /\ mem \in [Procs -> Memory]
    /\ starts \in 0..MaxStarts /\ faults \in 0..MaxFaults
    /\ touched \subseteq Procs /\ undone \subseteq Procs /\ raced \in BOOLEAN

\* However many processes migrate at once, and wherever they die, the migrations in
\* effect are those recorded and have no gap: a start can always go on from there.
\* Only a "down" that overlaps another migration can break this.
SchemaIsRecorded ==
    ~raced => schema = records /\ records = 1..Cardinality(records)

\* "Check that all migrations are applied before proceeding" (main): a process serves
\* only on a schema that has every migration its release was written for, although
\* upSync compares numbers and reads them before it acts - as long as no migration was
\* taken back since the process was started.
ServesFullSchema ==
    \A p \in Procs : pc[p] = "serving" /\ p \notin undone /\ ~raced
                       => 1..mem[p].total \subseteq schema

\* A start refuses to go on (log.Fatal) only if something failed, another process
\* migrated meanwhile, or the schema is newer than the release: an interrupted
\* migration never makes the next start impossible.
RefusedForCause ==
    [][\A p \in Procs :
         pc[p] # "failed" /\ pc'[p] = "failed" /\ mem[p].act \in Sync
           => p \in touched' \/ raced \/ ~(records \subseteq 1..mem[p].total)]_vars

\* A start ends, serving or not, also when the database never answers.
StartEnds ==
    \A p \in Procs : pc[p] = "connect" ~> pc[p] \in Ended \cup {"serving"}
=============================================================================
