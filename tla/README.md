# A formal model of the Vocdoni manager backend

TLA+ modules that model the parts of the backend where concurrent requests,
failures and crashes meet, TLC configurations that check them on small
instances, and TLAPS proofs of what matters most for every size of instance.
`PROJECT.json` lists components, runs, mutants, the correspondence with the
source, findings, hazards and theorems; this file explains them.

Paths below are relative to the repository (`src/`).

## 1. The system

The backend is one Go process with JSON APIs over HTTP, a PostgreSQL database, an
SMTP server and an Ethereum node.  The repository has three APIs; at this commit
`main` wires only the manager API, the lines that enable the registry and the
token API are commented out (`cmd/dvotemanager/dvotemanager.go` 317-335).  Their
handlers are in the repository, with its tests, and are modelled as they stand:

| Component | State | Operations | Talks to |
|---|---|---|---|
| Registry API (`registry/registry.go`), for voters | none of its own | `register`, `validateToken`, `registrationStatus`, (un)subscribe | database; HTTP callback of the entity after a validation |
| Manager API (`manager/manager.go`), for entities | none of its own | sign up, members, tokens, tags, targets, censuses, mails, gas | database, SMTP, faucet |
| Token API (`tokenapi/tokenapi.go`), for integrators | none of its own | `generate`, `revoke`, `status`, `importKeysBulk`, `listKeys`, `deleteKeys`, authenticated by a hash over a timestamp | database |
| Database (`database/pgsql/pgsql.go`) | tables entities, users, members, tags, targets, censuses, census_members | one method per operation; some are one statement, some a transaction, some mix both | PostgreSQL through an unbounded `sqlx` pool |
| Schema and migrations (`database/pgsql/migrations.go`) | constraints, the records of sql-migrate | `upSync`, `up`, `down` | PostgreSQL |
| Faucet (`ethclient/ethclient.go`) | a pool of signers, each with a channel `Taken` of capacity one | `SendTokens`, `waitForTx` | Ethereum node |
| Mail (`smtpclient/`) | none | one mail per call | SMTP server |
| Process (`cmd/dvotemanager`) | none | connect, migrate, start the mail pool, the faucet and the APIs | all of the above |
| Router, configuration, metrics (`rpcapi/`, `config/`) | none | wiring | go-dvote's HTTP router |

Every request runs in a goroutine of its own and nothing in the process is
shared between requests, except the signers of the faucet.  What requests share
is the database, at PostgreSQL's default isolation level READ COMMITTED: each
statement sees what was committed when it started, a statement that meets a row
another transaction has written waits for it, and constraints are checked
against what that transaction left.

### What is hard here

* **Check, then write.**  Most handlers read something, decide, and write with a
  later statement: the key of a token's member (`validateToken`), the user of a
  key (`RegisterMember`, `AddMember`), the existence of a tag
  (`AddTagToMembers`), the members of a census (`ExpandCensusMembers`), the
  balance of an address (`SendTokens`).
* **Transactions and connections left open.**  Several paths return without a
  rollback: `RegisterMember` and `AddMember` when the lookup of the user fails,
  `AddMemberBulk` when a row of its list is invalid, `DeleteTag` when a statement
  fails, `ExpandCensusMembers`, `AddEntity` when the entity exists.  Whether others
  then wait for ever depends on what the transaction holds.  `AddTarget` and
  `AddTag` never close the rows of their INSERT.  All of these lose their
  connection until the process ends, and the server has a limited number.
* **Several steps, no transaction.**  `signUp` stores the entity, stores its
  target and asks the faucet, and takes some errors of the first two for "done
  before"; `dumpCensus` and `updateCensus` are tied together by the client only.
* **Failures between steps.**  A mail is sent and the tag is not stored; a
  commit succeeds and its answer is lost; the process dies anywhere.
* **Goroutines.**  The mail handlers start one per member and talk to them over
  bounded channels and a wait group that both sides use in more than one way.
* **Time.**  Requests of the token API are authenticated by a hash over a
  timestamp and the entity's secret, checked with 32 bit arithmetic; they arrive
  late, or twice, or while the secret changes.
* **Processes.**  Several processes, of several releases, may start on one
  database and migrate it.
* **Limits.**  65535 placeholders in a statement; one pending transaction per
  signer.

### What makes each component correct

* Registration: a key belongs to one member of an entity; a user exists before
  its member and never without one; what was answered ok is stored; a token is
  used once; a revoked token stays revoked; every request is answered.
* Links: a member is tagged only with a tag of its own entity, by a request of
  that entity that mailed it; the count is what was
  mailed; verified members are left alone; the handler answers.
* Tags: `addTag` gives a member tags of its own entity only, whoever asks
  (`updateMember` writes what it is sent); deleting a tag is all or nothing, and no
  `addTag` that comes later brings the tag back.
* Sign up: an entity that was told it is signed up is stored with its target,
  whatever earlier attempts left behind; only stored entities get gas; gas requests
  and imports lose no connections (sign ups do, one with every repetition).
* Imports: a list is stored as a whole or not at all, an address once.
* Censuses: a member gets at most one claim per census; claims belong to members
  that exist; the published root covers the claims; the links that are mailed
  are those of the stored claims.
* Faucet: a signer serves one call at a time and has one pending transaction; a
  call sends once; signers are freed; calls return.
* Token API: an answered request is fresh and knows the current secret; a key is
  imported once, a list as a whole or not at all.
* Startup: the records tell what the tables show; a process serves only on a
  schema that is complete for its release; an interrupted migration does not
  prevent the next start.
* Bulk insert: no statement exceeds the limit; all rows, each once, or none.

## 2. The modules

A request, call or goroutine is an element of a finite constant set and is
served once; `pc` says where it is in its handler.  Each statement, remote call
or channel operation is one step, and the guards are the handler's conditions.
Conditions of a request that involve no shared state (length of the signature's
key, the derivation of the entity id) are left out: such a request ends before
its first step.  `Faults` adds a failing statement at every point, a commit that
is applied but whose answer is lost, and the death of the process.

| Module | Models | State and the code behind it |
|---|---|---|
| `Registry` | `validateToken`, `register`, the database part of `sendValidationLinks`, token creation, revocation and deletion of members and keys, storing of entities, `deleteTag` of PendingValidation as one step (`Tags` has its statements) | `entities`, `users`, `members`, `tags` are tables; a tag id is named after the request that inserts it. `pending` are the PendingValidation ids in the array of a member, those `sendValidationLinks` wrote: what `addTag` and `updateMember` of the API do to the same column is the subject of `Tags`. `newUser`, `newRow` are the uncommitted writes of a request's transaction and act as its locks; `openTx` are the transactions nobody ended. `linked`, `req.late` are history for the properties |
| `Enrolment` | abstract: what `validateToken` and `register` promise, each as one step. A client asks, its member and key are linked atomically or not at all, and only then it is told so; a key is on the roll of an entity once, nobody removed returns | `roll` (members with their keys), `users`, per request `call` and `state` |
| `Onboarding` | `signUp` (`AddEntity`, `AddTarget`, the faucet as separate steps), `requestGas`, `importMembers` (`ImportMembers` row by row), `updateMember`'s address, over a server with `MaxConns` connections | `entities`, `targets`, `members` are tables, `paid` what the faucet sent; `conns` are the open transactions, `inserted` how many rows each has inserted (which are its locks), `stranded` the connections nobody gives back: `AddEntity`'s after a duplicate entity, `AddTarget`'s rows. `hurt` is history: which requests a failure has hit |
| `MailFanout` | the goroutines of `sendValidationLinks` and `sendVotingLinks` (`kind`; the latter has no check for a key) with the steps of the SMTP client: composing, which fails for an incomplete member, and sending; wait group, channels `ec` and `sc`, collection of the results | counters of the wait group and channels, per goroutine a `pc`; sending on a closed channel and a negative counter are panics that end the process |
| `Tags` | `createTag`, `addTag`, `removeTag`, `deleteTag`, `updateMember` with any ids, or without tags | `tags` is the table, `memberTags` the array column of members, `locked` the rows the open transaction of a `deleteTag` has updated. An UPDATE chooses its rows when it starts and looks at them again after a wait. Ids the sequence has not drawn yet stand for any other integer a client may send; the tables start with tags of the own entity on the members |
| `Census` | `addCensus`, `updateCensus`, `deleteCensus`, `dumpCensus` and `sendVotingLinks` (to all, or to one address) with members that join, register and are deleted | `rows` is census_members; `root` names the dump whose claims the published root stands for; `given` and `stale` are history; a claim is the member's own key or an ephemeral key named after the request that generated it; `inserted` are uncommitted rows, which lock the members and census they refer to |
| `Faucet` | `SendTokens`, `checkEnoughBalance`, `sendTokens`, `waitForTx` | `taken` is the channel of each signer; the node (pool of transactions, mining, dropping) is the environment |
| `TokenApi` | `generate`, `revoke`, `status`, `importKeysBulk` (`AddMemberBulk`), `deleteKeys`, each behind `checkAuth` | `clock` and the timestamps are 32 bit integers scaled down to `-Half..Half-1`; `version` numbers the entity's secrets; `users` and `rows` are tables (deleted rows are kept as history), `held` the users an open import has inserted. A request is authenticated with a secret read in one step and executed in later ones |
| `Startup` | `main` up to serving, `pgsql.New`, `Migrator` with `MigrateStatus`, `Migrate` and `MigrationUpSync` | `schema` is what the tables show, `records` the table of sql-migrate (external: plan, then one transaction per migration); `mem` is the memory of each process, its plan a set of migrations that is executed in the order of their numbers, which is the order sql-migrate sorts it in; `touched`, `undone`, `raced` are history |
| `BulkInsert` | `bulkInsert` | the loop's `i`, the rows inserted, the size of the last batch |

`Registry` uses the result of `MailFanout` as an interface: its action
`MailsSent` goes on with any set of ids that `MailFanout` can report, and the
property `AllReportedOnlyIfClean` of `MailFanout` is what its guard says.
`BulkInsert` stands behind the one-step inserts of `Registry` and `Census`
(`AllOrNothing`), and behind the row by row one of `Onboarding`.  `Onboarding`
takes the outcomes of `SendTokens` from `Faucet`; `Census` leaves the counting of
its mails to `MailFanout`.

`Registry` implements `Enrolment`: the instance `E` maps the members to the roll,
leaves mails, tags and locks out, and takes a request to be enrolled once its
transaction is committed (`tagOf`, `untagCheck`, `untag`: what `validateToken` still does
afterwards), answered when its handler has returned.  The property
`ImplementsEnrolment` is the abstract specification under this mapping; the
abstract step `Enrol` has the conditions a client relies on (the member is still
there and of the entity of the request, no other member of that entity has the key), so every
commit of `Registry` has to satisfy them at the moment it happens, although the
handlers checked them with earlier reads.

`MCRegistry`, `MCOnboarding`, `MCMailFanout`, `MCTags`, `MCCensus`, `MCFaucet`,
`MCTokenApi`, `MCStartup` and `MCBulkInsert` give TLC the instances;
`RegistryProofs` (with the refinement of `Enrolment`), `MailFanoutProofs`,
`FaucetProofs`, `CensusProofs`, `TagsProofs`, `OnboardingProofs` (with
`BulkInsert`, whose specification is called `BulkSpec` for that), `TokenApiProofs`
and `StartupProofs` hold the theorems.

### PostgreSQL as modelled

* READ COMMITTED; a transaction's own writes are invisible to others until the
  commit, which is one step.
* A write waits for the row lock, for an uncommitted row of the same unique key
  and, for a reference, for the row referred to.  A registration updates
  `public_key`, which is part of a unique index, so it also conflicts with the
  FOR KEY SHARE lock of a `census_members` row.
* A failed statement aborts the transaction and frees its locks at once, even
  when the handler forgets the rollback: what leaks is the connection.  A
  handler that returns without a rollback after statements that *succeeded*
  keeps its locks; `Census` and `Registry` have such paths, and what is left
  locked would show as a request that waits for ever (`EveryRequestAnswered`,
  `EveryDumpAnswered`; for `Registry` `NoLockAfterAnswer` proves that nothing is).
* Several rows are locked in one step.  Two statements that would lock rows in
  opposite orders make PostgreSQL abort one of them, which is a failing
  statement of the model.

## 3. The runs

Passing runs (each property has a mutant of the modelled code that breaks it):

| Run | Instance | Properties |
|---|---|---|
| `registration` | 2 requests of any kind, 2 keys, 2 members, 2 entities, the tag deleted at any time, faults (511 000 states) | `UserBeforeMember`, `OneKeyPerEntity`, `NoOrphanUsers`, `OkIsDurable`, `NoReuseAfterAnswer`, `OnlyOwnMembersTagged`, `ImplementsEnrolment`, `EveryRequestAnswered` |
| `onboarding` | 3 requests of any kind, 1 entity, lists of two addresses (both orders, one address twice, no addresses), 3 connections, faults (347 000 states) | `SignUpCompletes`, `PaidAreSignedUp`, `StrandedBounded`, `ImportedWholeOnce`, `EveryRequestAnswered` |
| `mail_fanout` | 3 goroutines of either handler, any members verified or incomplete, any mail failing (142 000 states) | `CleanBatchComplete`, `AllReportedOnlyIfClean`, `AnsweredOrDead` |
| `tags` | 2 requests of any kind, 2 entities with a member each, 2 tag ids, any ids sent, faults (582 000 states) | `DeletedUnlessReadded`, `OwnTagsUnlessSent`, `DeleteIsAtomic`, `EveryRequestAnswered` |
| `census` | 2 dumps, 1 sender, 2 members, 1 census, deletions, faults (857 000 states) | `OneClaimPerMember`, `ClaimsAreBacked`, `RootCoversClaims`, `LinksAreClaims`, `EveryDumpAnswered` |
| `faucet` | 3 calls, 2 addresses, 2 signers, one failing call to the node, dropped transactions (220 000 states) | `SignerExclusive`, `OnePendingPerSigner`, `OneTxPerCall`, `EveryCallReturns`, `FreedUnlessDropped` |
| `token_api` | 2 requests of any kind, delayed or repeated, 2 keys listed in both orders, one change of the secret, a clock around its overflow, faults (471 000 states) | `StaleRefused`, `ImportedOnce`, `NoHalfImport`, `EveryRequestAnswered` |
| `startup` | 2 processes started 3 times in all, to serve or for `up` or `down`, releases with 2 and 3 migrations, one fault, on a database that is empty or has the schema of any release (454 000 states) | `SchemaIsRecorded`, `ServesFullSchema`, `RefusedForCause`, `StartEnds` |
| `bulk_insert` | every call site, lengths 0 to 30, limit 47 | `BatchFits`, `AllOrNothing` |

Every module but the abstract `Enrolment` states a `TypeOK`; all are proved (that
of `BulkInsert` as part of its loop invariant).

Violated, with a finding each (what the code does against what a comment, test
or README of the repository says):

| Run | What happens |
|---|---|
| `token_twice` | Two concurrent `validateToken` with different keys are both answered ok; the second key overwrites the first. A later request cannot do this (`NoReuseAfterAnswer`, proved). |
| `tags_dangling` | `addTag` writes the id of a tag that a concurrent `deleteTag` has removed. A later `addTag` cannot (`DeletedUnlessReadded`, proved); an `updateMember` can at any time. |
| `faucet_dropped` | The signer of a dropped transaction is never freed. |

More disagreements were met while modelling and are not stated as runs:

* a member that validates while its link is being mailed keeps the tag
  PendingValidation (`registry/README.md:52` says it is removed): the tag is added
  (`manager/manager.go:1094`) to members read before the mails;
* `sendValidationLinks` can write the id of a PendingValidation tag that was
  deleted after it looked the tag up, as `addTag` can (`OnlyOwnMembersTagged` says
  whose tag it was, not that it exists);
* `updateMember` writes any tag ids it is sent (`database/pgsql/pgsql.go:678`), of
  deleted tags and of other entities too; `removeTag` and `deleteTag` refuse to
  remove such an id again;
* the comment on `AddMemberBulk` (`database/pgsql/pgsql.go:600`) still names a limit
  of 5000 members: `bulkInsert` splits lists of any length into batches;
* a dump that has read its census before it was deleted and created again stores
  claims in the new one, which may then hold claims of two dumps
  (`RootCoversClaims` excludes such dumps);
* `sendVotingLinks` for an address no member has panics (`MemberByEmail` takes the
  first of no rows);
* two faucet calls for one address that both read a zero balance both send;
* a dump that read no eligible member is answered ok and leaves the census open
  (`manager/README.md:799` calls it closed), and if it commits last it sets the
  size of a populated census to zero;
* a verified member is mailed all the same (`manager/README.md:329` says it is
  ignored): the goroutine reports the error and goes on;
* the window of `checkAuth` is 300 seconds (`tokenapi/tokenapi.go:18`), its
  README says 3; `status` reports any database error as `invalid`;
* `upSync` gives up (`n != mTotal-mApplied`) when another process has applied
  some of the missing migrations meanwhile, although the schema is then complete;
* a standalone `down` that overlaps another migration can leave records that
  tell something else than the tables, and no later start notices (`raced` in
  `Startup` excludes it).

### Bounds, and why they are enough

Two requests show every race between a check and a write, and every wait for a
lock; what a third one could add to the safety of registrations is covered by
the proofs, which hold for any number.  Two members of an entity are needed for
uniqueness, two entities for isolation.  Ids are never reused by the code
(uuids, a sequence), so `MaxTag` bounds how many are drawn: `CreateTag` is
received only while an id is left for it.  In `Faucet`, `MaxErrors` bounds the
failing calls to the node, so that the run can ask what happens once it answers
again; one failure is enough to send twice or to free a signer too early.  The
first signer can pay for one transfer and then has the amount but not the gas of
another, three calls for two signers make one go round the pool.
In `Onboarding` three requests are a sign up that fails half way, one that
repeats it and one beside them; three connections are as many as they need, so
that a stranded one makes `Beginx` fail.  In `Census` one sender is enough: what
it mails depends on the dumps only, not on other senders.
In `TokenApi` the clock runs from 2 to 4 with `Half` 4 and a window of one
tick, which gives an ordinary window, one whose upper bound overflows and a
clock that has wrapped (`ClockAssumption` keeps it from coming back to zero, see 4); `MaxVersion` bounds the changes of the secret.  In `Startup` the
migrations have their numbers in the repository: 1, which creates all tables, 2,
which alters one as 4 to 7 do, and 3, which creates a table that refers to the
first; `MaxStarts` and `MaxFaults` leave room for a failed start, a concurrent
one and a restart; two attempts to connect stand for five.
`BulkInsert`'s limit 47 stands for 65535: it gives batches of 3 to 23 rows, with
one remainder each, and lengths around several boundaries; the proofs cover
every limit.

Symmetry is used in the violated safety runs only, over sets that no action or
property orders.  Deadlock is not checked where every request is served once and
the system therefore stops.

### Fairness

`FairSpec` gives weak fairness to the steps a handler takes by itself: the Go
scheduler runs a goroutine that can run, and PostgreSQL wakes the waiters of a
lock.  Faults, crashes, the arrival of requests and administrative calls get
none.  In `Startup` a process goes on, but which outcome a call has is not fair,
and nothing restarts a process (the compose file gives the backend no restart
policy).  In `Faucet`
mining is fair as well, for transactions the chain has not forgotten: it is the
assumption under which the code can free a signer (`faucet_dropped` shows what a
forgotten one does, `FreedUnlessDropped` that nothing else does it).  In `Onboarding`
the faucet returns, which `Faucet` shows under the same assumption.  In
`MailFanout` fairness is part of `Spec`: its goroutines always run.

## 4. The proofs

Every theorem holds for any values of the constants that satisfy the named
assumptions of its module, so for any number of requests, members, signers or
goroutines, with or without faults.  The pattern is the same everywhere: an
inductive invariant that the initial states satisfy (`Init...`), one lemma per
action or per group of actions that touch the same conjuncts, a lemma that puts
them together for `[Next]_vars`, and the theorems, which follow by `PTL`.  Each
inductive invariant was checked by TLC on the instance of its run first.

| Module | Theorems (property) |
|---|---|
| `RegistryProofs` | `RegistryTypeOK`, `UserAlwaysBeforeMember` (`UserBeforeMember`), `KeysUniquePerEntity` (`OneKeyPerEntity`), `UsersAreLinked` (`NoOrphanUsers`), `AnswersAreDurable` (`OkIsDurable`), `NoLateReuse` (`NoReuseAfterAnswer`), `NoLockAfterAnswer` (`FinishedHoldsNothing`), `RegistrationsNeverDeadlock` (`NoDeadlock`), `RevocationIsFinal` (`RevokedStaysRevoked`), `TaggedAreOwn` (`OnlyOwnMembersTagged`), `RegistryImplementsEnrolment` (`ImplementsEnrolment`) |
| `MailFanoutProofs` | `MailFanoutTypeCorrect`, `CleanBatchesComplete` (`CleanBatchComplete`), `AllReportedAreClean` (`AllReportedOnlyIfClean`) |
| `FaucetProofs` | `FaucetTypeCorrect`, `SignersAreLocks` (`SignerExclusive`), `PendingSerialised` (`OnePendingPerSigner`), `PaidOnce` (`OneTxPerCall`) |
| `CensusProofs` | `CensusTypeCorrect`, `OneVotePerMember` (`OneClaimPerMember`), `StoredClaimsBacked` (`ClaimsAreBacked`), `LinksMatchClaims` (`LinksAreClaims`), `RootsCoverClaims` (`RootCoversClaims`) |
| `TagsProofs` | `TagsTypeCorrect`, `TagsStayOwn` (`OwnTagsUnlessSent`), `DeletedStaysDeleted` (`DeletedUnlessReadded`), `DeletesAreAtomic` (`DeleteIsAtomic`) |
| `OnboardingProofs` | `OnboardingTypeCorrect`, `SignUpsComplete` (`SignUpCompletes`), `OnlySignedUpArePaid` (`PaidAreSignedUp`), `StrandingIsBounded` (`StrandedBounded`), `ImportsAreWhole` (`ImportedWholeOnce`); of `BulkInsert`: `BatchesFit` (`BatchFits`), `BulkInsertAllOrNothing` (`AllOrNothing`) |
| `TokenApiProofs` | `TokenApiTypeCorrect`, `StaleNeverRuns` (`StaleRefused`), `KeysImportedOnce` (`ImportedOnce`), `ImportsAllOrNothing` (`NoHalfImport`) |
| `StartupProofs` | `StartupTypeCorrect`, `SchemaAlwaysRecorded` (`SchemaIsRecorded`), `ServesOnFullSchema` (`ServesFullSchema`), `RefusalsHaveCause` (`RefusedForCause`), `StartsRunOut` (`StartRunsOut`) |

### Registry

Assumes only `RegistryAssumption` (the "no value" constants are none of the
values).  None of the properties is inductive.  `IInv` adds:

* `ReqInv`: what a request's step implies about its arguments, its transaction
  and its answer;
* `LockInv`: no two open transactions have written the same user, row, or key
  of an entity - the locks do exclude;
* `RowInv`: a request about to commit has established that no other row of its
  entity carries its key and that its row is still there; this survives other
  requests' steps because of `LockInv`;
* `AnswersKept`, `CheckPassed`, `LateRefused`: what earlier answers still
  guarantee.  `OkIsDurable` for `register` needs to know that no `validateToken`
  past its check works on that member; `NoReuseAfterAnswer` that a late request
  never gets past the check, because a key once set is only overwritten or
  deleted with its row.

`RegistrationsNeverDeadlock` is the part of `EveryRequestAnswered` that is not
about fairness, for any number of requests: `NoDeadlock` says that among any
requests one waits for none of the others.  It follows from `ReqInv`: who waits
for a user has written nothing, who waits for a row has written at most a user,
and who has written a row waits for nothing.  A statement that
updates several rows (`AddTagToMembers`) is one step of the model, so such
statements are not part of the claim.

`TaggedAreOwn` has an invariant of its own, `TagInv`, on top of `IInv`.  The id of
a tag outlives the tag: it may be held by a request that has looked it up, and be
written after the tag was deleted.  So `TagInv` says of the ids in the table and of
those that requests at `tagCheck` and `tagMembers` hold, and not only of the ones
on members, that they were drawn for the entity they are used for (`TagOf`); and
the request a member owes its tag to is over (`TaggedBy`; a request that is still
mailing may yet drop the member from its ids, so it must not be the witness).

`RegistryImplementsEnrolment` shows that `Spec` implies `ImplementsEnrolment`.
The initial states map to initial states; then there is one lemma per group of
actions (`...Simulated`, `MailsHidden`), which says which abstract step each is:
most are stutters, `Commit` and `CommitUnknown` are `Enrol`, the last step of a
handler is `Confirm` or `Fail`, a crash fails all requests in flight.  That
`Enrol` is possible when `Registry` commits is what `IInv` gives (`RowInv`: the
row is still there and no other row of the entity has the key); one more
invariant is needed, `EntityKnown`: the entity of a request that is in its
transaction is stored.  `Enrolment` does not say that a member is enrolled once:
two overlapping validations of a token both take effect (`token_twice`).

### MailFanout

Assumes that there is a member and that they are finitely many
(`WorkersAssumption`).  `MailInv` has two independent parts.  As long as nothing
has failed (`CleanInv`), `wg` is the number of goroutines that have not ended, by
the cardinality of a set that loses one element per `wg.Done()`; so the counter is
not zero before a `Done`, and the handler closes the channels only when nobody can
send on them any more.  Once something has failed this is lost (a goroutine calls
`wg.Done()` twice and the handler may go on too early); what remains is `ErrorInv`:
while `ec` is empty, a verified or failed member's goroutine is not past its
error, and a reported member's is past its report.  With the counts that
`Collect` compares, and closed channels that do not change, that is
`AllReportedOnlyIfClean`, for batches that panic later too.

### Faucet

Assumes `FaucetAssumption` (there is a signer, the amounts are numbers, `NoTx` is
no transaction).  `FaucetInv` adds to the type and the properties
`HandOver`, how a signer passes from the call to the goroutine that waits for its
transaction; `ChainInv`, nonces of a signer grow, and a
transaction in the pool is waited for, or the node gave an error about it; and `HeardInv`,
the set whose cardinality `OneTxPerCall` counts.

### Census

Assumes `CensusAssumption` (the marks "own" and "none" are no requests, dumps and
senders are different, members are finitely many).  `CensusInv` adds `ReqInv`, the
list of a dump has one claim per member and is what its transaction inserts;
`ClaimInv`, a committed claim stays until its member is deleted, and every stored
one was committed; `TxInv`, the locks: what an open transaction refers to is kept,
no two of them insert for one member, none for a member that was given a claim;
and `ReadInv`, which `RootCoversClaims` needs: the members two dumps of one census
have read are ordered by inclusion, as far as they still exist, because members of
a target leave it only when they are deleted.  So of two dumps either one inserts
nothing new or the primary key refuses it.

### Tags

Assumes `TagsAssumption`: members belong to entities, there is room for a tag id,
and the requests are finitely many (the ids of inserts under way are counted).
`TagsInv` adds `SeqInv`, the sequence has an id for every insert under way;
`OwnInv`, every tag of a member was drawn by its entity or sent by an
`updateMember` of that member; `DelInv`, a `deleteTag` in progress has every member
that carries the tag in its snapshot, then among its locks, unless the tag was
added since (`Readded`: by an `addTag` that overlaps it, or by an `updateMember`);
and `LateInv`, an `addTag` that arrives after the answer of a `deleteTag` does not
take the tag for one that exists.  `DeleteIsAtomic` is an action property, proved
from `TagsInv` action by action.

### Onboarding

Assumes `OnboardingAssumption` (lists are sequences of addresses).
`OnboardingInv` adds what a sign up knows at each step (past `target` the entity
is stored, and its target unless a failure hit this very request), which
connection was stranded for what, and for imports: the open transaction of an
import holds the addresses of its first `inserted[r]` rows, none twice, none
stored, and no two open imports hold one address (`HeldOnce`).  The last is what
the unique index, through its waits, provides; the theorem shows it is enough.

### TokenApi

Assumes `TokenApiAssumption` (types; requests are not called "seed" or "none")
and `ClockAssumption`: the clock ends a window before 32 bit time comes back to
zero (`End + AuthWindowSeconds < 2 * Half`, with the code's width the year 2106).
Without it `StaleRefused` is false: a timestamp one whole turn old is the
current one.  The lemmas `Int32Is` and `LateRefused` are the arithmetic of
`checkAuth`: a timestamp whose window has passed is refused also where the upper
bound, the clock, or both have overflowed in 2038, for every window and every
width.  `TokenInv` adds what a late or outdated request is still known to be when
it is authenticated (its window stays passed, its secret stays replaced), that an
open import holds the first keys of its list and none that is a user, that no two
hold one key, and that a request has imported no key or all.

### Bulk insert

Assumes `BulkInsertAssumption` (a row has no more placeholders than the declared
number of fields, and two rows fit).  The loop invariant `BulkInv` says that the
rows inserted are exactly those below `i`.

### Startup

Assumes `StartupAssumption` (releases have 1 to 7 migrations, as the repository
has; the limits are numbers).  `StartupInv` adds to the type:

* `RecordInv`: what the tables show is what is recorded, the records are
  `1..k`, and all plans under execution go the same way (all of it unless `raced`);
* `PlanInv`: a plan is never ahead of the records - below a planned migration
  everything is recorded or planned too, however far others have come meanwhile,
  and above one to be taken back nothing is recorded.  With the order of execution
  this makes the next migration `k + 1`, or the last one `k`, and a transaction that
  PostgreSQL accepts keeps the records without a gap;
* `FullInv`: what a start needs is recorded or in its plan, until a migration is
  taken back; so it is all recorded when the plan is empty;
* `AloneInv`: as long as nobody else migrates, the number of records it has read plus
  the number it has run is the number of records, and nothing planned is recorded.
  `RefusedForCause` needs it: PostgreSQL refuses no step of such a start
  (`NotRefused`), and the comparison at its end succeeds (`AllApplied`).

The numbers are counted with the cardinality of intervals (`UpTo`).
`StartsRunOut` is the other half of `StartEnds`: every change of a started
process uses up a stage, an attempt or a migration of its plan, of which there
are finitely many; that a step is possible and is taken is fairness and stays
with TLC.

### Only model-checked

All liveness properties (`EveryRequestAnswered` of `Registry`, `Onboarding`,
`Tags` and `TokenApi`, `EveryDumpAnswered`, `EveryCallReturns`,
`FreedUnlessDropped`, `AnsweredOrDead`, `StartEnds`): fairness and ENABLED are
outside the prover.  Every other property of a passing run is proved.

## 5. Not modelled

* `subscribe`, `unsubscribe`, `listSubscriptions`: their bodies are commented out.
* `registrationStatus`, lists and counts, `listKeys`, `getCensus`, the migration
  action `status`: they only read.
* The registration callback: an HTTP request whose result is only logged.
* `AddCensusWithMembers`, `ImportMembersWithPubKey` (which stores users outside
  its transaction), `DeleteEntity`, `AuthorizeEntity`: no handler calls them.
* Columns that no operation looks at (names, addresses, the URI of a census).
* The connections that `AddTag`, `DeleteTag`, `AddMemberBulk`, `RegisterMember` and
  `AddMember` keep, and those of the other handlers, against the limit of the
  server: `Onboarding` has them for its own requests only.
* Templates of mails, the wire format, signatures, configuration, metrics.
* The router: it listens before the methods are registered
  (`cmd/dvotemanager/dvotemanager.go:236`), and a method is known to it before it
  is in the map of handlers (`rpcapi/rpcapi.go:59`), which `route` reads without a
  lock.  What a request meets then depends on go-dvote.
* The wait for a connection of the mail pool: `smtpclient/smtp.go:52` multiplies a
  second by a duration in nanoseconds, which overflows 64 bits with the default of
  30 seconds; a constant expression that needs no model.
* The test database, clients and generated code.

## 6. What could follow

* `registrationStatus` as an observer of `Enrolment`.
* Row by row locking of the statements of `Tags` and `Census` that touch several
  rows, with PostgreSQL's detection of deadlocks as `Onboarding` and `TokenApi`
  have it for imports.
* The connections of all handlers against the limit of the server.
