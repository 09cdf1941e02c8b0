# Customer accounts, payments and ledger verification: TLA+ models and proofs

These modules model the core of the repository: the ledger of customer
accounts, the way a payment takes from the message broker into that ledger,
the scheduled verification of ledgers, the administration and the listing of
accounts, and the migrations of the schema they share.
Paths below are relative to the repository's root; the lines a definition
translates are in `PROJECT.json` (`map`, with the prefix `src/`).

## The system

Three processes share one PostgreSQL database and one RabbitMQ broker: the
**API** (`src/statement/main.py`, FastAPI), the **consumers**
(`consumers_main.py`, pgqueuer jobs and schedules) and the **subscribers**
(`subscribers_main.py`, FastStream). Any number of each may run.

| Component | State | Operations | Talks to |
|---|---|---|---|
| Accounts (`domain/entities/account.py`) | `customer_account`: status, name, version | create, update, delete, lock | everything below |
| Ledger (same file, `infra/repository/account.py`) | `customer_account_ledger`: rows (no, amount, balance, operation id) | open with row 1, append the follower of the last row | payment handler, verifier |
| Payment subscribers (`app/subscribers/main.py`) | the broker's queues | turn a message into a `payment.create` job | broker, job table |
| Job queue (pgqueuer, `app/consumers/executor.py`) | the job table: status, attempts | pick, delete, retry, hold | consumers |
| Payment handler (`app/consumers/entrypoints/main.py`) | one transaction | lock account, check status, duplicate and funds, append | ledger |
| Verifier (`app/consumers/schedulers/main.py`, `infra/repository/ledger_verification.py`) | checkpoints and incidents | one batch per run under an advisory lock | ledger (reads only) |
| Incident endpoint (`app/routers/admin/account.py`) | checkpoints and incidents | read the incident, accept the rows as they are | verifier |
| Account endpoints (same file, `app/version_token.py`, `persistence/versioned_history.py`) | accounts, history rows, jobs | create with an event, update and delete under a version token | clients, job table |
| Announcement (`on_customer_account_created`) | -- | publish the event of a job | broker |
| Account list (`read/repository/account.py`, `app/schemas/`) | none; the client keeps the cursor | pages cut by a cursor of sort columns | clients |
| Schema migrations (`migrations/`, `domain/entities/`) | the schema, `alembic_version` | upgrade, downgrade, by hand | everything that writes rows |
| Customer import (`on_customer_created`) | `customer` | insert a customer once | broker |

What is hard here, and not reached by the repository's tests, which run one
call at a time on one session:

* *Interleaving*: workers, administrators and verifiers run statement by
  statement in READ COMMITTED; only the row lock of an account and the advisory
  lock of the schedule order them.
* *Delivery*: a message is delivered again or rejected half-way, a job is run
  again after a crash or after a COMMIT whose reply was lost, two living processes
  run one job because the heartbeat of the first was late.
* *Stale reads*: status, duplicate, last row, incident, checkpoint and version
  are read before they are used in later statements.
* *Partial failure*: an account and its event, an incident and its resolution are
  pairs of writes that must not come apart, and a request is answered before its
  transaction is committed.
* *No snapshot*: a client pages through accounts that are created and changed
  meanwhile; a migration meets rows, or another migration, that its plan did not
  know of.
* *Starvation*: accounts compete for the places of a verification run, workers
  for row locks.

`PROJECT.json` lists each hazard at its line with the properties that watch it.

What makes each component correct:

* ledger: rows are numbered densely in the order in which they become visible,
  every balance continues the one before, stays within its column and never
  falls below zero, and an operation has one row at most;
* queue: no acknowledged payment is lost, a deleted job is an applied payment, a
  failing job is held after the attempts it is entitled to and not much later;
* verifier: the first break is found exactly, nothing is checkpointed past it, an
  honest ledger is never reported, a quarantined account is left alone, what an
  administrator accepts is passed for good, every row is verified in the end;
* administration: no update is lost, no version is missing from the history, a
  deleted account stays deleted, an account and its event come together;
* list: the order holds across pages, an account that nobody touches is listed
  once, and the walk ends;
* migrations: the schema is the one that the recorded revision stands for, at the
  head it is the entities', a downgrade restores what the upgrade found, and no
  upgrade drops values.

## Modules

| Module | Models |
|---|---|
| `AtomicLedger` | The abstract specification: accounts with a status, a balance and the set of applied payments; a payment is applied in one step. |
| `LedgerRows` | What a reader of the ledger table may rely on: after its opening row, rows become visible one at a time, each the follower of the highest one. |
| `LedgerWriter` | `on_create_payment`, one action per SQL statement, any number of workers, and the transactions that open an account or change its status. Implements `AtomicLedger` and `LedgerRows`. |
| `LedgerWriterProofs` | The proofs about `LedgerWriter`. |
| `PaymentQueue` | Extends `LedgerWriter` with the broker's message, the job table, failing subscribers, the executor's retry policy, and workers that die or stall. |
| `ChainCheck` | The verification query and the properties of its result as operators; no state. |
| `ChainQuery` | One query of any ledger, anchor and window, against a reference that sums amounts instead of walking rows. |
| `Verification` | Extends `ChainCheck` with the scheduled runs, checkpoints, incidents, the quarantine and the endpoint that resolves an incident, against payments and falsified rows. |
| `AccountAdmin` | POST, PATCH and DELETE of accounts: version tokens, history rows, lost transactions, the outbox job and its way to the broker. Implements the status part of `AtomicLedger`. |
| `AccountList` | GET of the accounts: the query, its cursor, and a client's walk through all pages against writers. |
| `SchemaMigrations` | The six migrations as data, what PostgreSQL and alembic do with them, the entities and the generated history table. |
| `PaymentQueueProofs`, `ChainCheckProofs`, `ChainQueryProofs`, `VerificationProofs`, `AccountAdminProofs`, `AccountListProofs` | The proofs about these. |
| `MC*` | Small instances of these for TLC. |

Operators commented as a *faulty variant* of a definition are not used by any
specification. Each is a slip that would be easy to make in the code; put in
the place of the definition it varies, it makes the run fail on the property
that `PROJECT.json` (`mutants`) names, which shows that the property watches
that code.

### LedgerWriter

`ledger[a]` is the committed rows of account `a` in the order in which their
transactions committed, which is the order in which a reader sees them appear;
the row numbers are data, so "numbers follow the commit order" is a property
and not an assumption. `holder[a]` is the owner of the row lock, taken by
`SELECT ... FOR UPDATE` (`LockAccount`) or by the UPDATE of an administrative
flush (`WriteStatus`) and released at the end of the transaction. `row[w]` is
what a worker has built and, after `Insert`, what it has inserted but not
committed. `pc[w]` names the next statement:

    lock -> dedupe -> previous -> insert -> commit -> done
      |       |          |          |         |
      |       +-> done   +-> rejected (no previous row, no funds)
      +-> failed (unknown account)  |         +-> failed (COMMIT carried out,
      +-> rejected (not active)     +-> failed      its reply lost)

`Abort` is a lost connection or a failed statement at any point. Which command
a worker is given is free: every payment may be delivered at any time, again,
and to several workers at once.

Money is an integer number of cents; Numeric(16, 2) is a range of integers
(`MaxBalance`), and an insert out of that range fails as PostgreSQL makes it
fail. Payment ids and account ids are UUIDs of different origin and are assumed
to be disjoint (`PaymentAssumption`): the opening row uses the account's id as
its operation id. Timestamps, names, currencies and logging are left out.

### PaymentQueue

`message[p]` follows one message: unsent, ready, handled (the job is enqueued,
the message not yet acknowledged), acked, or dead. `DeadLetter` is every exception
of a subscriber: FastStream rejects the message, and the queue's
`x-dead-letter-exchange` takes it, with no retry. It may happen before the insert
(no database, an undecodable message), at it (`DuplicateJobError`) or after it (a
lost reply, a failing dependency), so a dead message may or may not have left a job.

`job[j]` is a row of pgqueuer's table; `taken[w]` the job that the process of worker
`w` runs, and `handed[w]` the attempts in the copy of the row it was handed, which is
what the executor compares (`LastAttempt`). After a `Crash` the process is gone but its
database session is still there until `DropSession`: the server rolls it back, or
carries out the COMMIT that had been sent. With `PickStalled` the process lives, but
its heartbeat is late: another process gets the job, and both go on. `Settle` is the
executor: the job is deleted, queued again with one more attempt, or held
(`Settled`). Whether the verdict of a process that has lost its job in between is
still recorded is left open (`Superseded`).

pgqueuer, FastStream and RabbitMQ are external. What is used of them: the dedupe key
is unique among the queued and picked jobs (also when a job is queued again,
`Recordable`); `on_failure="hold"` keeps a failed job; a picked job whose heartbeat is
late is picked again without counting as an attempt; a message whose handler raised
is rejected; one that was neither acknowledged nor rejected is delivered again.

### ChainCheck and Verification

A ledger is a set of rows, so that rows may be missing. `Verify` returns what a
row of the query and `CustomerAccountVerification` say: the first break, and the
last good row. In `Verification`, `batch[v]` holds what a run read in its one
query and has yet to write and commit, while rows keep arriving, are falsified,
or disappear. `order` keeps the accounts in the order of the latest `verified_at`,
which decides who is selected first, and `aged` the accounts whose checkpoint is
older than the maximum age: `<<a, b>> \in order` says that the latest checkpoint of `a`
is older than that of `b`, and a commit puts the accounts it wrote for after all
others. `Pay` appends a row in one step; that this is all a reader can see of the
concurrent writers is proved (`RowsRefinement`, `PaymentsAreWritten`).

A resolution is `FindIncident`, `Review` (or `Refuse`), `Resolve` and the end of its
transaction. `Resolve` runs the two writes and answers 204; nobody else sees them
yet. FastAPI tears the dependencies down afterwards: `EndResolution` is
`get_tx_session`'s COMMIT, `LoseResolution` its failure, after which the incident is
open although the client was told otherwise, and may be resolved again. A run that
inserts the same checkpoint waits for the resolution (`CommitBatch`).

`OneSession` says whether the dependencies `get_session` and `get_tx_session` give a
request one database session. In the application they give two
(`src/statement/fast_deps.py:76-98` takes `get_session`, the endpoints also take
`get_tx_session`); in the tests one (`tests/conftest.py:195-215`). The run
`verification` takes the single session: with two, `EndResolution` writes nothing, and
the interplay of a resolution with the verifier, which the code was written for, would
not be looked at. Nothing it checks claims that a resolution is carried out, and the
theorems hold for either wiring. The runs `verification_production` and
`account_outbox_sessions` take the two sessions of the application, and show what
comes of it. In `AccountAdmin` the wiring is the variable `oneSession`, chosen from
`Wirings` at the start, and the run `account_admin` covers both: none of its
properties depends on the wiring.

### AccountAdmin

A request of a client is `Load` (it is shown an account and its token), `Check`
(the endpoint reads the account and verifies the token), `Flush` (UPDATE with the
version in its WHERE clause, and the INSERT of the history row, after waiting for
whoever holds the row) and `CommitUpdate`. The token of a version is taken to be
matched by that version only (a keyed digest). With two sessions the update stops
at `AddForeign`: the account belongs to another session than the one it is added
to. A creation is `InsertAccount`, `EnqueueCreated` and `CommitCreate`. `Lose` ends a
transaction at any point. `job[a]` is then run by `on_customer_account_created`:
`PickJob`, `PublishEvent`, `FinishJob`, with `FailEvent` (the executor's retry policy;
the broker may have the event although `publish` raised) and `AbandonJob` (a dead
consumer, which does not count as an attempt).
Refusals that change nothing (an unknown id, a customer's second account in one
currency) are the absence of a step.

### AccountList

A row is a function from columns to numbers (ids, statuses and times matter by
their order only). `Selected`, `Page` and `CursorOf` are the statement that `list_all`
builds and what it returns: the columns of the sort and then the id, the
alternatives of `build_cursor_condition`, the filters, the limit. A cursor that lacks
a column of the sort is ignored. `Fetch` is one request; `listed` collects what the
client got. `Create` and `Change` are other requests between two pages; each account
is written once in a walk. A created account may have any `created_at`, because the
time is taken before the row is committed. A walk keeps its query: the API does
not forbid to change it, but nothing could be said of such a list.

### SchemaMigrations

`schema[t]` is the columns (type, nullable) and the keys (kind, name, columns, table
referred to) of table `t`. A migration is a sequence of statements, so `InitialUp` ...
`RenameDown` are the twelve functions of `migrations/versions` statement by statement;
`Plan` concatenates them with the update of `alembic_version`, and `Outcome` runs a
plan on a database as one transaction (`env.py` opens one for the whole run). A
statement fails if an object is missing or already there (`Broken`), if a row is in
its way (`Refused`), or if `alembic_version` has moved (`Stale`); the run is then
rolled back. `Begin` reads the revision and `Run` comes later, so two people race.
Rows are written by services of any revision; of their data only what a migration may
stumble over is kept: whether a table has rows, a missing `updated_by`, and two
accounts of a customer in one currency. `Fits` says what a database should be: the
schema is that of its revision, and the rows break no constraint of it. `HistoryOf` is
`_history_mapper` for a class without inheritance. The duplicate that the first unique
constraint (`id`, `currency`) could meet cannot exist, as `id` is the primary key.

Constraints that a migration leaves unnamed get the names of the convention in
`Base.metadata` (`ConventionName`), which `env.py` passes on, in every run of alembic
that is modelled. Databases that were migrated before the convention have
PostgreSQL's names instead (`PostgresName`), and these are the ones that the third and
the sixth migration spell out. `Inherited` are the revisions at which such a database
may be found at the start (`SchemaAt`). An old database that is taken down and up again
gets names of both kinds, so `Fits` compares schemas up to these generated names
(`Unnamed`).

## Runs

| Run | Instance | What it shows |
|---|---|---|
| `ledger_writer` | 2 accounts, 4 payments (a deposit, a withdrawal only it covers, a deposit that overflows after it, one on the other account), 2 workers | the ledger's properties, and `LedgerWriter` implements `AtomicLedger` |
| `payment_queue` | 1 account, a deposit and a withdrawal, 2 workers, 2 jobs, 1 retry, 1 crash or late heartbeat (2.7 million states) | no acknowledged payment lost, no job deleted without its payment, also when two processes run it; attempts are used up, and bounded |
| `payment_queue_live` | the same with one payment, 1 job, and 2 crashes or late heartbeats | a delivered message becomes a job or a dead letter, a job is done or held in the end |
| `chain_check` | all ledgers of up to 3 rows, amounts -2..2 and balances 0..2, all anchors, windows of 2..4 rows | the query is exact and always moves on |
| `verification` | 2 accounts, up to 4 rows each, 2 changes from outside, 2 verifiers with batches of up to 2 accounts, 1 administrator whose commit may be lost, windows of 2 + 1 rows (2.2 million states) | the verifier's safety, and that an accepted break is passed |
| `verification_live` | 2 accounts, 1 place per run, 1 change from outside | every row is verified, or its account is in quarantine |
| `verification_production` | 1 account, two sessions | **violated**: a resolution is answered and lost |
| `account_admin` | 2 account ids for one key, 2 names, 3 requests, 3 versions, 1 loss, both wirings | no lost update, dense history, announcements, statuses |
| `account_outbox_sessions` | 2 requests, two sessions | **violated**: an event without an account |
| `account_list` | 3 accounts, 12 sorts by status and time, pages of 1 and 2 rows, with and without a filter, 1 account created or changed | order, nobody skipped or repeated, the walk ends |
| `schema_migrations` | all 6 migrations up and down, 2 migrators, rows of every table, an empty database or one from before the naming convention at any revision | the schema fits its revision and the entities, and the rows fit the schema; a downgrade arrives, meets rows, or is refused as stale; upgrades keep values |
| `schema_fresh` | the same from an empty database only | **violated**: an empty database cannot be brought to the head |

Why the bounds are enough: two workers, requests or verifiers make every race of this
code, because each is settled by one lock or one version; the third request of
`account_admin` lets a row change twice between a client's read and its write. Three
amounts with `MaxBalance = 3` give a funded withdrawal, an unfunded one and an
overflow. Three accounts and pages of one row give a first, a middle and a last page
and an account that can move across them; five pages are more than any walk needs with
one change. The migrations are taken as they are: every revision, every plan from it
to its neighbours, to the head and to nothing; with two migrators, those made for
another revision are pending too. Two jobs are one for each payment, or two for one
payment whose message came twice; one late heartbeat puts both workers on one job. One
retry distinguishes the first, a middle and the last execution. Four rows with windows
of three make a ledger longer than a window, with an anchor inside and at its edge.
Symmetry is declared for interchangeable workers, jobs, verifiers, requests, ids and
names, never in a run with a liveness property. `ListAssumption` and the other named
assumptions on constants are evaluated by TLC with every run. Deadlock is checked in
`ledger_writer`; in the other runs the system may stop when its bounds are used up, as
their cfg says.

Fairness, stated in `PaymentQueue.Fairness`, `Verification.Fairness` and
`AccountList.FairSpec`: the broker delivers and the subscriber ends by acknowledging
or rejecting; pgqueuer hands out the jobs that wait (strong: a job may be taken and
put back); a worker carries out its next statement, and PostgreSQL grants row locks in
the order of the requests (strong: the lock is free again and again); the executor
settles; dead sessions are dropped; an administrative transaction ends; the schedule
fires every five minutes, and a run is not disturbed for ever; a client that walks
through the list asks for its next page. Nothing is assumed of crashes, late
heartbeats, losses, falsifications, the creation of accounts or the actions of people.
Liveness of verification needs the maximum age of checkpoints: without it a short
ledger never reaches the number of rows that selects it.

## Proofs

Everything below holds for every value of the constants, from the named
assumptions of the modules (`PaymentAssumption`, `SentinelAssumption`,
`QueueAssumption`, `QueryAssumption`, `VerificationAssumption`, `AdminAssumption`,
`ListAssumption`) only, and from the hypotheses that a theorem states itself.

### LedgerWriterProofs

For every set of accounts, payments and workers, every amount and every width of
the column:

* `TypeCorrect`, `ChainCorrect`, `AppliedOnceCorrect`, `BalanceCorrect`,
  `InsertCorrect`: the five invariants of the run `ledger_writer`;
* `AppendsWhileActiveCorrect`, `AppliedIsNotRefusedCorrect`: its action properties;
* `Refinement`: `LedgerWriter` implements `AtomicLedger`.

The invariants are not inductive: that a worker about to insert holds the
follower of the latest row is true only because it holds the row lock, and that
it does so depends on nobody else's releasing it. The strengthening `IInv` adds

* `LockInv`: a worker between its locking SELECT and its COMMIT holds the lock of
  its account, which is active meanwhile, and holds no other;
* `ChangeInv`: a status change is pending exactly while an administrator holds the
  row, and only on an account that is not deleted;
* `WorkerInv`: what the worker knows of the ledger it has locked: its operation
  has no row yet, and the row it built follows the last one;
* `LedgerInv`: every ledger is chained, in range and without a repeated operation.

`IInvInit` and `IInvStep` (one lemma per kind of step: `EndStep`, `MoveStep`,
`LockStep`, `ReadStep`, `CommitStep`, `AdminStep`) show it inductive. The heart is
`CommitStep`: no other worker knows anything of this ledger, because it would
hold the same lock. `AppendGood` and `AppendApplies` are the lemmas on sequences
behind it. The refinement follows with `AtomicStep`: all steps but `OpenAccount`,
`CommitStatus` and `Commit` stutter. `RowsRefinement` shows the same writers to
implement `LedgerRows`, with the set of committed rows for the sequence
(`AppendIsSeen`, `ReadersStep`): this is what the verifier's model builds on.

`MoneyConserved` is proved of `AtomicLedger` (`AtomicKeepsSum`, `AtomicConserves`)
and carried over by the refinement: a balance is the sum of the amounts of the
payments applied to its account. The sum is any function on the sets of payments
that is 0 on the empty set and grows by a payment's amount when it is added
(`IsSum`); for finite sets there is exactly one, which need not be computed here.

### PaymentQueueProofs

`QueueImplementsWriter` shows that every step of the queue is a step of
`LedgerWriter` or leaves its variables alone, so the theorems above hold with
the queue around the writer. On top of it `QTypeCorrect`, `DoneCorrect`,
`NoPaymentLostCorrect`, `RetriesBoundedCorrect` and `FailureCorrect` prove the five
safety properties of the run `payment_queue`, for any number of workers, jobs,
messages, retries, crashes and late heartbeats. Nothing in them rests on a job being
run by one process: that a payment is applied once is the writer's doing, and the
strengthening only says that a process carries the payment of its job, whoever else
runs it (`TakenInv`), that a message which was handled left a job (`MessageInv`), and that a
handler which returned has its payment in the ledger (`ReturnedInv`), which only grows.

`RetryInv` is what makes the attempts right though they are compared in stale copies.
A job has no more attempts than executions that failed, and no process was handed
more of them than there are; so a job that a failure holds has failed more than
`MaxAttempts` times (`FailureCorrect`). Past the limit, every further retry uses up one
process that was handed the job before the limit (`Retriers`, `RetryCounts`), and whoever
is handed it later holds it; so the limit is passed by less than the number of workers
(`RetriesBoundedCorrect`).

From end to end: `QueueRefinesAtomicLedger` and `QueueRefinesLedgerRows` compose the
refinements, so messages, jobs, retries and crashes together are the atomic ledger
to those who read accounts, and a growing ledger to those who read rows;
`QueueConservesMoney` follows. `PaidOnceCorrect` says that the payment of a deleted job
has one row, in the ledger of its own account and with its own amount, and none
elsewhere; it needs `LedgerInv` and `DoneMeansApplied` together.
`NothingUnaskedCorrect` is the converse of not losing payments: as long as the message
of a payment was not published, no job, worker or ledger has it (`AppliedByWorker`,
`UnaskedStep`).

### ChainCheckProofs and ChainQueryProofs

`ChainCheckProofs` proves of the operators of the query, for every ledger (a finite
set of rows with distinct numbers, gaps allowed), every anchor and every window
of two rows or more, what the other two modules cite. The least number of a
finite set exists by induction (`LeastNumber`), hence the extreme rows
(`LowestFacts`, `HighestFacts`); a window has no holes of its own and reaches
past the anchor if the ledger does (`WindowFacts`); a row's predecessor is the one
right before it (`PredecessorIsNext`); `VerifyFacts` says what the answer may be,
and `ChainHasNoBreak` that an unbroken chain gives no break.

`ChainQueryProofs` shows that the answer is exact: `LastGoodIsAlwaysExact`,
`BreakIsAlwaysExact` and `QueriesProgress` state the three invariants of the run
`chain_check` for ledgers, amounts and windows of any size. The reference does
not look at neighbours: the chain holds to a row if all numbers up to it are
there and every balance is the anchor's plus the sum of the amounts.
`HoldsToIsInOrder` connects the two by induction over the numbers: the first row
that does not fit its predecessor is the first one to which the chain does not
hold. `BalanceAt` is a recursive function, for which the library's facts suffice.

### VerificationProofs

For any accounts, verifiers, amounts, batch and window sizes, and any number of
rows and falsifications. Four invariants are nested:

* `StateOK`, with any number of administrators: ledgers are ledgers; checkpoints,
  incidents and the answers in a batch fit their tables; `verified_at` is a strict
  total order of the accounts with a checkpoint (`OrderStep`; each account of a batch
  is written once, `WrittenOnce`); an account has one open incident at most; only
  the holder of the advisory lock has a batch, which has one answer per
  account, and none for an account in quarantine (`BatchStep`). `TypeCorrect` follows.
* `HonestOK`: while nobody tampered, every row follows the one before, every
  checkpoint, committed or in a batch, is a row of its ledger, and there are no
  incidents. Its heart is that an answer stays true while rows arrive
  (`HonestAnswer`, `HonestPay`). `HonestLedgersPass` follows.
* `ReviewOK` and `AnchorsOK`: an incident under review is still open, and the latest
  checkpoint of an account in a batch is still the anchor of its query. The two
  protect each other: a resolution cannot touch an account in a batch because its
  account is in quarantine. `NewIncidentsAreAhead`, `QuarantineAlwaysHolds` and
  `BreakIsNeverPassed` follow.
* `ForcedOK`: what a resolution is about to accept is past the account's checkpoint,
  from its review to its commit, whatever the verifier does and however often the
  commit is lost (`ForcedStep`). `AcceptanceAlwaysMovesAnchor` follows.

One hypothesis is stated in the theorems that need it, because the code does not
guarantee it. `[]SeparateReviews`: no two administrators work on one incident at
the same time. With one administrator, as in the runs, this is always so
(`OneAdministratorIsSeparate`); of two who resolve the same incident the second one
works on a closed one, and its checkpoint may land in the middle of a run or
pass a newer incident. No theorem assumes one session or two.

`PaymentsAreWritten` closes the gap between the models: within the bounds, `Pay` is
exactly the step of `LedgerRows`, which `LedgerWriter` implements. The one
difference left is that `Verification` starts with all accounts opened; an account
without rows is not selected, and has no checkpoints or incidents.

### AccountAdminProofs

`AdminInvariance` strengthens the invariants by what a request knows: a row that it
was shown or read is the committed one as long as it has the committed version; the
copy of a flushed request is the committed row (it holds the row lock); its `new` row
is the copy or the next version; and a creating request is alone with its account.
From it `AdminTypeCorrect`, `HistoryCorrect`, `AnnouncedCorrect`,
`ReplacedCorrect`, `NoLostUpdateCorrect` and `StatusRefinement` (the endpoints
implement the statuses of `AtomicLedger`), for any number of requests, accounts
and losses and for both wirings.

### AccountListProofs

For any accounts, columns, values, queries, page sizes and number of changes:
`OrderCorrect`, `SteadyCorrect`, `RepeatCorrect` and `ListTypeCorrect`. `OrderTransitive`
and `OrderTotal` show that a sort followed by the id orders rows strictly and
totally; `PageIsInitial` that a page, defined by the number of rows before a row,
is an initial part of the selection and full unless it is all of it;
`SelectedIsAfter` that the condition on the cursor selects what the order puts
after it. The invariant (`Known`, `Passed`, `Ahead`) says that a listed row still is
its account but for its name and status, that the cursor is behind no listed row,
and that an account which was not touched and matches is listed or comes after
the cursor.

### What is only model-checked

Liveness under fairness (`PaymentSettles`, `RowsGetVerified`, `WalkEnds`) is out of
the prover's reach. So is what a migration computes, with names put together from
fixed texts and folds over fixed sequences of statements: `SchemaMigrations` is
checked by TLC only, which meets every revision and every plan; the bound is in the
two migrators and in the data of the rows. The outbox with two sessions
(`NoEventForNothing`) and the lifting of a quarantine (`ResolveLiftsQuarantine`) are
false of the code and stated for their runs only. That sums of finite sets exist
(`IsSum`) would need induction over an operator.

## Where code and documents disagree

1. **Resolution of incidents is not committed** (`verification_production`).
   `resolve_customer_account_ledger_discrepancy` writes on the session of
   `get_session`, which nobody commits, and commits the empty one of
   `get_tx_session`. The docstring (`app/routers/admin/account.py:254`) says that it
   lifts the quarantine.
2. **The outbox is not transactional** (`account_outbox_sessions`). The job is
   written on a connection without a transaction, as `tests/infra/test_outbox.py:29`
   warns.
3. **A fresh database cannot be migrated** (`schema_fresh`). `README.md:23` has
   `alembic upgrade head` for the first start. The naming convention of
   `domain/entities/base.py`, which `env.py` gives to alembic, names the keys of the
   first migration; the third (and the sixth) drop them by PostgreSQL's default
   names.

The first two have one cause, two sessions per request, which the fixture
`client` of the tests replaces by one. The same cause stops PATCH and DELETE of
accounts (`AddForeign` in `AccountAdmin`), though
`tests/app/routers/test_admin_accounts_update.py:73` expects 204 of an update with
the current version. And a payment that the account cannot cover is held
after its first execution (`RejectPayment`, `Settled`), while two tests
(`tests/app/consumers/test_entrypoints_main.py:204` and `:270`) are named after retries
that the code no longer makes.

## Not modelled

*Customer import*: `on_customer_created` (`app/subscribers/main.py:75`) inserts a
column `entity_id` that neither the table nor the entity has; SQLAlchemy refuses to
compile the statement, so the handler fails before any SQL and its message is
dead-lettered. There is no change of state to model. Authentication, permissions,
request ids, logging and configuration keep no state. Start-up, shutdown and the
heartbeat file are I/O; crashes are part of the models. Retry delays, concurrency
limits and the clock are left out: a retry may run at any time. That the database
transaction of a verification run is atomic, and the one of a run of alembic, is taken
from PostgreSQL and not checked. In `AccountAdmin` the answer of a request and its
COMMIT are not ordered; in `Verification` they are. Of the migrations, server
defaults, lengths and the offline mode; of `versioned_history.py`, the inheritance of
mappers.

## Plan

Done in this order: `LedgerWriter` with `AtomicLedger` and its proofs,
`PaymentQueue`, `ChainCheck`, `Verification`, `AccountAdmin`, `AccountList`,
`SchemaMigrations`, then the proofs of `PaymentQueue`, `AccountAdmin`,
`AccountList`, `ChainCheck`, `ChainQuery` and `Verification`, `LedgerRows` between the
writer and the verifier, and the theorems from the message to the ledger; then failing
subscribers and late heartbeats in `PaymentQueue`, the commit after the answer in
`Verification`, and databases of every origin in `SchemaMigrations`. Next:

1. Two administrators who resolve one incident: the second overwrites
   `resolved_by` and may checkpoint past an incident that nobody reviewed
   (`infra/repository/ledger_verification.py:239`). Four properties of `Verification`
   hold with separate reviews only (see above); the repository does not say what should happen.
