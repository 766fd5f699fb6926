# LLMBenchLab: specifications, model checks and proofs

LLMBenchLab evaluates language models on benchmarks. A *Run* is one model on one
benchmark version; a set of worker processes executes Runs question by question,
each question through provider HTTP calls that are metered by a governance
ledger. PostgreSQL is the only authority; Redis Streams carries hints.

This directory holds TLA+ specifications of the parts where that design is
hard to test: leases and fencing, resumption after crashes, the ledger's counters
and retry budgets, admission and fair scheduling, row-lock order, delivery over an
unreliable queue, provider streams, Model changes and stored keys, audit retention,
migrations and the import, the credential keyring, worker progress and the page that
follows a Run. TLC checks each on small instances; TLAPS proves their invariants and
action properties, and that the lease repository implements the abstract Run
lifecycle, for every value of the constants. Liveness stays with TLC.

    tlc -workers 2 -config LeasesAndTools.cfg MCLeasesAndTools   # a model check
    tlapm RunLeasesProofs.tla                                    # the proofs

`PROJECT.json` lists components, runs, mutants, findings, hazards and theorems, and
maps each definition to the source lines it stands for.

## 1. Inventory

| part (under `backend/app`) | state it keeps | operations | what makes it correct |
|---|---|---|---|
| Run leases (`runners/run_leases.py`) | one `evaluation_runs` row per Run: status, cancellation flag, owner, fencing token, lease expiry, attempts, failed attempts, retry and governance delays; the `evaluation_responses` of the Run | claim, fence, heartbeat, persist_response, complete, complete_cancelled, fail_attempt, defer_governance, cooperative_yield, request_cancel, reap_expired, due_run_ids | a stale worker changes nothing; no question is stored twice; a score is computed from exactly the stored Responses; one failure per lease; every committed row satisfies its CHECK constraints |
| Evaluation runner (`runners/evaluation_runner.py`) | the lease it believes it holds, the remaining questions, question consumers, a heartbeat task, a governance signal | execute: claim, load, questions up to the quantum, finish / yield / defer / fail | nobody asks a question already answered; the quantum and the concurrency bound hold; cancellation stops new work; a Run ends |
| Provider-attempt ledger (`governance/repository.py`, `provider_attempts.py`) | question cursors (generation, next ordinal), reservations with their state, scope counters, UTC-minute buckets, audit events | question_context, reserve, mark_send_started, finish, reconcile, renew_run_lease | counters equal the ledger; no limit is exceeded; retries stay in budget; a row is closed once |
| Policies and admission (`governance/repository.py`, `api/v1/governance.py`, `api/v1/runs.py`) | policy versions, scopes' limits, backlog | apply_policy, admit_run, create_run | limits and backlog under concurrent changes |
| Row locks (all of the above) | PostgreSQL row locks and waiters | the lock sequence of each transaction | no circular wait |
| Worker service and queue (`workers/service.py`, `task_queue/redis_streams.py`, `worker.py`) | stream, group, pending entries, each worker's loop | publish, read, claim stale, execute, ACK, scan, reap, shutdown | a committed Run ends whatever Redis does; what a shutdown cuts off is not ACKed; pending entries drain |
| Provider adapters (`adapters/`) | none across calls; within a call the attempt, the line buffer, the accumulated text and usage | HTTP call with retries, incremental reading of three stream protocols | each physical send owns one ledger row; an answer is the text of one complete stream, however it was cut; memory stays bounded |
| Audit events, archive, retention (`governance/audit*.py`, `cli/audit_retention.py`) | events, archive files | append, archive, verify, reconcile, restore, delete | an event is never lost, even when a commit's outcome is unknown; exit codes tell the truth |
| Migrations (`db/prepare_migrations.py`, `alembic/`) | schema, version, data, backups | prepare, nine revisions up and down | a reported success is the current schema with repaired data; no guarded row is dropped; a crash of an upgrade strands no database |
| SQLite import (`db/import_sqlite.py`) | source file, target tables, locks | preflight, snapshot, lock, copy, commit, verify | a resting source, all of it, into an empty target at head, once |
| Models, credentials (`api/v1/models.py`, `security/credentials.py`, `schemas/model.py`) | models, envelopes, keyring | create, PATCH, delete, Run creation, resolution, key rotation | a key reaches its own origin only; an active Run keeps its provider |
| Keyring installation (`scripts/ensure_credential_keys.py`) | one file, temporary files | validate, create without replacing, roll back | a created keyring stays, and is never half a file |
| Worker progress and probe (`worker_progress.py`) | notes in memory, worker_processes rows | start, note, flush, stop, probe | a note reaches its row; a row says stopped only if the process did |
| Run progress (`services/run_progress.py`, `frontend/src/hooks/useRunProgress.ts`) | the page's cells, requests in flight | index, blocks, poll, hide, open | the page shows one moment of one Run, and all of an ended one |
| Dataset loader, benchmark service | benchmark versions | import | a version does not change |
| Evaluators, reports, leaderboard, observability, logging, API schemas, CLI, other frontend pages, phase-2 scripts | none, or read-only views | - | functions of the rows above |

**How they interact.** `create_run` commits a pending row and then publishes a
notification. A worker receives a notification, or finds the Run in its periodic
database scan, and runs `EvaluationRunner.execute`, which claims the row (owner, new token,
expiry) and performs every later write in a transaction that first locks the row and
compares owner, token and expiry. Each provider call goes through the ledger
(reserve, mark_send_started, finish), whose transactions check the same fence. The
reaper turns expired leases into retries or terminal states and reconciles the
ledger rows their workers left open.

**What is hard.** Processes pause and come back with an old lease; threads survive
the coroutine that started them; `CURRENT_TIMESTAMP` is the start of a transaction,
so the clock a fence uses may be older than the lock it waited for; flags are read in one
transaction and used in another; commits succeed and their acknowledgement is lost;
Redis forgets; SQLite commits DDL in the middle of a migration; a directory entry may
not survive a crash its file survives; a stream ends between two bytes. `PROJECT.json` lists these as hazards at their lines.

## 2. Modules

```
RunRow ──────────── row of evaluation_runs, its CHECKs, one operator per transition
  ├─ RunLeases ──── the repository's transactions over any workers and Runs
  │    ├─ RunLifecycle        abstract specification it implements
  │    └─ RunLeasesProofs     invariants, action properties, the refinement (TLAPS)
  └─ EvaluationRunner ─ execute() of several workers over one row
       └─ EvaluationRunnerProofs
GovernanceLedger    reservations, counters, audit keys, and the adapter's retry loop
RowLocks            lock sequences of all transactions
WorkerQueue         worker loops over Redis Streams and the database scan
RunScheduling       policies, admission, the order of service, corrupt ledgers
ModelCredentials    Models, stored keys, Run snapshots and key rotation
ProviderStream      one generate() call: attempts and three stream protocols
AuditRetention      the maintenance commands over audit_events and archive files
SchemaMigrations    preparation and revisions of one database
SqliteImport        importers from a SQLite source into a PostgreSQL target
KeyringInstall      concurrent first starts that create the keyring
WorkerProgress      notes, flushes and stops of worker generations
RunProgressView     progress projections and the polling hook

GovernanceLedgerProofs   of GovernanceLedger
SchedulingProofs         of RowLocks and RunScheduling
WorkerQueueProofs        of WorkerQueue
DatabaseProofs           of SqliteImport, ModelCredentials, SchemaMigrations
FilesProofs              of KeyringInstall, WorkerProgress, AuditRetention,
                         RunProgressView
ProviderStreamProofs     of ProviderStream
```

Each `MC*` module names the small sets and functions its `.cfg` files use. Four of
them check several components that share no state in one run: `MCLeasesAndTools`,
`MCWorkerProcess`, `MCRunEvidence` and `MCDatabase` put the components side by side with a constant
variable `focus` that says which of them moves in a behaviour; the others stay in an
initial state, so the state space is the sum of the parts and not their product. In
the same way `moving` of `MCRunLeases` says whether one Run moves alone, within many
claims, or all of them within few, and `MCRunEvidence` looks at the ledger twice: at the
accounts of two Runs (one lease each) and at the attempts of one Run (two leases,
stale clocks, cancellation).

### RunRow, RunLeases, RunLifecycle

A row is a record with the columns the transitions read. Two abstractions carry it:

* **Time** is a countdown: `expires`, `nextAt` and `govUntil` are the units left until the
  stored instant, or `NoTime` (NULL), and `Tick` decreases all of them (an instant
  stops mattering once it is more than `MaxLag` past). A transaction that reads the clock chooses
  a lag of at most `MaxLag`: how much older than the present its
  `CURRENT_TIMESTAMP` may be after waiting for a lock. Absolute time never
  appears, so the state space is finite.
* **Evidence**: `responses` is the sequence of stored Responses as (question, token)
  pairs, and `evidence` is the Responses the score columns were computed from when the Run ended.

`leases` holds every lease `claim` has ever returned, and every
fenced operation is enabled for any of them at any later time: a paused process,
a partition, a retry of a lost request and a late thread are all instances of that.
Displacing an expired lease is two transactions, and between them the new lease is
in `taking`. The reaper works on a batch of Runs. A transition whose row the table's
CHECK constraints refuse leaves the row alone. Only `RequestCancel` has such a case:
`ConstraintsHold` is about the rows the other operations write, and `CancelAccepted`
says that a cancellation is not refused (it can be, see section 3).

`RunLifecycle` knows only phases, answers, whether cancellation was asked for and what
was published: what the API promises of a Run. `ImplementsLifecycle` in `RunLeases` maps the rows to it.

### EvaluationRunner

One Run; each worker has a program counter through `execute`, its lease token, the
slice of questions it loaded (`todo`), the questions in flight, the strongest governance
signal so far, whether its heartbeat failed, and the cancellation flag as it read it. Heartbeat,
question consumers and the main coroutine interleave at their awaits. A cancelled coroutine leaves its `to_thread`
transaction running: those late persists are a set of their own and may commit at any time.
Rendering, calling and scoring a question is one step with outcomes "answered", "governance
signal" and "exception".

### GovernanceLedger

Each question has a cursor (generation, next ordinal) and each reservation, keyed by
question, generation and ordinal, has a state, the lease it was made under, its minute and its actual usage. Scope and bucket counters are separate variables, updated by each transaction as the
code does, so that `CountersMatchLedger` compares two really independent pieces of state. One
amount stands for input tokens, output tokens and cost, which the same statements move;
requests are counted beside it. The adapter's loop
(`call`) is modelled because its decisions depend on which answer arrived: each
transaction may commit and lose its acknowledgement.

### RowLocks

A transaction is a sequence of (row, mode) requests, with `FOR KEY SHARE`, `FOR
NO KEY UPDATE` and `FOR UPDATE` and PostgreSQL's conflict table; a foreign key check on insert takes its share
lock. Sessions start any transaction of `Kinds`, take locks in order, wait on conflict and release
all at commit. Sequences come from the statements' order in the code, sorted scans included. A question cursor
that does not exist yet (`first_context`) cannot be waited for by an UPDATE, which does not see the
uncommitted insert: its key is a resource of its own, and the insert takes the key share lock on its Run.

### WorkerQueue

Each worker's loop (read, claim idle entries, scan, execute, settle, stop), a
stream with length-limited trimming, a consumer group with pending
entries, and Redis faults counted by `MaxFaults`: outage, loss of data or
of the group, a lost reply, and a message the queue did not write. Execution is the lease protocol
reduced to claim, lapse and finish.

### RunScheduling

What decides who is served next: `apply_policy` appends versions of policy documents, an
admission counts the backlog under the global scope's lock and freezes the active
version, workers go through reap, scan, claim, slice. A scan and its claim are two
steps, so a claim acts on a stale scan, and a delivery names a Run without one.
Scheduling keys are ranks; claim and yield both set them to the present (`last_scheduled_at`), and with
`CoarseClock` readings may be equal. `passed[r][x]`
counts how often x was served while r could have been. A ledger may turn corrupt, which the
reaper or the reconciliation of a takeover finds. Buckets belong to policy versions.

### ModelCredentials

A request is its decision under the locks it takes and its commit, so requests of two
clients interleave wherever no row lock stops them; `delete_model` takes none. An
envelope is the record of what AES-GCM authenticates together (key id, Model, origin);
`PATCH` is modelled field by field as merge, validation, the active-Run rule, recovery
of unreadable envelopes and the origin rule. A worker resolves the key of a Run's
frozen snapshot against the row of today, under a keyring that rotates. Three places are coarser than the
code: of the environment variable's name only its presence is kept, so that a change of one name for
another is not a sensitive change; a worker resolves the key of a Run that is still active, while `_load_snapshots` does not look at the
status (the envelope's origin decides either way); and a disabled Model, which `create_run` refuses
(`runs.py:196`), is not told apart, which adds behaviours and removes none.

### ProviderStream

The Provider writes events of a small alphabet for its protocol (chat completions,
Responses, Messages), sound or not; the network cuts what was written anywhere, ends the
body anywhere or breaks. The reader is the code's: chunks into a buffer, lines out of it (LF, CR,
CRLF), lines into events, events into the accumulator of the protocol. The properties
are stated on what was *written* (`Spoken`, `Reported`, `Broken`), not on how it was
read. Bytes are symbols, limits are small numbers. Events of a type the reader does not know, which it
skips (`provider_protocols.py:535`), are not in the alphabet, and a body that is refused by its
declared length before it is read (`128`) is not among the errors.

### AuditRetention

Operators run archive, verify, reconcile, restore and delete at once over one table
and one directory, with each system call and transaction a step: temporary file, link,
directory sync, the maintenance lock, classification, flush, COMMIT. A process may die or a host
crash between any two, and the acknowledgement of a COMMIT may be lost. A file is the
record of the rows it lists. Operators keep the documented order: they delete only
after a successful archive and verify.

### SchemaMigrations and SqliteImport

A schema is the set of the parts revisions add (revision 6 restores indexes an early
revision 4 did not create; 7 repairs data), plus "torn" and "cut" for half an upgrade and half a downgrade, and
one kind of drift for each check of `prepare_database`. Facts are the kinds of rows a guard
looks at or a downgrade rewrites. Init ranges over both dialects, all revisions, versioned or not, with index gaps, drift and facts.
PostgreSQL runs a command, up or down, in one transaction. SQLite commits as it goes: `BeginRevision` and
`BeginDowngrade` commit the first DDL ("torn", "cut"), the ends of a revision commit the rest, and the process may
die at each of these places. `Downgrade0001` to `Downgrade0008` say what each downgrade refuses to
cross and what it gives up without asking: prices that were NULL and the positions of questions (1), the
records of failures (2). A command ends with the foreign key check of `env.py` on SQLite and with
`alembic check` in the PostgreSQL deployment (`compose.yaml`).

The import reads its source in one transaction while the application may still be
writing to it, and takes an advisory lock, reads `alembic_version`, locks all tables,
checks again, copies, commits and verifies. The source starts new, or in the middle of its provider calls. The target is the sequence of transactions that wrote
to it. What the server knows of a transaction and what the importer knows are separate.

### KeyringInstall, WorkerProgress, RunProgressView

`KeyringInstall` separates a file's content, what of it was synced, the directory entry and
which entries may be on disk; a host crash picks among the latter. `WorkerProgress` has the in-memory
notes, the notes a flush has taken and the row, with flushes that fail before or after
their commit, and a stop that waits for the flush loop (that the registration at start commits and then fails is
left out). In `KeyringInstall` the parent directory exists: that `ensure_credential_keys.py:153` may create it without syncing
its own entry is left out. `RunProgressView` has the committed
answers, the page's cells, one sync with its outstanding index and
block requests, and one superseded sync whose answers still arrive.

## 3. Runs

### What holds

Where a component's invariants are checked in one go the configuration names their
conjunction, and `PROJECT.json` has a mutant for each part:

| conjunction | parts |
|---|---|
| `RunnerInv` | `TypeOK`, `PendingHasWork` |
| `LedgerInv` | `TypeOK`, `CountersMatchLedger` |
| `AttemptsInv` | `RetryBudgetKept`, `CallsOwnTheirRows` |
| `ViewInv` | `ViewIsOneMoment`, `ReconciledIsComplete` |
| `RetentionInv` | `RetTypeOK`, `NothingLost`, `RefusalChangesNothing` |
| `KeyringInv` | `CreatedKeyringStays`, `KeyringNeverTorn` |
| `StreamInv` | `RefusesOnlyBrokenStreams`, `StreamMemoryBounded` |
| `ProgressInv` | `NotesSurvive`, `RowsTellTheTruth` |
| `MigrationInv` | `FactsKeepTheirPlace`, `ReadyIsCurrent`, `NeverStranded` |
| `ImportInv` | `ImportsRestingSource`, `ImportsIntoEmptyHead`, `ExitCodesTrue`, `ImportersNeverStandOff` |
| `CredentialInv` | `KeysStayAtTheirOrigin`, `ActiveRunsKeepTheirProvider`, `StoredMatchesEnvelope` |
| `ServiceInv` | `CorruptLedgerStops`, `WindowOfOneDocument` |

| run | instance | shows |
|---|---|---|
| `leases_and_tools` | leases: a managed and a legacy Run, 2 workers, 2 questions, 3 attempts, lag 1; 6 claims of one Run alone, 3 of both together. Retention: 2 operators, 2 paths, 2 event keys, clock to 3. Keyring: 2 starts of 2 attempts | constraints, fencing, single answers, scores equal evidence, one failure per lease, final terminal rows, no theft of a live lease, no revival of one long expired, refinement of the lifecycle; no audit event lost, whole archives deleted, honest exit codes; one keyring, never torn |
| `worker_process` | runner: 2 workers, 3 questions, quantum 2, concurrency 2. Streams of up to 3 events, 2 attempts. A worker generation with 2 kinds of notes | a pending Run always has work left; no worker with a good lease asks an answered question; at most one quantum of answers per lease; no answer once cancellation is requested; streams give what was said; notes survive |
| `runner_liveness` | 2 workers, 2 questions, quantum 1 | a Run nobody cancels ends |
| `run_evidence` | accounts: 2 Runs sharing a global scope, 2 minutes. Attempts: 1 Run, 2 provider attempts, 2 leases, stale clocks, lost acknowledgements. Page: Runs of 3 and 1 questions in blocks of 2 | counters equal the ledger; concurrency, per-minute and lifetime limits; per-question retry budget; a call only touches its own row; rows move one way; the page shows one moment, and an ended Run completely in the end |
| `queue` | 2 workers of which one may die, 1 fault; 2 messages without and 1 with heartbeat errors | what a shutdown cuts off stays pending; pending entries drain if Redis is up again and again; each committed Run finishes |
| `database` | 9 revisions on both dialects, up and down, 2 backups; 2 importers; 1 Model, 1 Run, 2 clients, 3 URLs of 2 origins, 2 keys; 2 workers and 2 Runs under 2 policy documents; 3 sessions, 2 Runs, nine kinds of transaction | migrations keep guarded rows, end current and leave a way back but for half a SQLite downgrade; imports are whole, into an empty head, and deadlock free; keys stay at their origin and active Runs keep their provider; bounded bypass, backlog and windows; no circular wait |

### Where the code and what is said of it differ

| run | what TLC shows | said in |
|---|---|---|
| `runner_cancel` | a cancellation between `execute`'s read of the flag and its yield or deferral leaves a pending, flagged Run nobody may claim or reap, until somebody cancels again | `docs/API.md:1097` |
| `leases_cancel_delayed` | cancelling a governance-delayed pending Run violates `governance_delay_matches_pending` and is rolled back | `docs/API.md:1096` |
| `locks_cursors` | with an existing cursor `question_context` and `reserve` lock cursor then Run; takeover, `fail_attempt` and the reaper lock Run then cursor; they can deadlock | ADR-0009:39, which has no place for cursors |
| `scheduling_ties` | with clock readings in whole seconds (SQLite) a Run that yields ties with a younger one and is served again before it | ADR-0009:98 |
| `ledger_lag` | a `reserve` that started before its lease expired adds a row to a lease the reaper has already reconciled and audited; the next reconciliation has other counts under the same audit key (`repository.py:2052`) and aborts | ADR-0009:90 (reconciliation is idempotent) |
| `queue_lost` | a heartbeat that meets a database error ends `execute` with True, and the delivery is ACKed under a lease that is still the worker's (`evaluation_runner.py:394`) | `docs/ARCHITECTURE.md:595` |

PostgreSQL aborts one party of a deadlock and the code then yields or retries, so
`locks_cursors` costs an attempt, not data. `RunsFinish`, checked in the `queue` run with the same
heartbeat errors, shows that `queue_lost` loses no Run: the database scan finds it.

Two more sentences of the documents are not what the code does, and no run is needed to see it.
ADR-0005:81 says that an expired lease is never revived: a heartbeat that started before the expiry and then
waited for the row lock compares with its own, earlier clock reading (`run_leases.py:83`) and renews
it; `ExpiredNotRevived` below is what remains true. And `db/model_lock.py:16` asks every creator of Runs to lock the
Model's row first, which `cli/evaluate.py:684` does not do.

Some properties hold only under a premise, which the property or the configuration
states; other constants show where each stops:

* `ExpiredNotRevived` speaks of leases that expired `MaxLag` ago or earlier, before the oldest possible clock
  reading. `LeaseNotStolen` and the rest hold for any lag.
* `DrainedNotAcked` is about shutdowns: it excludes heartbeat database errors (`unstable`), after
  which the code does ACK (`queue_lost`).
* `FactsKeepTheirPlace` is about rows some guard is there to keep. What downgrades 1 and 2 give up
  has no guard. `NeverStranded` has one exception for SQLite: no backup is made before
  a downgrade, and one that is cut short leaves a database preparation refuses.
  `docs/OPERATIONS.md:410` and `438` leave the backup to the operator.
* `NoCircularWait` needs the kinds of `Database.cfg`. With `Kinds =
  {"first_context"}` and two questions in one Run, two first `question_context` calls hold the foreign key's
  share lock on the Run and both ask for `FOR UPDATE` (`repository.py:621`).
* `BoundedBypass` allows one service per *worker* and per lease the other Run lost, not one:
  a worker may act on a scan made before the other Run was served, and a Run whose lease
  expired comes back under the key it had. So the one slice each of ADR-0009:98 is exceeded by
  one for every further worker, and again after every failure: the other Run is served at
  most |workers| * (1 + failures) times. (Without the failures the bound holds with two workers
  and fails with three, which the attempt to prove it showed.) With ties (`CoarseClock`) it fails for a single worker too.
* `WindowOfOneDocument` adds up the buckets of the versions of one document. Runs of *different*
  documents spend in windows of their own, so the total of a minute in which the policy
  changes may be the sum of two limits.
* `CreatedKeyringStays` speaks of the start that reported "created". One that reports
  "kept" may see the keyring go, when the creator's directory sync fails and it rolls
  back (`ensure_credential_keys.py:397`).
* `ReadyIsCurrent` sees of a PostgreSQL schema only what comparing with the models
  shows; the checks of triggers, modifiers and CHECK texts are for SQLite.

### Bounds

* Two workers suffice for every two-party race on a lease. `MaxClaims = 6` is twice the
  three attempts a Run has, so that yields and deferrals, which cost no attempt, happen around
  failures; two Runs that move together share `PairClaims = 3`, enough for a takeover of one beside a
  claim of the other and for a batch of the reaper; the theorems of section 4 have no such bound.
* `LeaseFor = 2`, `MaxLag = 1`: a clock reading may fall before or after an expiry
  that has happened, and a heartbeat makes a difference.
* Two questions give partial evidence; three with quantum and concurrency two give a
  quantum that ends with work left and one that does not.
* Ledger: limits of 1 to 5 units against reservations of 2 and usages below and
  above it, so that each limit is reached, and a call may settle over its reservation; one
  minute change between reserve and send. Accounts are shared between Runs, so they are
  checked with two Runs and one lease each; retries belong to one Run, so they are checked with one Run and two
  leases (`MaxToken = 2`).
* Two operators, importers, starters, clients and workers suffice for the two-party races
  these components have; a third session in `RowLocks` allows circles of three.
* Streams of three events have an opening, a piece of text or junk and an end, and are cut at
  every byte; the limits are small enough to be crossed in every way.
* Retention: with a retention of 1 and a clock to 3 an event is fresh, archivable
  and expired, and an event key can be used again after its event was deleted.
* `MaxSignals`, `MaxFaults`, `MaxMessages`, `MaxUnstable`, `MaxToken`, `MaxMinute`, `MaxEvents`,
  `MaxClock`, `MaxProgressTime`, `MaxWireEvents`, `Backups`, `MaxNow`, `MaxSourceWrites`,
  `MaxTargetWrites`, `MaxSecrets`, `MaxRotations` and `MaxCorrupt` cap what would
  repeat without end; each appears in the guards of the action it limits.

Symmetry is used for interchangeable processes, questions, paths and event keys, in runs without
liveness only. `CHECK_DEADLOCK FALSE` stands where the system really stops: a Run
whose tokens are used up or whose question is answered (`leases_and_tools`, `run_evidence`), a command that has
reported (`leases_and_tools`, `database`), a provider call that has returned (`worker_process`),
transactions that wait for each other (`locks_cursors`). `runner_liveness` checks the runner with
deadlock detection.

### Fairness

* `EvaluationRunner!FairSpec`: weak fairness of each worker's own steps (an event
  loop that runs its ready tasks; a crashed worker restarts under its service manager), of the reaper
  (each worker's scan calls it) and of time. There is none for the heartbeat, crashes, signals or
  users: they may happen or not, and the Run must end all the same.
* `WorkerQueue!FairSpec`: weak fairness of each worker's loop, of the lapse of a lease
  nobody attends to, and of pending entries growing idle. Redis is never assumed to come back,
  except as the premise of `PendingDrains`. A worker in `Mortal` may stop for ever; the other may not.
* `RunProgressView!ViewFairness` (and its restriction to the page's behaviours in
  `MCRunEvidence`): weak fairness of the page's timers and of ending a sync, and strong fairness of
  each successful answer: a request the page repeats for ever succeeds at some time. How often it fails,
  is superseded or answers late in between is not bounded.

## 4. Proofs

Every theorem holds for all sets of workers, Runs, questions, sessions, clients, operators
and so on, and for every value of the numeric constants: the bounds of section 3 are for
TLC. The constants that bound a model (`MaxClaims`, `MaxEvents`, ...) are arbitrary natural
numbers in the proofs.

| module | theorems | inductive invariant |
|---|---|---|
| `RunLeasesProofs` | `Typing`, `Constraints`, `Fencing`, `Answers`, `Completion`, `NotRevived`, `Reports`, `RetryBudget`, `Finality`, `NotStolen`; `Refinement` | `Inv`; `CancelWasAsked` |
| `EvaluationRunnerProofs` | `NothingStranded`, `AsksOnce`, `OneQuantum`, `CancelStopsAnswers` | `RIInv` |
| `GovernanceLedgerProofs` | `Attempts`, `RowsOneWay`, `AccountsKept`, `Limits` | `AttemptsIInv`, `AccountsIInv`, `Limited` |
| `SchedulingProofs` | `LockOrder`, `Service`, `Admission`, `Fairness` | `LockInv`, `SchedInv`, `FairInv` |
| `WorkerQueueProofs` | `QueueTypes`, `DrainIsNotAcked` | `QIInv` |
| `DatabaseProofs` | `ImportIsSound`, `CredentialsAreSafe`, `MigrationIsSafe` | `IImpInv`, `CredIInv`, `MigIInv` |
| `FilesProofs` | `KeyringSafe`, `ProgressKept`, `RetentionSafe`, `WholeArchives`, `PageTellsTheTruth` | `KeyIInv`, `ProgressIInv`, `RetIInv`, `ViewIInv` |
| `ProviderStreamProofs` | `StreamMemory`, `StreamAnswers`, `StreamRefusals` | `StreamIInv`, `AnswerInv` |

*Assumptions*, all named in the module that declares the constants and evaluated by TLC:
the null values are no worker, no time, no Run and no operator (`OwnerAssumption`,
`TimeAssumption`, `QueueAssumption`, `OperatorAssumption`); importers and clients are not
called like the application or a free lock (`ImporterNames`, `CredentialAssumption`); questions, workers and Runs are
finite where they are counted; attempts, lengths of leases, blocks and limits are positive; backoffs,
lags and bounds are natural numbers. Two theorems have the premise their run has as
well: `Fairness` that claims and yields have distinct times (`CoarseClock = FALSE`), `LockOrder` that only transactions run that take
the global scope first or have a single lock (`Kinds` within `OrderedKinds`). Section 3 shows each fails without.

### Lease repository

`Inv` is `TypeOK`, `EvidenceFenced` and `RowOK` for each
row. None of the properties is inductive alone:

* `CompletedAnswersAll` is decided by a **count** of Responses; that the count
  implies that all questions are answered needs their distinctness (`CountIsEnough`);
* `ReportMatchesEvidence` needs that no terminal row accepts a Response, which
  needs the CHECK constraints (a terminal row has no lease) as an invariant;
* `AttemptsChargedOnce` needs that a live row has failures below its maximum,
  which in turn needs the split of expired leases between takeover and reaper;
* `EvidenceFenced` needs that no held lease is ahead of its row's token (in `TypeOK`).

There is one lemma per row transformer (each preserves `RowOK`), frame lemmas for steps
that leave the rows alone, and then one step per action. `Finality`, `NotStolen` and
`NotRevived` are action properties from the same invariant.

*Refinement.* It is shown first that a cancelled row had its
cancellation asked for (`CancelWasAsked`), then that every step changes rows only in one of a few forms
(`StepForms`), and that each form is a lifecycle step or a stutter
(`MoveIsLifecycle`). The reaper changes several Runs at once, which the abstract next-state relation permits.

### Evaluation runner

A lease token is in the hands of one worker, or of the threads its worker left behind,
never of both while the worker may still ask. What is asked or stored under a token is
fixed when the questions are loaded, is at most a quantum, and only shrinks after that
(`AskedUnder`); a late thread stores one of those questions. `OneQuantum` counts the
Responses of a token by mapping them into that set, `AsksOnce` uses that a good lease
loaded its questions after the last Response of any other lease.

### Ledger

`AttemptsIInv`: every row is numbered below its question's cursor (`Numbered`), and since
the question's last failure no two rows that were sent or still may be share an ordinal
(`OrdinalsSpent`); without the first, a reservation could meet an existing key. For the
accounts every transaction is one of four forms: it leaves rows alone, closes a set of
rows, reserves (after closing stale ones), or marks one as sent. Each form changes a scope's and a
minute's counters by exactly what it changes in the rows. Sums over rows are the community
modules' `MapThenSumSet`, whose recursion is unfolded once for all, by minimal counterexample over
finite subsets, instead of by induction. `Limits` follows because a reservation checks the
counters of the rows it will be added to; the token limits are only promised while no attempt
has overdrawn its reservation.

### Locks and scheduling

Whoever has a second lock to ask for holds the global scope, which is exclusive
(`LockInv`); so in a circle of waiting sessions two would hold it. That each lock sequence has
this form needs what `FlattenSeq` returns, again by minimal counterexample.
`Service` needs that a worker owns the Run of its slice alone and that a corrupt row
is neither in a slice nor waiting for one (`Owned`). `Fairness` keeps, for each waiting Run and each other one,
that the services of the other are covered by its failures and by the workers that may still act on
an old scan (`Waiting`), and that the keys keep their order when they are compressed.

### Queue

`QIInv` adds to the types what each program counter implies of a worker's memory, that a
worker that reports its Run as handled no longer holds the lease unless a heartbeat met a database error (`GivenUp`), and
that only delivered messages are pending. `DrainIsNotAcked` is then a property of the steps that ACK.

### Database

* Import (`IImpInv`): what the importer knows of its transaction and what the server knows agree
  up to a lost reply; table locks are only held under the advisory lock, so importers
  are ordered; between emptiness check and commit nothing else writes.
* Credentials (`CredIInv`): what a request read under its locks is still true when it commits
  (`RequestOK`), although `delete_model` takes none; an envelope is of a secret entered for its Model
  and origin (`Known`), and an active Run's Model has the provider of its snapshot (`RunOK`).
* Migrations (`MigIInv`): every image of a database (live, saved by a transaction, in a backup) has the parts
  of its revision up to the indexes an early revision 4 lacks (`MayLack`) and the column a stamped schema has in
  advance (`MayExceed`), repaired data from revision 7 on, and only rows its parts can hold; and
  at each step of an upgrade the original is acceptable again once blocking rows are
  corrected, or a backup holds the same rows (`StepOK`, `UpOK`, `Rescued`). During a downgrade the schema is
  exactly the one of its revision, up to the "cut" a step in progress has on SQLite (`DownOK`, `Mended`).

### Files and pages

* Keyring: whatever the path names, now or after a host crash, is synced, and the inodes of
  unfinished attempts have no name (`NamedIsSynced`, `FreshUnnamed`).
* Worker progress: a note is in the row, in a flush or in memory (`NoteKept`).
* Retention: an event is in the table or in an archive *reported* as written
  (`KeptOrArchived`): a file nobody reported may vanish in a crash. A delete about to
  commit still finds every row it lists, which the maintenance lock gives (`OpFits`).
* Page: the index of a sync was true once, and a block held since is older or
  younger than it; as answers only grow, equal counts mean equal cells (`SyncOK`).

### Streams

`StreamMemory` is the part of `StreamInv` that bounds memory: the limits are kept after every
step and not only while the adapter waits (`StreamIInv`). The other two theorems compare the
reader with the symbols `T` the Provider has sent in this attempt. `AnswerInv` says, while the adapter reads:

* `T` is the events of `wire`, one behind the other, each laid out as its lines: a comment, name,
  data lines, a blank one (`Sent`, `LaidOut`, `Lays`); `Write` puts one more behind it (`SentMore`);
* the reader stands before a line of the next event, with the data lines, the name and the byte count
  of the lines before it (`Place`), and buffer and pipe together are the rest of `T` (`Unread`);
* the accumulator holds what the events before that one said: their text in order, the last usage
  report, one id, one finish reason, one start (`Told`);
* at the end of a body that was cut, the buffer may end in a part of a line (`Severed`), and once that is taken,
  what is gathered is no document or nothing, while the pipe is not empty (`Torn`).

A chunk moves the boundary between buffer and pipe and nothing else (`ChunkRead`): that is why no
cut matters. `_pop_sse_line` finds the line that was laid out, for each line ending, and waits at a CR that
ends the buffer (`PopNow`, `LineRead`, `BlankRead`). A blank line hands the accumulator exactly the event that was sent
(`DispatchUnderstood`), which leads to one more event told, to a complete answer, or to an
error that the stream excuses (`Understood`; one lemma per protocol). A call that is over is `Fair`: its result
is complete or its error excused, and nothing later changes that. The text is compared by the places
its pieces come from (`Says`), so that no theorem about folds over sequences is needed. The theorems hold for streams of
any number of events of the alphabet of section 2, of any line ending and form, and for all values of the three
limits and of `MaxRetries`.

### Only model-checked

* Liveness (`RunConverges`, `RunsFinish`, `PendingDrains`, `EndedRunReconciles`): fairness
  is out of the prover's reach.
* The six properties of section 3 that the code does not have.

## 5. Not modelled

* Dataset loader, evaluators, prompt rendering, request validation, report and page
  layout, metrics and logging: functions of data or files, with unit tests, without interleaving.
* Cryptography, JSON and character encodings: an envelope is what it authenticates, a document is
  whole or not.
* Payloads of provider requests, answers without a stream beyond success and failure, redaction.
* Provider preflight and the worker probe, which only read.
* `cli/evaluate.py` creates legacy Runs (without the lock of `db/model_lock.py`, section 3)
  and executes them through the runner modelled here; the
  `phase2_*` scripts drive a deployed system from outside.
* Several policies in one ledger: `GovernanceLedger` has one policy; what changes of
  policy do to windows and admission is in `RunScheduling`, without amounts.

## 6. Plan

1. **Streams**: a wider alphabet (several choices in a chat chunk, `_select_choice`),
   with the accumulators' lemmas stated over a class of events instead of a list.
2. **Cancellation**: the refinement keeps whether cancellation was asked for; a second
   abstract specification, of the runner, would state what `execute` promises the queue.
3. **Queue and leases**: a common invariant of `WorkerQueue` and `RunLeases`, in which
   claim, lapse and finish are the transitions of a row.
