# A verification project for pgbase

pgbase is a backend in one Go binary on top of PostgreSQL: collections of
records behind an HTTP API with access rules, authentication, file storage,
realtime subscriptions, scheduled jobs and backups. Several instances may share
one database. This directory holds TLA+ modules of the parts of it where order,
concurrency and failure matter, TLC configurations that check them, and proofs
of what matters most. Every definition is translated from the Go source;
`PROJECT.json` maps each one to the lines it stands for and lists components,
runs, mutants, findings, hazards and theorems.

Run it from this directory:

    tlc -workers 2 -config Outbox.cfg RealtimeOutbox.tla
    tlapm RealtimeOutboxProofs.tla

## 1. The system

| Component | Source | State | Operations | What is hard |
|---|---|---|---|---|
| Model operations and transactions | `core/db.go`, `core/db_tx.go` | the transaction an `App` value belongs to, its completion callbacks, each model's IsNew flag | create, update, delete, RunInTransaction, AuxRunInTransaction, RunInSingleTx | hooks run user code around every write, open transactions, fail, panic; success is reported after the commit |
| Realtime outbox | `core/realtime_outbox.go`, `apis/realtime_outbox_listener.go` | table `_realtime_outbox`; each listener's cursor | publish, page, seed, reconnect, clean up, stop | rows commit out of key order; readers start late, disconnect, fail, are torn down |
| Realtime messages | `apis/realtime.go`, `tools/subscriptions` | registered clients with channel, subscriptions, auth and store; the delete stash | connect, subscribe, broadcast create/update/delete, auth changes, unregister | a delete's message is prepared before the delete and sent after its commit, through shared keys |
| Cron | `tools/cron/cron.go` | ticker, start timer, jobs | Start, Stop, SetInterval, runDue | goroutine, timer, unbuffered channel and lock together |
| Notify watcher | `core/notify_watcher.go` | sentinel files, debounce timer | write and remove a sentinel, read an event, reload | two kinds of changes and several writers share one timer |
| Heartbeat | `core/instance_heartbeat.go` | the stop and done channels of the running goroutine | bootstrap, terminate, tick, cycle | bootstraps and terminations overlap; a channel must not be closed twice |
| Cron guard, audit writer, log batches | `core/cron_guard.go`, `core/audit_writer.go`, `tools/logger` | advisory locks, buffers | guarded run, enqueue, flush, stop | one-per-firing, drop or flush at shutdown, restarts |
| Lifecycle | `core/base.go`, `apis/serve.go` | database handles, goroutines | Bootstrap, ResetBootstrapState, Terminate, Restart, Serve | goroutines that outlive the handle they use |
| Backup and restore | `core/base_backup.go`, `core/backup_*.go` | data directory, temporary directories, active flag | create, restore, revert | a directory swap of several renames, with crashes in between |
| Migrations | `core/migrations_runner.go` | table `_migrations`, advisory lock | up, down, history-sync | instances that start together |
| Auth | `apis/record_auth*.go`, `core/otp_*.go`, `core/mfa_*.go` | OTP and MFA rows, token keys | password, OTP, MFA, OAuth2, refresh | single use of rows that two requests read at once |
| Record files | `core/field_file.go`, `core/record_model.go`, `tools/filesystem` | a record's row and its directory of files; the lists of names the record object carries | save, delete, commit, roll back, clean up | files are not transactional; every failure has its own cleanup |
| Multipart upload | `tools/filesystem/internal/s3blob/s3/uploader.go` | the parts sent so far | read, send, list, complete, abort | workers share the payload; answers are lost |
| Batch | `apis/batch.go` | one transaction, two channels | process, answer, give up | a timeout against work that goes on |
| Records, rate limits | `core/record_*.go`, `apis/middlewares_rate_limit.go` | rows, windows per client | CRUD, limit | |
| Query building, fields, views, mails, JS bindings, CLI | `core/*field*.go`, `tools/search`, `plugins`, `cmd` | none, or I/O | | data, not control |

How they interact. A request runs model operations on an `App`. Hooks registered
by the other parts run inside them: realtime prepares and sends messages from
`OnModelDelete` and the `OnModelAfter...` hooks, publishes to the outbox, and the
listeners of the other instances broadcast what they read to their own clients.
Settings and collection saves write sentinels that the other instances' watchers
answer with a reload. Cron jobs (cleanup of the outbox, heartbeats, OTPs, logs,
automatic backups) run on the ticker under an advisory lock. Bootstrap creates
the handles and the goroutines that all of this uses; terminate and reset end them.

What makes each part correct:

- *Model operations*: an `After...Success` hook is fired only for what is
  committed, an error hook for what is not; each operation reports once; the
  IsNew flag agrees with the table afterwards.
- *Outbox*: a listener broadcasts every event of other instances after the point
  it started from, in one common order, none twice.
- *Realtime deletes*: nothing is announced before the commit, a committed delete
  is announced once, and nothing is left over for a later delete.
- *Cron*: one ticker or none, calls return, a started cron goes on running jobs.
- *Notify watcher*: an instance that is out of date has a reload coming.
- *Migrations*: each is applied once and the recorded history agrees with the
  schema, whatever versions start together and wherever a run dies.
- *Files*: every file a row names is stored, and none is left that no row names.
- *Restore*: the data directory never holds parts of two contents, and the old
  content is on the disk until the new one has started.
- *Batch*: the answer is what was committed. *Upload*: an object is the whole
  payload. *Heartbeat*: one goroutine or none, no channel closed twice.
- *Cron guard*: no two runs of a job at once. *Audit and log writers*: buffers
  flushed at the end. *Auth*: an OTP or MFA row is used once. *Rate limits*: at
  most the allowance in each window.

## 2. The modules

### RealtimeOutbox and BroadcastLog

`RealtimeOutbox` models the table and the listeners. An element of `Instances` is
one process lifetime; a restart is another element, since it has a new origin and
a new cursor. `status` and `created` are the rows: an INSERT gets its `created`
when it starts (`BeginPublish`, `NOW()`) and becomes visible when it ends
(`EndPublish`), which may also fail; `CleanupStaleRealtimeEvents` deletes by age.
`pc` follows the listener goroutine: connect (the nil check of the handle), dial,
back off, seed, check `stopCh`, read a batch, process it row by row, advance the
cursor, wait. Each is one action, so a handle may be closed and cleared
(`ResetBootstrapState`) between the check and the query. Queries fail
(`Fault`, at most `MaxFaults`), connections are lost, `Stop` comes at any time.
NOTIFY carries nothing but a wake-up and the listener also polls, so `Wake` needs
no message. Payloads are left out; `processEvent` never stops the pass.

`BroadcastLog` is what this promises: events published into an ordered log, never
at a place before something a listener that owes the event has heard; listeners
that hear the next event in order and skip only what has expired. `ImplementsLog`
is the refinement `Log == INSTANCE BroadcastLog WITH ...`.

### ModelTx

One goroutine of user code, its call stack `stack`, the operations and the
transaction scopes on it. `Open`, `Close`, `RunAfterFunc` and `EndScope` are
`runInTransaction` and `RunInSingleTx`; `Begin`, `Write`, `FailLate` and `Finish`
are `create`, `update` and `delete`, which share their control. Which scope
receives an operation's report (`TxInfo`) and which handle the statement runs on
(`HandleOf`) are separate, as in the code; a hook may open a scope around the
write by swapping `e.App`. Statements fail and abort their transaction, commits
fail, hooks fail after the write (`late`), user code panics. A commit whose
connection is lost counts as a rollback: whether the server committed is unknown
to the program. Hooks are taken to call `e.Next()` and to return its error: a hook
that swallows the error of the write, or that ends the chain without one
(`apis/record_crud.go:397-402` provides for it), is outside the model.

### RealtimeDelete

The delete of one record by several requests: the messages prepared into every
subscribed client's dry cache, the snapshot into the process-wide stash, the
DELETE with its row lock, commit, rollback or panic, then the flush to goroutines
that send, or the removal. Each action is one critical section of a client's
lock, the stash or the database; a loop body is a read (`DryGet`, `FlushGet`,
`DropGet`) and a write (`DrySet`, `FlushUnset`, `DropUnset`), between which other
requests run. A request prepares one message for each subscription of a client
(`Topics`: a client may match a record by several prefixes) and appends it to what
the dry cache holds. Whether a subscription exists, and whether its rule allows the
record, may change at any time; the code asks for each of them once, when its loop
comes to it, so the answer is a choice made there (`DryGet` or `DrySkip`) and clients
need no subscriptions of their own in the model. Clients are of one chunk (the code
visits up to 150 in sequence) and disconnect at any time; their channel has
`Capacity` places and `Send` drops what does not fit (`dropped`).

The outbox listener of the same process handles a delete of another instance with the
same dry-cache functions and key (`processDelete`); as it finds a cache that a local
request has filled only when both delete the same record, it is not an actor here.

### CronTicker

`Start`, `Stop` and `SetInterval` as sequences of steps, the start timer with its
callback, and the ticker goroutine. The g-th start gives its number to what comes
from it, so an old callback or loop that is still alive is visible as such. `Stop`
waits at `step = "send"` with the lock held, which `RunDue` and `NewTicker` need.
The calls follow each other (bootstrap, reset and settings changes are sequential
in the application). Timer and ticker fire whenever they like, also between two
locked sections of a call. The history variable `overtaken` says that a `Stop` has
come between a timer that fired and its callback; the code does not handle that
(finding `cron_stop_leaks`), and what holds without it is stated with `~overtaken`.
`calm`, chosen in the initial state, makes timer and ticker wait for the calls: the
liveness properties are about such behaviours, because of the finding
`cron_stop_hangs`. The list of jobs is left out; it is read and changed under the
same lock.

### NotifyWatcher

Sentinels, the file events they cause, and the one debounce timer of a watching
instance. Time is in units of 50ms: a window of 200ms is `Debounce = 4`, the
removal after 250ms `RemoveAfter = 5`. Events are read as soon as they come
(`Tick` waits for them), a reload is one step, the merging of events that macOS
does is left out.

### Migrations

Processes of one application, of the versions `Known`, share the database. `Begin`
to `Commit` is `runMigrationTx`: the advisory lock, then `Up` or `Down`, file by
file. `work[p]` is what the statements of p's transaction see; `db` is what is
committed. `HistorySync` is one DELETE outside the lock, so it reaches into a run
in progress. `ShouldReapply` is the `ReapplyCondition` of the system migrations,
which `MigrationsList.Copy` drops, so `job = "all"` never reapplies. A table is
present or absent; `Apply` and `Revert` fail when they find the wrong one. `Abort`
is a lost connection, an error or the death of the process. `left` is a history
variable: tables whose row was removed without a `Down`. All rows are stamped by
one `clock`; processes whose clocks are apart would revert in the order of their
clocks, which no property here speaks of. `MCMigrations` names the processes.

### RecordFiles

One file field of one record. `rec` is the record object with its names, its
`File` values not yet uploaded, and the lists `uploaded` and `toDelete` that its
hooks fill; `view` is the row as the open transaction sees it. A save uploads
(`Upload`, `UploadFails`), writes (`Write`, `WriteFails`) and reports
(`AfterSuccess`, or at the end of its transaction `ReportCommitted` and
`ReportRolledBack`), and each failure removes what it should. Saves follow each
other, but the object may be of any age (`Load`): the row may have changed since, be
gone, or have been created by somebody else. Every deletion of files may fail for any
of them, an upload that fails may leave a torn file
(`tools/filesystem/filesystem.go:252-254` closes the writer, which keeps what it has),
`Sweep` removes the directory of a deleted record in the background, `Crash` comes
anywhere. An update of a row that is gone affects no row and is no error, so its
uploads stay. `mishap` remembers a failed deletion, a torn upload, such an update and a
crash, after which orphans are expected. Kept
apart from this model, and known to be different there: saves of the same record that
overlap each other, a hook of the application that fails after the write (outside a
transaction that leaves a committed row whose files have been removed), a save of a
stale object with `IgnoreUnchangedFields` (`core/record_model.go:833-842`), and the
re-creation of a record under the same id while its directory is being removed
(guarded in `Save`).

### RestoreSwap

`restoreBackup` without a database dump: extract, move the content of `pb_data`
aside, move the extracted content in, commit, replace the process. `at` says where
each entry is; a move is one `Rename` at a time, any of which may fail, and
`MoveDirContent` then takes back what this call has moved (`Undo`), which may fail
too. `Return` is the deferred removal of the extracted directory. `RestartFails`
leads to `revertDataDirChanges`; `Die` comes anywhere, also after a success of the
CLI; `Bootstrap` is the next start, whose `RemoveTemp` deletes what was moved aside.
With a dump the import takes the place of the moves and is one transaction.
Requests that write files while a restore runs are outside the model.

### Batch

The goroutine of `process` with its recursion (`cur` goes up through `NextRequest`
and down through `Back`) and the handler of `Process` beside it, joined by
`stopCh` (room for one), `errCh` and the transaction. The handler gives up at any
time (`GiveUp`), panics end the goroutine without an answer, commits fail.

### Uploader

The workers of a multipart upload: each reads and numbers a chunk in one critical
section, sends it, lists it. A request may fail after S3 has done what it asked.
The group has no context, so the other workers go on when one fails and `Wait`
waits for all. A `MaxConcurrency` of 1 still runs one worker beside the first
part's, which is the least `ConstantsAssumption` admits. That S3's answer means what it says is an
assumption: a completion that is answered 200 with an error in its body
(`uploader.go:304-310` does not read it) counts as done here as it does in the code.

### Heartbeat

`init` in two steps (the swap under the lock, and the start after the wait for the
goroutine it replaces), concurrent `cleanup` calls, and the goroutines, each with
the channels of its own bootstrap. A `cleanup` that finds nothing running returns
at once, also while another one is still waiting for the goroutine.

### MCComponents and MCRequests

Migrations, CronTicker, NotifyWatcher, RestoreSwap, Batch, Uploader, Heartbeat and
RealtimeDelete share no state, so composing them would only multiply their graphs.
`MCComponents` checks them in one run instead: `focus`, chosen in the initial state,
says whose steps a behaviour takes. The graph is the union of the eight graphs; a
property of one component is checked on all of its behaviours, and is trivially kept
by the others'. The sizes of the components are constants of this module, to which
`Components.cfg` gives small values and `ComponentsProofs` none. One choice is fixed
in it, because the properties do not hold without it: all changes are of one `Kind`
(the run `notify_mixed` mixes them). RealtimeDelete is here for its liveness, with
requests that follow each other and channels of one place.

`MCRequests` does the same with what a write request goes through: ModelTx, which it
extends, RecordFiles and RealtimeDelete, here with overlapping requests and a panic.

## 3. What the runs check

| Run | Module, cfg | Shows |
|---|---|---|
| `outbox` | RealtimeOutbox, Outbox | TypeOK; NoSkip; InOrder; ImplementsLog; EventuallyForwarded; StopEndsListener |
| `requests` | MCRequests, Requests | TypesOK, the three type invariants; operations, scopes of one database: HooksTellTheTruth, NewAgreesWithRow, EveryOpReported; files: NoDangling, NoLeftovers; deletes, overlapping or not: NoDeleteBeforeCommit, NothingLeftBehind, and for those that have not overlapped DeletedOnce, CommitIsPublished |
| `components` | MCComponents, Components | TypesOK, seven type invariants; migrations: ChangesOnce, RowsMatchSchema, UpCompletes, NewestReverted, EveryRunEnds; cron: StopHalts, OneStartInEffect, QuietCallsReturn, JobsKeepRunning, TicksAreTaken; watcher, one kind of change: ReloadIsDue, ReloadsAfterBurst; restore: NeverMixed, OldIsKept; batch: AnswersTruly, WritesReported, BatchEnds; upload: UploadIsWhole, NothingLeftAtS3; heartbeat: OneHeartbeat; deletes: EventuallyReceived |
| `outbox_commits_ahead` | RealtimeOutbox, OutboxCommitsAheadOfCursors | finding: a seed taken from an unsettled tail is ahead of an INSERT in flight |
| `listener_panics` | RealtimeOutbox, ListenerPanics | finding: the teardown clears the handle between the stop check and the read |
| `tx_cross_db` | ModelTx, TxCrossDB | finding: with nested scopes of both databases a success is reported before the commit |
| `delete_lost` | RealtimeDelete, DeleteLost | finding: a request that rolls back discards what an overlapping one has prepared |
| `delete_twice` | RealtimeDelete, DeleteTwice | finding: a client gets the messages of two overlapping requests |
| `cron_stop_hangs` | CronTicker, CronStopHangs | finding: Stop and the loop wait for each other |
| `cron_stop_leaks` | CronTicker, CronStopLeaks | finding: a callback that Stop has overtaken starts a ticker |
| `notify_mixed` | NotifyWatcher, NotifyMixed | finding: an event of the other kind cancels a reload |
| `restore_reverts` | RestoreSwap, RestoreReverts | finding: a failure of the moves leaves the old content aside |

Every property of a passing run is violated by a mutant of the module that
changes one definition the way a slip in the code would (`mutants` in
`PROJECT.json`); the mutants stand beside the definitions they change.

### Bounds

- *Outbox.* Two instances and one followed listener: a listener only reads the
  table, so two listeners cannot affect each other, and the other instance is
  there to publish. Two rows and batches of one give a backlog longer than a
  batch and a row that commits between two reads or out of order. `Lag = 2 >
  MaxCommitDelay = 1` is the code's assumption that no INSERT takes longer than
  the lag; `ConstantsAssumption` states it. The clock runs to 5 with publishing
  until 2, so that every row settles, and `Retention = 3` lets rows expire before
  and after they are read. One fault is enough for a failed seed, read or
  connection and its consequences. The proofs have none of these bounds.
- *ModelTx.* Three operations, two scopes and four calls deep: an operation in a
  scope in an operation in a scope, or two operations beside each other in one.
  One panic. Two operations for the violation.
- *RealtimeDelete.* Two requests, one client with two subscriptions and a channel of
  one place, which its second message may find full; one panic in `requests`. A third
  request meets the same shared keys in the same states, and clients share nothing but
  the requests.
- *CronTicker.* Four starts: an arbitrary sequence of calls with restarts. In
  `components` no call begins once a `Stop` has overtaken a callback
  (`CallsOnceOvertaken = FALSE`): from there on the properties say nothing, and the
  proofs do without the bound.
- *NotifyWatcher.* Two writers; three changes of one kind, or one of each.
- *Migrations.* Two processes of a new version and one of an old one that does not
  know the last of three migrations: one conditional, one without a Down, one with
  both plain. Four runs let an up, a down and another up meet a history-sync.
- *RecordFiles.* Three file names: one that is kept, one replaced, one added. Up
  to three saves in a transaction.
- *RestoreSwap.* Two entries of each content, so that a move can be half done.
- *Batch.* Three requests: one that is first, inner, last.
- *Uploader.* Three workers and up to three chunks: the empty payload, the single
  request, and parts that finish out of order.
- *Heartbeat.* Three bootstraps and two terminations at once.

### Fairness

Only what the runtime schedules is fair. The outbox listener's steps, the end of
an INSERT and the clock (`Fairness` of RealtimeOutbox): goroutines run, statements
have timeouts. A started request, a send goroutine and a client's writer
(RealtimeDelete): but nobody has to make a request, subscribe or disconnect. A
call of the cron that can go on, each goroutine and timer, and the ticker while its
channel is empty (CronTicker). A batch's goroutine and its handler, whose timer fires
(Batch). A migration run that has the lock goes on (Migrations). All of these are
weak. The one strong fairness is that of the advisory lock (`SF_vars(Lock(p))`): the
lock is free only now and then for a process that waits, and Postgres hands it to
waiters in the order they came. Faults, crashes, stops, publishing and cleanup are
never fair.

### Behaviour the models have that no run singles out

- A listener whose first seed failed starts from the beginning of the table and
  may replay what is there; the seed on its next reconnect then moves the cursor
  past what was published meanwhile. `NoSkip` counts from the last seed.
- After a panic inside a delete the dry cache and the stash keep their entries;
  `NothingLeftBehind` is stated for behaviours without one.
- When a batch times out, a request that has written and not yet registered its
  completion callback is rolled back without any After hook. `WritesReported`
  allows one such request.
- When a restore fails and so does its restart, the temporary directory may be
  removed by a bootstrap before the revert needs it; the revert then fails and
  panics. A process that dies between the two moves loses the old content at the
  next bootstrap (`core/base.go:497`). `OldIsKept` therefore speaks of the time
  before a bootstrap.
- After a failed deletion, a torn upload, an update of a row that is gone, or a crash
  files stay that no row names; nothing removes them later. `NoLeftovers` counts them out by `mishap`, `NoDangling` does not.
- A run of all migrations does not apply again what a `ReapplyCondition` asks for;
  the next bootstrap, which runs the system migrations, does.

## 4. What is proved

### RealtimeOutboxProofs

It proves, for any number of instances, rows, faults, any
batch size and any lag longer than a commit may take:

- `TypeCorrect`: `Spec => []TypeOK`. Beside the types, a cursor is zero or the
  key of a row that was visible, and a batch is at hand exactly while it is
  processed.
- `NothingSkipped`: `Spec => []NoSkip`.
- `BroadcastInOrder`: `Spec => []InOrder`.

They rest on `ConstantsAssumption` alone, above all `MaxCommitDelay < Lag`.

The argument. `NoSkip` is not inductive: it says nothing of what the listener is
about to do. `IInv` adds

- `InFlightRecent`: an INSERT in flight is no older than `MaxCommitDelay`
  (`Tick` waits for it);
- `CursorSettled`: a cursor stands where it was seeded, or at a row older than
  the lag. So a row that is still in flight lies after the cursor (unless the
  cursor is an unsettled seed, and then the row is not owed), and after every
  row that was read. This is where the lag is needed, and why the finding
  `CommitsAheadOfCursors` does not contradict `NoSkip`;
- `BatchIsPrefix`: every owed row that is visible and not in the batch lies after
  all of the batch, also if it becomes visible while the batch is processed, and
  the part of the batch that is done has been broadcast. So advancing to the last
  row passes nothing;
- `HeardBehind`: what has been broadcast is older than the lag and lies before
  what is still to come, which makes the next row extend the order.

Lemmas cover the order of keys (transitive, total), the steps of the table
(`InFlightStep`, `FewerRowsStep`, `CommitStep`), and the steps of a listener that
read, process, advance and seed; `NextIInv` puts them together, one case per
action.

The same module proves the refinement, `OutboxIsLog`: `Spec => ImplementsLog`, the outbox implements `BroadcastLog` for any
number of instances and rows. The proof adds two invariants to `IInv`: a listener
that is not registered has no cursor (`OffIsNotReady`), and a cursor is never behind
its seed (`SeedsBehind`), without which "past the cursor" would not mean "past the
base of the log". Each step then maps to one of the log: a row that becomes visible
to `Publish`, which is legal because everything heard is settled and lies before it; a
cleanup to `Expire`; taking the tail to `Attach`; a broadcast row to `Hear`; all other
steps, faults and restarts included, to a stutter.

### RequestsProofs

The module EXTENDS MCRequests. Its first part is about ModelTx by itself (`Spec`), for any
number of operations, scopes and nesting: `TypeCorrect` and `ReportedOnce`
(EveryOpReported), also when the two databases are mixed; `HooksAreTrue`
(HooksTellTheTruth) and `FlagIsRight` (NewAgreesWithRow) while they are not
(`~CrossDB`: mixed, they fail, see the finding `tx_cross_db`). They rest on
`ConstantsAssumption`. `StackInv` ties the stack to the states of its calls.
`ReportInv` counts: an operation that has returned is reported or waits in one queue,
once, and a scope with a queue is still on the stack. `Flags` follows `IsNew()` from
the write to the report. `OneDatabase` is why the report is true: there is one open
scope at a time (`OneOpen`), what runs inside of it writes to it (`Inside`), so what
is queued in a scope shares its outcome (`QueuedOutcome`) and what was told stays
true (`ToldTruth`). `Inside` is the fact that mixing the databases breaks. It speaks
of positions on the stack; the lemmas `NestedPush` and `NestedPop` say how calls that
begin and return change them, and `InnermostIn` what the code's "innermost" finds.

The second part is about the run of MCRequests, for any values of its constants, and rests
on `RequestsAssumption` too. The steps of the files and of the deletions are those of
`FileP` and `DeletionP`, instances of the proof modules below (`FileSame`,
`DeletionSame`), so `RequestsInductive`, that `RequestsInv` holds always, follows from the
three parts: ModelTx's `IInv`, `FilesInv` and `DeletionInv`. From it come `RequestsTypes`
(TypesOK), `RowsNameStoredFiles` (NoDangling), `NothingIsStoredInVain` (NoLeftovers),
`DeleteAfterCommit` (NoDeleteBeforeCommit), `CachesAreEmptied` (NothingLeftBehind),
`DeleteComesOnce` (DeletedOnce) and `CommittedIsPublished` (CommitIsPublished).

### RealtimeDeleteProofs

For any number of requests of the record, overlapping or not, any clients, subscriptions
and panics, and any size of the channels: `TypeCorrect`, `AnnouncedAfterCommit`
(NoDeleteBeforeCommit) and `CachesAreEmptied` (NothingLeftBehind). They rest on
`ConstantsAssumption`. `IInv` adds three facts. A request that has written holds the row
lock or the delete of another is committed, and one that flushes knows of a commit
(`Announces`): this is why the shared cache is harmless here, whoever filled it. What is in
a dry cache will still be visited by some request's loop (`CacheOwned`), and a snapshot in
the stash has a request that will empty it (`StashOwned`), unless a hook has panicked.

Two more theorems have an exception that the history of the behaviour decides, not a
constant: requests may overlap at any time, and the statements hold until they have
(`overlapped`). The runs `delete_twice` and `delete_lost` show that both fail afterwards.

- `DeleteComesOnce` (DeletedOnce), while no hook has panicked: a client gets one message at
  most for each of its subscriptions, through rollbacks and failed preparations. After a
  panic the next request finds the messages of the one before it and adds its own.
- `CommittedIsPublished` (CommitIsPublished), also after panics, if the messages could be
  prepared: a preparation that fails leaves no snapshot in the stash.

`SeqInv` strengthens `IInv` for them. `OneByOne`: one request is active (`Alone`), and the
record is there until it commits (`BeforeCommit`), so one request in all flushes.
`OneMessage`: the caches and the copies taken of them hold one message for a subscription,
and none for one that the loop has still to come to; that they are empty at the start is
`CacheOwned`. `Apart`, `NotYet` and `OnePlace`: a message is in the cache, in a goroutine's
hands, in the channel or received, in one place of these. `Stashed`: from the end of its
loop until it publishes, a request has a snapshot there.

### MigrationsProofs

For any number of processes, versions, migrations and runs: `TypeCorrect`,
`AppliedByOne` (ChangesOnce), `HistoryIsSchema` (RowsMatchSchema), and the action
properties `UpRecordsAll` (UpCompletes) and `DownRevertsNewest` (NewestReverted).
They rest on `ConstantsAssumption` (conditional migrations are system migrations).

`IInv` relates the one run inside the lock to the database it will replace. `UpInv`:
an Up has removed nothing, what it has added is not committed by anyone, and what
its loop has passed is recorded. `DownInv`: a Down has only removed rows, what it
will still revert is newer than all it will keep. `Stamped`: no two rows have the
same stamp, so "newest" is an order. `HistorySync` is why these are needed in this
form: it changes `db` and `work` of a run in between, and must keep every clause.

### RecordFilesProofs

For any file names and any number of saves in a transaction: `TypeCorrect` and
`FilesAreStored` (NoDangling). `IInv` adds why each deletion is harmless:
`MarkedAreReplaced` (what a commit will delete is in no row that could stay),
`UploadedAreNew` (what a rollback will delete is not in the row it returns to),
`SaveInProgress`, `Phases` and `Blanks` (a row that does not exist names nothing). An
object may be stale all along, left by a rollback or loaded before the row was deleted.

`NothingIsLeft` (NoLeftovers) is the converse and needs other facts, in `LInv`, which
hold until a deletion fails, a failed upload leaves its file behind, a row that is gone is
updated, or the process dies (`mishap`). `RollbackCleans` and
`CommitCleans` account for every stored file, in both outcomes that are still possible:
it is in the row that would remain, or in the list that outcome deletes
(`rec.uploaded`, `rec.toDelete`), or it has been uploaded by the save in progress
(`Fresh`). Each must hold from the first upload on, since the two lists are filled at
different moments and emptied by different hooks. `ListsAreUsed` says that a record
object which is saved again, after a failure or a commit, brings no names of an
earlier save along; `ListsMatch` that what a commit deletes is no longer a name.

### RestoreSwapProofs

For any two contents: `TypeCorrect`, `ContentsNotMixed` (NeverMixed) and
`OldContentKept` (OldIsKept). `Whereabouts` says for each step where old and new
entries can be, `UndoIsOwn` that an undo takes back only what its own call moved.

### UploaderProofs

For any workers and any payload: `ObjectsAreWhole` (UploadIsWhole) and
`NoPartsAreLeft` (NothingLeftAtS3), from the assumption that a worker besides the
first reads on. `Accounted` is the core: as long as no worker has failed every part
that was read is listed or in somebody's hands, under its own number; with
`EndSeen` a complete list is the payload. `Waited` says that nobody sends once the
group has been waited for.

### ComponentsProofs

About the run of MCComponents, for any values of its constants. `ComponentsInductive`
says that `ComponentsInv`, the conjunction of one inductive invariant for each
component, holds always: a step of the run is a step of one component and leaves the
others alone (`ComponentsSteps`). The theorems below follow from it. RestoreSwap and
Uploader come in as instances of their proof modules, Migrations through EXTENDS; the
other four are proved here. They rest on `ConstantsAssumption` and
`InstancesAssumption`, which is the components' own assumptions.

- `ComponentsTypes` (TypesOK): the type invariants of the seven. RealtimeDelete, the eighth
  component of the run, is there for its liveness; its invariants are in RequestsProofs.
- *Heartbeat*: `BeatIsOne` (OneHeartbeat), for any number of bootstraps and
  terminations at once. `BeatInv` counts a bootstrap that still waits for the goroutine
  before its own among the goroutines there are (`BeatOn`): all of these but the
  guard's own have been told to end (`BeatOthersStopped`), and somebody who has not
  returned waits for each (`BeatAwaited`). Without the bootstrap that waits, the step
  that starts its goroutine would make two of one.
- *NotifyWatcher*: `NotifyReloadIsDue` (ReloadIsDue) and the action property
  `NotifyAfterBurst` (ReloadsAfterBurst), for one kind of change. `NotifyWaits` relates
  the timer to the age of the last change: together they are at least the window.
- *Batch*: `BatchAnswersTruly` (AnswersTruly) and `BatchReports` (WritesReported), for
  any number of requests. On the way into the requests nothing has failed and those
  before the current one have written (`BatchDescends`); until the handler answers or
  gives up, what comes back is an error, or all have written and the results are those
  of the requests that have returned (`BatchAscends`); an error is that of the one
  request named (`BatchBlames`); and what the handler answers is what the goroutine has
  sent (`BatchAnswers`): this is where the timeout, `stopCh` and `errCh` meet. Until the
  handler has run the After hooks, only the request that the goroutine is in can have
  written without having registered its own (`BatchRegisters`).
- *CronTicker*: `CronStopHalts` (StopHalts) and `CronStartsOnce` (OneStartInEffect), for
  any number of starts, with timer and ticker firing at any step of `Start`, `Stop` and
  `SetInterval`. Both hold until a `Stop` has come between a timer that fired and its
  callback (`overtaken`): the run `cron_stop_leaks` shows that nothing holds after it.
  `CronInv` is `CronTypes`, which holds always, and `CronCore`, which holds until then.
  `CronOne`: what starts have left to run jobs is of one start. `CronTicker`: the ticker is
  that of the callback or goroutine that is left, also when it reads `c.ticker` unlocked.
  `CronCalls`: a `Stop` that waits to send has a ticker to stop, and when it is done
  nothing is left and nothing comes back before the next start.
- *RestoreSwap*: `RestoreNotMixed` (NeverMixed) and `RestoreKeepsOld` (OldIsKept).
  *Uploader*: `UploadWhole` (UploadIsWhole) and `UploadLeavesNothing`
  (NothingLeftAtS3). `RestoreSame` and `UploadSame` say that the steps proved about are
  the steps of the run.

### Only model-checked

Every invariant and every action property of a passing run is stated by a theorem.
What is left to TLC is the liveness, which needs fairness and ENABLED:
EventuallyForwarded and StopEndsListener of the outbox, EventuallyReceived of the
deletes, and EveryRunEnds, QuietCallsReturn, JobsKeepRunning, TicksAreTaken and BatchEnds
of the components. The findings are counterexamples that TLC gives.

The models themselves contain no recursion whose result would have to be proved by
induction over data.

## 5. Findings

1. `outbox_commits_ahead`: `RealtimeOutboxTailCursor` has no stability lag.
2. `listener_panics`: the listener's stop check and its read are two steps, and a teardown
   in between clears the handle; the panic is not recovered. Comments in the code say that
   the check prevents it.
3. `tx_cross_db`: a write reports when the innermost scope ends, whichever
   database that scope is for.
4. `delete_lost`: the dry cache and the stash are keyed by record, not by
   request; a rollback clears another request's entries.
5. `delete_twice`: for the same reason two requests that have both prepared their messages
   leave two of them for each subscription, and the one that commits sends both.
6. `cron_stop_hangs`: `Stop` sends with the lock held that the receiver needs.
7. `cron_stop_leaks`: stopping the start timer has no effect once it has fired, and the
   callback does not ask whether it is still wanted: it starts the ticker after `Stop`.
8. `notify_mixed`: one timer for two kinds of reload.
9. `restore_reverts`: only a failed restart is reverted; a failed move or commit
   leaves the old content aside, where the next bootstrap removes it.

## 6. Not modelled

The map covers a small share of the repository's lines, and most of the rest has no
behaviour for a model checker. By size:

- *Data and its validation*: collections and their import, fields, records and
  their expansion, settings, views, filters and resolvers, cron expressions, mails
  and templates, the router's and the CLI's decoding. Their functions map a value to
  a value, an error or a statement; what they change is changed by the model
  operations of ModelTx.
- *SQL and archive I/O*: dumps and their import, verification, the partitions of the
  audit trail, the rows of heartbeats. One statement or one file at a time.
- *Bindings and glue*: the JS runtime, `core.App`'s accessors, commands, plugins, the
  vendored query builder (of which `Transactional` is in ModelTx).
- *State under one lock with no order to get wrong*: `tools/store`, the audit and log
  buffers, the rate limiter's windows, the pool of JS runtimes, the cron guard's one
  advisory lock. Each operation is one critical section; a model would restate it.
- *The auth endpoints*: a pass from a request to an answer over rows that single
  statements create and delete.
- *The lifecycle* as a whole: it delegates. The orders that matter are modelled where
  they bite: the teardown of the handle (RealtimeOutbox), the heartbeat (Heartbeat),
  the cron's restarts (CronTicker), the temporary directory (RestoreSwap).

Of modelled components the following is left out: the create and update broadcasts,
topics, access rules and auth state of realtime clients; the bootstrap of the notify
watcher and a reload that fails or overlaps another; the first listener seed that
fails is in RealtimeOutbox, but `NoSkip` counts from the last seed. The hazards in
`PROJECT.json` without a property say why in their note.

## 7. How to extend it

The modules above are complete for what they model. Next would be worth having:
a second life of the record in RealtimeDelete, for the order of delete and create
messages; and overlapping saves in RecordFiles. A component without shared state joins
`MCComponents` with one more value of `focus`.
