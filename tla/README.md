# TLA+ models of the jobworkerp conductor

The conductor runs workflows and workers on [jobworkerp] servers when a cron
schedule fires, a Slack event matches or another job completes. This directory
holds TLA+ modules of its core, TLC instances that check them, and theorems
about them checked by TLAPS. Paths are relative to the repository root (`src/`
in `PROJECT.json`).

## 1. Inventory

| Component | State | Operations | Interacts with |
|---|---|---|---|
| Execution ledger: table `execution_ref` (`api/infra/.../execution_ref/rdb.rs`), recorders (`shared/src/execution_ref_recorder.rs`, `triggered_execution.rs`), `ExecutionStatusApp` (`api/app/src/app/execution_status.rs`) | rows with job id, result status, enqueue error; recorder tasks | pending insert, mid-flight job id, terminal result or error; resolve status, cancel, delete, sweep by source, forced cleanup, trigger, re-execute | jobworkerp (enqueue, processing status, JobResult, delete), every trigger path |
| Configuration services (`api/app/src/app/{cron_scheduler,worker_result_handler,jobworkerp_server,slack_event_handler}.rs`) | configuration tables, in-memory caches | create, update, delete, find | database, notification |
| Notification (`api/infra/src/infra/notification/`) | broadcast channel of bounded size, or Redis Pub/Sub | publish, subscribe, receive | services to server manager |
| `LocalConfigStore` (`shared/src/local_config_store.rs`) | id maps, name indices, snapshots, version | upsert, remove, snapshot, restore, diff, import, validate | everything that runs triggers |
| `EventHandlerServerManager` (`jobworkerp-conductor/src/initialization/layer.rs`) | running flag, the event loop | load, start, stop, handle an event | store, three managers |
| `DynamicSchedulerManager` | active cron jobs by id, tokio-cron-scheduler | add, update, remove, stop all | store, ledger |
| `DynamicListenerManager` | listeners by name | add, update, remove, stop all | store, result listener |
| Worker result listener (`jobworkerp-handler/src/job_result_listener.rs`) | result stream, one task per result | listen with reconnection, handle a result, shut down | jobworkerp, listener manager, ledger |
| Slack manager, handler cache, matcher, Socket Mode, executor (`slack-event-handler/`) | compiled patterns by id, running flag, shutdown channel | start, stop, update from event, match, execute with retries | store, Slack, ledger |
| Configuration import and export (`config_management/rdb.rs`) | three of the four configuration tables | validate, import, export, clear | database, the TOML reader of legacy mode (`settings.rs`) |
| Worker registration (`shared/src/worker_registration.rs`) | none; workers and a FunctionSet in jobworkerp | register, unregister | jobworkerp |
| gRPC admin services, validation, migration, CLI | none of their own | conversions, checks, start-up wiring | services |

What is hard in this code: the ledger is written by a recorder and by RPC
handlers that know nothing of each other, each write best-effort, while the job
lives in another system; the status of an execution is put together from reads
at three moments; a crash loses every recorder; configuration changes are
committed and announced in two steps and applied by a task that may miss, reorder
or repeat them; listeners are keyed by a name that changes; a cache is filled by finds that
race writes, and a pool of connections is shared by transactions that want two; and
several retries, reconnections and shutdowns cross what they retry or shut down. `PROJECT.json` lists these
hazards with the line at which each bites and the properties that cover it.

What makes each component correct:

- ledger: a cancellation is final; a live, tracked job cannot be dropped from the
  ledger except by force; a terminal report is about a finished job; a failure reads as
  a success only for want of its recorder's verdict; every row is closed; what the ledger says follows the
  life of the job (the refinement).
- configuration: what runs agrees with the local store, and the local store with
  the database once all changes are applied.
- services: finds never go back in time and see the writes answered before; every call
  ends.
- result listener: a result is run once, and is run if it was sent; a listener comes back
  from every failure; the manager gets through every change.
- Slack: compiled conditions agree with the stored handlers; an event runs the
  handlers it is meant for, each once; an attempt is repeated only if its job failed
  or its outcome was lost, and every run ends.
- tables: each row says one thing to run; what an import leaves is what its file says;
  exports can be imported again; a reference never comes to mean another server.
- worker registration: a command that runs alone completes, whatever earlier ones left.

## 2. Plan

| Order | Module | What | Status |
|---|---|---|---|
| 1 | `ExecutionLedger`, abstract `LedgerPromise` | the ledger | checked and proved |
| 2 | `ConfigSync`, `ConfigSyncProofs` | services, channel, event loop, store, scheduler and listener managers | checked and proved |
| 3 | `SlackEvents`, `SlackEventsProofs` | compiled conditions against stored rows, matching, dispatch | checked and proved |
| 4 | `SlackRetry`, `ExecutionLedgerProofs` | the retry loop over executions of `ExecutionLedger` | checked and proved |
| 5 | `LocalConfigStore`, `LocalConfigStoreProofs` | name indices, snapshots, versions, restore, import | checked and proved |
| 6 | `ConfigTables`, `ConfigTransfer`, `ConfigTransferProofs` | the four tables, their writes, import, export, clearing | checked and proved |
| 7 | `AdminCache`, `AdminCacheProofs` | finds and writes of the admin API with cache, key locks and pool | checked and proved |
| 8 | `ResultListener`, `ResultListenerProofs` | reconnecting stream, handling tasks, replacement, `stop_all` | checked and proved |
| 9 | `WorkerRegistration`, `WorkerRegistrationProofs` | the two registration commands | checked and proved |

"Proved" means the safety properties; what stays with TLC is at the end of section 7.

How they compose: `SlackRetry` extends `ExecutionLedger`, and is proved to implement it;
`ExecutionLedger` is proved to implement `LedgerPromise`. `ConfigTransfer` extends
`ConfigTables`. `LocalConfigStore` details the store that `ConfigSync` keeps by id only,
`ResultListener` the listener that `ConfigSync` starts and stops in one step, and
`AdminCache` the calls whose commits `ConfigSync` announces; these keep vocabularies of their
own, and no mapping between them is checked.

Left to do: an abstract configuration mirror that `ConfigSync` implements under coordinated
clients, and a mapping from the store of `ConfigSync` to `LocalConfigStore`.

## 3. The execution ledger

`ExecutionLedger.tla` models the table, the recorders and the RPC handlers.

- One `Ref` is one execution: its row, its recorder task and its single job.
  A job id column is therefore a Boolean (the id is there or is not); the job id
  that a row gets is always that of its own job.
- Each SQL statement is one atomic step (autocommit). A recorder is the program
  counter `pc`: `enqueue`, `jobId`, `await`, `fail`; `EnqueueOk` covers both runner
  kinds, since the Direct fallback returns the job id only with the outcome.
  `LoseTerminal` is a stream that breaks while the job runs.
- An RPC handler `o` keeps its locals in `op[o]`: the rows it has read (`snap`),
  those to resolve (`todo`), those found terminal (`doomed`). Resolving takes up to
  three steps because it awaits jobworkerp twice.
- jobworkerp is external: `JobStarts`, `JobFinishes` and `JobDelete` say what the
  conductor relies on. `store_success` and `store_failure` are a free choice per job
  within `Stores`.
  WAIT_RESULT and UNKNOWN are treated as Running by everything the conductor does
  and are folded into it.
- `Faults` allows each best-effort write, RPC and reply to fail; `Crash` ends every
  recorder and handler; nothing resumes them, as in the code.
- A recorder that loses the last write it had to make is `lost`, like one that died with the
  process; `unmarked` is history, the executions whose job was discarded by a cancellation
  and whose mark was lost (the reply, the statement or the process).
- `CreateExecutionRef` is the RPC: a client's row has no recorder, and its job id, verdict
  and error are what the client says, since nothing checks them. Its job, if it names one, may
  be one the client has enqueued.
- Waiting for an outcome and writing it are one step, because the outcome of a
  finished job does not change between the two.

`LedgerPromise.tla` is the abstract specification: per execution one entry
(absent, open, a verdict, gone) and the fate of its job. Verdicts follow the life of the job
except for executions a client claims (`claimed`), of which it promises only what the
conductor does to them later: a cancellation that lasts, and no return of what was deleted.
`ExecutionLedger` implements it under the mapping `Promise` (property `KeepsPromise`).

| Run | Instance | Shows |
|---|---|---|
| `ledger` | 1 execution of any origin, 2 handlers, all RPCs, faults, 1 crash | types, `TerminalReportIsFinished`, `FailureNotMasked`, `CancelledIsFinal`, `LiveJobStaysTrackable`, `DiscardedIsCancelled`, `KeepsPromise` |

`EveryRowIsClosed` needs fairness and is checked in the run `slack_retry` (section 5), whose
executions have the same recorder.

`FailureNotMasked` says when a failed or cancelled job reads as a success: while its recorder
is at work, or after it was lost with its last write or with the stream. The first of these is
every execution's life for a moment, see section 8.

Bounds: executions share nothing but a sweep and a forced cleanup, so one execution with two
handlers reaches every interleaving of handlers on a row; a second crash meets the same states
as the first since a restart resumes nothing. A sweep of several rows, in several statements,
is in no run: with a second execution the state space is out of reach. That sweeps keep live
jobs trackable, and all other safety properties of the run, are proved for any number of rows
and any chunk size (section 7). Handlers are symmetric (no liveness there).

## 4. Configuration changes

`ConfigSync.tla` models one conductor process and its admin API.

- `Create`, `Update`, `Delete` commit a row and leave the event in `out[w]`; `Notify`
  publishes it later. An update of a missing row commits and is announced. Ids are
  generated, never reused; names of handlers are unique in the database.
- `chan` is what the receiver will still see of the broadcast channel: overflow
  forgets the oldest. Without subscriber nothing is kept.
- `Load` reads one table, `Start` starts the enabled handlers and schedulers and then
  subscribes. In a single process the admin API opens after that; `Remote` allows
  writes from other processes at any time (Redis notifications).
- `HandleEvent` is `handle_config_change_event` as a whole: the store, then remove and
  add in the manager. Only this task touches them, so its steps are not interleaved
  with anything in the model. `failed` is the set of entities whose last start ended in
  a logged error (unknown server, no connection).
- The code treats Created and Updated alike; an event is the new row or `Absent`.
  A row is reduced to enabled, name and server references. The endpoints of servers are in
  `ConfigTables`: no manager looks at them again before its entity is started anew.

| Run | Instance | Shows |
|---|---|---|
| `config_sync` | 2 handlers, 2 names, 1 server, 2 RPC handlers, 3 writes, coordinated clients, no loss, fairness | `StoreConverges`, `ListenersConverge`, `CommittedReachesStore` |
| `config_loss` | 1 scheduler, 1 handler, 1 server, uncoordinated clients, several processes, channel of one event, faults | types and `SchedulersFollowStore` |
| `listener_leak` | violation | a deleted handler's listener goes on |

Bounds: two names and two handlers suffice for a name to be handed over
through a rename or a deletion, three writes for one handler to leave a name, a
second to take it and a third change on top; a channel of one event loses the first of
any two. `Coordinated` (clients await the reply before they write a row again and do not
update deleted rows) is an assumption about clients; what happens without it is in section 8.

Fairness: start-up, publication and the event loop make progress; writes do not have to
happen.

`LocalConfigStore.tla` is the store itself, of which `ConfigSync` keeps only the rows by id:
the name indices (one set of pairs of a name and an id; a name is a key within its kind), the
version, the snapshots and the ways back. Callers hold the lock for one operation, so each
is a step. The four kinds of entities have four copies of the same code; `KindOf`
stands for which copy is meant. Upserts carry any row, as `ConfigSync` allows any order of
events, so two rows of a kind may share a name. The index is rebuilt in the order of a
`HashMap`, so any of such rows may win. Restoring and importing have no caller in the
repository yet, and an import is of an earlier export of the same store.

| Run | Instance | Shows |
|---|---|---|
| `local_store` | 2 schedulers and a server, 2 names, 2 snapshots kept, version up to 4 | `LookupsNeverLie`, `LookupsStayComplete`, `VersionNamesContents`, `ImportCanBeUndone` |

Bounds: two rows of a kind are the least that can share a name, the third is of a
kind whose index must not be touched; two snapshots are trimmed by the third; three
changes let a name go from one row to another and back. After the first restore or import
versions are given again: `VersionNamesContents` and `ImportCanBeUndone` say so
(`rolledBack`), and a second rollback by version may bring back another configuration than
meant.

## 5. Slack events

`SlackEvents.tla` models what happens between Slack and the executor.

- `Deliver` is something that happens in Slack. It may come as several events (a mention
  is an `app_mention` and a `message`), each handled by a task of its own.
- `Fetch` copies the enabled rows; `CheckMessage`, `CheckReaction` and `CheckUser` each take
  the lock of the cache once, so a handler may be replaced between any two of them;
  `Dispatch` starts the runs.
- The event loop applies a change in two steps, `StoreChange` and `CacheChange`, under two
  locks. Any change may arrive at any time, so every order and every repetition of events
  from the channel of `ConfigSync` is included.
- A condition is a set of at most one set of words, and a regular expression the set of
  words it matches. Every stored condition compiles, because the service compiles it before
  it stores it (`validate_regex_pattern`). Poisoned locks are left out.
- `calm` is a history variable: no change was under way from `Fetch` on. An event that
  is matched while a handler changes may be judged by the old row and the new
  conditions; the code does not prevent that, and the next event is judged rightly.

| Run | Instance | Shows |
|---|---|---|
| `slack_events` | 2 handlers, 7 rows of every kind, 1 post of 4 kinds, 2 changes | `PatternsFollowStore`, `CalmEventsRunTheirHandlers`, `MentionRunsOnce` |
| `slack_kinds` | violation; rows with conditions on messages or mentions only, 1 change | a reaction runs such a handler |

`KindsOf` is the kind of event a handler is for (`determine_event_type`: by its conditions and
`mention_required`). The code asks for it only between messages and mentions; a condition
that is not set holds of everything, so a handler with conditions on messages runs on every
reaction in its channel, and the reverse (`HandlersRunOnTheirEvents` is violated).
`CalmEventsRunTheirHandlers` is what holds: every handler an event is meant for (`Meant`) runs,
and of the handlers with conditions on the event's own sort, messages or reactions, no other.

Bounds: posts share nothing but the configuration, so one post with its two tasks
meets every interleaving with a change; two handlers are the least that a wrong key of
the cache could confuse; two changes let a handler be replaced or removed and come back.

`SlackRetry.tla` is `execute_workflow_with_retry`. It extends `ExecutionLedger`, and each
attempt is a `Ref` of it (`AttemptsAreRefs`, which TLC evaluates in the run): the steps of the
recorder, the jobs, the RPC handlers and the crash are the ledger's own actions, and the loop
reacts to how they end.
Errors carry what the code sees (does the text hold a word of the non-retriable
errors?) and what it does not see (could another attempt mend it?). The doc comment
of the loop speaks of three retries and a third delay of 4 s; the code makes three
attempts with two delays, and the model follows the code. Delays are not timed. That a
handler without a server cannot be run is the same error as a server that is missing.

| Run | Instance | Shows |
|---|---|---|
| `slack_retry` | 1 run of 2 attempts, 1 RPC handler that cancels, forced deletion, faults, 1 crash, no stored JobResults | types, `SuccessIsLast`, `OnlyLostJobsAreRepeated`, and `EveryRunEnds` and `EveryRowIsClosed` under fairness |

Bounds: only a resolution looks at stored JobResults, and no RPC of this run resolves. The loop keeps nothing but its counter and the last error, so a third attempt
meets the same states as the second; two attempts have one that is followed and one that
is the last. Fairness (`FairRetrySpec`): tokio polls the task with its recorder,
jobworkerp works its queue off; none on triggers, clients' calls, faults or crashes.
`EveryRowIsClosed` covers all ways an attempt can end: the enqueue fails, the stream breaks, the
streaming and the Direct path.

## 6. The admin API, the result listener and worker registration

`ConfigTables.tla` holds the four tables and their operations from request to commit:
how a request (a oneof, or the two fields of old clients) becomes columns, what each service
checks, the unique names, and ids that are never given twice. Nothing in the database checks
references between tables. `ConfigTransfer.tla` adds clearing, importing and exporting.

- A file is three sets of items that refer to servers by name; its address is kept as the
  endpoint it was put together from. `Parsable` are the endpoints whose address is a URL
  with a host (no create or update checks that), and `Normal` what is read back
  from it. `complete` stands for the optional fields an item must have.
- Import and export are one transaction each, hence one step; an import happens only if no
  row of it fails (`Importable`).
- `LoadFromToml` is the other reader of such files, the legacy mode. It makes a client for
  every server by the client library's own reading of the address (`connects`: the endpoints
  for which that succeeds), not by the parser of the import. `ImportableFilesLoad`
  therefore holds for every such set that has the file's servers: it compares how the two
  readers judge items, and says nothing of addresses.
- `file` is a user's file or the last export; later writes may make it obsolete.

| Run | Instance | Shows |
|---|---|---|
| `config_transfer` | 2 names, 2 endpoints that parse and one that does not, 1 URL, worker and option, 16 user files, 3 writes, ids up to 6, exports anywhere | types, `EveryRowRunsOneThing`, `ReimportFailsOnlyForServers`, `ImportableFilesLoad`, `ImportsWhatTheFileSays`, `NoReferenceIsRetargeted` |

Bounds: three writes are a server, a row that refers to it, and a write that makes the
reference dangle or an import over both; two names let an import meet a name that is
taken and exchange the two servers of a listener; six ids let an import of four rows follow
two writes.

`AdminCache.tla` is one table of one process: RPC handlers (`Task`) that find by id or name,
create, update and delete, while other processes write to the same database. `slack` says
whether it is the Slack table, whose service differs: it reads the row's server on a second
connection inside its transaction, removes cache entries without the lock of the key, and
ends an update of a row that is gone before the commit.

- A row is known by the stamp of the commit that wrote it (`version`), so "older" has a
  meaning. `seen` and `acked` are history: the newest answer given per key and the newest
  write answered per row.
- memory-utils and sqlx are external and modelled by their use: a miss keeps the lock of
  its key until the row is cached, `delete_cache` takes that lock, and waiting for a
  connection or for a row ends in an error. The other services of the process use the same
  pool, so waiting for a connection may end that way at any time. Entries expire at any time.

| Run | Instance | Shows |
|---|---|---|
| `admin_cache` | 2 rows, 1 name, 2 handlers, a pool of 2, 2 commits | `ReadYourWrites`, `AnswersNeverGoBack`, and `EveryCallEnds` under fairness |

Bounds: two handlers are a find and the write that races it, or two transactions of which
each wants a second connection; two rows let a name pass from one to the other through a
deletion. The proofs of the two safety properties cover any number of handlers, rows,
connections and commits. Fairness: a handler that can go on again and again goes on (`SF`):
tokio polls it, and the locks and the pool serve waiters in turn.

`ResultListener.tla` is one worker result handler: the listening task, a task per result,
and the manager that replaces the task when the handler changes.

- `listen` is the loop `connecting`, `serving`, `sleeping`; the lengths of the sleeps are left
  out. A stream holds the results sent and not yet taken; it may end, or break and lose
  some. A server that goes away takes the streams with it.
- `Replace` is a change that keeps the handler's name, `Rename` one that does not: it
  leaves the old listener in the map under the old name (`orphans`). The old task is awaited
  before the new one is started. `StopAll` empties the map, asks all listeners at once (the
  code asks one after the other, which only delays the later ones) and waits for them
  (`drained`).
- `CtrlC` is the signal, which the loop looks at while serving only.

| Run | Instance | Shows |
|---|---|---|
| `result_listener` | 2 jobs, 2 listeners one after the other | `ResultsRunOnce`, and `ResultsAreRun`, `ListenerReturns`, `ChangesGetThrough` under fairness |

Bounds: two listeners are an old and a new one; two results are one the old listener took
and one that is in the stream when it is stopped, or one kept and one lost when a stream
breaks. Fairness: tokio polls the tasks; none on the server, on jobs, on streams that close,
or on changes.

`WorkerRegistration.tla` is the two commands of the CLI, each call a step that may fail, take
effect without a reply, or be the last because the process is interrupted. A call has taken
effect, or never will, when the client goes on. The state belongs to jobworkerp: a worker
per definition, with a unique name, and the FunctionSet. That the FunctionSet's name is
unique too is an assumption on jobworkerp. `calm` and `fair` are history: the command ran
alone so far, and none of its calls (for `fair`: of those about workers) failed.

| Run | Instance | Shows |
|---|---|---|
| `worker_registration` | 2 places, 2 definitions, 4 commands | `CalmRegistrationCompletes`, `RemovalLeavesNoWorker`, `ListedWorkersExist` |

Bounds: two commands that fail half-way leave any part of workers and set behind, a third
removes or completes it, and the fourth overlaps or repeats one. Deadlock is not checked
because the commands run out. Places are symmetric.

## 7. Proofs

`ExecutionLedgerProofs.tla` proves for every value of the constants:

- `TypeCorrect`: `Spec => []TypeOK`.
- `InductiveInvariant`: `IInv`, the strengthening the others need. It adds to the
  types, per row (`RowInv`), what each stage of the recorder allows: nothing but the pending
  row before the job id is known, no job before the enqueue, an error only from a
  recorder that has given up, a verdict only of a finished job or a cancellation. Per
  handler it says what a snapshot read earlier still implies now (`SnapInv`: a row that had
  a status without a job id belongs to a job that is over), what each step of a
  resolution and each doomed row implies (`ResolutionInv`), and that a cancellation under
  way had a job id that only the outcome can have removed (`CancelInv`). `Stable` is
  the argument's core: these facts about an execution never become false again, so a handler may
  sleep on them. None of the checked properties is inductive without it: a
  handler in the middle of a resolution whose snapshot contradicts the job would break each.
- `TerminalReports`, `FailuresShow`, `CancellationsLast`, `LiveJobsStayTrackable`: safety
  properties of the `ledger` run. For `FailuresShow` the invariant says what a recorder that
  is through has left behind (`Recorded`): the verdict of the job, or an error.
- `DiscardsShow`: `DiscardedIsCancelled`, with faults and crashes. The argument adds that an
  accepted cancellation has nothing left but its mark (`MarkWaits`), that nothing else
  discards a job (`DiscardIsMarked`), that a mark that was made stays (`CancelledKept`), and
  that every way to lose a mark is in `unmarked` (`UnmarkedStays`: and stays there).
- `LedgerKeepsPromise`: initial states map to initial states and each step to a step of
  `LedgerPromise` or a stutter; a row a client creates, with whatever verdict, to its `Claim`.
  `RowsEnterOnce` and `OriginsStay` are why no other step may do that.

All these rest on `LedgerAssumption` and what they name themselves.

The module goes on with `SlackRetry`, whose theorems have `AttemptsAreRefs` as their
hypothesis. `AttemptsAreExecutions`: the loop implements the ledger, so everything above holds
of every attempt. `RunsTyped`, `SuccessEndsARun` (`SuccessIsLast`) and `RetriesSpareGoodJobs`
(`OnlyLostJobsAreRepeated`) rest on the invariant `RetryInv`: no attempt after the present one
of a run has a job (`Awaited`), each attempt left behind has an error that tells how its
job stands (`Failed`, `Explains`), and a row says Success only where the run has stopped.
`OthersKeepResults`, a lemma about the ledger, is why neither RPC handlers nor a crash disturb
that: they move a job only while it is live.

`ConfigSyncProofs.tla` proves `ConfigTypeCorrect` (the channel keeps its capacity) and
`SchedulersFollow` (`SchedulersFollowStore`) from `ConfigSyncAssumption` only. The inductive
invariant `FollowInv` adds that loading is over once the manager has started, so the store is
written by the event loop alone. The model takes removing a job from
tokio-cron-scheduler to succeed.

`StoreFollowsDatabase` and `ListenersFollowDatabase` are the convergence properties, for any
tables, names, RPC handlers and number of writes. They assume what the `config_sync` run
assumes: coordinated clients, one process and no faults (`Undisturbed`), and a channel that
loses nothing (`Room`: no event is published into a full channel). `FewWritesConverge`
replaces the latter, a condition on behaviours, by `MaxWrites <= Capacity`; it counts
(`CountInv`) that events in the channel or to be published come from a write each. Their
invariant `SyncInv` says where the truth about a row is while it travels: what an RPC handler
has yet to publish is what is committed, and no two publish about one row (`OutInv`); else
the last event in the channel is; else the store (`StoreInv`). Listeners are kept by name, so
one handler's event can stop another's listener: `NameInv` says that an event with a name
that now belongs to another handler is followed by one about that handler, which starts it
again. That is the reason why a name can be handed over, and it holds because the
database commits one owner of a name after the other. `ListenInv` is the conclusion for
handlers about which nothing is on its way. It is one-sided: every enabled handler is listened
to under its current name, unless its last start failed; that nothing else is listened to does
not hold (`listener_leak`).

`ConfigTransferProofs.tla` proves all six properties of `config_transfer`, from
`ConfigTablesAssumption` and `ConfigTransferAssumption` (user files are finite and well
typed), for any names, addresses, files and number of writes: `TablesTyped`,
`RowsRunOneThing`, `DanglingReferencesStay`, `ImportedFilesLoad`, `ReimportFails` and
`ImportIsExact`. The inductive invariant `TransferInv` says of each table that ids and names
are unique, that ids and references are below the next id, and that every row runs one thing;
and that the file is finite. References below the next id are what keeps a dangling
reference from coming to mean a server made later. An import numbers the items of a file in
any order, so the proofs first show that numbering a finite set gives every item one id
(`SetToSeqCounts`, `NumberedOnce`); that the names in a file resolve to the servers the import
leaves and back (`ImportedNames`, `ResolvedName`) then gives exactness.

`SlackEventsProofs.tla` proves `EventsTypeCorrect`, `PatternsFollow`, `CalmEventsRun` (in the
form of section 5, which leaves open what a handler does on events of the other sort) and
`MentionsRunOnce` from `SlackAssumption` (rows are consistent, a happening is one message,
one mention or one reaction). The inductive invariant `EventsInv` adds, per task, that a
calm task has read what is stored now and has judged each handler it is through with by
what the row means (`CalmInv`), that handlers are judged once and only if enabled
(`Judging`), that a task works on a delivered event (`Delivered`), and that the runs
are those the finished tasks have matched (`RunsInv`). Without it a task could be in the
middle of a judgement that nothing supports.

`LocalConfigStoreProofs.tla` proves the types and all four properties of `local_store` from
`LocalConfigStoreAssumption`. `StoreInvariant` (types and true lookups) is inductive by
itself; `VersionInvariant` adds to unambiguous versions that no kept one is above the
store's, without which the next change could reuse one. `LeastExists` gives the oldest
snapshot of a version.

`AdminCacheProofs.tla` proves `CacheTypeCorrect`, `AnswersGoForward` and `WritesAreRead` from
`AdminCacheAssumption`. The properties speak of a find that is about to answer; they rest on
an order of stamps along every path a row can take. The inductive invariant `IInv` says: no
stamp is above the commits so far (`StampsAreCommits`); live rows have different names
(`NamesAreUnique`); the row under a key is at least as new as what is cached, on its way or
answered (`TableIsNewest`); nothing is cached under a key that is being loaded, so a load
cannot overwrite a newer row (`LockedKeysAreEmpty`); entries and loads are not older than
what finds have found (`CacheIsNewer`, `LoadedIsNewer`); what a find was called after is
still known (`FloorsHold`); and outside the Slack service rows, entries and loads are not
older than answered writes (`WritesAreSeen`).

`ResultListenerProofs.tla` proves `ListenerTypeCorrect` and `ResultsRunAtMostOnce` from
`ResultListenerAssumption`. Its `IInv` says that a result is at most once in a stream and
never in one from which it was taken (`StreamsInv`), that only ended jobs are on their way
(`SentInv`), that outside the listeners set aside (left behind by a rename, or taken by
`stop_all`) at most one has a result (`HoldersInv`) and only the current one is at work
(`ActiveInv`), how the manager's stages go with the listeners (`ManagerInv`), and that a
result was run at most as often as tasks are done with it (`RunsInv`). The bound then follows
by counting listeners.

`WorkerRegistrationProofs.tla` proves `RegistrationTypeCorrect`, `CalmRegistrations`,
`RemovalsLeaveNoWorker` and `ListedExist` from `WorkerRegistrationAssumption`. Its `IInv` says
how far a command can be (`ShapeInv`), that a calm registration has the workers of all
definitions it went through (`CalmInv`), that a fair removal has left none of these behind
(`FairInv`), that without a race workers are deleted only when nothing is listed any more
(`TidyInv`), and that a command that is observed runs alone (`SoloInv`), so that no step of
another disturbs it.

Every safety invariant and action property of the passing runs is stated by a theorem.
Model-checked only are the liveness properties (`EveryRowIsClosed`, `CommittedReachesStore`,
`EveryRunEnds`, `EveryCallEnds`, `ResultsAreRun`, `ListenerReturns`, `ChangesGetThrough`):
liveness under fairness is out of the prover's reach.

## 8. Findings

`findings` in `PROJECT.json` has what contradicts a text of the repository and is shown by a
run:

- `listener_leak` deletes a handler whose listener goes on, because `remove_listener_by_id`
  asks the local store for the name after the entry was removed.
- `slack_kinds` runs a handler with conditions on messages or mentions only for a reaction, and
  the code does the reverse as well, since a condition that is not set matches.
  `event_matcher.rs:60-61` says of `mention_required` "Only match app_mention events" and "Only
  match message events", `determine_event_type` (lines 285 to 318) gives such a handler one
  kind of event, and the service calls the two sorts of conditions "mutually exclusive"
  (`slack_event_handler.rs:124`).

Three more places are in the models and disagree with a comment; no run is about them alone:

- A failed job without a stored result reads as Succeeded before its recorder writes, or for
  ever when it never does. The conditions of `FailureNotMasked` say exactly when.
  `execution_status.rs:313-318` says that inferring success "would mask failures" and is
  done "only for refs recorded before result_status was tracked", and lines 371 to 375 leave "this
  inference only for legacy refs"; but a row of today has no result status either until its
  recorder has written.
- A worker result that cannot be decoded is lost: `job_result_listener.rs:154` says "fallback
  to raw output", which is logged, and the `?` at line 167 drops the result.
  `ResultsAreRun` is about the others.
- `execution_ref.result_status` is the status "observed at execution time"
  (`002_schema.sql:156`), while `CreateExecutionRef` stores what a client sends. The ledger's
  properties about verdicts speak of the conductor's own executions for that reason.

The models also have behaviours that no text forbids and that a reader should know of:

- Two writes of a row whose clients do not wait for each other may be announced in the
  other order; the local store then differs from the database until the next write.
- An enqueue that can never succeed is retried when the outermost text of its error does not
  say so, and so is a job that a user has cancelled.
- A find in the Slack service may miss an answered write until its cache entry expires,
  since entries are removed without the lock of the key.
- An update of the Slack service takes a second connection inside its transaction: with as
  many such calls as connections all wait until some time out.
- An overwriting import leaves every Slack handler with a reference to a server that is
  gone, and announces nothing to the running managers.
- An export of enabled rows cannot be imported again if one of them runs on a disabled
  server.
- A worker result is lost when it completes between two streams.
- A version of the local store is given again after a restore or an import, and may then
  stand for two configurations; the properties about versions end there.
- A find by a former name is answered from the cache until the entry expires;
  `ReadYourWrites` is about finds by id and `AnswersNeverGoBack` about one key.
- A renamed handler is listened to under both names, and its results are run twice.
- `stop_all` misses a listener that the event loop is building.
- Ctrl-C is missed by a listener that is connecting or sleeping.
- Two registrations that overlap may leave a FunctionSet without some of the workers, and an
  existing worker keeps its old settings.

## 9. Not modelled

- Database migration: a separate program that runs once before anything else.
- Redis repositories: accessors that no service calls.
- Stopping and starting again: main starts the manager once and stops it once before
  the process exits. `stop_all` and `safe_reload` of the scheduler manager, and `stop` of the
  Slack manager with the shutdown of Socket Mode, are called by tests only.
- Listing, counting and paging, which only read, and the checks of crontabs, time zones,
  URLs, regular expressions and JSON arguments.
- The contents of requests, arguments, outputs and messages; formatting, logging and the
  lengths of delays.
- jobworkerp, Slack, the database, memory-utils, sqlx and tokio-cron-scheduler beyond what
  the code relies on; each such definition is marked external in `PROJECT.json`.

## 10. Running

    tlc -workers 2 -config MCExecutionLedger.cfg MCExecutionLedger.tla
    tlapm ExecutionLedgerProofs.tla

[jobworkerp]: https://github.com/jobworkerp-rs/jobworkerp-rs
