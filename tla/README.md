# Contember, specified

TLA+ modules, TLC runs and TLAPS proofs about the server of Contember: a GraphQL
backend that compiles a schema to PostgreSQL tables, runs content mutations in
transactions, and delivers webhooks ("actions") for what they change.

The modules stand for code, not for its documentation. `PROJECT.json` names, for every
definition that models code, the file and lines it stands for; for every property of a
passing run, a plausible bug (a "mutant") that the run finds; and the hazards of the code
with the properties that would catch them. This file explains how to read all of it.

## 1. The system

| Component | State it keeps | Operations | Hard behaviours | Correct means |
|---|---|---|---|---|
| **Actions queue** `engine-actions/src/dispatch`, `model` | table `actions_event` (state, `visible_at`, `num_retries`, log), variables, one `processBatch` per worker | enqueue (triggers), claim, deliver, record, hold for undefined variables, stop, retry, `setVariables` | several workers on one table, statements that interleave, workers that die or outlive their claim, results recorded late, stale schema snapshots | nothing is lost, nothing is reported delivered that was not, undisturbed events are delivered once, every event is settled in the end |
| **Dispatcher loop and its supervisor** `ProjectDispatcher.ts`, `listen.ts`, `engine-common/runnable/Supervisor.ts` | parked or running, its timer, back-off, restart count | run, LISTEN, NOTIFY, park, end, restart | a NOTIFY during a batch, a lost connection, `end` during a restart | due rows are fetched, one loop at a time, nothing runs after `end` |
| **Project containers and workers** `engine-http/project/ProjectContainerResolver.ts`, `DispatchWorkerSupervisor.ts` | the cached container with its promise, `running` workers, the tracker's LISTEN | get, create, destroy, dispose; start, reload, end all | concurrent callers that find the same container stale, reloads that overlap, `end` during a reload | one announced container, no outdated answer, no worker lost or forgotten |
| **Connection pool** `database/src/client/Pool.ts`, `Connection.ts` | idle and active connections, a queue of waiters, counters of attempts and of the rate limit | acquire, release, dispose, closeIdle, end; attempts, back-off, timers, socket errors | handlers between the awaits of others, five reasons not to open a connection, `end` during an attempt | the limit holds, a connection has one user, nobody waits in vain, nothing leaks, waiters are served in order |
| **Transactions and scopes of a connection** `AcquiredConnection.ts`, `Transaction.ts`, `Mutex.ts` | a mutex per connection handed out, savepoints, closed flags | nested scopes, nested transactions, statements in parallel | parallel nested transactions, callbacks that reject before their parts are done, statements on an outer connection | savepoints nest, work is all or nothing at each level, nobody hangs |
| **Migrations** `engine-system-api/src/model/migrations`, `database-migrations` | `schema_migration`, the row of `schema`, the tables of the stages | migrate (also forced), from a snapshot, modify, delete; retry on conflicts | mutations with and without the advisory lock, validation and write apart, retries | the stored schema is what the registry replays to, the tables are those of the schema, ok means executed |
| **Sessions of identity providers** `engine-tenant-api`: `ApiKeyManager.ts`, `IdpSessionRevalidator.ts` | the key, the provider's tokens, the floor of the last validation, a replica | verify, claim, refresh, persist, revoke, sign out | requests that read the same token, replica lag, a new token that cannot be stored | one refresh at a time, a session is revoked for a reason, an ended one is noticed |
| **Deletes of the content API** `mapper/delete/DeleteExecutor.ts`, `DeleteState.ts` | the plan: rows, columns to null, orphans; results and events | plan, check, delete, commit, retry | the plan and PostgreSQL's own cascade, other transactions in between | what is reported is what happened, nothing forbidden is changed |
| **Sign-in tokens, limits** `engine-tenant-api` | one-time codes, passwordless tokens, attempts | sign in, claim an attempt, limit | read-check-write by concurrent requests | a token is used once, a code has its attempts (not modelled) |
| **Other content API, triggers, SQL builders, schema tools, HTTP, clients, UI** | - | pure functions and I/O | - | not modelled, see section 6 |

How they interact. A content mutation writes rows and, through triggers, rows of
`actions_event` in the same transaction, and sends NOTIFY. A dispatcher wakes up, runs
`processBatch` until nothing is due, and parks. The API's `stopEvent`, `retryEvent` and
`setVariables` write the same rows. A worker runs on the container of its project, which
requests share with it and which is replaced when the project changes. A migration
changes the schema whose targets the dispatcher reads and whose relations deletes follow.
Every statement runs on a connection that a scope acquired from a pool, most of them in a
transaction with nested ones.

The models meet at these seams: `DispatcherLoop` sees of the queue only how many rows are
due, which is what `ActionsQueue` leaves it; `Transactions` begins where a scope of
`ConnectionPool` holds its connection; `MigrateSchema` of `ActionsQueue` is a commit of
`Migrations`; a worker of `ProjectWorkers` is a supervisor of `DispatcherLoop`. Each module
lets its neighbours do all that they may do (an operator, a lost connection, another
transaction), so no result depends on a composed run.

## 2. Modules

| Module | Role |
|---|---|
| `AtLeastOnceDelivery` | what the queue promises, without table, workers or time |
| `ActionsQueue` | the queue; refines `AtLeastOnceDelivery` |
| `ActionsQueueProofs` | its inductive invariant, safety theorems, an action property and the refinement |
| `ConnectionPool`, `ConnectionPoolProofs` | the pool and the scopes that use it; its theorems |
| `Transactions`, `TransactionsProofs` | one acquired connection: nested transactions and scopes, mutexes, savepoints; theorems |
| `DispatcherLoop`, `DispatcherLoopProofs` | the loop, its listener and its supervisor; theorems |
| `ProjectWorkers`, `ProjectWorkersProofs` | the cached container of a project and its workers; theorems |
| `Migrations`, `MigrationsProofs` | the four mutations of the migrations of a project; theorems |
| `IdpSessions`, `IdpSessionsProofs` | a session of an identity provider; theorems |
| `DeleteExecutor`, `DeleteExecutorProofs` | a mutation with deletes over a small schema; theorems |
| `MC...` | for each of the eight detailed modules, the constants for TLC |

### 2.1 ActionsQueue

A row of `actions_event` is `state[e]`, `retries[e]` (`num_retries`), `e \in due`
(`visible_at` has passed) and `e \in marked` (the last entry of `log` is the marker of a
hold). Time is abstract: `Elapse(e)` makes a row due, whatever it was waiting for.

A dispatcher is one run of `EventDispatcher.processBatch` at a time, cut at its database
statements and its request, because between those other processes run:

| Action | Code |
|---|---|
| `ReadSchema` | `getSchema`, the snapshot of this run |
| `ClaimPrimary`, `ClaimRest` | `fetchInternal`: `SELECT ... FOR NO KEY UPDATE SKIP LOCKED LIMIT n` with the `UPDATE` around it |
| `NothingToProcess` | no row: the run returns a back-off |
| `FailUnknownTarget` | `markFailedOnUnknownTarget`, then the loop goes on with the same snapshot |
| `SendRequest`, `FindUndefined` | `fetchVariables` and interpolation: the request leaves, or `UndefinedVariableError` |
| `Respond` | the target accepts a part of the batch; a timeout or an error accepts none |
| `Persist` | `persistProcessed`: `markSucceed`, `markFailed` in a transaction |
| `BreakBeforeRequest`, `PersistFails`, `PersistInternalError` | a throw, and the catch block with its record "Internal error" |
| `Hold`, `RecheckDefined`, `RecheckUndefined`, `ResumeHeld` | `holdForUndefinedVariables`, the second look at the variables, `resumeHeldForUndefinedVariables` |
| `Crash` | the worker dies between any two of them |
| `Enqueue`, `Elapse`, `StopEvent`, `RetryEvent`, `SetVariables`, `ResumeAfterSet`, `CrashAfterSet`, `MigrateSchema` | the rest of the world |

The lock of a claim (SKIP LOCKED) makes a claim one step. Since rows that other
transactions lock are skipped, a claim with a LIMIT may take *any* due rows, so the model
chooses a subset instead of the first by `visible_at`.

`acked`, `attempts`, `disturbed`, `retired` and `holderDied` are history: no guard reads
them.
`disturbed` has the events whose claim lapsed, whose worker crashed, whose result could
not be recorded, or that an operator retried. It is what separates "exactly once" from
"at least once": the properties say what holds for the events outside of it. `holderDied`
says that a worker died between the hold of an event and its second look at the variables.

### 2.2 ConnectionPool

Node runs one handler at a time, so a step is a handler up to its return or first await.
`ended`, `connectingCount`, `remaining` (`remainingRateLimit`), `idle`, `active` and
`queue` are the fields of `Pool`. What is outstanding between the steps is counted, not
named: connect promises (`inflight`), timers of recoverable errors (`backoff`), timers
that return a unit of the rate limit (`renewals`), `setImmediate` callbacks that dispose
a connection (`doomed`). `life` is the state of a connection and `holds` what each scope
of `Connection.scopeOnce` holds.

| Action | Code |
|---|---|
| `AcquireIdle`, `AcquireLater` | `acquire` |
| `Release`, `ReleaseWorn`, `DisposeHeld`, `LeaveClosed` | `release` and `dispose`, as `scopeOnce` calls them; a connection is worn by `maxUses` or by age |
| `CloseIdle`, `End`, `EndFinished` | `closeIdle`, `end` before and after its await |
| `Connected`, `ConnectedAfterEnd`, `ConnectFailsForNow`, `ConnectFails`, `Reconnect` | the ways of an attempt in `maybeCreateNew` / `createNew` |
| `RateRenewed`, `ItemTimeout`, `IdleTimeout`, `DisposeDoomed`, `ErrorEvent`, `Closed` | timers, callbacks, socket events |

`MaybeCreateNew` and `HandleAvailable` are the two helpers every handler ends in; they
are operators, and part of each action whose handler calls them.

### 2.3 Transactions

A frame is one call of `transaction()` or `scope()` with its callback; its connection has a
mutex (`lock`) that a statement, a nested frame and the closing command take in turn, and
that a nested frame keeps until it is over. A flow is a sequential part of a callback; the
flows of a callback run in parallel. The server is a stack of layers, one per savepoint,
and runs what is on the `wire` in order.

| Action | Code |
|---|---|
| `Begin`, `Call`, `Enter`, `Opened`, `NotOpened` | `transaction()`, `scope()`: wait for the mutex, `BEGIN` or `SAVEPOINT`, run the callback |
| `Query`, `WorkDone`, `WorkFails` | a statement of a callback, on its own connection or by mistake on an outer one |
| `EndScope`, `EndTransaction` | the callback returns or throws; `closed` is set before `COMMIT`, `RELEASE` or `ROLLBACK` queues for the mutex |
| `Send`, `Refuse` | who got the mutex sends its statement, or finds the connection closed |
| `Committed`, `CommitRejected`, `RolledBack`, `SavepointReleased`, `SavepointRolledBack` | the answers |
| `Disconnect`, `CutOff` | the connection is lost, at any moment; what is on the wire gets an error |

`stray` is history: statements that ran after their frame was over, because `query()`
checks `isClosed` before it queues for the mutex. Of a callback of a scope it is assumed
that it returns only after its parts; callbacks of transactions may abandon them. The tree
of calls is a constant, finite because a callback has made finitely many calls at any time.
The last section of the module states what holds between mutexes, calls, layers and work
(`TransInv`), for the proofs.

### 2.4 DispatcherLoop

Each `run()` of `ProjectDispatcher` has a number; rows are counted as `due`, `later` or
in a `batch`.

| Action | Code |
|---|---|
| `Started`, `StartFails`, `Restart`, `BecomesStable` | `Supervisor.ts`: `run`, `startupMax`, back-off, `stableAfterMs` |
| `FetchRows`, `FetchNone`, `FetchBackOff`, `Processed`, `Park`, `BatchThrows` | the loop of `ProjectDispatcher.ts` |
| `Notified`, `WakeTimer`, `ListenerError`, `LinkLost` | `listen.ts`, the timer of `Park`, the connection |
| `End`, `EndRun`, `EndReturns` | `end()` of supervisor and run, with its time limit |
| `Enqueue`, `Elapse` | a committed mutation with its NOTIFY; `visible_at` passes |

`late` is the run that was starting when `end()` was called: `innerRunning` is undefined
then, nobody ends that run, and the properties except it (section 5).

### 2.5 ProjectWorkers

A caller is a request or a handler (startup or one `project_updated`); a caller creates at
most one container, a handler at most one worker, and they bear its name. Continuations of
promises run before other events (`Quiet`).

| Action | Code |
|---|---|
| `Request`, `Awaited`, `CheckState`, `Destroyed`, `DestroyThrows`, `ReadProject`, `CreateContainer`, `Initialized`, `InitFails`, `Joined`, `Dispose` | `getProjectContainer`, `createContainer`, `destroyContainer` and `dispose` of `ProjectContainerResolver.ts`, cut at each await |
| `Reload`, `FetchProjects`, `Refresh`, `Replaced`, `EndsAfterFailure`, `EndAll`, `TrackerEnded`, `AllEnded` | `DispatchWorkerSupervisor.ts` |
| `WorkerStarts`, `WorkerFails`, `WorkerEnds` | the worker's `run` and `end` |
| `Update`, `Deaf`, `ListensAgain` | the project is changed or deleted; the tracker's connection is lost and comes back |

History: `since` (the version when a request came), `misdeleted` (a failed start deleted
the entry of another reload's worker), `unlucky` (a caller destroyed a container other than
the one it had found outdated, joined one older than what it had read, or a notification
was lost).

### 2.6 Migrations

A schema is the sequence of the entities added, with a state (ACL, settings) that may be
sent along. A transaction reads the committed data when it begins; if the row of `schema`
was written since (`commits`), its write meets a conflict. The migrations of a batch and
the rows of the registry are sets; where the code sorts them by version, `Sorted` puts each
at its rank, which is a definition without recursion that proofs can use.

| Action | Code |
|---|---|
| `Call` | one of the mutations migrate, forced migrate, snapshot, modify, delete |
| `TakeLock`, `LockFails`, `Unlock` | the advisory lock of `migrate` and `migrateFromSnapshot` |
| `Begin` | BEGIN, `ProjectMigrator` validates the batch against the snapshot and plans |
| `RunSql`, `SqlFails`, `SaveSchema`, `Commit`, `ConnectionLost` | its statements; with `MigrationLockRetry` a conflict starts the next attempt |

History: `disorder` (a version older than an executed one was forced in), `sent` (the state
last sent), `altered` (modify or delete edited the registry, not the tables).

### 2.7 IdpSessions

| Action | Code |
|---|---|
| `Verify`, `ReadSession` | a request reads key and session, maybe from a replica, and may find the token aged |
| `Claim`, `NotClaimed` | the conditional UPDATE of `last_validated_at` |
| `NothingToRefresh` | a session without a refresh token is given up, the provider is not asked |
| `Grant`, `Refuse`, `CallFails` | the provider's answer; a refresh replaces the token |
| `Persist`, `PersistFails`, `Revoke`, `RevokeFails` | the new token is stored, or the key disabled |
| `Age`, `FloorPasses`, `Replicate` | time and replication |
| `SignOut`, `EndAtProvider`, `SwitchProvider` | a user or an administrator |

A token has a lifetime (`fresh`, `soft`, `expired`), or the provider does not tell
(`unknown`), and then every request tries to claim. `renewable` says whether the session
came with a refresh token.

History: `slow` (requests that outlive the interval of their claim), `excused` (a new token
was lost, or an interval was too short for an attempt or for the replica), `refused`.

### 2.8 DeleteExecutor

One REPEATABLE READ transaction with its deletes one after another. A delete plans with a
`stack` of calls of `processDeleteResult`, reports results and events, sends one DELETE per
planned set, and PostgreSQL cascades by itself: `Cascaded` is the least set closed under
its foreign keys.

| Action | Code |
|---|---|
| `Begin`, `NotFound`, `AlreadyDeleted`, `Start` | the transaction, and the lookup of the named row |
| `CollectRestrict`, `CollectCascade`, `CollectSetNull`, `Return`, `Refuse` | `processDeleteResult`, one owning relation at a time |
| `CollectOrphans`, `PlanReady` | orphan removal; results and events |
| `DeleteRows`, `Confirm`, `Commit`, `Ended` | the DELETEs, the check of their count, COMMIT; a conflict starts the next attempt, a foreign key violation refuses the mutation |
| `OtherInserts`, `OtherMoves`, `OtherRemoves`, `OtherPermits` | commits of other transactions; a permission is granted or withdrawn by a change of its row or of rows its predicate leads to |

`touched` are the rows that others changed since the snapshot. A DELETE, a cascade or a
set null that would change one of them (`Younger`) fails to serialize, and the mutation is
run again. A foreign key that restricts only looks, and sees the data as it is now: a row
that others made point at a deleted one refuses the mutation at the DELETE, or, with deferred
keys, at the COMMIT, and this is not retried. When a statement meets both, either comes
first. A permission that depends on related rows may change without its row being touched.
A schema has finitely many entities, and a mutation has at least one delete.

## 3. Runs

| Run | Shows | Bounds |
|---|---|---|
| `queue_delivery` | the safety properties of delivery, the inductive invariant, and that every step implements `AtLeastOnceDelivery` | 2 dispatchers, 2 events, 1 target, batches of 2, 2 attempts, 3 disturbances out of crash, lapse, fault, operator, schema |
| `queue_liveness` | held rows are released in every order of hold, second look and `setVariables`; every event is settled | 2 dispatchers, 2 events of 2 targets, 1 variable, 1 caller, 2 disturbances out of crash, lapse, change of a variable |
| `pool` | the accounting of the pool, the order of its queue, and that every waiter is served or rejected without its own timeout | 3 scopes, 3 names for 2 connections, 1 idle, age, a rate limit of 2, 2 troubles out of recoverable, fatal, lost, timeout, closeIdle, end |
| `transactions` | statements take turns, savepoints nest, work is all or nothing, nobody hangs | an outer transaction, two nested ones, a scope in one of these; flows in three callbacks; two callbacks may abandon their parts; 1 statement per flow, 2 troubles out of error, lost |
| `dispatcher_loop` | due rows are fetched by one loop, which stops when it is told | `startupMax` 2, 2 events, 4 troubles out of start, error, lost |
| `project_workers` | the cache is coherent, requests are not served stale, no worker is lost or forgotten, everyone returns | 1 request, the handler of the start, 2 reloads, 2 troubles out of update, init, start, deaf, end, dispose |
| `migrations` | schema, registry and tables agree; ok means executed; every call returns | 3 callers, 11 operations over 3 versions, 2 attempts, 2 troubles out of sql, conflict, connection |
| `idp_sessions` | one refresh at a time, no revocation without a reason, an ended session is noticed | 2 requests at a time, 2 tokens that age, 2 troubles of seven kinds |
| `deletes` | what is reported is what happened, refusals have reasons, what is changed was permitted and untouched since | 4 rows of 3 entities, 4 relations, 4 schemas, all small databases, 4 mutations (one with deferred keys), 2 attempts (15 in the code), 1 commit of others per attempt |
| `queue_max_attempts`, `queue_stale_schema`, `pool_disposed_once` | see section 5 | one crash; one migration; one lost server |

Why these bounds are enough to be interesting. Each run has the smallest cast in which its
hazards happen, with one more than the first that comes to mind, and the environment may
interfere twice or more, so that a recovery can itself be disturbed.

- Queue: what goes wrong is between two workers on one row, with a third party that
  interferes. Three disturbances let a claim lapse, be taken over, and its first owner
  report late to a row an operator touched.
- Pool: two connections and three scopes make a queue of waiters behind a full pool; a
  third name lets one connection close while two are open.
- Transactions: three levels, and two siblings beside them, let a nested frame, a sibling
  and a stray statement compete for one mutex, before and after a loss of the connection.
- Loop: four troubles spend `startupMax`, and leave one for a run that had been healthy.
- Workers: two reloads and a request are the third caller that arrives while one destroys
  and another creates. Instances with three troubles and with two requests were checked
  as well.
- Migrations: a batch of two against single, forced, empty and content migrations,
  a snapshot, a modify and a delete, three calls at a time.
- Sessions: a request that holds a claim, one that lost it, and time that passes under both.
- Deletes: the schemas mix cascade, set null and restrict on a diamond (author, posts that
  follow each other, an image credited to the author), which is where ways meet.

`MaxDisturbances`, `MaxTroubles`, `MaxWrites` bound only how often the environment
interferes; what the code does by itself is not bounded but by counters that are the
code's own (attempts, statements per flow, events, tokens: each bound is named in its
module). The theorems of section 4 have none of the finite instances' bounds.

**Deadlock** is checked in the queue runs, `pool_disposed_once` and `deletes` (a mutation
that is over stutters explicitly, `Ended`). The others really stop: a closed pool, a
transaction that is over, a worker that was ended, callers that have returned, a disabled
session. There the liveness properties say that nobody is left behind.

**Symmetry** is used for dispatchers in `queue_delivery` and for scopes and connections in
`pool_disposed_once`, never with liveness.

**Fairness**, and why the code justifies it.

- Queue: the supervisor restarts a worker that ends, a request ends by its `timeoutMs`, and
  PostgreSQL answers (`WF` of `Work(d)`); time passes (`WF` of `Elapse(e)`); a
  `setVariables` call that was not interrupted finishes. None for triggers, operators,
  crashes or migrations.
- Pool: `connect()` settles by `connectionTimeoutMillis`, timers and `setImmediate`
  callbacks run, `client.end()` is given five seconds. That a scope gives its connection
  back is an assumption about the callers rather than a fact about the code: a scope that
  lasts, as that of `ProjectDispatcher.run`, does not, and needs a connection besides those
  the others take turns with. *None* for the timeout of a waiter: `EveryItemServed` says that nobody needs it.
- Transactions: a statement is answered or cut off, the holder of a mutex goes on, and a
  callback ends when what it awaits has ended.
- Loop: a run goes on, timers fire, listener errors are delivered, time passes. None
  for notifications: `DueIsFetched` holds if every NOTIFY gets lost on its way.
- Workers: continuations run and databases answer. Migrations: a caller that can proceed
  does. Sessions: a request is worked on, tokens age, intervals pass, the replica follows;
  none for clients, so `EndIsNoticed` allows that nobody uses the session again.
- `deletes` states no liveness: `maxAttempts` bounds it.

**The properties.**

- Queue. `SucceededWasAcknowledged`: a row says `succeed` only if the target accepted it.
  `NoRedelivery`: undisturbed rows are sent once. `AttemptsNotOvercounted`: `num_retries`
  never exceeds what was tried, although `markFailed` writes a count that was read when the
  row was claimed. `FailedForAReason`: a permanent failure has its attempts spent, or a
  target that some schema version lacked. `SucceedIsFinal`: a delivered row stays so, but
  for operators and late reports. `NoForgottenHold`: unless a worker died in between, a held
  row whose variables are defined has somebody about to release it; this is the race the
  second look of `processBatch` is there for. `EventuallySettled`: every event ends
  delivered, failed or stopped, if from some time on all variables are defined.
  `ImplementsDelivery`: every step of the queue is a step of `AtLeastOnceDelivery`.
- Pool. `AtMostMaxConnections`, `NeverShared`, `NothingLeaks`: its accounting, over all
  interleavings of handlers. `SomebodyWillServe`: whenever a handler returned and somebody
  waits, something is outstanding whose handler serves the queue; `maybeCreateNew` returns
  early for five reasons, and each relies on that. `EveryItemServed` is its liveness
  counterpart. `NoOvertaking`: connections are handed out in the order of the calls.
- Transactions. `Serialized`: while a frame is open only its own statements and those
  inside it run, but for strays. `SavepointsNested`: RELEASE and ROLLBACK TO find their savepoint.
  `AllOrNothing`: what is durable is the work of the frames that reported a commit inside
  frames that did; the work of strays is not followed. `NobodyHangs`: every transaction and every call in it ends, an abandoned
  one included, whatever connections its parts use by mistake.
- Loop. `OneLoop`, `GivesUpForAReason` (only `startupMax` failed starts reject `run()`),
  `NoSleepOnWork` (only a NOTIFY between the look at the queue and the park makes an event
  wait for the 30 s cap), `EndedIsQuiet`, `DueIsFetched`, `EndStops`.
- Workers. `CacheIsCoherent`: what is announced is what is cached, and nothing after
  `dispose()`. `NotStale`: no request gets a configuration outdated when it came.
  `WorkersAreKnown`: every running worker can be found by `endAll`. `NoWorkerLost`: when
  everything is at rest the project has a worker of its present version.
  `EveryoneReturns`.
- Migrations. `SchemaIsReplay`: the incrementally stored schema is the replay of the
  registry. `TablesMatchSchema`: SQL runs once and in the order of the schema.
  `OkMeansExecuted`: also when the batch was found already executed, or was retried.
  `CallsReturn`, with the advisory lock free again.
- Sessions. `SingleFlight`, `RevokedForAReason` (an outage never revokes), `EndIsNoticed`.
- Deletes. `ReportIsExact`: against `ShouldGo`, a reference definition of the rows that must
  go. `RefusedForAReason`: a refusal has its reason in the snapshot, or in a row that others
  made restrict the delete since. `ChangedAsPermitted`: only rows that were permitted in the
  snapshot, and that nobody touched since, are changed.

## 4. Proofs

`tlapm` checks every theorem for all values of the constants, under the assumption each
module names (`QueueAssumption`, `PoolAssumption`, `TransactionsAssumption`,
`LoopAssumption`, `WorkersAssumption`, `MigrationsAssumption`, `SessionAssumption`,
`DeleteAssumption`: finite sets where something is counted, positive limits, actors that are
distinct, calls that form a tree, versions that are positive numbers, foreign keys that
hold at the start). Every safety invariant and every action property that a run checks is
a theorem. Each inductive invariant was checked by TLC on the instance of its run, or a
smaller one, before it was proved.

**Queue.** `IInv` is inductive. The safety properties alone are not: that a result is
recorded only for an accepted row needs to know that what a dispatcher remembers fits
where it is (`LocalInv`), that a row in an undisturbed batch is in no other batch and not
claimable (`ClaimInv`), that an undisturbed acknowledgement is either in the table or in
the hands of the dispatcher that got it (`AckInv`), that only rows that exist are worked
on (`ExistInv`) and that a target absent from any snapshot counts as retired
(`SchemaInv`). `IInv` is checked by `queue_delivery`, then proved one action at a time,
one lemma per conjunct. From it follow `TypeCorrect` (proved on its own),
`DeliveredIsAcknowledged`, `ExclusiveClaims`, `NothingSentTwice`, `BatchesFit`,
`FailuresHaveReasons` and `HoldsAreReleased`. `AttemptsAreReal` needs more: `CountInv`
counts, per event, the requests nobody has recorded yet, and says that the count of any
dispatcher's copy and those requests together stay within what was tried, through stale
copies and "Internal error" records. `DeliveredStaysDelivered` is the action property
`SucceedIsFinal`, and `Refinement` says that the queue implements `AtLeastOnceDelivery`:
each action is a `Submit`, an `Acknowledge`, a `Settle` or a stutter of it.

**Pool.** `PoolInv` is inductive. The limit alone is not: it needs that the counters
account for what is outstanding (`CountsBalance`: an attempt is counted in
`connectingCount` from its check to its end, a unit of the rate limit is remaining, in
flight or about to be renewed), that a connection is in one place only (`Places`), and
that waiters are distinct scopes that hold nothing (`QueueInv`). The proof works with
`Kept`, an equivalent form in which holders and active connections match one to one. The
heart is `StartsOrSomebodyWill`: each reason for `maybeCreateNew` to return early leaves
something outstanding. `InOrder` proves `NoOvertaking` from lemmas about what a handler
may do to the queue; `IdleIsUsed` says that nobody waits while a connection is idle.

**Transactions.** `TransInv`, for any tree of calls. A mutex holds those who want it, once
each, and a frame that has begun keeps its parent's (`LockInv`); who is on the wire has its
mutex (`WireInv`); a frame is called by a callback that has begun, and a scope outlives its
parts (`CallInv`). From these: what is alive is alive all the way up to `Top` (`ChainInv`),
which is where an abandoned part could break everything; if it is not, no statement of it is
sent. So layers nest like the calls (`StackInv`), the layers from the savepoint of a
transaction on hold exactly the work done inside it (`WorkInv`), and what a COMMIT makes
durable is the work of transactions that committed inside such (`DurableInv`). Arguments
about "all the way up" are inductions over the tree; as the prover has no induction
principle for that, `Root` and `Least` take the uppermost frame of a set of
counterexamples, which exists because the frames above a frame are finitely many.

**Loop.** `LInv`: the supervisor agrees with where its run is (`PhasesAgree`), rows are due,
claimed or later (`RowsCounted`), every run that ended badly spent a trouble of its own
(`TroublesCounted`, which is what keeps `restarts` and the run in step), `restarts` counts
the failed starts before the first healthy run (`StartsCounted`), a loop about to park
has looked at the queue (`ParkedInTime`), `end` aborts once and awaits the last run
(`EndedOnce`). Its four safety properties follow directly.

**Workers.** `WInv`: who may be where, nobody awaits or gets a container that was never
created, and each caller creates once (`PlacesInv`); announced containers are the cached
one and ready, and whoever destroys a container destroys the cached one or another caller
has just done so (`CacheInv`); what a caller read is not older than its request
(`StaleInv`). That continuations run before other events is what `CreateContainer`
needs: no second caller creates between its look at the cache and its entry in it.
`NoWorkerIsLost` needs `LostInv`, which says who will bring a worker before there is one.
Containers are not newer than the configuration, and those that a caller checks or has got
are ready (`CallsInv`); an entry of the supervisor has a container and a worker that nobody
ends (`EntriesInv`); every container but the cached one is outdated, and so is the one that
somebody destroys (`CachedInv`). Hence, until the project has a worker of its present
version, a notification is pending or a handler is on its way that will enter one
(`ExpectedInv`). When everything is at rest neither is left, so the worker is there.

**Migrations.** `MInv`. The heart is `PlanInv`: what a transaction will write, planned from
its snapshot, is what it would plan now, as long as nothing was committed since; and
PostgreSQL lets only such a transaction commit, one at a time (`CallInv`). A commit makes all
other plans old. So it is enough to show that a plan is right for the data it was made from
(`Commits`): new versions come after the executed ones, unless forced in, and the
modifications of two sets of versions one after the other are those of the first followed
by those of the second (`SortedUnion`, `ReplayExtends`). `BlankInv` adds that the row of
`schema` has a version exactly when something is executed, which is what the gate of
`migrateFromSnapshot` relies on. `OkIsExecuted` is an action property: the plan that a
migrate commits was accepted, and a version stands for one migration of the batch only.
The result needs nothing of the advisory lock.

**Sessions.** `SessionInv`: an attempt covered by its interval holds the floor
(`FloorHeld`), which makes claims exclusive; the token that works is stored or on its way
(`LiveTokenStored`, `GotNewest`), and what was read before the last store cannot be claimed
any more (`StaleIsFloored`), so a refusal means that the session has ended.

**Deletes.** `DInv`: until the DELETEs, what points at a planned row is planned, noted as set
to null, or some call on the stack will still ask for it (`Covered`); rows nobody touched
are as in the snapshot (`Agree`). When planning is over, nothing is left on the stack, so
the plan is closed under the foreign keys, and PostgreSQL's cascade, the least closed set,
stays within it (`CascadedIsLeast`, `DeleteKeeps`). Hence `PermittedChanges`
(`ChangedAsPermitted`: the plan was checked against the permissions of the snapshot, and a
touched row would have failed to serialize). That the permission still holds at the commit is
neither stated nor true, see section 5.

`RInv` compares the plan with the reference definition `ShouldGo`. The report is what is
planned and what earlier deletes planned (`Books`). Nothing is planned that should not go,
as each step of the plan follows a relation that the definition follows (`Within`), and the
rows of a finished delete are closed under these relations, so they contain the least set,
which is the definition (`Complete`). What points at a deleted row was restricted or touched
by others, and what is null pointed at one (`Pointers`). If nobody touched a row of the
report, each was reported once, and the DELETEs that were sent and those still to be sent
take every planned row (`Applied`). Hence `ReportsAreExact` and `RefusalsHaveReasons`.

**Only model-checked:** the liveness properties `EventuallySettled`, `EveryItemServed`,
`NobodyHangs`, `DueIsFetched`, `EndStops`, `EveryoneReturns`, `CallsReturn` and `EndIsNoticed`,
because fairness and `ENABLED` are out of the prover's reach. No module uses `RECURSIVE`.

## 5. Where the code and what it says disagree

Shown by a run whose property is what the documentation, a comment or an assertion states:

- **More requests than `maxAttempts`** (`queue_max_attempts`). The count is written with
  the result. A worker that dies after the request leaves it unchanged, and the row is
  sent again. The documentation promises a maximum.
- **A target that exists is treated as unknown** (`queue_stale_schema`). `processBatch`
  keeps the schema it read before claiming; an event of a target that a migration added
  since is failed for good. The comment of `fetchBatch` says this happens to targets that
  no longer exist.
- **A connection disposed twice** (`pool_disposed_once`). `dispose` takes the connection
  out of `active` and leaves the rest to `setImmediate`; a socket error in between makes
  the error listener dispose it, and the callback throws into a promise nobody awaits.

Met while modelling; the history variable that excepts each from a property is in brackets:

- `end()` of a supervisor during the pending `run()` of a restart leaves that run without
  anybody to end it (`late`).
- A project updated while a request is in the middle of its own reload may be left without
  a worker until the next update (`unlucky`; `DispatchWorkerSupervisor.ts:33` relies on the
  event 'destroy'). `running.delete` of a failed start may drop the entry of another
  reload's worker (`misdeleted`).
- After a forced older migration the stored version goes back (`ProjectMigrator.ts:100`),
  so a later unforced migration older than the latest executed one is accepted, contrary
  to "Must follow latest executed migration" (`disorder`).
- `runRevalidation` says that the row is kept and persisted later when storing a refreshed
  token fails. With a provider that rotates tokens the new one is lost, and the next
  refresh is refused and disables the session (`excused`).
- PostgreSQL looks up the rows of a cascade with its latest snapshot, so a row that another
  transaction moved away or deleted after the mutation's snapshot is not cascaded to and no
  serialization failure occurs: it was reported although it survives, and its orphan may be
  deleted (`touched`).

Met while modelling, without a property that excludes them:

- `relationships.mdx:223` says that all relationships are NO ACTION in the database and that
  Contember executes the strategy. `addForeignKeyConstraint` (`relations/helpers.ts:29`)
  creates ON DELETE CASCADE, SET NULL or NO ACTION, the executor deletes the planned sets
  only, and PostgreSQL cascades; `DeleteExecutor` follows the code.
- A permission whose predicate follows relations can be withdrawn by a commit on a related row
  between the plan and the DELETE. REPEATABLE READ permits this write skew, and the row is
  deleted. `ChangedAsPermitted` claims only what was permitted in the snapshot.
- A row that others commit after the snapshot and that restricts a delete refuses the mutation
  at once: `convertError` (`ErrorUtils.ts:109`) makes a result of the foreign key violation,
  and only serialization failures are retried (the disjunct of `RefusedForAReason` with
  `committed`).
- `stopEvent` on an event that a worker holds does not last: the result of the worker is
  written over it, and the event ends delivered or is tried again. `SucceedIsFinal` and
  `AtLeastOnceDelivery` allow that.
- A reload of the workers that is under way when `endAll` runs enters its worker after
  `endAll` has looked at `running`; nobody ends it. `WorkersAreKnown` (it is entered),
  `NoWorkerLost` and `EveryoneReturns` hold nevertheless.
- A session without a refresh token is disabled at its first refresh (`no_refresh_token`,
  `OIDCHelpers.ts:260`) without asking the provider. `RevokedForAReason` is about answers.
- Statements of abandoned callbacks (strays) run in the savepoint of a sibling, in the outer
  transaction or in autocommit (`Transaction.ts:49`, `:121`), and their work may become
  durable when their transaction failed. `Serialized` and `AllOrNothing` leave them out.
- The event 'end' of a connection rejects the listener with `undefined` (`listen.ts:66`), which
  the loop takes for no error if it comes during a batch (`ProjectDispatcher.ts:134`).
  It does no harm as long as 'error' comes first, as it does for a lost connection.

## 6. Not modelled, and why

- Queue: payloads, headers, logs; which rows a mutation enqueues (a computation over schema
  and data). The interval before a retry is abstract: any order of due rows is considered.
- Pool: the memory budget of a scope, statistics, logs; a lost connection handed to the
  next scope (`retryStaleConnection`).
- Transactions: the request semaphore (`ScopeLimitedConnection`) and the mutex of a mutation
  above it, `retryTransaction` but where a module uses it (deletes, migrations).
- Workers: project aliases, project groups and `LazyDispatchWorker`, the restart of a crashed
  group, the schema caches of several processes.
- Migrations: ids, order and wording of the validations within a batch, stages, skipped
  errors; that a snapshot's modifications equal those of the migrations it covers is
  assumed. Advisory locks are a single lock.
- Sessions: blocking mode, the methods userinfo and introspection, the claims sync, audit
  logs; the provider is assumed to rotate its refresh tokens. Sign-in tokens and limits: each claim is one
  conditional UPDATE that throws when it changes nothing, and the rate limiter is
  documented as approximate, which leaves little to interleave.
- Deletes: the predicate of a permission (it holds for a row or not, and others may turn it
  round by touching the row or without), a filter argument is a row that is not there, columns other than the relations are left out; nested writes between deletes,
  listeners other than the event log. Inserts, updates, junctions, reads and ACL
  compilation: SQL generation.
- SQL builders, schema diffing and validation, GraphQL compilation: pure functions over
  large trees, without steps to interleave. HTTP, streams, CLI, UI: I/O. Together they are
  nearly all of the repository's lines, which is why the mapped share of it is small.

## 7. Plan

Done: eight detailed modules with their runs, one abstract specification with its
refinement, and proofs of the safety properties of all eight. What would come next:

1. `RequestScopes`: the semaphore of a request over the pool, the mutex of a mutation and
   `retryStaleConnection`, composed with `Transactions`. Property: requests that hold slots
   and wait for the pool end.
2. `ProjectGroups`: several processes with their schema caches over `Migrations`.
3. `SignIn`: one-time codes, passwordless tokens and their limits under concurrent requests.
4. Proofs: lemmas on the steps that liveness needs (who is next is never disabled), which
   are safety facts that the prover can do; the proofs of what 1 to 3 add.
