# Formal models of Blocklet Server

Blocklet Server is a node operator's daemon that installs, runs, upgrades and
routes to *blocklets* (containers or node processes), plus a service gateway in
front of them. Both are clusters of Node.js processes under PM2. The processes
share SQLite or PostgreSQL tables, and, when it is configured, Redis. Nothing
else coordinates them. What is hard about this program is therefore in the two small
packages every other part leans on for mutual exclusion and for work that must
survive a restart, `core/queue` and `core/db-cache`, and in the state machines
that use them. This directory models those two packages and two of the state
machines: what delivers the events of a blocklet, and what keeps its components running.

## 1. Inventory

| component | state it keeps | operations | how it meets the others |
|---|---|---|---|
| job queue (`core/queue`) | a table of jobs; per process a fastq waiting list, its running slots, retry timers, the scheduled loop | `push` (now, delayed, not persisted), `get`, `cancel`, `restoreCancelled`, `delete`, startup load, retry, scheduled loop | used by install, backup, agent, notification, webhook and passport queues; all the processes of a cluster share one table |
| lock (`core/db-cache`) | one row or key per lock, with an expiry; per process the creations in flight | `createLock`, `hasExpired`, `waitUnLock`, `acquire`, `releaseLock` | taken by blocklet start and status changes, port assignment, user and team initialisation, docker and script runners, rate limiting, downloads, webhook fan-in |
| cache (`core/db-cache`) | one row per cached value, an LRU layer and the computations in flight in each process, messages between the layers | `autoCacheGroup`, `groupGet`, `groupSet`, `groupDel`, `del`, cleanup, `flushAll` | blocklet information and pages of the services; invalidated by events of the blocklet and by requests |
| blocklet lifecycle (`state/lib/blocklet/manager`) | status of each component and colour (blue, green), processes under PM2 and docker, the start lock, the watchdog's queue and marks, job rows | start, stop, reload, restart, ensure-running; install, upgrade, delete, backup | locks, start queue, PM2 and docker |
| blocklet state (`state/lib/states/blocklet*.js`) | blocklet rows, component rows, assigned ports, uptime | add, upgrade, set status, refresh ports | locks `add-blocklet`, `upgrade-blocklet`, `assign-ports` |
| downloader (`state/lib/blocklet/downloader`) | download tasks, bundle cache, cancel controllers | download, cancel | lock per bundle, install queue |
| webhook delivery (`state/lib/blocklet/webhook`) | events with a count of pending deliveries, attempts, endpoints with a counter of failures | fan out, attempt, retry, disable | the event queue and two endpoint queues of one name, shared counters |
| webhook senders of the daemon (`state/lib/webhook`) | none of its own | send, reduce | lock of `db-cache` |
| router (`state/lib/router`) | routing table, nginx configuration | regenerate, reload, monitor | debounced calls from events |
| cron (`core/cron`) | timers | run a job | any other |
| certificates, auth, rbac, models, CLI, interfaces | tables, sessions | request handlers | HTTP, events |

`PROJECT.json` lists every component, also those that are not modelled, with the
reason, and under `hazards` what is hard to test, each at its line.

Behaviours that make this code hard: processes of the cluster die and are
replaced at any time; statements of several processes interleave on one table
and conditions are read in one statement and used in the next; a claim or a lock has
a time to live that its holder may outlast; a client resends a command
whose answer it lost; a promise is abandoned by a timeout while its body goes on.

What makes each component correct: a job that was accepted is executed or cancelled, is
not executed twice at a time, is retried a bounded number of times, and does not
stay behind; a lock has one holder, is only released by it, and does not stay
locked; a cached value is computed once at a time, does not outlive its ttl, and is gone
after an invalidation; an event reaches each endpoint or is given up, and is not counted as
done before; a restart of a component does not interrupt its service, nothing runs that is said
to have stopped, and what should run is started again; a port is given to one component.

## 2. Plan

1. `JobQueue` (done): the queue and its store, any number of processes; what it promises as an abstract `JobLedger`, and the
   refinement between them; proofs in `JobQueueProofs` and `JobQueueSafetyProofs`: all its safety properties.
2. `DBLock` (done): the lock over Redis and over SQLite, an abstract mutex
   `Mutex`, the refinement between them; proofs in `DBLockProofs`.
3. `WebhookDelivery` (done): events, attempts and pending counts of
   `blocklet/webhook/queues.js` and `event-bus.js` over two endpoint queues; proofs in
   `WebhookDeliveryProofs` and `WebhookRetryProofs`. It was planned with "the count of pending deliveries ends at 0"; the code does
   not give that (section 11), and what it gives, a count that never ends too early, is stated instead.
4. `Cache` (done; planned as `SingleFlight`): `single-flight-db-cache.ts` and `lru-cache.ts`: what
   a reader may see after an invalidation; proofs in `CacheProofs`.
5. `Lifecycle` (done for start, restart, stop, reload and the watchdog): proofs in
   `LifecycleProofs` and `LifecycleStrayProofs`. Download, installation and upgrade are left: their state is the file system.
6. `PortAssign` (given up): `addBlocklet` and `upgradeBlocklet` take different locks
   (states/blocklet.js:803, 904) and the lock `blocklet-port-assign` covers only the computation of the
   numbers (states/blocklet.js:70), not the rows that make them taken. That two components do not
   get one port rests on probing the ports of the host (`ensureAppPortsNotOccupied`) right before a
   launch: a model of it would state a property of its own idea of the operating system.

The modules are composed through their promises. `JobLedger` is what those who push jobs may assume of the queue;
`Lifecycle` takes its start lock to be what `Mutex` allows, one holder until it lets go; `WebhookDelivery` repeats the part of the scheduled loop
that two queues of one name in one process share, which `JobQueue` has per process.

Every invariant and every action property that a passing run checks is stated by a theorem; the
liveness properties stay with TLC. To come: theorems that need less than `Serial` and `ImmediateOnly` (section 10)
where the code gives them, such as `RunsBounded` when the store fails, with one more execution per refused update.

## 3. The job queue: `JobQueue`, `JobLedger`, `MCJobQueue`, `JobQueueProofs`, `JobQueueSafetyProofs`

### State

| variable | in the code |
|---|---|
| `row` | the table of `models/src/models/job.ts`: `retryCount`, `cancelled`, `delay` (`"later"` when `delay > 0` and `willRunAt` is in the future, `"due"` once it has passed), `by` = `processingBy`, `fresh` = "`processingAt` is less than `timeoutMs` (60 s) ago". `ran` is auxiliary: the executions since the row was inserted |
| `task` | the closures that `push` makes (`queueJob`, `onJobComplete`), each with the step it is at: `tick` (waits for `setImmediate`), `wait` (in fastq's list), `check` (holds a slot and asks `isCancelled`), `run` (in `onJob`), `claim` and `update` (the `getJob` and the `updateJob` of `onJobComplete`), `backoff` (`setTimeout`), `clear` (`deleteJob`) |
| `fifo` | the waiting list of fastq in each process |
| `api` | a call of `cancel`, `restoreCancelled` or `delete` between two of its store calls |
| `loop` | the scheduled-job loop: the fetched batch, the job it is at, and where |
| `late` | bodies of `onJob` that `tryWithTimeout` no longer waits for |
| `proc` | the life of a process; a restarted process is another element of `Pid` |

### Actions

A step is what runs between two awaits; a store operation is one step. `getJob`
and `getJobs` are each two statements (claim rows, then read back what this process
has claimed); no other process may change rows it cannot claim, so they are one step.

* Startup (index.js:291-313): `Start`, `Populate`, `PopulateFails`. `Populate` claims what
  `_getAndMarkJobs` claims and pushes it with `persist = false`. A process may also
  `push` before it has loaded the table (`"earlyPush"`).
* `Push`, `PushDelayed`, `PushVolatile` (index.js:117-242), `QueueJob` (the `setImmediate`).
* The worker (index.js:87-115): `CheckCancelled`, `CheckFails`, `Begin`, `Succeed`, `Fail`,
  `TimeOut`, `LateEnd`. fastq itself is external (`Free`, `Enqueue`, `Release`): a free
  slot takes an entry at once, a released slot takes the head of the list.
* `onJobComplete` (index.js:179-220): `Clear`, `ClearFails`, `Disown` (`getJob` found nothing
  it may claim), `GiveUp`, `PlanRetry` and `SaveRetry` (two awaits, so the count may be
  stale), `SaveRetryRefused`, `CompleteFails`, `Retry`.
* `get`, `cancel`, `restoreCancelled`, `delete` (index.js:244-289): `GetJob`, `ApiCall`, `DeleteGet`,
  `ApiUpdate`, `ApiRemove`. Each process has one such call in progress at a time.
* The scheduled loop (index.js:315-345): `FallDue`, `Scan`, `LoopCancel`, `LoopUpdate`, `LoopPush`.
* A store call that throws: `PopulateFails`, `CheckFails`, `ClearFails`, `CompleteFails` and `SaveRetryRefused` above, `ApiFails` (a call
  of `cancel`, `restoreCancelled` or `delete` ends with it), `LoopFails` (the loop's `catch`, index.js:324-340: the rest of the batch is dropped
  and the loop sleeps).
* `Expire`: the 60 s of a claim pass. `Crash`: a process dies with its memory; its claims stay.

`Env` says what the environment may do: `overlap` (several processes live at
once), `crash`, `expire`, `timeout`, `storeFail` (of workers and calls), `loopFail` (of the scheduled loop), `earlyPush`.

### Properties

| property | says |
|---|---|
| `SlotsUsed` | slots in use never exceed `concurrency`, and are all in use while an entry waits |
| `RetryBounded`, `RetryMonotone` | the count of a row stays within `maxRetries`; no attempt is forgotten |
| `NoOverlap`, `RunBound` | with one process at a time, executions of a job do not overlap and are at most `maxRetries` plus one per death |
| `AtLeastOnce` | a row only leaves the table after an execution or a cancellation |
| `ClaimRespected` | no step takes over a row whose claim still lasts |
| `ClaimCarried`, `NoOrphan` | a job that a live process has claimed is in its memory; without deaths every job is in somebody's memory |
| `ScheduledOnce` | a due job is taken by one closure |
| `LedgerSpec` | the queue implements `JobLedger` |
| `EveryJobSettles` | (liveness) each row leaves the table |

`JobLedger` is the queue as its users see it: a job is absent, pending or running; `push` accepts it unless its id is in use, `cancel`
withdraws it, one execution runs at a time, at most `Attempts` of them and one more per death, and the job is removed when it was
executed at least once or withdrawn. There are no processes, claims, slots, retries or loops. `JobQueue` instantiates it: a job is
absent without a row and running while some slot waits for its `onJob` (after `tryWithTimeout` has given up on it, it is pending
again), `runs` is the row's auxiliary `ran`, `withdrawn` its `cancelled`, `deaths` the number of dead processes.

`TypeOK` is not empty: a handler that left a closure in a state nobody handles would break it.

## 4. The lock: `DBLock`, `Mutex`, `MCDBLock`, `DBLockProofs`

One lock name. `owner` and `stale` are its entry in the store (Redis key or
SQLite row): who created it, and, for SQLite, whether its `expiresAt` has passed while
the row is still there. `flight` is the map `_inFlight` of each process (lock-db-cache.ts:6):
no creation on its way, one younger than the ttl, or an older one. `pc` is
where each caller is, `lease` whether its ttl has run out since it got the
lock, `sweep` the number of `DELETE`s its polls have issued that have not yet run.

* Before the lock: `Call`; `GuardTaken`, `GuardOpen`, `Purge` are `hasExpired`, which some
  callers ask first (process-manager.js:372, docker-exec.js:55).
* `createLock` (lock-db-cache.ts:15-44): `Refused` (a creation younger than the ttl is on its way
  in this process), `Begin`, then over Redis `SetNX`, `SetLost` (the command ran, its answer is
  lost, the client sends it again), `SetRefused`, and the check for a "ghost success" `Ghost`,
  `NoGhost` (redis-adapter.ts:99-106); over SQLite `Select` and `Upsert` (sqlite-adapter.ts:204-245);
  `SetFails` for a store that rejects. The mark is removed in `finally`.
* `waitUnLock` (lock-db-cache.ts:76-107): `PollFree`, `PollStale` with `Sweep` (`has` of SQLite deletes
  an expired row, by key), `PollTimeout`. `acquire` then tries again.
* The holder: `Finish`, `Release` (`del` by key, whoever created the entry), `Leak` (a
  failing release, or a caller that throws between `acquire` and its `try`).
* `Age`, `Expire`, `Cleanup`, `Crash`.

A reply of the store and the code that runs on its arrival are one step with the command. Time is
abstract: a ttl may pass at any moment; a holder is faster than its ttl unless `"overrun"`.

`Mutex` is what callers rely on: at most one of them between the return of `acquire`
and the end of its `releaseLock`. `DBLock` instantiates it with
`holders <- {c : Holding(c)}` and the run and the theorem show `M!Spec`.

Properties: `LiveExclusion` (no two callers whose leases run are inside), `EntryKept`
(nobody deletes or replaces the entry of a caller inside), `MutexSpec` (the
refinement), `MarkAnswered` (a mark never outlives its creation), `Served` (liveness).

## 5. Webhook delivery: `WebhookDelivery`, `MCWebhookDelivery`, `WebhookDeliveryProofs`, `WebhookRetryProofs`

| variable | in the code |
|---|---|
| `event` | rows of the events table with `pendingWebhooks` (`pending`), where the event queue is with each, and the endpoints its `forEach` has still to schedule (`plan`) |
| `hook` | rows of the endpoints table: `status` and `consecutiveFailures` (`fails`); `failed` (history) counts calls that failed |
| `rows` | the attempts table: the highest `retryCount` and the number of successes, per event and endpoint; `uncounted` (history): the successes whose count the store refused |
| `task` | endpoint jobs: delayed or marked rows of the jobs table, jobs in a queue, and what a running `handleWebhookEndpoint` read before its awaits. `saved`: its success is recorded, its count is not; `again`: the store refused that count |
| `todo` | what the scheduled loop of each queue has fetched and not yet pushed |
| `extra`, `did` | histories: attempts begun outside an event's own chains; which disturbances happened |

`init()` of the event bus and `WebhooksAPI` each create an endpoint queue of the same name in one process
(blocklet/webhook/index.js:37): `Queue`. Actions: `Accept`, `HandleEvent`, `Schedule` (event-bus.js,
`handleWebhookEvent`); `Take`, `Look`, `Answer`, `Fail`, `ApplyUpdate` (the update nobody awaits),
`SaveSucceeded`, `SaveFailed`, `Settle` (`handleWebhookEndpoint`); `Fetch`, `PushDue` (the loops); `Retry`,
`SetStatus` (users), `Restart`.

A statement of the store may throw at any point of the handlers (`StoreFails`): `SuccessRefused` (the row of an answered call, queues.js:110,
122) and `CountRefused` (the decrement after it, 137, in the same `try`) make the `catch` (141-184) take the attempt for a failed one;
`JobDropped` (the reads before the call, the row of the failure at 145 and 157, the decrement after the last failure) and `DelayRefused` (the
row of the delayed job) throw out of the handler, and the attempt is gone, since it has no row or a row with one attempt; `UpdateRefused` (the endpoint's
counter) is swallowed. `EventDropped` and `TurnDropped` are the same for `handleWebhookEvent` and one turn of its `forEach`.

| property | says |
|---|---|
| `PendingCovers` | an event's count is never below the deliveries still open: stale read-modify-writes lose decrements, never increments |
| `RetryCap` | a chain of attempts passes `MAX_RETRY_COUNT` only by attempts begun outside it |
| `AnsweredOnce` | an endpoint that answered is not called again for that event, but for a user, a restart, the second queue, or a success whose count the store refused |
| `DisabledByFailures` | the service disables an endpoint only after that many failed calls, whatever counters were read |
| `Reached` | (liveness) without a restart and a refused statement each endpoint is reached, given up or disabled |

## 6. The cache: `Cache`, `MCCache`, `CacheProofs`

One group (`key` with `subKey`s), as the short cache of blocklet information keeps it. `version` stands for
the state of the blocklet, which is all that a computation reads.

| variable | in the code |
|---|---|
| `table` | rows of `kvcache`; a copy is the value, the time it has `left` until `expiresAt`, and (history) its `age` since that was fixed |
| `lru`, `grouped` | the group in the LRU layer of each worker; whether `groupCaches` has the group at all, which decides if `groupDel` broadcasts |
| `bus` | messages of the event hub on their way to each worker, in order per receiver |
| `pending`, `task` | `_pending` of each worker and the calls of `autoCacheGroup` it points to, each at the await it has reached |
| `owed`, `wipe` | events each worker has still to handle; `DELETE`s it has issued that have not run |
| `swept`, `did` | histories: the last `del` met neither call nor message and no call began since; disturbances so far |

Actions: `Start`, `Select`, `ExpiredRow`, `RefillLru`, `DeleteExpired`, `Compute`, `Upsert`, `FillLru`, `Fail`
(`autoCacheGroup`, `groupGet`, `groupSet`); `Listen`; `Change`, `Invalidate` (`del` on an event of the
blocklet), `ForceDel` (`groupDel` of a request with `?nocache=1`), `DeleteRows`, `DeleteFails`; `Evict`, `Cleanup`,
`FlushAll`, `Crash`, `Tick`. Callers that join a pending call, or are answered by the LRU layer, change nothing.

| property | says |
|---|---|
| `OneFlight` | a key is pending exactly while one task of that worker computes it, however it ends |
| `LifeKept` | a value keeps its expiry wherever it is copied: nothing outlives its ttl by travelling |
| `Swept` | an invalidation that met no call leaves neither row nor entry in any worker, once messages and `DELETE` are through |
| `FreshInTheEnd` | (liveness) once the blocklet stops changing, no LRU layer answers with an earlier state for ever |

## 7. The lifecycle: `Lifecycle`, `MCLifecycle`, `LifecycleProofs`, `LifecycleStrayProofs`

| variable | in the code |
|---|---|
| `st` | the status of the blue and the green instance of each component (`blocklet_children`) |
| `proc` | the colours whose process is up and healthy under PM2 |
| `lock` | `startLock` of each component (process-manager.js) |
| `writes` | statuses that a start is writing and does not wait for (`onStarted`, `onError`: start-manager.js:591-601) |
| `op`, `at`, `to` | what each request and the watchdog's worker (`Dog`) is doing, how far it is with each component, and the colour it starts; `row` says whether a daemon that has died since had claimed the row of a restart's job |
| `queue`, `pending` | `restartQueue` and `pendingJobs` of the watchdog |
| `snap`, `since` | what its check has read and will judge; `progressBlockletsTime`, counted in checks |
| `events` | bound: the requests and faults so far |
| `kept`, `muddled` | histories that say where `ZeroDowntime` and `NoStray` apply |

Actions follow the awaits of the handlers.

* Start: `StartClear`, `StartGreen`, `StartMark`, then per component `Launch`, `Acquire`, `Launched`, `Check`, `Passed` or
  `Failed` (which only issue the status: it arrives with `Land`), and `StartEnd`; `StartThrows`, `StartEndFails` and `StartEndThrows` are its throws.
* Restart, a job of the start queue: `RestartChoose`, `RestartMark`, the same steps on the colour not in use, `Passed` with the switch of
  both statuses, `Retire` or `RestartDrop`, `RestartEnd`. `RestartThrows`: the queue is created without `maxRetries` (state/lib/index.js:106-121), a
  row begins with `retryCount` 1 (sequelize.js:134), so the first throw is final (queue/lib/index.js:57, 201).
* Stop: `StopMark`, `StopThrows`, `StopKill`, `StopEnd`. Reload: `Reload`, `ReloadThrows`, `Reloaded`.
* The watchdog: `GetRunning`, `GetFake`, `TakeEntry`. `GetRunning` waits for the writes of a start: checks are 120 s apart.
* `ProcessDies`; `DaemonDies`: processes live on, start locks are cleared, the rows of restart jobs are loaded by the next daemon, which may pass over (`"parked"`)
  those that a dead daemon had claimed less than a minute before (sequelize.js:54-65). Users' requests are `Call`.

Faults: a launch, a check or a deletion fails, a precondition throws, or the store refuses a status (`Refused`: of several components, those before the
throw are written). The switch of a restart swallows that (blue-green-start-blocklet.js:254-261) and goes on to delete the other colour.

`startBlockletProcess` takes for a moment the lock of every component of the blocklet, selected or not, and leaves those out whose lock somebody
holds (process-manager.js:360-384): `LeftOut`. Its second disjunct, a lock held only because of another component, needs two
components: the theorems cover it, the run has one.

| property | says |
|---|---|
| `ZeroDowntime` | a component that served, and with which only restarts are done, one at a time, serves at every moment, whether they succeed, fail or are cut short by a dying daemon; except when a process dies, the deletion of the retired colour fails, or the store refuses the switch |
| `NoStray` | when nothing is under way, no process is left whose status says stopped or error |
| `Healed` | (liveness) once requests and faults cease, what is said to run runs and nothing is left starting or stopping, save what the check skips |

`Repaired`, without that exception, is what a comment of the watchdog says, and is violated.

## 8. The runs

| run | instance | shows |
|---|---|---|
| `queue_single` | 3 successive processes, 2 jobs, immediate or scheduled, 3 closures, concurrency 2, 2 attempts; cancel; crashes, expiring claims and a scheduled loop whose store calls may throw; 202,176 states | `NoOverlap`, `RunBound`, `AtLeastOnce`, `RetryMonotone`, `LedgerSpec` |
| `queue_cluster` | 2 processes, 2 jobs, 3 closures; overlap, crashes, expiring claims, early pushes | `ClaimCarried`, `NoOrphan`, `ClaimRespected` |
| `queue_faults` | 2 processes, 1 job, 2 closures; all four calls, crashes, failing store calls, expiring claims, unpersisted pushes; 389,885 states | `TypeOK`, `SlotsUsed`, `RetryBounded`, `ClaimRespected` |
| `queue_scheduled` | 2 processes, 2 delayed jobs, 3 closures, fair | `ScheduledOnce`, `EveryJobSettles` |
| `queue_live` | 2 processes, 1 job, 3 closures, overlap, timeouts and expiring claims, fair | `EveryJobSettles` |
| `lock_redis` | 4 callers in 2 processes, every fault but overrun, fair | `TypeOK`, `LiveExclusion`, `EntryKept`, `MutexSpec`, `Served` |
| `lock_sqlite` | 3 callers in 2 processes, one asks `hasExpired` first, every fault, fair | `MarkAnswered`, `Served` |
| `webhook_delivery` | 1 event, 2 endpoints, 3 jobs, 2 queues of concurrency 1, one disturbance (which may be a refused statement), fair; 568,736 states | its five properties and `TypeOK` |
| `cache` | 2 workers, 1 key, 2 calls at a time, 1 change, 3 calls or disturbances in all, fair; 443,890 states | its four properties and `TypeOK` |
| `lifecycle` | 1 component, 1 caller and the watchdog, 3 requests and faults in all, fair; 398,555 states | its three properties and `TypeOK` |
| `lock_purge` | SQLite, 3 callers in 1 process | violation of `LiveExclusion` |
| `lifecycle_repaired` | as `lifecycle`, 2 requests and faults in all | violation of `Repaired` |

The violations are described in `PROJECT.json` under `findings`, with the
lines of the repository they contradict.

Bounds of the queue. `Task` bounds how many closures exist at once: 3 let two processes hold one job each and
one of them a second closure of the same job; `Pid` bounds how many processes ever start: 3
in `queue_single` are two restarts. `RunCap` stops the auxiliary count; it is above the
number of executions `RunBound` allows in `queue_single` (2 attempts and 3 deaths: 5, the cap is 6)
and less elsewhere, where only "ran at all" matters. `LateCap` is the number of abandoned bodies of
a job counted at once. `Sweeps` (of the lock) is 1: one late `DELETE` per caller is what the race needs.
Two attempts (`MaxRetries = 2`) contain a first failure, a retry and the last
failure; concurrency 1 makes the list fill, 2 makes slots differ. Symmetry is used only in
runs without liveness, over processes, closures and jobs, which the module never orders.

Bounds of the others. `webhook_delivery`: two endpoints make two concurrent deliveries of one count, which
two queues run side by side; `MaxRetryCount` and `Threshold` are 2 (4 and 50 in the code): a first failure, a retry and
the last failure, and a disabling that needs two. `EnvCap = 1` allows one of the four kinds of disturbance per behaviour, and
`UserHook` lets users act on one endpoint, the other being its mirror; `DefaultPending` only has to differ from a real count.
`cache`: a value lives for one tick and `MaxVersion` is 1: one state is stale, one is fresh. `BusCap`
is the number of messages under way to one worker, `DidCap` the calls, forced requests, evictions, flushes and
faults of a behaviour. Larger instances were explored once without finding anything: calls without a bound and one
disturbance (3,860,000 states, safety), calls without a bound and no disturbance (672,000, with liveness), two
ticks of life (729,000, safety).
`lifecycle`: `EventCap` bounds requests and faults of a behaviour together. 3 is a request, its failure and a crash of the daemon, or a restart that overlaps
what the watchdog does about an earlier one; more callers and components are what the theorems are for.

Deadlock is not checked where processes may all die (`queue_single`,
`queue_cluster`, `queue_faults`): the last death is an end the real system has too. It is not checked either in
`webhook_delivery` (every delivery over), `cache` and `lifecycle` (liveness runs in which what is bounded may be used up).

## 9. Fairness

`JobQueue`: `Populate`, the scheduled loop, the rest of a call, each closure and the
passing of time are weakly fair. Promises of the store settle, `setImmediate` and `setTimeout` fire, and
`tryWithTimeout` (with `maxTimeout`, index.js:102) ends every slot whether or not `onJob` ever does, so a
closure in `run` leaves it. Nothing makes anyone push, call, die or fail.

`DBLock`: each caller's `hasExpired`, `createLock`, polls and pending deletes, a holder's
work and release, and `Expire`. Holders finish: the code between `acquire` and `releaseLock` ends or
throws. Nothing makes a caller want the lock. `Served` assumes in its premise that faults end (`Calm`): no more
deaths, rejected or lost sets from some moment on.

`WebhookDelivery`: one fairness condition for all that the process does by itself (`Progress`): Node runs what
is ready, the loops wake every five seconds, a call ends within its timeout, and these steps cannot go on for ever
without the one that is waited for. Nothing makes users, the store or a restart act.

`Cache`: each call's steps, each worker's messages and time (`Tick`) are weakly fair; time is what lets a stale copy die.
Calls, events and `DELETE`s are not: `FreshInTheEnd` does not need them.

`Lifecycle`: the steps of each request and of the watchdog's worker, the check (a cron job) and the taking of its
entry are weakly fair. The model has the check come round; the code skips it while the host is under high load.

## 10. What is proved

`JobQueueProofs`, for every number of processes, closures and jobs, every
`concurrency` and `maxRetries` and every `Env`:

* `TypeCorrect`: `Spec => []TypeOK`.
* `SlotsCorrect`: `Spec => []SlotsUsed`. `SlotsUsed` alone is not inductive: a released slot goes to the
  head of a list, and only if that head is a waiting closure of the same process, listed once, does
  the number of busy closures stay right. The invariant `Inv` therefore adds `Shape` (each
  list holds exactly the waiting closures of its process, without repetition) and `Named` (an active
  closure has a process and a job).
* `RetriesCorrect`: `Spec => []RetryBounded`. The strengthening `Counted` bounds also the count that a
  closure in `update` has read and not yet written back.
* `ClaimsCorrect`: `Spec => ClaimRespected`, from the types.

`JobQueueSafetyProofs` proves what the queue's users rely on. The code does not give these properties to everyone
(section 11), so each theorem names the users and surroundings it is about; processes, closures, jobs, `concurrency` and
`maxRetries` stay arbitrary. The module first says what a step does to closures (`Moved`, `Gone`, `Begun`) and to the fields
of a row (`Taken`, `Flagged`, `Counts`, `Runs`), once for all the proofs, and that only live processes hold anything (`Sane`).

* `ClaimsCarried` and `NothingOrphaned`: `[]ClaimCarried`, `[]NoOrphan` under `ImmediateOnly`: jobs run at once, nobody but the
  queue touches them, the store answers; processes overlap, die, and outlast their claims. (`get` or `cancel` in a second process claims a
  row without a closure, and a store that fails in `onJobComplete` may leave one behind.) The invariant `InHands` adds that a process not
  yet started has claimed nothing and that a fresh claim has an owner: `Disown` drops a closure only when another live process holds the
  row, or, after a death, the claim of a dead one.
* `TakenOnce`: `[]ScheduledOnce` under `ScheduledOnly`: scheduled jobs, `get` and `cancel`, no claim runs out; any processes, failing
  stores included, in the loop too. The invariant `Once`: a row is claimed by the process whose batch or closure has it, a closure's row is
  cancelled, so that no scan takes it again, and a row is not in a batch and in a closure.
* The next five assume `Serial`: one process alive at a time, nothing pushed before the table is loaded, the store answers (but for the scheduled loop, which may fail at any call), no
  unpersisted jobs, no `delete`, and no `restoreCancelled` where jobs are scheduled. Crashes, restarts, expiring claims, timeouts,
  `get`, `cancel`, and scheduled jobs next to immediate ones are included. The invariant `Sole`: each closure has a row and no two have the
  same; a closure of a scheduled job found it cancelled; before a starting process has loaded the table no closure has a job
  that it will load.
  * `RunsAlone`: `[]NoOverlap` when `onJob` answers in time (a body that was timed out does overlap with its retry).
  * `RunsBounded`, `RetriesCounted`, `RunBeforeRemoved`: `[]RunBound`, `RetryMonotone` and, without `restoreCancelled`, `AtLeastOnce`. Their
    invariant `Tally` counts: the executions of a row are at most its `retryCount` plus the deaths so far, one less while a closure is yet to
    run it; a closure in `update` has the row's own count; one that clears a row has run it or found it cancelled; a scheduled
    row that is not cancelled was never run. A death adds one, which pays for the execution the next process may repeat.
  * `LedgerKept`: without `restoreCancelled`, `Spec => LedgerSpec`: the refinement of `JobLedger`, step by step. `Begin` is its execution,
    allowed since `Tally` leaves one to spare and found pending since `Sole` knows no second closure of the job; a slot that is given
    up finishes it; `Clear` removes; `cancel` and the loop withdraw; `Crash` is a death; every other step changes no entry.
    (`restoreCancelled` lifts a withdrawal, which the ledger does not know.)

`Sane`, `Sole`, `Tally` and the three properties were checked by TLC on two instances before they were proved (immediate jobs with
all calls but `delete`, 217,031 states; immediate and scheduled jobs with `cancel`, 192,492 states; crashes, expiry and timeouts in both).

`DBLockProofs`, for any callers, processes and bounds:

* `LockTypeCorrect` and `MarksCorrect`: `[]TypeOK` and `[]MarkAnswered`, for both stores
  and every fault.
* `ExclusionCorrect`, `EntryCorrect`, `MutexImplemented`: `[]LiveExclusion`, `EntryKept` and the
  refinement of `Mutex`, assuming `Reliable`: the store is Redis and no holder outlasts its ttl. The inductive
  invariant is `Owned`: whoever holds is the creator of the entry, and no step of the SQLite adapter is under way.
* `OneProcessExclusion`: `[]LiveExclusion` over SQLite assuming `Alone`: one process
  and none of the faults. The invariant `Marked` says that a creation is on its way only under a fresh mark,
  that there is only one, and that an entry has a holder.

`WebhookDeliveryProofs`, for any events, endpoints, jobs and bounds:

* `TypeCorrect`: `[]TypeOK`. It needs `Sound`: a job that is not idle names an event that was handled and an
  endpoint, what a loop has fetched is of such an event, and no other event has attempts.
* `PendingCoversAlways`: `[]PendingCovers`. The invariant `Covers` says it of the snapshots too: the count that a
  running job has read (`pending`), and not only the one in the table, covers every delivery still open; so what it
  writes back, one less, covers them when its own is over.

`WebhookRetryProofs`, likewise:

* `RetryCapAlways` and `AnsweredOnceAlways`: `[]RetryCap`, `[]AnsweredOnce`. The invariant is a budget per event and endpoint: the
  attempts spent, the jobs that may still call the endpoint and the turn of the `forEach` still to come are together at most
  `MAX_RETRY_COUNT` plus the attempts begun outside. With it go `Looked` (the count a handler computed is at most one more than
  what is recorded) and `Silenced` (after a recorded success no such job is left without an attempt from outside, but for
  successes whose count the store refused; any other statement may be refused).
* `DisabledByFailuresAlways`: `Spec => DisabledByFailures`. The invariant `Honest`: every copy of an endpoint's counter, the ones
  that handlers read long ago included, is backed by as many calls that failed.

`CacheProofs`, for any workers, keys, calls and bounds:

* `CacheTypeCorrect`, and `OneFlightAlways`; both need `Placed`: a running call has a worker and a key, and holds the copy its next step uses.
* `SweptAlways`: `[]Swept`. The invariant `Sweep`: after an invalidation that met nothing, no message on its way carries a
  value, an LRU layer with entries has a deletion on its way to it, and a table with rows has the `DELETE` still to run.
* `LifeKeptAlways`: `[]LifeKept`. The invariant `AllYoung` says it of every place a copy can be in (rows, layers, messages,
  calls); each action moves a copy unchanged, drops it or ages it, and only `Upsert` makes one, with its whole ttl before it.

`LifecycleProofs`, for any components, callers and bounds:

* `LifecycleTypeCorrect`: `[]TypeOK`.
* `ZeroDowntimeAlways`: `[]ZeroDowntime`. The invariant `KeptInv`: a component whose history says so is served, no status is on its way to
  it, and whoever is engaged with it is the only one, is a restart, and works on the colour the router does not look at until it has switched. The
  history ends with the three exceptions of section 7.

`LifecycleStrayProofs`, likewise:

* `NoStrayAlways`: `[]NoStray`. The invariant `NeatInv`: a component whose history is in order rests and is tidy, or exactly one slot is
  engaged with it, and what that slot has written and launched so far fits the point it has reached (`InOrder`): while a colour is
  launched its status is `starting`, after a stop's deletion nothing is left, and so on; a slot that restarts nothing works on blue (`Plain`).
  A status on its way (`Ordered`, `Owing`) was issued by a start that is done with the component; if it is `error`, there is no blue process, or the
  start is about to delete it.

The constants' assumptions are `QueueAssumption`, `RowAssumption` (the value for "no row" is not a row), `LockAssumption`, `WebhookAssumption`, `CacheAssumption` and
`LifecycleAssumption`. Only model-checked: liveness (`EveryJobSettles`, `Served`, `Reached`, `FreshInTheEnd`, `Healed`), which is
beyond the prover, as is ENABLED.

## 11. Limits, and what the code does that no run states

Queue and lock:

* `queue_live` and `queue_scheduled` are separate: with expiring claims and two loops
  that take the same scheduled job from each other every 60 s, a scheduled job need not settle, and a closure
  left over from an earlier job of the same id is not the schedule's.
* Entries of `setImmediate` reach fastq in any order; the store of the models is the
  sequelize one (`store/nedb.js` is created by tests only); the LRU layer of db-cache is not used by locks.
* Redis keeps its keys: `allkeys-lru` (db-cache/README.md:17) may drop a held lock.
* `restoreCancelled` between a worker's check of the flag and its `deleteJob` (index.js:183) loses
  the restored job: `AtLeastOnce` fails when `Api` has `"restore"`.
* A timed-out body of `onJob` goes on (index.js:102) while its slot is given away: more bodies than `concurrency`
  may run.
* A process that restarts within a minute skips the rows its predecessor had claimed
  (sequelize.js:62) and loads the table only once (index.js:291): those jobs wait for a later restart.
* Over SQLite two processes may both get a lock (sqlite-adapter.ts:211-226); the
  tests of db-cache say so (lock-db-cache-sqlite-thread.spec.ts:3).
* A caller that asks `hasExpired` and then acquires may queue for the lock and repeat the
  work it meant to skip (process-manager.js:371-375).
* A crash or a failing store call of the scheduled loop after it set `cancelled` leaves the row unscanned; `job-manager` repairs that for
  backups and update checks.
* A worker that starts while another holds an unclaimed job in memory (`push` does not claim the row, index.js:299 loads it)
  runs that job a second time; `NoOverlap` and `RunBound` hold with one process at a time only. The tests expect one execution
  (sequelize.spec.js:293, 315) of processes that are up already.
* A job cancelled between two attempts is retried all the same: the retry is queued without its persist flag
  (index.js:212), and such a job does not ask `isCancelled`; index.spec.js:124 tests a cancellation before the first attempt.
* A holder slower than its ttl loses the lock and releases its successor's (lock-db-cache.ts:72, `del` by key):
  the theorems about exclusion assume `Reliable`.

Webhook delivery:

* First attempts and events are pushed with `persist = false` (queues.js:273): a restart loses them while the event's count
  says they are pending. `Reached` excepts restarts.
* When the decrement after a recorded success throws (queues.js:137), the `catch` records a failed attempt and schedules the endpoint that has
  answered again: `AnsweredOnce` excepts it (`uncounted`). When the store refuses the row of a failure, a read before the call or the delayed row, the attempt
  is dropped for ever and the event stays pending; the same holds for a statement of the event's own handler. `Reached` excepts behaviours with a refused statement.
* A turn of the `forEach` that throws is an unhandled rejection: SQLITE_BUSY is logged, anything else ends the process (core/webapp/api/index.js:92-100); the
  model has the first (`TurnDropped`) and the death of the process (`Restart`) as two disturbances. A user's retry that fails half-way changes nothing the model keeps.
* The count does not come down to 0 after a lost decrement, a restart, or the job of an endpoint disabled meanwhile, which
  returns without a decrement (queues.js:80). Only the event's own handler, the next decrement and the console read the count.
* The loops of the two endpoint queues fetch each other's rows, and one retry becomes two jobs: `extra`.
* The update of an endpoint's counter, which nobody awaits, lands before the row of its attempt in the model.
* `enabledEvents` matching is data (`Matches`); creating and deleting endpoints and the queries of the console are left out.

Cache:

* A computation that overlaps an invalidation stores what it read before; callers after the invalidation join it; sync messages
  of two workers cross and leave each with the other's value; `flushAll` leaves the LRU layers. In all these cases a stale value lives at
  most a ttl (`LifeKept`, `FreshInTheEnd`).
* `groupDel` in a worker without the group tells no other worker (lru-cache.ts): after a forced request the others answer
  from their layers until the ttl.
* Keys without a group, `set` with `nx` outside the lock, `delByPrefix` and the Redis adapter (no LRU layer) are not modelled.

Lifecycle:

* Components have an engine and no required components; hooks, docker's single instance, notifications, the `startedAt` and uptime
  bookkeeping and the path with blue-green switched off are left out; `setBlockletStatus` is one step; a hung
  process is not in `proc`.
* The start lock has no ttl here (what a ttl does is in `DBLock`), the lock `<did>-start` of the manager is not modelled, so
  overlapping starts are possible as they are across requests of different kinds.
* The watchdog's thresholds are counted in checks of the default interval (120 s): `stopping` 60 s is 1, `starting` 240 s is 2, others
  480 s are 4. The first checks after a start of the daemon, which look at more, and skipping under high load are left out.
* After the switch of a restart, a deletion of the retired colour that fails marks the new colour as in error and deletes its
  process too (blue-green-start-blocklet.js:375-405): `ZeroDowntime` excepts it.
* A switch whose status the store refuses is only logged (blue-green-start-blocklet.js:254-261), and the colour the router still looks at is deleted
  (375-380): blue is left running without a process and green starting, which the watchdog never repairs (`Mixed`). `ZeroDowntime` and `Healed` except it.
* A refused read of the status in the `catch` of `_start` (start-manager.js:595), which leaves the failed component as it is, is not modelled. Two writes of one status
  on their way to one component count as one. A second push of the same restart, which the queue refuses, is accepted in the model: it has more behaviours.
* `restartBlockletFromQueue` declares `context` inside its `try` (ensure-blocklet-running.js:537) and uses it in the `catch` (576), where
  it is not defined: `handleRestartFailure` never runs, the `finally` does.
* The watchdog acts on a snapshot: it may start what a user has just stopped. A stop that overtakes a start may leave a live
  process under the status stopped. Two restarts of one component may overlap. Such components are excepted by the histories `kept` and
  `muddled` until they rest in order again.
* A start of a suspended blocklet deletes its green process before it checks the controller's status (start-manager.js:143-148).

Not modelled, with the reasons in `PROJECT.json`: the handlers behind the queues, request handlers over single
statements, nginx and certificate generation, browser code, and the parts listed in the plan above.
