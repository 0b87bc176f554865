# lattice-api: a TLA+ verification project

lattice-api is the control plane of a small container orchestrator. It keeps
its state in MySQL, talks to one *runner* per worker machine over a WebSocket,
and serves an HTTP API to operators and to CI. Most of what it does is to send
a command, record that it did, and later believe or doubt what it is told about
the outcome. The models here follow that: rows, commands, reports, and the
goroutines that carry a value read in one statement into the next.

## 1. Inventory

### Components and the state each keeps

| Component | State | Operations | What makes it correct |
|---|---|---|---|
| Deployment pipeline (`routers/HandleDeployStack`, `HandlePublicDeploy`, `HandleRollbackDeployment`, `deployment_monitor`, `handleDeploymentProgress`) | `stacks.status`, `stacks.deploy_claimed_at`, `deployments.status`, monitor goroutines and their pool | claim, create row, send, mark rolled back, start monitor, tick, force-fail, progress reports, approve, delete or edit the stack | one deployment at a time per stack; no claim is left behind; every dispatched deployment is settled |
| Worker sessions (`socket/hub`, `socket/handler`, `main.go`/`ws_dispatch.go` callbacks, `mailer` grace timers) | the hub's map, each session's send queue and closed/replaced flags, `workers.status`, pending alert timers | register, replace, reject, OnConnect, OnDisconnect, pumps, heartbeats, alert | the hub lists the open session; the status follows it; a command is delivered once; an alert is not sent for a worker that is back |
| Managed databases (`database_lifecycle`, `database_handlers`, `database_reconciler`, `HandleDatabaseInstances`) | the instance row; the worker's container and volume | create, start, stop, remove, delete, delete with final snapshot, force delete, replies, reports, sync, stuck watchdog, freshness sweep, edits | a retired row leaves nothing on the worker; no volume is destroyed before the copy that was asked for exists; nothing hangs in a transitional status |
| Snapshot scheduler (`database_scheduler`, `query/database_snapshot_runs`) | `database_snapshot_runs` | find the slot, claim, skip, dispatch, mark, time out, close | a slot runs once, dumps do not overlap, runs are closed |
| Snapshot copies (`database_handlers`, `query/database_snapshot_replicas`, `HandleDatabaseSnapshots`) | `database_snapshots`, `database_snapshot_replicas`, the files on the destinations | status reports, mirror, retention, delete | retention keeps two copies; a completed replica is a file |
| Automation runs (`automations/executor`, `automation_scheduler`, `query/automation_runs`) | the guard columns of `automations`, `automation_runs`, the runner slots | fire by hand, webhook or schedule, claim, steps, audit, record, release, sweep of stuck runs | one run at a time, a true history, slots given back, every run closed |
| Automation definitions (`HandleAutomations`, `automations/authorize`) | the `automations` row | create, update, enable, disable, rotate, delete, run | nobody lends an automation more than their own role allows; a deleted one is dead |
| Accounts and credentials (`jwt`, `sso/session`, `middleware/auth`, user and token handlers) | `users`, JWTs, `oidc_sessions`, `api_tokens` | sign in, refresh, log out, revoke, update, delete and create users, make and drop API tokens | an ended session stays ended; an admin remains |
| Container state (`message_handlers`, `container_cache`, container and stack handlers) | `containers`, an in-memory cache of rows by name | status, health and sync reports, commands, edits, deletion, deployments | the row comes to show what the host has |
| Container logs (`container_log_batcher`) | a queue, a batch, `container_logs` | add, collect, write, retry, close | no line lost, none stored twice |
| Claims of databases (`AllocateDatabasePort`, `FindPortConflict`, indices of `db.go`) | names, host ports and volumes of `database_instances`, published ports | create, edit, retire | no two databases on one name or port |
| Rate limiter (`middleware/ratelimit`) | a bucket per address | allow, evict | burst plus refill, never more |
| Self update (`HandleSelfUpdate`) | the compose env file, Docker's configuration, images | pin, authenticate, pull, compare, recreate, restore | a retry mends, the configuration is restored |
| Dashboards (`socket/admin`, `healthscan`) | admin sessions and queues, the anomalies | register, subscribe, broadcast, scan | who is not told loses at most what was dropped |
| Schema and secrets (`db/migrate`, `migrate/encrypt`) | `schema_migrations`, encrypted columns and settings | run migrations, encrypt | complete files in order; secrets keep their value |
| Worker actions; ports of stacks; environment, compose import, cron; mail, webhooks; metrics, logs; image watcher; start-up | their own rows and caches | — | not modelled, see section 5 |

### How they interact

An HTTP handler writes rows and hands a command to the hub, which puts it on
the session's queue or refuses it. The runner's messages are read by the
session's read pump; `ws_dispatch.go` runs the handler on the pump's goroutine
for some types and on a bounded pool for others, so two messages may be handled
together and out of order. Background goroutines (deployment monitors, the
reconciler, the stuck watchdog, the snapshot scheduler, alert timers) read and
write the same rows. There is no lock across statements: the only mutual
exclusion between handlers is a conditional `UPDATE` (`ClaimStackForDeploy`), a
unique index (`ClaimSnapshotRun`), and the hub's mutex.

### What is hard here

- a value read in one statement and written back in another
  (`handleDeploymentProgress`, `Transition`, the rollback's guard);
- reports that come twice, late, or about something that has been replaced;
- timers that race results (thirty-minute monitor, claim window, alert grace,
  run time-out);
- restarts between claim and dispatch, or between dispatch and marking;
- sends that are refused because the queue is full or the worker gone;
- several steps of one operation of which one fails and is only logged.

`PROJECT.json` lists each such place as a hazard, at its line, with the
properties that would notice it going wrong.

## 2. Modules

| Module | Models | Checked by |
|---|---|---|
| `Deployments` | the deployment pipeline | `Deployments_core`, `Deployments_live`, `DeploymentsProofs` |
| `WorkerSessions` | worker hub, callbacks, status, alerts | `WorkerSessions_hub`, `WorkerSessions_live`, `WorkerSessionsProofs` |
| `DatabaseLifecycle` | one managed database | `DatabaseLifecycle_delete`, `_snapshots`, `_live`, `DatabaseLifecycleProofs` |
| `SnapshotRuns` | the schedule of one database | `SnapshotRuns_dispatch`, `SnapshotRunsProofs` |
| `SnapshotCopies` | the copies of one database's snapshots | `SnapshotCopies_retention`, `SnapshotCopiesProofs` |
| `Automations`, implementing `OneRunner` | the runs of one automation | `Automations_runs`, `AutomationsProofs` |
| `Containers` | the rows of one container name, the cache and the pool | `Containers_sync` |
| `Accounts` | users and credentials | `Requests_access`, `AutomationEditsProofs` |
| `AutomationEdits` (extends `Accounts`) | who decides an automation, and as whom it runs | `Requests_access`, `AutomationEditsProofs` |
| `RateLimit`, `LogBatch`, `SelfUpdate`, `DatabaseLedger`, `AdminFeed`, `Schema` | the components of these names | `Requests_access`, `RequestsProofs` |
| `Requests` | `AutomationEdits` and the six above, side by side | `Requests_access`, `RequestsProofs` |

`Requests` interleaves its components, each of which also has a specification
of its own (`LedgerSpec`, `SchemaSpec`, `UpdateSpec`, `FeedSpec`, `LimiterSpec`,
`LogSpec`). They share no state, so `MCRequests` only looks at behaviours in which one of
them takes steps; that what it checks holds of every interleaving is the theorem
`RequestsKeepPromises`. `AutomationEdits` is the composition of requests on users and requests on
the automation, which do. The other `MC*` modules only add the symmetry sets.
Every module takes its bounds as constants (`Max...`), names them so, and states what it assumes of them in an
`ASSUME` that TLC evaluates in every run. Operators placed just before an
action or helper under a similar name (`ClaimableUnguarded` before
`Claimable`, `RemoveAny` before `RemoveIfMatch`) are *mutants*: the same step
with a plausible bug. `PROJECT.json` pairs each with the property that must
then fail.

In all modules a step is one database statement or transaction, one critical
section, or one send. A failed statement is an alternative that consumes from
`MaxFaults` (`MaxMishaps`, `MaxChanges`, `MaxLogFaults`); the code's reaction (return, log and go on) decides what the step
leaves behind.

### Deployments

State: `status`, `claim`, `active` are the stack row; `claim` is `none`,
`fresh` or `stale`, the only thing the code asks of `deploy_claimed_at`.
`deploy`, `owner`, `next` are the deployment rows. `pc`, `onStack`, `target`,
`dep` are the local variables of each request; `mon`, `attempt` of each monitor
(with the full monitor told from the watchdog that replaces it when the pool is
full); `pump`, `incoming` of each read pump that is between reading the row and
writing it.

| Action | Code |
|---|---|
| `Preflight`, `ClaimStackForDeploy`, `ClaimRefused`, `ReleaseStackClaim`, `CreateDeployment`, `Dispatch`, `DispatchFailed` | `HandleDeployStack`, `HandlePublicDeploy`, `HandleRollbackDeployment` with their deferred release |
| `MarkRolledBack` | the write on the rolled-back deployment after the send |
| `StartDeploymentMonitor`, `MonitorTick`, `MonitorContinue`, `MonitorGiveUp`, `MonitorTimeout` | `deployment_monitor.go` and `failDeployment` |
| `ProgressTerminal`; `ProgressRead`, `ProgressWrite` | `handleDeploymentProgress`: a terminal report is one transaction, another one reads, tests `lateProgress` and writes |
| `ApproveDeployment`, `DeleteStack`, `UpdateStackStatus`, `UpdateStackActive` | the operator's requests |
| `ClaimExpires`, `Restart` | the thirty-minute window passing; the process ending |

A holder of a stack is a request past its claim or a deployment in progress
that was created under it. `excused` records the stacks whose claim was
overridden while held; each way this happens is an explicit line of the model.

### WorkerSessions

`Register` is the hub's critical section with the replacement it performs,
`Reject` the limit. `OnConnectOnline`, `OnConnectCancel`, `SendHello` are the
connect callback in order; `ConnectionLost`, `OnDisconnect`,
`OnDisconnectOffline`, `OnDisconnectAlert`, `RemoveIfMatch` the other end.
`WriteMessage`, `ReadHeartbeat`, `HandleHeartbeat` are the pumps;
`TimerFires`, `TimerDeletesEntry`, `TimerAlerts` the alert timer with the two
sections it has. `FindSession` and `SendToWorker` are the two halves of a
command's send: the session is found under the lock and used after it. An alert
may be disabled, or without a cooldown, by the time its timer fires.
`CooldownExpires`, `UpdateWorkerStatus` and `Restart` are the
environment. `OnConnect`'s requests for schedules and syncs are ordinary sends.
Queues of a restarted process are kept in the state but nothing reads them.

### DatabaseLifecycle

One instance and a set of *hands*, the goroutines that may work on it
together. `job[h]` is what a hand carries between statements. `Transition`,
`SetHealth`, `SetWarning` and `ClearWarning` are each a load step and a write
step, and every handler ends in the ones its code calls. The runner is modelled
from what the API expects of it (acknowledge, create, start, stop, remove with
or without the volume, snapshot, report health, answer a sync request), plus
the older runner that does not confirm the purge. An edit reads the row and
writes it later, when it may have been retired (`Editable`): it may then change a
retired row, or bring it back (`EditActive`). Health `up` stands for all
reported health values; Docker's *paused* state is left out; `started_at` and
the volume size column are abstracted.

### SnapshotRuns

Every process runs the loop `DispatchDue`, `ClaimSnapshotRun`, `Skip` or
`GoAhead`, `StartSnapshot`, `MarkRunning` (`dispatchSlot`). `WorkerEnds`,
`RecordStatus`, `CloseRunForSnapshot` are the worker's end of a dump and the
handler that closes the run. `ListStuckSnapshotRuns` and `FailStuckRun` are the
sweep, in two steps. Time counts periods of the schedule; the time-out is
counted, as in the code, from `scheduled_at`, not from dispatch, and equals the
catch-up window, so a run that was caught up late may be timed out at once:
this is why `NoOverlap` excuses runs in `timedOut`.

### SnapshotCopies

`UpdateSnapshotStatus`, `RecordPrimary`, `RecordMirror`, `SendMirror`,
`ListStale`, `Expire` are the handler of a completed snapshot in its order;
`HandleMirrorStatus` the mirror's answer; `DeleteSnapshot`, `EditMirror` the
operator. `copies` is the truth on the destinations, which the tables are
compared with. The row of a deleted copy may fail to be written after its file
was sent for deletion.

### Automations and OneRunner

A firing is a process named by the run it records. `Requested`, `CreateRun`
(by hand, webhook) and `FireScheduled` (one tick of `dispatchDueAutomations`;
the insert of the row claims the slot) begin it; `Skip` or `TryAcquireSlot`,
`ClaimAutomation` or `ClaimRefused`, then per step `RunStep`, `Audit`,
`PersistSteps`, and `Finish`, `Release` follow `fire` and `execute` in their
order; `BudgetExhausted` and `Recover` are the budget and the panic.
`ListStuckRuns`, `FailStuckRun`, `ReleaseStuckRun` are the sweep. That
`CLAIM_STALE_AFTER` has passed for a run (`RunAges`) or its guard (`GuardAges`)
is all the code asks of those times; a live run that gets there is counted in
`outlived` because `RUN_BUDGET` is far shorter.

`OneRunner` says what the runs promise together: one acts at a time, none
twice, and what begins ends. `ImplementsOneRunner` maps the firings that may be
taking steps to `acting` and those past that to `ended`, with the ones that
outlived their claim given up. Its fairness is checked too.

### Containers

The rows that have borne one name, the cache entry for it, the container on the
host, and a bag of handlers, each of which looks up (`Lookup`, `Store`),
writes by the copy it has (`Apply` of `StatusUpdate`, `HealthUpdate` or
`SyncUpdate`) and drops the entry (`Invalidate`). `container_status` is handled
on the pump and holds it; others take a place in the pool. Requests and
deployments write the rows and never tell the cache. A deletion sends the
remove command (`DeleteContainer`) before it retires the row (`RetireRow`), a
creation tests the name (`CreateContainer`) before it inserts one (`InsertRow`);
`asked` holds those that are between the two. `UpdateContainer` edits one column
of any row of the name; the status it or a deployment writes is one the host may
show or one it never does (`Written`).

### Accounts and AutomationEdits

A request is authenticated and its user read in one step (`Arrive`); the handler
goes on with that copy, one statement to a step. Time is in seconds, the
granularity of `iat` and `tokens_revoked_at`. A token carries, as history,
whether the sign-in it descends from was ended. In `AutomationEdits` an edit is
`LoadAutomation` (read, validate, authorise) and `UpdateAutomation` (write what
it decided); a firing keeps the row it read (`Fire`) and authorises its run-as
user as of now (`Execute`). An automation's steps are abstracted to the highest
role one of them requires.

### The smaller components

`RateLimit`: one request is one critical section; a tick refills a fraction of a
token. `LogBatch`: a failed batch has stored nothing or everything; `Panics`
ends the goroutine where it stands. `SelfUpdate`: one read or write of a file or
one call of docker is a step, and no lock is held across them; `docker compose
up` is one step. `setup` is whether the host had a Docker configuration and
whether a registry is configured. A backup may fail for any reason, which the
code takes for absence; a write may fail and cut the file short; the cleanup's
write or removal may fail unnoticed. `DatabaseLedger`:
checks and writes are separate steps over the unique indices. `AdminFeed`: a
broadcast queues or drops per session; a scan compares and a later step
broadcasts. What it reads changes by the worker's reports
(`UpdateWorkerContainers`, `UpdateWorkerDatabaseOrphans`, which carry orphaned
containers and volumes), by their aging (`HeartbeatAges`, `OrphansAge`), with the
connection and in the tables. `Schema`: two processes run migration files statement by statement;
`migrate-encrypt` is one transaction beside a server with or without its key.
A request that changes only another field of a variable reads its secret
(`ReadSecret`) and writes back what it read (`WriteBack`).

## 3. Runs

| Run | Question | Bounds and why they are enough |
|---|---|---|
| `Deployments_core` | Is the claim exclusive, never stranded, and every dispatched deployment watched? | one stack, two requests, one pump, two rows, pool of one (so that one request finds it full), stale claims possible. Stacks share only the pool. Two rows suffice for an old and a new deployment. |
| `Deployments_live` | Do monitors end over a settled deployment, and do deployments settle and claims recover? | one request at a time, which may be a rollback (two earlier deployments), one failed write, one restart, one edit to `active` or `deploying`. Non-terminal reports are in the other run only: they add a written-back row, which `DispatchSettles` excuses. |
| `WorkerSessions_hub` | Hub, limit and status under reconnects | two workers and one place, three connections (two of one worker and one of the other, or three of one), queue of one. |
| `WorkerSessions_live` | Do statuses heal? | one worker, two connections, a failed write, a restart, an edit. |
| `DatabaseLifecycle_delete` | Is nothing left behind by a retired row? | two hands, all ways of removing that promise something, rows brought back, restarts, two commands or messages under way. A forced delete abandons the row, which the property excuses, and is in the run `_live`. |
| `DatabaseLifecycle_snapshots` | Is there a copy before the purge? | two hands, final and other snapshots, freshness sweep, a failed write. |
| `DatabaseLifecycle_live` | Do the watchdog and the reconciler correct the row? | one hand; commands and replies may be lost, the container may crash. |
| `SnapshotRuns_dispatch` | Is a slot run once, without overlap, and closed? | two processes, two slots, windows of one period and a clock that passes both, one failed statement, one restart. |
| `SnapshotCopies_retention` | Do the floor of two copies and the replica table hold? | retention of one (below the floor), two old and two new snapshots, two hands, one failed statement, one edit. |
| `Automations_runs` | Do runs exclude each other, tell the truth, end, and give back what they took? | one requested and one scheduled run, two steps of which the first has `continue_on_error`, and one mishap: a failed statement, panic, restart, edit, or a run that outlives its claim. Two runs are what it takes for one to meet the other's guard; a second mishap multiplies the states without a new kind of meeting. |
| `Containers_sync` | Does the row come to show the host? | two rows of the name (before and after a re-creation), two handlers at once, two changes by host, operator, deployment or fault. The stale copy needs one handler that read and one that wrote. |
| `Requests_access` | The components of `Requests`, one at a time | two requests under way and two in all, two admins (so that one can be the last), an editor and a newcomer; two clients of the limiter and one bucket (so that one is dropped for room); two lines, four messages, batches and a queue of two; two updates and one push, on hosts with and without a Docker configuration and a registry; two databases and two ports; two dashboards and one place; two migration files of two statements and two processes; a column and a setting. |

All runs say `CHECK_DEADLOCK FALSE`: with nobody asking for anything and the
bounds used up these systems stop, and are meant to.

### What the properties excuse

- `ClaimExclusive` excuses stacks whose claim was overridden while held: taken
  again after thirty minutes, written by a late result of another deployment or
  by an operator. `NoStrandedClaim` and `Watched` are stated without failed
  writes, restarts and edits; `DispatchSettles` excuses a deleted stack, a row
  written back after it was settled, and the same disturbances.
- `StatusAgrees` excuses workers for which callbacks of two sessions or two
  alert timers overlapped; `StatusHeals` says heartbeats repair them.
- `RetiredIsGone` excuses rows retired by force, by an edit, or whose delete
  overtook the create. `CopyBeforePurge` is about instances on which no plain
  delete is made, since a plain delete promises no copy.
- `NoOverlap` excuses runs that were timed out and is stated without failed
  statements (a failed `HasRunInFlight` is taken as "none").
- `RetentionFloor` and `ReplicaIsReal` excuse a copy an operator deletes
  between a pass's list and its deletes, a file removed whose row could not be
  retired, and (the latter) a mirror changed with a copy under way.
- `HistoryIsTrue` excuses runs that outlived their claim and, for the
  completeness of the history, runs that were interrupted or had a record
  refused (`untold`). A panic after a step that took effect is among them: the
  history then says the step was not run. `SlotIsRecorded` excuses an edited
  automation: any edit moves `updated_at`, and a slot that was owed is dropped.
- `HealthFollows` says nothing of a running container without a health check: a
  report delayed in the pool, or an answer handled with a copy from before the
  edit, leaves a cleared check at `starting` with nothing to correct it,
  although `message_handlers.go:563` describes that as mended.
- `LogoutHolds` excuses a refresh that had passed its check when the revocation
  was written. `AdminRemains` excuses removals of which one overtook another
  (`crossed`): two admins who demote each other, and a delete, which has no
  guard on the last admin, by someone demoted meanwhile.
- `TokenFitsTrigger` excuses an edit written over a trigger it had not read.
- `WithinLimit` excuses an address whose bucket was dropped for room.
- `RetryMends` excuses updates of one service that crossed and a pin undone by
  the other service's (both rewrite the whole file). For the API, success means
  that the helper has recreated it, not that the request was answered.
- `ConfigRestored` says that the configuration is the host's own again after any
  success and after a failure of any step but those on the file itself. "Returns
  ... a cleanup function that restores the previous config"
  (`HandleSelfUpdate.router.go`, `registryAuthEnv`) promises more, and the code
  does not keep it: `os.WriteFile` cuts the file short before it can fail, and a
  no-op cleanup is returned then; the cleanup ignores that its own write or
  removal failed; a backup that could not be read for another reason than
  absence makes it remove the host's file; a request may back up another's
  credentials; and the API may be recreated before a cleanup. `tainted` records
  that one of these has happened, and the property makes no promise from then on.
- `ClaimsHold` allows a renamed database and a new one of its old name to share
  a volume, and a port that a stack's container published over a claim: the
  code checks neither.
- `SecretsKept` excuses a secret the server wrote between the command's read and
  its write, or between the read and the write of a request that changes another
  field: the old value comes back.
- `AnomaliesReachClients` excuses a session whose queue was full when the list
  last changed: it is not told before the list changes again, since the next scan
  finds nothing new. What the property says is that the comparison misses no
  change and that the broadcast reaches every subscribed session with room.
- `LinesKept` says nothing after a panic in the batcher's goroutine, which the
  code recovers from by ending it.
- `StatusHeals` is about workers whose session pumps. One that was online before
  a restart and never connects again stays online in the table: nothing looks.
- A deployment written back to in progress after it was settled
  (`message_handlers.go:378`) is settled by nobody; no property claims it is.

### Fairness

- *Deployments*: weak fairness of a monitor's steps and of the two steps after a
  send (goroutines run on); strong fairness of the timer, because its case may
  compete with ticks in the same `select`; weak fairness of the claim window
  passing. Nothing is assumed of the runner.
- *WorkerSessions*: weak fairness of the callbacks, of the write pump, and of
  heartbeats while the session is open. The last is an assumption about the
  runner: its heartbeat is a ticker.
- *DatabaseLifecycle*: weak fairness of begun handlers; strong fairness of the
  watchdog's and the reconciler's sweeps, which tickers repeat. That a connected
  worker answers a sync is an assumption about the environment. Nothing is
  assumed of commands, replies and reports: "lost" is an action or is never
  taking the step.
- *SnapshotRuns*: weak fairness of time, of the sweep and of a loop that is
  inside `dispatchSlot`; none of the worker or of reports.
- *Automations*: weak fairness of time, of the dispatch loop, of the sweep and
  of a firing that has begun, since every action has a time-out and
  `RUN_BUDGET` bounds them all. Nothing makes anybody fire it by hand.
- *Containers*: strong fairness of reports being read, since the runner repeats
  them with every heartbeat and the pump waits for a place as long as it takes;
  weak fairness of handlers and of the cache's expiry. A starting container's
  probe succeeds in the end; a healthy one may fail.

### Promises of comments that steps can break

The modules define further promises, quoted from comments, which are not among
the runs because the code does not keep them in every interleaving; naming one
in a configuration shows how.

1. `NoConcurrentDeploys` (`Deployments`; "Atomically claim the stack for
   deployment — prevents concurrent deploys", `HandleDeployStack.router.go:83`):
   a terminal progress report writes the stack's status whatever the
   deployment's own status is (`message_handlers.go:328`), so a repeated
   `failed` report of an old deployment frees the stack a newer one holds.
2. `FinalSnapshotFirst` (`DatabaseLifecycle`; "If the snapshot had failed, this
   is never reached", `database_handlers.go:131`): any completed snapshot sets
   off the delete of an instance that waits for its final one, and the flag
   stays after the final snapshot has failed.
3. `CopyExistsOnDestination` (`SnapshotCopies`;
   `database_snapshot_replicas.query.go:102`): a mirror's answer names no
   destination and is recorded for the mirror the instance has now.
4. `NoResurrection`, `ForceFailOnlyUnsettled`, `RollbackOnce`,
   `DeletedStackSettles` (`Deployments`): a non-terminal report that has been
   tested may be written after a monitor settled the row; the timer may fail a
   deployment that has just succeeded; two requests may carry out one rollback
   one after the other; a deploy caught by the deletion of its stack between
   claim and row leaves a row nothing settles.
5. `NoAlertWhileConnected`, `PendingAlertIsKnown` (`WorkerSessions`): an alert
   armed by a slow disconnect callback survives the reconnect.
6. `DeletingIsKept`, `ErrorHasReason`, `DestroyedIsNotStopped`,
   `FinalSnapshotTriggers` (`DatabaseLifecycle`): a `Transition` that loaded the
   row before `deleting` writes over it; a reason is erased by a warning's
   clearing; a purge answered before the row says deleting shows as stopped; a
   final snapshot that completes before the delete is recorded triggers nothing.

## 4. Proofs

The theorems hold for every value of the constants that satisfies the modules'
assumptions: any number of stacks, requests, pumps, rows, hands, processes,
slots and runs. The assumptions are that bounds are natural numbers and that the
sets of names are what they are in the code: `WorkerSessions` has a finite,
non-empty set of workers, `Accounts` at least one admin to begin with,
`AdminFeed` finite sets of container names. They rest on no other assumption.

Every invariant of a run is the subject of a theorem, and so are the two action
properties that are about safety (`MonitorEndsSettled`, `RetentionFloor`).

`DeploymentsProofs`
- `TypeCorrect`: `Spec => []TypeOK`, with the inductive invariant
  `Inv == TypeOK /\ RefsOK`. `RefsOK` adds that ids held by requests and
  monitors are of rows that exist, without which an update outside a function's
  domain cannot be excluded.
- `ClaimIsExclusive`: `Spec => []ClaimExclusive`. The argument is per stack:
  `Excl(s)` (not excused implies one holder and a row that says so) is preserved
  by each action, since a step makes a holder of a stack only through
  `Claimable`, hands the claim on from request to deployment in one statement,
  or records the stack as excused when another one held it.
- `MonitorsEndSettled`: the action property `MonitorEndsSettled`, from `Inv`
  and, per deployment, from what each way of ending a monitor writes.
- `DispatchedAreWatched`: `Spec => []Watched`, per deployment (`Guarded(d)`).
  Absent disturbances a watch passes from the request that sent to the monitor
  it starts, and ends with the deployment; every other step leaves both ends of
  it alone (`WatchKept`).
- `ClaimsNotStranded`: `Spec => []NoStrandedClaim`. That somebody holds a stack
  in `deploying` is not inductive: `MarkRolledBack` ends a deployment without
  freeing its stack. `Secured(s)` asks that the holder is a request, or a
  deployment that no rollback past its claim is about to mark (`Untargeted`),
  and `TargetsOwn` that a rollback's target is of the stack it runs on.

`DatabaseLifecycleProofs`
- `TypeCorrect`: `TypeInv` keeps, beside the types, that a hand's job is
  `Sound`: a hand that stands before the write of the health column carries a
  value for it.
- `RetiredRowIsGone`: `Spec => []RetiredIsGone`. `GoneInv` says that a purge
  confirmation under way, and a hand about to retire the row on the strength of
  one, imply `Destroyed` unless the row is abandoned: container and volume are gone,
  and no create command is under way that could bring them back.
- `CopyComesFirst`: `Spec => []CopyBeforePurge`. `PurgeInv` follows the trust in a
  snapshot through the hands: a hand that handles its completion, or stands
  before one of the steps that follow it up to the send of the purge, implies
  that there is a copy. Copies are never lost in this model of one instance.

`SnapshotRunsProofs`
- `TypeCorrect`, `SlotDispatchedOnce`, `ScheduledDumpsDoNotOverlap`: one
  inductive invariant `IInv == TypeOK /\ Links /\ SlotOnce /\ HeldOpen /\
  NoOverlap`, itself checked by TLC first. `Links` ties loops, rows, dumps and
  reports together (a loop inside `dispatchSlot` has claimed its slot, one loop
  per slot, a snapshot belongs to a claimed slot, a report follows its dump).
  `HeldOpen` is the key: while a slot is dumping, and was not timed out and no
  statement failed, its run is in flight, so another process that asks after
  claiming its own slot sees it.

`AutomationsProofs`
- `TypeCorrect`, `SlotsAreReturned`, `OneRunAtATime`, `SlotIsFiredOnce`: one
  inductive invariant `RunInv == TypeOK /\ SlotsReturned /\ Ages /\ OneAtATime /\
  SlotFiresOnce`. That `busy` never falls below zero needs the count of the
  firings that hold a slot, so the types and `SlotsReturned` are proved together.
  `Ages` is the key to the guard: whoever may break it (`guardOld`) or sweep it
  away has seen its run older than `CLAIM_STALE_AFTER`, and a run of that age
  that is alive is in `outlived`. The steps are reduced to four facts, each with
  a lemma that goes through the actions once: firings only move forward and begin
  to act only by a claim (`JobMove`), the guard is taken by a claim and lost only
  by a run that is old or acts no more (`GuardMove`), only a run that has begun
  grows old (`AgeMove`), rows are written for firings that have begun (`RowMove`).
  No run lists `OneAtATime` and `SlotFiresOnce`: `Automations_runs` has the first
  as a part of `ImplementsOneRunner`, and the second is settled by its theorem.
- `RunsImplementOneRunner`: `Spec => Runner!Init /\ [][Runner!Next]_...`, the
  safety of the refinement. A claim by a run that has not outlived its time is
  `Begin`, since nobody else can be acting then; any other step is `End` of the
  runs it adds to the ended ones, which may be none.
- `HistoryStaysTrue`: `Spec => []HistoryIsTrue`, per run. `History(r)` relates the
  place of a firing to what it has in hand and what it did (`StepsTaken`), what
  is audited and about to be written (`Told`), what rows show (`Recorded`), who
  closes the row (`ClosedOnce`: the firing itself, or a sweep after an
  interruption) and when there is one (`RowFirst`). Steps about other runs are
  dismissed once, by `Untouched`.

`WorkerSessionsProofs`
- `TypeCorrect`, `HubListsTheOpenSession`, `HubStaysCurrent`: `HubInv` adds to the
  two properties that a session past its callback of the end is closed, that an
  unused connection has left no trace, and `LiveIsListed`, the key: a session is
  taken off the hub only by its replacement or by its own `RemoveIfMatch`.
- `StatusAgreesWithHub`: `CalmInv` says of each worker none of whose callbacks
  overlapped what its status and timers are in every phase of its session, not
  only at rest: offline once the end was recorded, online from `OnConnect` to
  `OnDisconnect`, no alert armed in between, and an armed one known to
  `graceTimers`, without which `OnConnect` could not cancel it.

`SnapshotCopiesProofs`
- `TypeCorrect`, `ReplicasAreReal`, `RetentionKeepsFloor`, with the inductive
  invariant `CopyInv`. Nothing is known of a snapshot before its dump has ended
  (`FreshAreUnseen`); one that was reported as dumped has its file
  (`LandedHaveFile`); copies under way, answers and replicas agree with the
  mirror while it stays the same (`MirrorsMatch`). For the floor, two passes that
  listed at different times may run at once, so it does not do that each of them
  spares two snapshots: `PassesSpareTwo` says that *the same* two files are newer
  than everything any pass has listed. A pass that lists anew finds its own two
  by the order of ids, and the later of the pairs serves all.

`AutomationEditsProofs`
- `LogoutIsFinal`, `AnAdminRemains`, `NothingEscalates`, `DeletedStaysDead`,
  `TokenAlwaysFits`: one inductive invariant
  `IInv == Types /\ SessionInv /\ AdminInv /\ EditInv`, since requests on users and on
  the automation share the slots. `Types` gives each place of a handler the
  record it has there. `SessionInv` extends `LogoutHolds` to tokens about to be
  minted; `AdminInv` says that a removal about to be written leaves another
  admin unless it was overtaken; `EditInv` that every definition, in the row or
  in a firing's copy, was allowed to whoever decided it, and that an update about
  to be written keeps that so and carries the token its trigger needs.

`RequestsProofs`
- `ClaimsAlwaysHold` (`LedgerInv`): between its check and its write a request may
  only lose a port to a container in a way that `unchecked` records; everything
  else is up to the unique indices.
- `MigrationsStayInOrder` (`MigrationInv`): `RunnersKnow` ties where a process
  stands in the files to what has been applied, by it or by another.
- `SecretsAreKept` (`SecretInv`): what the transaction has read and not yet
  written is not encrypted, so nothing is encrypted twice.
- `RetriesMend`, `ConfigIsRestored` (`UpdateInv`): a service to which nothing is
  owed runs the image of its tag (`Settled`); an update that ran alone still
  compares the current tag and image (`AloneIsCurrent`); and, until a file
  operation fails, every request past its backup holds what the host had
  (`Backed`), and whenever the file is something else some request is under way
  that will put it back (`BackupsHeld`, `Restorable`).
- `AnomaliesAlwaysReachClients` (`FeedInv`): a session that is new was told
  nothing and is in no hub, so a list it was sent is one broadcast since.
- `AlwaysWithinLimit` (`LimiterInv`): `WithinLimit` speaks of stretches between two
  admitted requests; `Covered` extends it to the stretch from each of them to
  now, with the tokens that are left and, for a bucket that was dropped, the time
  it has been unused.
- `LinesAreKept` (`LogInv`): every message is with its handler, refused, in the
  channel, in the batch or stored (`AllHanded`), and the goroutine ends with
  channel and batch empty (`WriterFits`).
- `RequestsKeepPromises`: all thirteen invariants hold together of `RequestsSpec`.
  A step of the whole is a step of one component and stutters for the others.

Only model-checked: the properties that say something eventually happens
(`DispatchSettles`, `ClaimRecovers`, `StatusHeals`, `StuckResolves`, `RunsClose`,
`GuardRecovers`, `SlotIsRecorded`, `HealthFollows`, `SyncCorrects`) and the fairness of
`OneRunner`, because fairness and `ENABLED` are outside the prover's reach.
`Containers` is checked for such properties only and has no proofs.

## 5. What is abstracted or left out

- The single-container public deploy, which writes no deployment row.
- Failing reads, except where the code takes a failed read as an answer
  (`HasRunInFlight`, the read-back of a claim, the lists a health scan reads).
- Two snapshots are two files in `SnapshotCopies`. The code names a file by its
  container, its database and the UTC second, so two manual snapshots of one
  second name the same one; what becomes of the first is up to the runner. The
  primary destination is fixed there, although an editor may change it. A file
  is gone when its deletion is sent, not when the runner carries it out.
- In `Containers` an edit changes one column at a time, and statuses other than
  `running` and `error` are not written by edits. The name cache is shared by all
  workers; the rows of the name may be of two stacks, but one host is modelled.
- In `AdminFeed` the container names of a worker are unique. Creation tests that
  and renaming does not; of two anomalies with one id the code's comparison of
  lists can see one come or go only by the length of the list.
- The adoption of snapshots that old runners started on their own, restores,
  edits of the cron expression, jitter.
- A dump or a mirror copy whose answer is lost leaves its row `pending`: no code
  closes it, and no property here claims so.
- The cache's list of unmanaged names, and alerts for unhealthy containers.
- Password changes, the expiry of API tokens, worker and deploy tokens, CSRF,
  the configuration of the identity provider.
- Terminal sessions that the admin socket relays to a worker.
- A change of `ENCRYPTION_KEY` between runs of `migrate-encrypt`: a value
  encrypted under another key is not recognised and is encrypted again.
- Worker actions: `pending_action` is written after the command was sent, so it
  may follow the answer, or the registration, that should have cleared it
  (`HandleWorkerActions.router.go:87`, `ws_dispatch.go:213`, `:367`) and then
  refuses later upgrades.
- Text transformations (compose files, environment references, deploy specs),
  cron arithmetic, mail and webhook delivery, metrics and logs, the image
  watcher, read-only requests: no state that outlives a request and that
  another relies on, or calculations their unit tests reach.

`PROJECT.json` lists all of these with their sources.

## 6. Plan

Done, in order of importance: deployments; worker sessions; the life of a
database; the snapshot schedule; snapshot copies; automation runs with their
abstract specification; container state; accounts and automation definitions;
the limiter, log batches, self update, the claims of databases, the dashboards'
feed, migrations and encryption. Every safety property that a run checks is proved.

Left:

1. An abstract stack lock, and `Deployments` (for stacks that are never excused)
   shown to implement it; an abstract "at most one dump" refined by
   `SnapshotRuns`.
2. Worker actions, as a part of `Requests`.
3. The safety of `Containers` (a handler writes only rows that have borne the
   name it looked up), which no run states yet.
