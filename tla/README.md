# TLA+ verification of code-studio

code-studio is a multi-user platform that generates code with language models,
keeps it in Git repositories on a shared volume, previews and deploys it on
Kubernetes and gives its users consoles for databases, logs and tasks. The API
and the workers run as several replicas. What one replica does is simple; what
is hard is that all of them work on the same rows, directories, queues and
Jobs, and that each of them may be late, fail half-way or die. This directory
holds TLA+ models of those parts, TLC instances that check them and TLAPS
proofs about them. Paths below are relative to `src/apps/api/src/` unless they
begin with `src/`.

    tlc -workers 2 -config MCGeneration_quota.cfg MCGeneration
    tlapm WorkspaceLock_proofs.tla

1. [Inventory](#1-inventory)
2. [The models and the code](#2-the-models-and-the-code)
3. [What the runs show](#3-what-the-runs-show)
4. [What is proved](#4-what-is-proved)
5. [Where the code and its documents disagree](#5-where-the-code-and-its-documents-disagree)
6. [Plan](#6-plan)

## 1. Inventory

One NestJS program with two root modules: `PROCESS_ROLE` decides whether a pod
answers requests or runs the background loops. PostgreSQL holds all rows, Redis
the workspace locks and the BullMQ queues, one ReadWriteMany volume the
repositories and worktrees, and Kubernetes the Jobs of builds and executors.

| Component | State | Operations | What makes it hard | What makes it correct |
|---|---|---|---|---|
| Distributed workspace lock (`workspace/distributed-workspace-lock.service.ts`) | one Redis key per resource with a token and a time to live; per call a renewal timer and the flag `lockLost` | poll with `SET NX PX`, renew, run the task, compare and delete | stalls, lost answers, expiry while the task runs, pods that die with the key | one task at a time; a lost key is never regained; waiters are answered; abandoned keys disappear |
| Workspaces and sessions (`workspace/`, `session/`) | session rows, a worktree per user, the repository, the deployment worktree | create a worktree, save, prepare a deployment, remove | checks made before a lock is waited for; two locks taken in different orders | nobody writes where files are removed; no files without a row |
| Project removal (`project/project-cleanup-worker.service.ts`, `admin/admin.service.ts`) | `Project.status`, `deletionAttempts` | claim, take back a stale claim, remove files, delete the row, retry, purge | two cleanups at a time, partial failure | a removal ends in a deleted row or a visible failure |
| Project import (`project/project-import-worker.service.ts`, `project/project.service.ts`) | `Project.status`, its lease, the repository | claim, renew, import, fail, retry, keep the local code | replicas race for a row; crashes; removal during the import | one importer; never into an active project; every import ends |
| Generation (`agent/`) | `Task` rows, BullMQ jobs, the workspace lock, Git history | enqueue, cancel, replay, admit, attempt, record, reconcile | row and job are in two stores; cancellation races with each step; redelivery | limits hold; running work is visible; cancelled work stays out; every task ends |
| Preview builds (`preview/k8s-preview.service.ts`) | `PreviewBuildRecord`, `PreviewInstance`, Jobs | reserve, create, watch, cancel, stop, maintain, dispatch | the place is taken in PostgreSQL, the Job created later in Kubernetes | no more Jobs than places; every place comes back |
| Preview sources (`preview/preview-source-snapshot.service.ts`) | a snapshot and a Secret per session | create, open, reap | Secrets named per session, builds per attempt | a build reads its own source |
| Previews of requirements and their routes (`preview/preview-routing.service.ts`, `requirement/requirement.service.ts`, `preview/k8s-preview.service.ts`) | `RequirementProject` (branch and developer), `PreviewInstance`, `RequirementRouteEndpoint` with a lease, the Deployment of a preview | link, claim, unlink, end; start, stop, status; sync, resolve, expire | row, endpoint and cluster change apart; a status call writes what it read earlier; the requirement ends meanwhile | an ended requirement has no route and no preview; a ready preview is routed; no request goes for good to the wrong branch |
| Deployment (`deploy/`) | one `Deployment` row per project, records, the cluster | deploy (answers before the build ends), stop, roll back, mirror | the build lives in the memory of the API pod; the section is per binding, the row per project | a record tells the outcome of its own build; a failed build does not block the project |
| Scheduled tasks (`scheduled-task/`) | `JavaTask`, `JavaTaskExecution`, BullMQ jobs | approve, dispatch, trigger, execute, cancel, reconcile at start | the claim is written before the execution exists; every start reconciles the rows of all replicas | an occurrence runs once; a cancelled execution is not called; every execution ends |
| Database console and transfers (`db-query/`, `datasource/`) | approvals, `DatabaseTransfer` with a heartbeat | approve, execute, dispatch, run in batches, cancel, retry | a slow executor is taken for a dead one; update by id after a look; retries over what earlier runs left | a statement runs once per approval; one executor per transfer; a succeeded one is complete and has nothing twice; every transfer ends |
| MCP gateway and approvals (`mcp/`, `mcp-approval/`) | approval rows with an expiry | request, approve, reject, cancel, consume, complete | find, then create; consumption across a crash (`consume` has no caller yet) | one use per approval |
| Requirements and knowledge (`requirement/`, `knowledge/`) | stages and versions of rows, branches | optimistic updates, branch of a developer | branch and row are in two stores | no update is lost; a branch has its row (links and ends are with the routes) |
| Sandboxes and local previews (`sandbox/`, `preview/preview.service.ts`, `lsp/`) | rows, containers, processes of one pod | reserve under an advisory lock, stop, reap | idle sandboxes are listed before they are claimed | capacity; a used sandbox is not reaped |
| Executors (`agent/generation-executor.service.ts`, `k8s/`) | a process or a Job of one attempt | run, watch, abort, delete | abort against completion | no executor outlives its attempt |
| Logs, alerts, tracing, Kafka console (`business-log/`, `tracing/`, `kafka/`) | rules and their firing state | evaluate, deliver, search | deliveries are not awaited | one message per change of state, in order |
| Rate limit, authentication, secrets, teams, configuration, audit, health | counters with an expiry, rows | read and write | little: single statements or one transaction | |
| Web client (`src/apps/web`), manifests, migrations, scripts | | | polls the API | |

How they interact: every write to the volume goes through the lock (users of
the keys: `requirement.service.ts:295`, `deployment-center.service.ts:207`,
`agent-worker.service.ts:91`, `workspace-lock.interceptor.ts:30`,
`workspace.service.ts:97,173,210,237`, `preview-source-snapshot.service.ts:30`).
Everything that a user asks for is first checked against the rows of project
and session, which a removal changes at the same time. Background loops claim
rows by a conditional update, or run under a PostgreSQL advisory lock
(`k8s-preview.service.ts:63`). `PROJECT.json` lists under `hazards` the points
where these mechanisms are exposed, each with the properties that cover it, or
the reason that none does.

Hazards seen and judged smaller, which no model covers: the Git commit of a
generation is repeated when the worker dies before its row is written
(`agent.service.ts:206`); the daily quota is counted before the insert
(`agent.service.ts:261`); a preview build whose cluster access is gone stops
`maintainBuildQueue` on every pass (`k8s-preview.service.ts:425`); the
maintenance of one build deletes the source Secret of the session's next one
(`:438`); `runSingleton` loses its lock after thirty minutes (`:63`); the
build of a deployment runs in the API pod after the answer
(`deploy.service.ts:317`); a statement has run and the update that says so fails
(`db-query.service.ts:457`); two equal MCP requests create two approvals
(`mcp-approval.service.ts:53`); idle sandboxes are listed before they are claimed
(`sandbox.service.ts:850`); `deliverAlert` is not awaited
(`business-log.service.ts:874`).

## 2. The models and the code

| Module | Models | Builds on |
|---|---|---|
| `ExclusiveSection` | the promise of the locks: one caller at a time inside | |
| `LimitedSection` | the promise of the quotas: at most `Limit` callers inside | |
| `WorkspaceLock` | `runExclusive` on one key, with time | implements `ExclusiveSection` |
| `ProjectWorkspace` | sessions, worktrees and removal of one project | its handlers keep `ExclusiveSection` on every key (proved); entering is atomic, the wait for it may time out |
| `Generation` | tasks, jobs, workers, requests | the same, one workspace key per session; keeps `LimitedSection` for every user and team (both proved) |
| `PreviewBuild` | records and Jobs of image builds | its places keep `LimitedSection` (proved) |
| `ProjectImport` | the import of one project by several replicas | its importers keep `ExclusiveSection` (proved) |
| `DatabaseTransfer` | migrations, backups and restorations by several workers | |
| `ScheduledTask` | tasks, executions, their jobs, dispatchers and runners | |
| `PreviewRouting` | previews of requirements, their endpoints, the end of a requirement | takes over where the build of `PreviewBuild` has succeeded |
| `WorkspaceLock_proofs`, `ProjectWorkspace_proofs`, `Generation_proofs`, `ProjectImport_proofs`, `DatabaseTransfer_proofs`, `ScheduledTask_proofs`, `PreviewRouting_proofs`, `PreviewBuild_proofs` | theorems about them (section 4) | each EXTENDS its model |

`PROJECT.json` maps every definition to the lines it stands for.

**WorkspaceLock.** A call draws a UUID; its token is written as the caller, and
as `Stale` once the call is over, since then nobody can renew or delete the
key. `Call`, `Poll` (`SetGranted`, `WaitTimeout`) are the loop of lines 43-47;
`StartTask`, `Renew`, `RenewError`, `TaskEnds`, `Release`, `ReleaseError` the
rest. Execution in Redis and arrival of the answer are two steps, so an answer
can be late (`due`) or lost (`AnswerLost`: the client sends the command again
and meets its own key). `Crash` leaves the key behind. Time is relative: `ttl`,
`due`, `waited` and `unconfirmed` count down or up to a bound, so nothing has
to be cut off. `Reliable` separates the two questions one can ask: with it an
exchange takes at most `Lag`; without it anything may stall for any time.

**ProjectWorkspace.** An operation is a request, a job or a worker: `open` a
session, `save`, `generate`, `deploy`, `clean`, `purge`. `pc` follows it
through the checks it makes and the locks it waits for in the order of the
code: a save ensures the worktree (session check, repository lock, second
check, `git worktree add`), then locks the workspace and checks again; a
generation locks the workspace first; a cleanup finds the row (`FindRemoval`),
claims it under a condition (`Claim`), locks the repository, lists the sessions,
locks their workspaces in the order of the ids, reads the sessions again and
removes. `GiveUp` is the wait timeout. `HasOwnersRole`: whoever owns the project
or is one of the `Admins` of the platform makes the repository itself when it is
missing; others wait until it is there. The ghost variable `astray` is set when
files are made that no cleanup will look for: while a purge stands between its
look at the directories and its delete, or by a deployment that prepares a
project which is no longer active. Branch names, remotes and path checks are
left out: a worktree exists or does not.

**Generation.** A task has a row and a job; `request` is the call that enqueues
it, `pc`/`at` are the concurrent executions of all workers, `doing`/`of` the
concurrent calls of users and administrators. Each read or write of a store that
something may come between is a step of its own: `AdmitReads` before the advisory
locks and `AdmitWrites` within them (count and write), `Prepare` and `Start`, the
listener's `Listen` (`getState`) and `FailedEvent` (`updateMany`), a
cancellation's `CancelLooks`, `RemoveJob` and `CancelWrites` by id, a replay's
`Requeue`, `RetryJob` and `RetryFails`. `Stall` ends a job in Redis only; the
listener that writes the row comes later or never. The partial unique index on
active tasks of a session is `IndexAllows`. BullMQ is external: a token per
active job, attempts, stalled jobs.

Two ghost variables, which no action reads, say where writes by id go wrong, at
the step that is the cause. `overtaken` has the tasks whose job was fetched while
somebody who had looked before had yet to write the row. `forsaken` has the open
tasks whose last keeper died with the row in hand, or whose failed job was
removed before the listener had looked at it. Left out: daily quota, priorities,
progress events, the HTTP client that waits, generation outside the queue, row
writes that fail (but for the one after a failed `add`), and an outage that makes
`reconcileInterruptedTasks` take a row of less than a minute for an old one.

**PreviewBuild.** A request or a duty of the worker is the sequence of steps it
still has to do (`todo`); a step is what happens between two awaits that others
can see. `Start` stops the old preview first, `Reserve` counts and inserts under
the advisory lock, `CreateJob` creates the Job, suspended if there was no room,
`Save` writes the instance; `StartFails` has the cleanup that follows at each
point. `Expire`, `Check` and `Dispatch`/`Resume` are the loop of
`maintainBuildQueue`. A build may be cancelled at any time, before its Job exists
as after; a deletion may be passed over by `Promise.allSettled`, a creation or a
patch may be answered with an error although it arrived or not (`lost`); the pod
of a request and that of the worker may die. The ghost variable `astray` has the
builds whose Job was deleted before it was created, or about whose Job a call
failed; `orphaned` has those to which the worker had given a place when it died,
before it resumed the Job. Deployment, Service, Ingress, registries, the snapshot
of the source and local previews are left out.

**ProjectImport.** `Tick`, `Look`, `Claim` are the worker; `Load` to `Record`
and `Fail` are `executeImport`; `Retry`, `FindLocal`/`KeepLocal`, `Remove` are
requests; `Clean` is as much of the cleanup as an import meets. The ghost
variable `revived` is set when `Record`, which updates by id, makes a project
active that was being deleted. The lease is over only when no importer is alive
(`LeaseOver`): a live one renews it every ten of its thirty minutes.

**DatabaseTransfer.** The row has the fields that decide something: kind,
status, `conflictStrategy`, `cancelRequested` and whether `migratedRows` is more
than zero. A backup whose row names a target database too (the request may, and
`runTransfer` looks at the column and not at the kind) is a kind of its own,
`backup_into`: it is queued without approval. `Create`, `Approve`, `Reject`,
`Cancel`, `Retry` are the requests; `Sweep`, `Find`, `Claim` and the three
outcomes are `dispatchTransfer`; `Load` to `NextTable` are `runTransfer`, one
step per access to the row or to the target: the look at a table (`exists`),
`drop`, `create`, `truncate` of a file, and per batch its look, its write and the
update that counts it. The target is which tables exist there, and how often each
batch of each table does, so that completeness and duplicates can be seen. Two
ghost variables collect the transfers for which the properties promise less
(section 5 says what goes wrong then). `overtaken`: a sweep of an executor that is
only slow (`SweepAlive`), or a request that looks (`LookFirst`) and writes by id
too late (`WriteUpon`). `shuffled`: the source gave its pages, which are read
without ORDER BY, in another order, so that one page repeats or skips rows
(`CopyOther`). Left out: connections, encryption, column mapping, the files
themselves, checkpoints (they are shown, and never read).

**ScheduledTask.** Time counts occurrences of the cron expression. A starter is
a dispatcher of a replica or a request. A dispatcher finds a due task
(`FindDue`), computes its next run (`Plan`), claims it under a condition
(`Claim`), checks the policy, inserts the row and adds the job; a manual run
begins at the check. `LookAtTask`/`ChangeStatus` enable or pause a task: the next
run is computed at the look and written by id. `Fetch` to `Report` are a BullMQ
worker and `processExecution`, with the poll for cancellations beside the call;
`CancelReads`, `CancelLooks`, `CancelRemoves`, `CancelWrites` are the
cancellation, `StartReplica`, `ReconcileLooks`/`ReconcileWrites` the
reconciliation that every start makes, `Stalled` the lock of a dead runner, which
BullMQ gives back once and then fails the job. An `add` may fail, arrived or not
(`AddThrows`; the row is failed either way, by `FailRow`); any call may fail and
any request may die between two steps (`GiveUp`); a worker replica may die any
number of times, with its dispatcher, its runners and the reconciliation of its
start (`Crash`). Ghost variables: `rearmed` has the occurrences that were put on
again by enabling a task with an old next run, `overtaken` the executions whose
row was written by id after it had changed, `stranded` those that a failed call,
a dead request or a job that stalled too often leaves behind. Left out:
parameters, the trace of a call, timeouts as a status of their own (`failed`
here).

**PreviewRouting.** The transactions under the requirement's advisory lock
(`Link`, `Claim`, `Unlink`, `End`, `Register`, `Publish`) are steps; a call on a
preview (`start`, `stop`, `status`) is a record `call[c]` that says where it
stands and what it has read from the cluster. The caller `s` itself is the
worker that reconciles the row of session `s`. `DeletesResources` may leave the
Deployment, because the deletions are settled and not checked. `Resolves` is
what a gateway gets. Rows that a late status call takes out of `stopped` are
collected in `revived`. Left out: the checkout of the branch, service keys (all
sessions have the same, which is the case in which they compete), Services and
Ingresses, local previews, logs. The reaper of idle previews is `Stop`.

## 3. What the runs show

| Run | Instance | Shows |
|---|---|---|
| `MCWorkspaceLock_reliable` | three callers, lease 5, period 2, lag 1, wait 3 | `MutualExclusion`, `NoSpuriousLoss`, refinement of `ExclusiveSection` |
| `MCWorkspaceLock_stalls` | two callers, anything may stall or get lost | `OnlyOwnerFrees`, `WaiterAnswered`, `OrphanExpires` |
| `MCProjectWorkspace_edits` | save, generation and new session of a user, two cleanups, a purge; one fault | `RemovalExcludesWriters`, `WritersHaveTree`, `NoUntrackedFiles` |
| `MCProjectWorkspace_live` | generation of an administrator, save of the owner, deployment, one cleanup; one fault | `RemovalEnds`, `OperationsEnd`, despite the circle of two locks |
| `MCGeneration_quota` | two attempts in one session, one in another, one user and team with limits 1 and 2, two executions, two calls, two attempts per job; any two of error, timeout, crash, cancellation, replay, removal | `QuotaKept`, `ExecutionIsVisible`, `CancelledStaysOut`, `SomebodyCares` |
| `MCGeneration_ends` | two tasks that compete for one place, two calls; any three of timeout, crash, replay, removal | `TasksEnd` |
| `MCGeneration_cancel` | two sessions, one cancellation | `CancelEnds` is violated (section 5) |
| `MCPreviewBuild_builds` | two builds of a session, two requests, limit 1; one stop, cancellation at any time, error, lost call, crash of a request or of the worker | `NoOversell`, `BuildEnds` |
| `MCProjectImport_imports` | three replicas, two errors or crashes | `OneImporter`, `ActiveIsNotImported`, `ImportEnds` |
| `MCDatabaseTransfer_transfers` | a transfer of any kind and a restoration of its dump, two workers, tables of two batches, of none and of one; any two of cancellation, late write, retry, error, crash, slow executor, shuffled pages | `OneExecutor`, `SucceededIsComplete`, `CancelStopsAtNextLook`, `FinishedStays`, `TransfersEnd` |
| `MCScheduledTask_schedule` | one recurring task without concurrency, two dispatchers, a request, one execution with two attempts and one runner, one occurrence; any two events | `OncePerOccurrence`, `CancelledIsNotCalled`, `ExecutionsEnd` |
| `MCPreviewRouting_routes` | one requirement, two developers, one API call at a time and the worker; three calls, two events | `EndedIsQuiet`, `RouteReturns`, `MisrouteEnds` |

Each module also has a type invariant, checked in the first run that names it.
For every property of a passing run `PROJECT.json` names a mutation of the code
under which the run fails.

**Exceptions.** Where the code makes a write by id upon an earlier look, what it
promises does not hold of a row on which such a write came too late. The models
make these writes as the code does, and the properties do not exclude the
behaviour: they except the one row, task, build or project, by a ghost variable
that is set at the cause (`overtaken`, `forsaken`, `astray`, `orphaned`,
`revived`, `rearmed`, `stranded`, `shuffled`). What is said of all others so
includes that they are not affected, and section 5 lists what happens to the
excepted ones. For `TasksEnd` alone one forsaken task excuses all: it keeps its
place in the quota, for which others may wait.

**Bounds.** The lock instance has the smallest numbers with `Period + 2 * Lag <
Lease`, a lease that spans several renewals and a wait shorter than a lease;
time is relative, so behaviours are not cut off. `MaxFaults` and `MaxEvents`
bound what is not plain progress in a behaviour (crashes, errors, user
interventions); the properties below fail in the mutants with at most as many.
Two cleanups suffice for a stale claim, two users for the difference between the
owner (who works in the repository) and the others. In Generation two tasks in
one session meet the unique index, and the third meets the quota; two calls are
a cancellation and a replay that interleave, and three events a job that fails
and two replays of it. Attempts that fail by an error and are repeated are in
`MCGeneration_quota` only. In PreviewBuild a limit of one with two builds shows
each transition from queued to building. `MCProjectImport` needs two replicas
that race; a third lets one import while two race. `MCDatabaseTransfer` has
three tables, so that a retry meets one that is complete, an empty one and one
that is not there yet, and two batches in one of them, so that it meets a table
begun; two events are a failure or a cancellation, and a retry.
`MCPreviewRouting` needs two sessions that compete for one key; with three calls
a preview is started, and stopped or started in the other session, while a
status call is under way. `MCScheduledTask` has one execution of one occurrence,
because a second claim of it already violates `OncePerOccurrence`; the theorems
cover any number. `MaxStalls` is BullMQ's default of one. `MaxCopies` counts
copies of a batch up to two.

**Deadlock.** The lock runs check it. Elsewhere all tasks may have ended, or the
project may be gone, and the system stops: `CHECK_DEADLOCK FALSE`.

**Fairness.** `WorkspaceLock`: time passes, the loop polls, answers arrive,
timers fire, the release is sent; no task need end. `ProjectWorkspace`:
handlers that have begun go on, the cleanup worker ticks every five seconds and
takes back a claim after ten minutes; nobody need start a request and nothing
need fail. `Generation`: weak fairness for handlers, polls, the stalled check
and the reconciliation (all on timers or at the start of a pod); strong fairness
for fetching a job, because BullMQ hands jobs out in order, so one that waits
comes to the front although others are delayed and return. `PreviewBuild`:
strong fairness for what the worker does with a row, because its loop comes to
every row again and again between its other duties; Jobs have an
`activeDeadlineSeconds`. `ProjectImport`: ticks and handlers.
`DatabaseTransfer`: a worker ticks every two seconds and goes on with what it
runs. `ScheduledTask`: handlers, polls for jobs, the stalled check of BullMQ, the
time limit of a call, and the return of a replica that died (Kubernetes restarts
it); time need not pass. `PreviewRouting`: the worker looks at each row every 20
seconds (`reconcileRoutes` takes 200 rows, which is more than run at a time, and
passes do not overlap, since they run under `runSingleton`) and goes on with
what it began; pods need not become ready. Crashes, errors and requests of users
are never fair.

**Assumptions that the code does not enforce**, and what happens without them:

- A live worker keeps its BullMQ job (`AGENT_JOB_LOCK_MS` is ten minutes) and a
  live importer its lease. An outage of Redis or PostgreSQL longer than that
  lets a second one start; `runTask` then writes `running` without admission
  (`agent.service.ts:104`), and `renewLease` names no owner
  (`project-import-worker.service.ts:80`).
- A start creates its Job within `PREVIEW_BUILD_STUCK_GRACE_SECONDS` (120 s).
- `MCProjectWorkspace_edits` has no operation that creates the repository, by the
  owner or by an administrator, while an administrator purges: that takes a
  creation slower than all attempts of the cleanup together (`MaxAttempts` waits
  of thirty seconds). `RemovalExcludesWriters` is violated then; the two theorems
  about it have the gap as a hypothesis (`PurgesApart`), and section 4 says which
  instance needs it. `NoUntrackedFiles` has no such gap.
- Cleanup failures are in `ProjectWorkspace` and not again in `ProjectImport`.
- Targets of transfers are empty at first, no two transfers share one, and the
  rows of the source do not change while they are copied (their order may). A
  dump or a restoration that was killed leaves any part of its work.
- One cancellation of an execution at a time in `MCScheduledTask`.
- A status call of a preview reads record and cluster in one step: what the
  record says is compared with the row again before it is used.

## 4. What is proved

`WorkspaceLock_proofs` proves for every set of callers and all values of lease,
period, wait and lag with `Period + 2 * Lag < Lease`: `TypeCorrect`,
`LeaseHolds`, `Exclusion`, `NoLoss`, `Refinement`, `LossStays`, `OwnerFrees`.
Mutual exclusion is not inductive: a second caller may enter when the key is
free, and nothing in it says that the key is not free while a task runs. The
strengthening is `LeaseInv`. It measures the lease of a running call by its
timer: the answer that is `d` ticks late leaves `Lease - d`, a renewal is due
`Period` later and at most `Lag` late, so the time to live is at least
`Lease - Period - Lag + due`, which is positive as long as `due > -Lag`, that
is, as long as the renewal is in time. Hence `Tick` does not drop the key of a
running call, the key is its token, and two running calls are one. The
refinement follows: only `StartTask` enters the section, and it finds nobody
inside; the end of a task, a crash and nothing else leaves it. `LossStays` and
`OwnerFrees` need no lease at all; they hold whatever stalls, because
tokens are fresh and both scripts compare them. The assumption is
`LockAssumption`, which the service does not validate for the two values it
reads from the environment.

`ProjectWorkspace_proofs` proves for any users and any set of operations, with
any number of concurrent cleanups, failures and crashes:

- `TypeCorrect`, with the strengthening `TypeInv`: an operation stands only at
  steps of its own handler, and a removal that has not failed for good has
  attempts left.
- `RemovalExcludesWritersAlways` and `WritersHaveTreeAlways`, as long as every
  purge is `PurgesApart`: it does not delete the row while both a cleanup is
  under way and somebody may write. The strengthening is `RemovalInv`. An
  operation is *inside* a workspace from its last check under the user's lock
  on; it *may write* if it has passed the check inside the repository lock too,
  or can still pass it. Whoever is inside holds that key (`KeysHeld`) and, while
  the row exists, has a session (`SessionsKept`). A cleanup lists the sessions
  after the row has left `active`, so nobody comes in later whom its list does
  not name (`RemovalSeen`); it removes when it holds every key on the list,
  hence when nobody may write. The hypothesis is needed: a purge deletes the
  sessions from which a second, late cleanup makes its list, and TLC then finds
  a removal under a writer (a generation of the owner, two cleanups, one purge,
  `MaxAttempts` 1).
- `PurgesKeepApart`: purges are harmless to the two, whatever else happens,
  where one cleanup worker runs (`OneCleaner`: the row can only be purged after
  that worker has given up) and of course where nobody purges.
- `NoUntrackedFilesAlways`, with purges and deployments anywhere and no
  hypothesis: a project whose row is gone has no files, or is `astray`. The model
  sets `astray` at one of two causes only, both in section 5: files made, or about
  to be made, while a purge stands between its look and its delete, and a
  deployment that prepares a project which is no longer active. The strengthening
  `FilesOwned` says that a worktree belongs to a session or to the owner, so that
  the cleanup finds it, and that whoever is about to create one has seen the
  project alive inside the repository lock. `MadeInTime` is a step that leads
  nothing astray; it keeps `FilesOwned`, and such behaviours meet `PurgesApart`
  (`InTimeKeepsApart`).
- `NothingGoesAstray`: without purges and deployments nothing ever does, so
  that sessions, saves, generations, cleanups, stale claims, failures and crashes
  alone leave no files behind.
- `SectionsRefine`: on every key the places of the handlers between the start of
  `runExclusive` and its end behave as `ExclusiveSection`, the specification that
  `WorkspaceLock` is shown to implement; no hypothesis is needed. The model takes
  and frees keys in `Enter` and `Finish`, at a distance from the places that rely
  on them; `SectionInv` (`KeysFit`) says that the two agree, so that no
  handler ends with a key in its hand, nor goes on in a section whose key it gave
  back (a cleanup in front of the loop over the users is within those
  workspaces whose keys it has so far).
- `OneWriterEachAlways` follows: no two operations write into one worktree, nor
  create, prepare or remove in the repository, at once.
- `OneKindOfCircleAlways`: any circle of operations that wait for each other,
  however many, contains a cleanup inside the repository that waits for the
  workspace of a generation which waits there for the repository, to create its
  worktree. It is the order which the documents forbid (section 5), and it is
  the only one that has to be avoided. `FirstOfFits` (the first of a set of
  users is one of them) needs the assumption `UsersListed`, that the order of
  the ids is a sequence, and well-founded induction on its indices.

`Generation_proofs` proves for any tasks, sessions, users, teams, limits and
workers, for any number of concurrent calls, and whatever is cancelled,
replayed, redelivered, removed or lost; no kind of event is excluded:

- `TypeCorrect`; in particular attempts and stalls stay within what BullMQ
  allows.
- `ExecutionIsVisibleAlways` and `CancelledStaysOutAlways`, of every task that is
  not `overtaken`, from `ProgressInv`: a runner that attends to a job holds its
  token, so no two are at one task (`JobsHeld`); a call that is about to write
  `cancelled` has taken the job away, or found none, so a fetch that comes before
  its write makes the task overtaken (`NothingIsDue`); and the listener that has
  seen a job failed has, too. Thus from admission to outcome the row says
  `running` or `cancelling`. The four late writers are in section 5.
- `QuotaKeptAlways`. `Counted`, the rows that an admission counts, can exceed
  the limit (`cancel` may write `cancelling` into a row that has just ended);
  what stays below it is the number of admitted runners, those at overtaken
  tasks apart. By `ProgressInv` they stand at distinct counted tasks, so they
  inject into the rows that the next admission counts besides its own
  (`CountCovers`), and the admission finds room only if one more fits.
- `LimitsRefine`: the admitted generations of a user or a team with a limit,
  those of overtaken tasks apart, implement `LimitedSection`. It says more than
  `QuotaKept`: they come and go one by one, although admissions of all workers
  run side by side.
- `WorkspacesRefine`: the generations within the workspace lock of a session
  implement `ExclusiveSection`, as the operations of `ProjectWorkspace` do on
  the same key (`KeysFit`: the key is held by who is within, and by nobody else).
- `OneGenerationEachAlways`: from its admission on, a generation is alone in its
  session (among tasks that are not overtaken), also while it waits for the
  lock. It needs no lock: the unique index on active rows leaves a session one
  task (`OneActive`), and BullMQ's token leaves a task one runner, after
  cancellations, replays and redeliveries.
- `HistoryTellsAlways`: a row that says `succeeded` has its commit. Git and
  PostgreSQL are written one after the other, in two steps between which a
  worker may die; whoever is at the second has made the first, and nothing
  else writes `succeeded`.
- `SomebodyCaresAlways`, with all kinds of events at once: an open row has a job
  that waits or runs, or is in the hands of a request, a call or the listener, or
  is queued without a job, which the reconciliation finds; or the task is
  `forsaken`. The model makes a task forsaken in three steps and nowhere else: the
  worker with the listener dies between the failed job and the row (`Crash`), a
  call dies between its two writes (`CallCrash`), a failed job is removed while
  its row is running (`RemoveJob`). That these are all is what the theorem says;
  in particular, a worker that dies anywhere else, and any number of times, loses
  nobody. The strengthening `CareInv` adds that a runner which is about to
  complete its job has written the outcome.

`ProjectImport_proofs` proves for every number of replicas and faults
`ImportTypeOK`, `OneImporterAlways` and `ActiveIsNotImportedAlways`. The
strengthening `ImportInv` adds `RowIsTaken`: while a worker stands anywhere in
an import, the row is `importing`, on its way to deletion or gone, and so
neither `active` nor waiting for an import or a retry. A claim finds
`import_queued`, so nobody imports; `Retry` and `KeepLocal` find
`import_failed`, so nobody does either; the lease is taken back when nobody
imports; and `Record`, which makes the row active, takes its worker out of the
import in the same step. `ImportersRefine` says the same as a refinement of
`ExclusiveSection`: the conditional update of one row does for an import what
the lock does for a workspace.

`src/README.md:209` promises that a removal waits for an import, and `remove`
does not look (section 5). `ActiveHasCodeAlways` and `RemovalIsFinalAlways` say
what holds nevertheless. An active project has its repository and its code,
unless it was `revived`: only the last transaction of an import, which updates by
id, makes a project active whose files a cleanup has taken or will take. The
strengthening `CodeInv` follows the files through the steps of an import, of a
kept copy and of a cleanup. And a removal in which no import is under way is
final: no claim, retry or kept copy takes the project back, because each of them
names in its update the status it expects.

`DatabaseTransfer_proofs` proves for any transfers, workers, tables and batches,
and whatever fails or is retried:

- `TypeCorrect`, `OneExecutorAlways` and `FinishedStaysAlways`. The
  strengthening `RowInv` says what the row of a transfer that nobody overtook
  must be while a worker stands at it: `running`, and with one executor only. A
  claim finds it `queued`, hence without an executor; a retry finds it
  `failed` or `cancelled`, hence likewise; a sweep finds no executor. That is
  why the outcome, which is written by id, always lands on the run it belongs to.
- `WrittenIfApproved`. A migration or a restoration is let through, on creation
  and after each retry, from `pending_approval` only; the target of a transfer is
  written only while its row says `running`, so only after that; and tables of a
  target database are dropped or made by a migration, a restoration or a
  `backup_into` only. That last kind is the gap in the approval: nobody approves
  it (section 5). The second part rests on `RowInv`: who writes executes, and who
  executes finds the row running.
- `CancelStopsAlways`. After a cancellation no more reaches the target than an
  executor writes between two looks at the row (`BetweenLooks`): one batch or
  command, or the preparation of one table, which is a DROP and a CREATE, and with
  them the new file of a `backup_into`. The strengthening ties the number of late
  writes to the place of the executor, and needs `OneExecutor`, since two
  executors would each make as many.
- `SucceededIsCompleteAlways`, whatever earlier runs had left at the target, and
  for tables of any length, those transfers apart whose source was `shuffled`.
  `CopyInv` is the loop invariant of `runTransfer`: the batches its executor has
  gone through are there as the strategy asks, those still to come in its table
  are not there at all unless it appends, and the strategy it goes by is the one
  of the row, which only a retry changes, and a retry finds no executor. It rests
  on `RowInv` as well: nobody else writes into the target meanwhile.

`ScheduledTask_proofs` proves for any tasks, executions, replicas, runners and
attempts:

- `TypeCorrect`, with `JobInv`: a job is active for at most one runner, and a
  runner that attends to an execution finds its job active (`JobsHeld`); the job
  of a row is added by the one starter that inserted it (`AddersFit`).
- `OncePerOccurrenceAlways`, of every occurrence that is not `rearmed`. It is not
  inductive: nothing in it keeps a later claim from an occurrence that has already
  run. The strengthening `OccurrenceInv` says that what has been claimed lies
  before `nextRunAt`, however old the next run is that a dispatcher writes, for it
  claims only what lies before it. Only a user who enables the task may set it
  back, and `rearmed` has just the occurrences that come to lie ahead again.
- `CancelledIsNotCalledAlways`. No attempt begins its call while the row says
  `cancelled`: either the request has removed the job, so no runner fetches it, or
  it did not see the job that was there, which is what `overtaken` records. A row
  that says `cancelling` is another matter: an attempt that begins then overwrites
  it and calls (section 5).
- `AttendedAlways`, the safety half of `ExecutionsEnd`, for any number of deaths
  of replicas and requests: an execution that is open has a job that waits or
  runs, or a starter that is about to add one, or a cancellation that took its
  job away and is about to write so, or a reconciliation that has listed it, or
  it waits for the start of the replica that died before it added the job;
  excepted are the overtaken and the `stranded` ones. The strengthening
  `NoneLost` says why nobody else drops it: a job ends, and a runner reports the
  end of one, only when the row has ended (`Settled`), and who is still adding a
  job is neither cancelled as running nor listed as having one. Whether somebody
  who has it in hand goes on is liveness.

`PreviewRouting_proofs` proves for any requirements, sessions and concurrent
calls `TypeCorrect` and `EndedIsQuietAlways`. The strengthening adds what a call
carries where it stands (`CallsFit`: a status call that is about to write saw
a Deployment) and that a row without a status has no requirement
(`NoneHasNone`). `End` finds all previews of the requirement stopped and removes
its endpoints; `Register` and `Publish` look at the requirement in their own
transaction; the one write that looks at nothing, `WriteRow`, changes the status
and not the requirement, and what it takes out of `stopped` is in `revived`.

`PreviewBuild_proofs` proves for any builds, sessions, scopes, limits and
concurrent requests, under every kind of event:

- `BuildTypeOK` and `PlacesKeptAlways`: the records that hold a place never exceed
  a limit. `Reserve` and `Dispatch` count and write under one lock, and nothing
  else gives a place. The strengthening `RecordInv` is needed for the line and for
  the types: a build is reserved once and by one agent, and who ends or resumes it
  finds its record (`RecordsFit`); `StepsFit` fixes the order of the steps in each
  sequence.
- `PlacesRefine`, the refinement of `LimitedSection` by the places of a user or a
  team: one build at a time gets a place or gives it back.
- `PlacesComeBack`, the safety half of `BuildEnds`, for the transition from
  queued to building, which the code makes in two stores: a record that holds a
  place while its Job is suspended is one whose worker has still to resume the
  Job or to end the build, or it is `orphaned`: the worker died in between. A
  place stays with a Job that does not run in no other way. The strengthening
  (`JobsFit`, `PlacesMinded`) covers the Job that is yet to be created suspended
  while its record is given a place already.
- `NoOversellAlways`. What a limit is for are Jobs, and a Job may run without a
  place if it was deleted before it was created, or if a call about it failed:
  such builds are `astray`. All others keep to the limits, also beside these. It
  follows from `PlacesKept` and `BuildsFitAlways`, which says build by build
  that a Job that runs has a record that holds a place, and what the agents
  still have to do about it. A request that is about to end a record has deleted
  its Job, or seen it end, and the build is `Dead`: the Job will not run again.
  Nobody creates it, since a build has one start, which is over by then; nobody
  resumes it, since the worker, which alone resumes, does one duty at a time.
  The worker itself may end a build whose Job is still to be created: such a Job
  is created suspended, because the build was queued.

Only model-checked: everything about liveness (`WaiterAnswered`,
`OrphanExpires`, `RemovalEnds`, `OperationsEnd`, `TasksEnd`, `BuildEnds`,
`ImportEnds`, `TransfersEnd`, `ExecutionsEnd`, `RouteReturns`, `MisrouteEnds`),
since TLAPS does not reason about fairness and `ENABLED`. What safety can say of
them, that nobody is forgotten on the way, is proved of `TasksEnd`
(`SomebodyCaresAlways`), `ExecutionsEnd` (`AttendedAlways`) and `BuildEnds`
(`PlacesComeBack`).

## 5. Where the code and its documents disagree

With a run that shows it:

- **A cancelled task hangs in `cancelling`** (`MCGeneration_cancel`) when it was
  cancelled after its job was fetched and before the `try` of `runTask`: the
  listener for failed jobs covers queued and running rows only. The row blocks
  its session and counts for the quotas.

Without a run, since other properties are worth more than a repetition of what
follows from the model at once:

- A lost lock is noticed too late: `lockLost` is set only by a renewal after the
  loss. A lease that lapsed in a stall, with the task settling before the next
  renewal, is returned as a success; `src/代码生成平台-技术方案.md:87` excludes
  that.
- A deployment recreates a removed project: `ensureForDeployment`
  (`workspace.service.ts:168`) reads the row, waits for the repository and does
  not look again.
- A purge that found no directories deletes the row while a session creates
  them (`admin.service.ts:234`): the check is outside the repository lock and not
  repeated. TLC finds untracked files with a first generation of the owner, one
  cleanup that gave up and one purge, and no other fault. Both are what `astray`
  excepts in `ProjectWorkspace`.
- Builds beyond the quota (`astray` in `PreviewBuild`): a build can be cancelled
  between the reservation and the creation of its Job; the Job then runs without
  a place (`k8s-preview.service.ts:163`). So does a Job whose deletion
  `Promise.allSettled` passed over (`:353`). `src/README.md:586` promises that
  there is no overselling. And a place is lost when the worker dies after the
  transaction of `dispatchQueued` and before it resumes the Job: the record says
  building, the Job stays suspended, and the loop does not recognise that.
- A running generation that its row does not show (`overtaken` in `Generation`).
  `adminCancel` reads the row, finds no job because it is still being added, and
  writes `cancelled` by id after the task was fetched and admitted
  (`agent-queue.service.ts:185`); the listener sees a job failed and writes the
  row after it was replayed and fetched again
  (`agent-worker.service.ts:122-123`); an `add` throws although the job has
  arrived (`agent-queue.service.ts:53`); a replay whose `job.retry` throws,
  because another has retried it, writes `failed`. The task goes on, is not
  counted, and another is admitted.
- `cancel` and `adminCancel` write without a condition: a task that succeeds in
  between turns into `cancelled` or `cancelling` (`src/docs/api-errors.md:40`).
- A job that failed, by an error or because its worker died too often, and whose
  listener dies before it writes leaves a running row, which
  `reconcileInterruptedTasks` (queued rows only) does not repair, against
  `src/代码生成平台-技术方案.md:102`. So does an administrator who removes the
  failed job before the listener looks at it (`forsaken` in `Generation`).
- `src/docs/kubernetes-multi-replica.md:20` forbids to create a worktree under a
  user's workspace lock; the generation worker does it when the worktree is
  missing. The circle with a cleanup is ended by the wait timeout only, as
  `OperationsEnd` and its mutant show; `OneKindOfCircleAlways` proves that
  there would be none without it.
- The last transaction of an import sets the row to `active` by id
  (`project.service.ts:137-141`): a project queued for deletion comes back;
  `remove` (`:260`) refuses no import, against `src/README.md:209`. It is the only
  way back, as `RemovalIsFinalAlways` and `ActiveHasCodeAlways` show.
- The import of a worker that died after its checkout is queued again, finds
  files in the repository and fails; keeping the local code is then the way on.
- `finishBuild` looks at the record and updates by id, so that two ends of a
  build overwrite each other, although `src/README.md:598` calls the records
  immutable.
- Scheduled tasks. `forbid` is checked and the execution inserted in two steps
  (`scheduled-task.service.ts:151`), so that a manual and a scheduled run can
  start together, against `src/docs/api-errors.md:33`. An occurrence claimed by a
  dispatcher that dies before the insert is lost (`:137`); an execution inserted
  by one that dies before the job exists waits for the next start of a worker, and
  one whose request died for a start that nobody makes on its account. An enable
  computes the next run and writes it by id (`:94-97`): if that occurrence is
  dispatched in between, it runs twice (`rearmed`). An `add` that throws although
  the job arrived fails the row while the job runs, and may overwrite a
  cancellation (`:160`). A start puts rows back to `queued` that other replicas
  run, have finished or are cancelling (`scheduled-task-worker.service.ts:43`);
  some of them stay so. An attempt overwrites `cancelling` with `running` (`:170`)
  and calls, and `cancelling` is written on a row that has just finished. A job
  that stalls twice is failed by BullMQ, and its row, still running or queued, is
  repaired by nobody, since the reconciliation looks for rows without a job. A
  crash between the outcome in the row and in BullMQ calls the Java service again.
- Transfers. A backup whose request names a target database and a conflict
  strategy is queued without approval (`db-query.service.ts:484-506`), and
  `runTransfer` then drops and creates the tables there (`:664-668`). A
  cancellation between the look and the preparation of a table lets both the DROP
  and the CREATE through. `readBatch` has LIMIT and OFFSET and no ORDER BY
  (`:849`), so that pages may overlap or skip rows of a table that nobody
  changes (`shuffled`). The rule for retries looks at `migratedRows`: fail, retry
  with `replace` (which sets it to zero), cancel before the table is dropped,
  retry with `append`, and rows are there twice. So are they after a crash
  between `insertBatch` and the update that counts it. A sweep of a slow executor
  says that the task was stopped safely while it goes on, and after a retry two
  run. A cancellation or a retry that comes late is written by id; a success
  overwrites a cancellation that was asked for. If the last update fails too, the
  row runs until it is swept.
- Previews of requirements. A status call that read `ready` before a stop
  writes it after the stop (`k8s-preview.service.ts:331`), even when the
  requirement has ended in between, although
  `src/docs/requirements-pipeline.md` lets a requirement end only when its
  previews have stopped. Nothing reconciles such a row; it blocks
  archiving until someone asks for its status or stops it. A late call can
  also publish an endpoint for resources that are deleted, or one that resolves
  for a moment to a session that has not the branch; `MisrouteEnds` shows that
  the latter does not last. `removeProject` ignores previews that failed.
- `createProjectBranch` creates the branch before its row: a branch left by a
  crash blocks each retry until it is deleted by hand.

## 6. Plan

Done: the lock; workspaces, sessions and removal; generation; preview builds;
import; transfers; scheduled tasks; previews of requirements and their routes;
and the safety proofs of these, with the exceptions named in section 4. The order
was that of importance: first what every write depends on, then what users lose
work or capacity by, then what reaches databases and services outside.

Next, the modules:

1. `Deployment`: row, records and background build, two pods, two bindings
   (`deploy.service.ts:190-330`, `deployment-center.service.ts:200-260`). Each
   record tells the outcome of its own build; a row leaves `building`. It goes
   on where `Prepare` of ProjectWorkspace ends.
2. `Requirement`: stages and their order, the branch of a developer in Git and in
   the row, with the check of `updatedAt`.
3. `PreviewSource`: the Secret of a session against the builds of its attempts,
   to be composed with PreviewBuild and PreviewRouting.
4. `McpApproval`, `Sandbox`, `Alerts`, in that order. An abstract `SingleUse`
   (granted, used once, over) fits approvals, scheduled runs and transfers, and
   each can be shown to implement it.

Proofs, in order of value:

- `SingleUse` (above) implemented by the occurrences of `ScheduledTask`, claimed
  by a dispatcher, and by the approvals of `DatabaseTransfer`.
- The executors of a transfer as an `ExclusiveSection`, on behaviours where
  nothing comes too late on it.
- The safety halves of `TransfersEnd`, `ImportEnds` and `RemovalEnds`, in the way
  of `AttendedAlways`.
- Routes: what an endpoint that resolves to the wrong branch still has ahead of
  it, the safety half of `MisrouteEnds`.
