# Verification of previa

TLA+ models of [previa](../src/README.md), a self-hosted service that builds and
serves preview environments: one per branch of a project, each behind its own URL,
at most `max_active_instances` of them at a time. The models are translated from
`src/api/src` (the NestJS API), `src/core` (the shell scripts it runs) and the parts
of `src/web` that keep state of their own. Every definition names the lines it
stands for in [PROJECT.json](PROJECT.json), under `map`; hazards, runs, findings and
theorems are listed there too.

## 1. The system

### Components

| Component | State | Operations | What makes it correct | Modelled in |
| --- | --- | --- | --- | --- |
| Preview instance lifecycle (`preview-instances.service.ts`) | the rows of `preview_instances`; `suppressDeployFinalize` in memory | reserve or queue, finalize a deploy (classic, zero-downtime, health check), activate, pause, sleep, wake, destroy, cancel, restart, process the waiting queue; the same over all previews of a project | the limit holds; a deploy in progress is owned by somebody and ends; a row at rest tells the truth about the runtime; a freed slot is offered | `InstanceLifecycle`, `PreviewSlots`, `BulkOperations` |
| Deploy worker and queue (`deploy/`) | BullMQ jobs under a stable id per preview, the pid file of a running script | webhook, `createAction`, `destroyAction`, kill | one deploy per preview; every failure ends in a status | `InstanceLifecycle` |
| Wake queue and endpoint (`wake-queue.ts`, `wake.controller.ts`) | a map of promises, a queue, a count | enqueue, run, settle, forget | one wake per preview, bounded concurrency, everybody is answered | `WakeQueue`; what a wake does, in `InstanceLifecycle` |
| Core scripts (`core/bin`, `core/lib/common.sh`) | `*.port` and `*.live` files, location files, nginx's loaded configuration, runtimes | deploy, promote-zd, abort-zd, pause, sleep, destroy | no port is two previews'; a URL leads to its own preview; a zero-downtime deploy never takes the live one down | `PreviewScripts` |
| Lifetime scheduler | none: a loop over rows each minute | pause, sleep, destroy what has expired | what has expired goes, in any status | `BulkOperations` |
| Projects | `projects` rows | settings, operations over all previews | every combination of settings was checked; a switch is checked | `ProjectSettings`, `BulkOperations` (partly) |
| Resources (databases beside previews) | `provisioned_resources` rows, port files, containers | create, edit, start, stop, remove | ports apart; what is shown is what runs | `Resources` |
| ClickUp and Discord | task columns of the row | comment, link, refresh, message | a task is commented on once; a link by hand stands | `Notifications`; `InstanceLifecycle` (the refresh beside a deploy) |
| Cluster | `cluster_nodes`, `cluster_keys` | merge what all nodes answer, send commands, test connections | a page is a page of the union; a row grants no more than its key | `ClusterViews`, `ClusterCalls` |
| Metrics | table of requests, log cursors in memory | tick, tail, insert, prune | no line twice, none lost, the collector catches up | `Metrics` |
| Amplify | AWS's branches | list, host, delete | the limit; jobs beside their branches | `Amplify` |
| Users and sessions | `users` rows, JWTs | register, login, change, remove | an administrator remains | `Accounts` (partly) |
| Environment editor and files | a table, a text, a saved map; env files | edit, load, switch, save, reload; merge for a process | what is shown is saved; what is saved reaches the process | `Environment` |
| Instance page of the panel | the row shown, a lock, requests under way | six actions, polls, saves, reloads | it stops showing what has ended | `InstancePage` |
| Demo backend of the panel | an in-memory store and timers | the handlers that change it, reset | a deploy somebody asked for ends | `DemoBackend` (partly) |
| Settings | key/value rows | patch | a raised limit is seen by the next reservation | `InstanceLifecycle` (the limit) |
| Dashboard and instances API | none | summary, routing of a command to its host | the merge | `ClusterViews`, `ClusterCalls` (partly) |
| The rest of the web UI; CLI, installer, GitHub actions | – | – | – | no (section 6) |

### How they interact

```
 webhook ──► BullMQ `deploy` queue ──► createAction ─┐            ┌─► rows (Postgres)
 dashboard, scheduler ──► requests, bulk loops ──────┼─ service ──┤
 a hit on a sleeping URL ──► wake queue ──► doWake ──┘            └─► core scripts ──► port files,
 another panel ──► cluster API ──► the same requests                                   runtimes, nginx
```

All flows run in one Node process and interleave at every `await`. What makes the
interleavings hard:

* a flow holds a row across a script or a request of seconds or minutes, and
  `repo.save()` then writes the row it read, even inserting it again after a delete;
* a BullMQ job id is stable per preview: an `add` while a job with that id exists,
  even one in its last lines, is ignored without an error;
* a slot is taken in one place, under a lock, and given back in a dozen, of which
  only some process the waiting queue, and the bulk loops only after their last visit;
* the scripts of different previews and resources share the port range, and those of
  previews one nginx, whose reload loads the location files of all;
* check and act are apart: the last administrator, the slots of Amplify and the settings
  of a project are counted or read in one query and written in a later one, and
  `repo.save()` itself reads the row again before it writes the columns that differ;
* answers come late or not at all: other hosts are given 12 seconds, a browser polls.

## 2. The modules

| Module | What it is |
| --- | --- |
| `PreviewSlots` | The abstract contract: the status of each preview, who holds a slot, which changes of status there are. |
| `InstanceLifecycle` | One preview's flows through the API: rows, queue, wakes, requests. Under `SerialSpec` it implements `PreviewSlots`. |
| `PreviewScripts`, `MCPreviewScripts` | The scripts step by step: ports, colors, location files, reloads. The MC module adds symmetry. |
| `BulkOperations` | The loops over many previews and the scheduler's, beside deploy jobs. |
| `WakeQueue` | The queue of wakes with its promises and microtasks. |
| `ProjectSettings` | Settings of a project and a preview, and the deploy that reads them at three points. |
| `Resources` | Shared Docker services, their scripts and port files. |
| `Notifications` | ClickUp and Discord beside one preview. |
| `ClusterViews`, `ClusterCalls` | What a panel shows of other hosts; what it sends them and keeps of them. |
| `Metrics` | The collector and the tail of an access log. |
| `Amplify`, `Accounts`, `Environment` | AWS branches; users and sessions; environment variables from the editor to the process. |
| `InstancePage`, `DemoBackend` | The instance's page in the browser; the store of the demo mode. |
| `MCServices`, `MCProgress` | For TLC: the services without and with liveness, one per behaviour. |
| `InstanceLifecycle_proofs`, `SerialLifecycle_proofs` | Theorems about one preview's flows, under any overlap and one at a time, and that the latter implement the contract. |
| `PreviewScripts_proofs`, `Resources_proofs`, `Environment_proofs` | Theorems about scripts and ports, resources, environment variables. |
| `Progress_proofs` | Theorems about the parts of `MCProgress`: wakes, bulk operations, collector, page. |
| `Services_proofs` | Theorems about the other services and about `MCServices` as a whole. |

**The MC modules.** The services beside the deploys share no variable and none waits for
another, so that a product of them would multiply states and show nothing more than each
alone. `MCServices` and `MCProgress` therefore choose one service in the initial state
(`part`) and let the others rest as they begin. Constants are small sets given in the
`.cfg`; versions of an environment are symmetric, and so are the requests that change
a project.

`InstanceLifecycle`, `PreviewScripts` and `BulkOperations` model the same system at three
levels and are not composed: the first takes a script as one or two steps with the
effect the second gives in full, the second keeps of the API the order in which it calls
scripts, and the third keeps of a deploy that it takes a slot, runs and serves the queue.

### InstanceLifecycle

*State.* `row[i]` is the row of preview *i* as far as control depends on it: status,
`idlePaused` (`idle`), `zeroDowntimeInProgress` (`zdip`). `newer` is the order of
`createdAt`, which the waiting queue follows. `job[i]` is the BullMQ job of the id
`deploy:<slug>:<branch>`: `plain` from the waiting queue, `forced` when it carries
`force`. `rt[i]` is the live runtime, where nginx leads the URL, and
the staging runtime. `suppress` is `suppressDeployFinalize`, `limit` is
`max_active_instances`.

*Tasks.* A task is one asynchronous flow about one preview: the worker's run of its
job, its `doWake`, or a request of a client. Its `pc` says which long `await` it is
at, `snap` is the row it holds across it and `cap` the limit it read before the lock.

*Actions.* Each is the code between two long awaits:

| Actions | Code |
| --- | --- |
| `Webhook`, `RequestWake` | `DeployService.enqueueDeploy`, `WakeController.wake` |
| `StartJob`, `EndJob` | `DeployProcessor.createAction` from pick-up to its first await, and BullMQ's removal of the finished job |
| `StartWake`, `PollDeploy` | `doWake` up to its reservation, and its poll of a deploy in progress |
| `Reserve`, `ReserveActivate` | `reserveDeployOrQueue`, one transaction (`Verdict`, `Reserved`, `TakeSlot`) |
| `Build`, `Start`, `BuildFails`, `StartFails` | `deploy.sh` and `resume.sh`, as the API waits for them |
| `Meta`, `Healthy`, `Unhealthy`, `PauseUnhealthy`, `QueueUnhealthy` | `awaitHealthCheckAndFinalize`, `finalizeHealthCheckFailure` |
| `StagingHealthy`, `StagingUnhealthy`, `Promote`, `PromoteFails`, `Flip`, `AbortStaging`, `SaveAborted` | `awaitZeroDowntimeHealthCheckAndFinalize`, `finalizeZeroDowntimeFailure` |
| `FinalizeDeployError`, `Schedule` | the worker's and the wake's catch, `processWaitingQueue` |
| `Begin`, `FinishScript`, `ScriptFails`, `SaveTaskInfo`, `EnqueueForced` | the requests: pause, sleep, destroy, activate, ClickUp refresh |
| `Kill`, `JobGone`, `JobStuck`, `Cancel`, `Restart` | `stopInFlightDeploy` and what follows it |
| `SetLimit`, `Crash` | the settings; the end of the process |

*Three specifications.* `Spec` lets any flows overlap. `SerialSpec` adds `OneFlow`:
one flow about a preview at a time, except a cancel or restart beside the script it
kills, and a job awaiting the wake it joined. **The code does not impose
`OneFlow`**; it is the discipline under which the stronger properties hold, and the
findings show what happens without it. Flows of *different* previews overlap freely
under it. `FairSpec` adds fairness to `SerialSpec` (section 4).

*Abstractions, and what they lose.*

* A row read immediately before it is saved, with no long await between, is read and
  saved in one step. The initial read and save of an activate is part of its
  reservation.
* A row that a stale save re-creates is identified with the deleted one.
* `HealthChecked` and `ZeroDowntime` are constant; settings that change while a deploy
  runs are `ProjectSettings`'.
* The wake of a docker preview, which goes through the job, takes the steps of a
  pm2 wake; the destroy job of the webhook takes those of the destroy request.
* Environment variables, git, logs, notifications and timestamps are left out.
* A `deploy.sh` orphaned by a crash, and a pause script that loses its race of 30
  seconds, are not continued.
* After a crash BullMQ runs a stalled job again or gives it up: both may happen.
* A rejected wake leaves a rejection nobody handles (the promise `finally` derives at
  `wake-queue.ts:29`). Whether the process then ends depends on how it is run; `Crash`
  covers that it does.

### PreviewScripts

*State.* `port[n]` is the file `<n>.port`, `up[n]` the port the runtime *n* listens on;
a name is a preview and a color (`zd_runtime_name`: the primary color bears the
preview's own name). `live[i]` is `<base>.live`, `file[i]` the location file,
`loaded[i]` what nginx has loaded, `script[i]` the script of *i* that runs.

*Actions* follow the scripts line by line: `Reserve` (`reserve_free_port`, under
`flock`), `StopOwn`, `Check` (the port is still free), `Start`, `WriteLocation`,
`Reload`, `Record` (stop of the old color, `.live`, base port), `Abort`, `StopBoth`,
`RemoveFiles`, and the calls the API makes after a deploy (`Healthy`, `Unhealthy`,
`PromoteFails`, `Kill`, `Settle`). `Failures` names what may go wrong: `build`, `start`,
`reload` (of a deploy or a stop), `promote` (the reload of `promote-zd.sh`), `kill`.

*Abstractions.* One script per preview at a time; scripts of different previews
interleave freely. Docker builds before it reserves, which a `build` failure before
`Reserve` covers. A failing start may leave its runtime behind. Runtimes that die by
themselves, processes foreign to previa and the ports of resources are left out.

### BulkOperations

`state[i]` is the row's status (`asleep`: paused with `idleSleep`), `old` and `tired`
whether the preview is past `max_existence_lifetime` and `max_active_lifetime`, `deploy[i]`
its job, `loop[l]` an operation at work: what the rows read at its start say is to be
done with each preview (`Due`), whom it is visiting, whether it freed a slot.
`BeginBulk`, `Visited`, `VisitEnds`, `VisitFails` and `EndBulk` are `pauseAllActiveForProject`,
`sleepAllActiveForProject`, `awakeAllIdleForProject`, `restartAllForProject`,
`destroyAllForProject` and `enforceLifetimeLimits`; `ServeQueue` is `processWaitingQueue`; `DeployHeld`, `ReserveHeld`, `Deployed` are what deploys do to
rows and slots meanwhile. Deploys and wakes succeed here: `InstanceLifecycle` has those
that fail, and the finding `build_fails_waiting` shows that a failing one serves nobody.

### WakeQueue

`pending`, `activeCount` and `inflight` are the fields of the class; `waking` says whose
job runs and `awaits` which promise each request awaits. A job settles its promise before
the microtask of `promise.finally` removes it from the map, and `EnqueueWake` may come in
between. `WakeEnds` stands for success and failure alike, since both settle.

### The services

* `Resources`: a request is at one of nine points (`RequestPC`), between two commands that
  take time, and holds the row it read. `AllocatePort` and `ForgetPorts` are what
  `resource-up.sh` and `resource-down.sh` do to port files; several replicas and several ports of
  one resource are one. One request at a time is at work on a slug; requests on
  different slugs interleave.
* `Notifications`: a flow looks a task up in one workspace after another, posts, and
  saves the row it read. `Post` may be taken by ClickUp and its answer be lost, `SaveFails` is a
  refused save, `ApiStops` the end of the process, each of which leaves a posted comment
  unnoted; `lost` counts those. A pause and the end of a wake, which hold the row across
  a script, are one step each. With `Overlapping = FALSE` nothing that saves the row begins
  beside another; removals, messages and stops still do.
* `ClusterViews`: nodes are asked in turn while they go on writing rows; `FetchSize`,
  `PageOf` and `SummaryRows` are the arithmetic of pages. A row is its time, and the newest
  first are found by their rank (`NewestFirst`: how many are newer).
* `ClusterCalls`: `nodeRow` holds how often the credential has been encrypted and the scope last
  tested. `GetPlainApiKey` and `SetScope` save rows read earlier; a fetch may time out
  while the remote host works on.
* `ProjectSettings`: `patch[c]` is a request from its read and checks of a project
  (`ReadProject`) to its save, whose query (`SelectProject`) and UPDATE of the columns that
  differ (`UpdateProject`) are steps of their own; `crossed` is a history variable, true once an
  UPDATE met another row than its query found. `rollout` is the deploy, which reads the flags at its reservation, the environment before the
  script and the health check path after it.
* `Metrics`: the log is a sequence of numbered lines with rotation, truncation and expiry;
  `IngestLog`, `InsertBatch`, `InsertFails` and `Prune` are the steps of a tick, and
  `CollectorRestarts` loses the cursor. `upTo` is the `stat` of the file at the beginning of
  the tick, size and inode, which becomes the cursor at its end even if the file was rotated
  meanwhile. A batch is the set of lines still to be inserted, the earliest first.
* `Amplify`: pages of `ListBranches`, the count before `CreateBranch`, and `mapPool`, whose
  workers share an index across awaits.
* `Accounts`: each request between its reads and its save; JWTs keep the role they were
  issued with; a restart makes the oldest user an administrator when there is none.
* `Environment`: a value is a sequence over letter, backslash, quote and line feed;
  `Escape`, `Unescape`, `ParseDotenv`, `MergeAppEnv` and the two ways to a process are
  operators, the editor's tabs, edits, files, saves and reloads are actions.
* `InstancePage`: the server's row changes at any time; an answer brings the row as it was
  read. `ServerRow` names what the page tells apart.
* `DemoBackend`: timers are counted; a reset replaces the store under a handler that waits
  and under timers that are not cancelled.

*Saves.* TypeORM's `save` queries the row as it is and then writes the columns in which
the row it was given differs, in an await of its own. `ProjectSettings` has both steps,
because its rule relates two columns and their crossing breaks it (section 3). In the other
modules a save is one step that writes the row as it was read. What that leaves out is
another save of the same row *between the query and the UPDATE*, after which the row mixes
columns of two saves; saves of rows read long before are all there. Of the properties:

* `AdminRemains`, `CommentedOnce`, `ManualLinkStands` are asked of runs in which no two
  saves of one row are under way, and those of `serial` of flows of which no two save the row of
  one preview at once, by `OneFlow`, so that no crossing is missing from them;
* `DeployKeepsItsId` and `SuppressIsTemporary` speak of jobs and keys, not of rows, and
  hold whatever rows say;
* `NodeRowsAreTrue` says of each column by itself what every request's row satisfies, and
  so holds of a mixture too;
* `RunningIsReachable` is shown for the coarser steps only: an edit of a resource whose
  UPDATE falls between the query and the UPDATE at the end of a start keeps the new
  environment in the row of a container that runs with the old one.

## 3. What the runs check

`p` and `q` are previews; where both are there, `p` is zero-downtime and
health-checked and `q` is neither, unless said otherwise.

| Run | Configuration | Properties | Distinct states |
| --- | --- | --- | --- |
| `serial` | `SerialSpec`, `{p, q}`, limit 1, concurrency 2, all requests of a preview, failing scripts | `SlotLimit`, `InProgressIsOwned`, `ActiveServes`, `PausedIsStopped`, `KeepsSlotContract`, `ReservationKeepsLimit` | 223 000 |
| `overlap_one` | `Spec`, `{p}`, everything: stale saves, crashes, failing stops and cutovers, jobs that outlast the kill, limits 1 and 2 | `TypeOK`, `DeployKeepsItsId`, `SuppressIsTemporary` | 1.3 million |
| `deploy_ends` | `FairSpec`, `{p, q}`, limit 1, everything of `serial` but cancel and restart | `DeployEnds` | 97 000 |
| `scripts` | two previews, three ports, failures `build`, `start`, `kill` | `TypeOK`, `UrlStaysOwn`, `ActiveIsLive`, `OnlyStoppedByItself` | 811 000 |
| `scripts_reload` | the same with failures `reload`, `promote` | `PortsDisjoint`, `StartFindsPortFree` | 4 million |
| `services` | `MCServices` | `ServicesTypeOK`, and per service those of the next table | 770 000 |
| `progress` | `MCProgress` under `ProgressSpec` | `ProgressTypeOK`, and per part those of the next table | 150 000 |

| Part | Bounds | What is shown |
| --- | --- | --- |
| resources | 2 slugs, one of them compose, 2 ports, 2 versions of the environment, docker may refuse | `ResourcePortsApart`; `RunningIsReachable`: the address and credentials shown of a running resource are those it runs with |
| notifications | 2 tasks, 2 workspaces in every ownership, 1 flow at a time, up to 3 comments of one row, lost answers, refused saves and stops at any step | `CommentedOnce`: a comment is repeated only for one that was lost; `ManualLinkStands` |
| views | 2 remotes and the panel, up to 3 rows, pages 1 and 2 of size 1 and 2 | `MergesAreGlobal`: pages, totals, the summary and the names of silent nodes |
| calls | 1 node with either key, removed and registered again, 2 requests | `NodeRowsAreTrue` |
| settings | 2 requests at once, 2 environments, 1 deploy | `OnlyCrossingBreaksRule`: zero downtime lacks a health check path only after two saves crossed between query and UPDATE; `SwitchIsChecked` |
| amplify | 3 branches, 1 hidden, limit 1, 2 requests, pages of 2, 2 workers | `HostingKeepsLimit`: requests that overlap exceed it by less than their number; `RowsMatchBranches` |
| accounts | 2 addresses, 3 users ever, 1 request at a time, sessions out of date | `AdminRemains` |
| environment | 2 rows, a key and a draft, values with letters, line feeds, quotes, backslashes | `ShownIsCommitted`, `SettingsReachProcess` |
| demo | 1 instance, 2 users, 2 branches, 2 timers | `DemoDeployHasTimer` |
| wakes | 3 previews, 3 requests, 1 place | `WakeQueueAgrees`, `WakesAnswered` |
| bulk | 2 previews, 1 slot, one operation at a time among all six, the scheduler fair | `FreedSlotsAreOffered`, `ExpiredIsRemoved` |
| metrics | 3 lines, 1 rotation, 1 restart, inserts of 1, 2 rows kept | `LineStoredOnce`, `CollectorCatchesUp` |
| page | 5 kinds of row, waits of 2, 1 poll, a reload | `SwitchDisappears` |

*Why the bounds are enough.* Previews interact through slots, queue positions, ports
and reloads, each of which two can contend for: with limit 1 the second must wait, and
with three ports for two previews of two colors each the range runs out. One
zero-downtime preview beside a classic one exercises both paths and their contention.
`overlap_one` needs one preview: its properties are about the flows of one preview,
and job, wake and client already give three that overlap. With one client a preview
has one request in flight; two requests of the same preview at once are not run.
Among the services, two requests are what a stale row or a check that is apart from its
act needs; three wakes on one place make a queue with somebody running, first and
second; three lines and inserts of one leave a batch half inserted; page 2 of size 2
reaches past what one node holds. Where several operations at once would be too many
states (`bulk`, one loop), the theorems of section 5 cover any number.

*Deadlock* is checked everywhere but in `progress` and `log_line_lost`, where the log is
bounded: once all its lines are written, expired and collected, nothing is left to do.

A cancel and a restart are left out of `deploy_ends`: an operator who restarts a
deploy again and again keeps it deploying, which is what was asked.

`UrlStaysOwn` and `ActiveIsLive` are not asked of runs where nginx refuses the reload of
a stop, because there they fail: `destroy.sh` has given its ports back when its reload
fails, so that nginx leads the old URL to whoever gets the port next, and a stop that
fails leaves an active row without a runtime. `OnlyStoppedByItself` is not asked where the
reload of a cutover fails (below). The repository promises nothing about these; they are
listed as hazards.

### Findings: where the code does not do what it says

Each is a `violation` run: TLC finds the trace.

* `stale_pause` / `SlotLimit`. A pause saves the row it read before `pause.sh`. A
  redeploy of the preview that began meanwhile loses its `deploying`, its slot is
  given to a waiting preview, and its own end makes it `active` again: two active
  previews under a limit of one, against "slots are reserved atomically (`active` +
  `deploying`) so the limit is not exceeded" (`docs/instances.md:8`).
* `promote_fails` / `ActiveNeverError`. A failed cutover is finalized by the
  zero-downtime code, which keeps `active`, and again by the worker's catch, which then
  sees an ordinary failure and writes `error`, against "Zero-downtime failures keep
  `active`" (`docs/instances.md:45`).
* `build_fails_waiting` / `WaitingServed`. A failed build frees its slot without
  processing the waiting queue; the preview that waits is not deployed until some
  other flow processes it.
* `admin_removed` / `AdminRemains`. Two requests count two administrators and then
  remove one each, against "Não é possível remover o último administrador"
  (`users.service.ts:111`).
* `log_line_lost` / `LinesAreStored`. A tick that continues from its cursor drops the text up
  to the first newline, as if it had begun inside a line; the cursor stands after a newline,
  and the first request after every tick is lost (`docs/metrics.md:13`).

The following disagreements can be reproduced with the constants given. In
`InstanceLifecycle` (one client, concurrency 2, `HealthChecked` and `ZeroDowntime` empty
unless said):

* an activate reserves its slot while the previous job is in its last lines; the stable id
  makes BullMQ ignore the new job, and the row stays `deploying`: `{p}`, `webhook`,
  `activate`, `Spec`, `InProgressIsOwned`;
* a restart reserves no slot: `{p, q}`, both health-checked, operations `webhook`,
  `restart`, limit 1, `Spec`, `SlotLimit` — a health check that fails between the
  restart's read of the row and its save frees the slot that the save takes again;
* a ClickUp refresh saves the row it read before the request, undoing a status a deploy
  wrote meanwhile: `{p}`, `webhook`, `clickup`, `InProgressIsOwned`;
* raising the limit does not process the waiting queue: `{p, q}`, `webhook`, `limit`,
  limits 1 and 2, `FairSpec`, `WaitingServed`;
* the job of a waiting preview is added while the job that queued it still holds the
  id, and is lost: `{p, q}`, `webhook`, `destroy`, `FairSpec`, `WaitingServed`;
* a restart whose interrupted job outlasts 20 seconds adds a job that is ignored
  (`preview-instances.service.ts:389`).

In the other modules:

* `promote-zd.sh` writes the location file before its reload; if nginx refuses, the staging
  runtime is aborted but the file keeps its port, and the next reload, of any preview, takes
  the live one down: `PreviewScripts` with failures `promote`, `OnlyStoppedByItself`;
* `resource-down.sh:37` also removes the port files of a resource whose slug extends the
  one it stops: `Resources` with `Extends = {<<"a", "b">>}`, `ResourcePortsApart`;
* two PATCHes of a project both query its row to save it before either writes: one clears the
  health check path, the other, checked before, turns zero downtime on; each writes only its own
  column, and the project has zero downtime without a path, against "**Required** to enable
  zero-downtime deploys" (`docs/instances.md:29`): `services.cfg` with `ZeroDowntimeNeedsHealth`
  as INVARIANT;
* a comment that ClickUp took is repeated by a later wake when its answer was lost, the save of
  `clickupCommentedAt` failed or the API stopped in between, although the column is there to
  avoid spam on a wake (`preview-instance.entity.ts:64`): `Notifications` with one flow,
  `comments <= 1`;
* two ClickUp flows that overlap comment twice without any loss, or undo a link:
  `Notifications` with two flows and `Overlapping = TRUE`, `comments <= 1 + lost`;
* two requests to host a branch in Amplify each see the last free slot: `Amplify`,
  where `hosted` grows beyond `AppSlots`; `HostingKeepsLimit` says by how much;
* a value that holds a backslash before an `n` comes out of the env file with a line feed:
  `Environment`, `ShownIsCommitted` without `NoBackslash`.

## 4. Fairness

`FairSpec` assumes weak fairness of each flow's own next step (`RunStep`,
`RequestStep`, `Schedule`, `PollDeploy`, `EndJob`): the event loop runs every
continuation. `StartJob` and `StartWake` are strongly fair, because BullMQ and the wake
queue serve first in, first out, while under `OneFlow` other flows of the preview can
take turns with the start and disable it again and again. Clients are not fair, nor is
the failure of a script. That a script ends at all is an assumption about
the scripts: the API gives `deploy.sh` no deadline. A health check and a poll do have
one, which is why `Unhealthy`, `StagingUnhealthy` and the poll's end are always
possible.

`ProgressSpec` adds, per part:

* `WakeFairness`: a resume ends, with a result or an error, and the event loop runs the
  continuations of a settled promise (weak).
* `BulkFairness`: an operation goes on to its end (weak); the cron calls the scheduler each
  minute, whatever else operators ask for in between (strong, since an operation at work
  disables it); and from some time on no script fails — a preview whose `destroy.sh` fails
  for ever is never removed, and the code promises no more.
* `MetricsFairness`: a tick goes on, succeeding or failing (weak); from some time on the
  database and the log can be used.
* `PageFairness`: requests are answered or fail, the waits end, the interval polls on
  (weak); of polls sent again and again some are answered (strong).

## 5. What is proved

TLAPS proves the following for every set of previews, clients, limits, ports, nodes,
branches, users and lines, and every concurrency, under the named assumptions of the
modules: finite sets of previews and ports, ports and the limit positive, clients distinct from the
job and the wake, zero-downtime previews health-checked (as `zero-downtime.util.ts`
requires), polls and patches of the page distinct. Every invariant and every action property
that a passing run checks has a theorem; only liveness has none.

### The lifecycle of a preview

| Theorem | States | Argument |
| --- | --- | --- |
| `TypeCorrect` | `Spec => []TypeOK` of `InstanceLifecycle` | inductive; one lemma per group of actions |
| `ReservationsKeepLimit` | `Spec => ReservationKeepsLimit` | only `Reserve` and `ReserveActivate` leave `reserve` through a reservation (`OnlyReserving`); `TakeSlotKeepsLimit` adds one holder when the cardinality read is below the cap, and an active preview never gets the verdict `queued` because it holds a slot already |
| `DeploysKeepTheirId` | `Spec => []DeployKeepsItsId` | inductive with `TypeOK`: only `StartJob` takes a job's task out of `idle`, with a job present (`OnlyStartJobBegins`); only `EndJob`, `JobGone`, `FinishScript` and `Crash` remove one, each with the task idle after it (`JobsRemoved`) |
| `SuppressionIsTemporary` | `Spec => []SuppressIsTemporary` | inductive: a key is added by `Begin` with its cancel or restart (`OnlyBeginSuppresses`), which stays an interrupt until the step that removes the key (`InterruptStays`) |
| `FlowsFit` | `SerialSpec => [](Steady /\ Fits)` | the invariant below, from which the rest of this table follows |
| `InProgressHasOwner` | without crashes, `SerialSpec => []InProgressIsOwned` | `Ownership`: a step that takes away an owner ends the deploy or hands it on (`StaysOwned`) |
| `ActiveIsServed`, `PausedRunsNothing` | without failing stops, `SerialSpec => []ActiveServes`, `[]PausedIsStopped` | `Truthful` with `Fits`: a flow that writes `active` or `paused` has just seen to the runtime |
| `SlotsWithinLimit` | with a constant limit, `SerialSpec => []SlotLimit` | `CapsCurrent`: the cap a reservation read is still the limit; every other writer of `active` or `deploying` writes to a row that holds a slot already, which `Fits` says |
| `RowsKeepContract` | with a constant limit and cutovers that succeed, `SerialSpec => KeepsSlotContract` | the refinement: each action's change of status is an action of `PreviewSlots` or none |
| `OnlyCutoverFails` | when cutovers succeed, `SerialSpec => ActiveNeverError` | `Fits` at `fail`: a failing flow of an active preview has `zdip` or comes from a cutover |

None of `SlotLimit`, `ActiveServes`, `PausedIsStopped`, `InProgressIsOwned` is inductive: each
depends on what a flow that waits at an `await` takes for granted of a row it does not hold.
`Fits` says so flow by flow (`RunFits`, `RequestFits`): a build runs over a row that is
deploying, or active with `zdip`; a request that is at its script holds the very row
there is; a cancel is about something in progress. It is here that `OneFlow` counts: without
it `stale_pause` is the counterexample. `Meets` adds how flows about one preview that may run
side by side meet, a job and the wake it joined, a job and the request that stops it, and
`Shape` which flow can be at which step at all.

The hypotheses are failures under which the property is false: a failing cutover
(`promote_fails`), a failing stop and a crash, which leave an active row without runtime
and a deploying one without owner, and an operator who lowers the limit. Each of them is
otherwise part of the model (`overlap_one` runs them all), so that for instance `SlotLimit`
is proved with crashes, failing stops and failing cutovers. `serial` runs without
any, which satisfies every hypothesis.

### Scripts

| Theorem | States | Argument |
| --- | --- | --- |
| `ScriptsTypeCorrect` | `Spec => []TypeOK` of `PreviewScripts` | inductive |
| `PortsStayDisjoint`, `StartsOnFreePort` | `Spec => []PortsDisjoint`, `[]StartFindsPortFree` | both from `PortInv` below |
| `UrlsStayApart`, `ActiveStaysLive` | when the reloads of deploys and stops succeed, `Spec => []UrlStaysOwn`, `[]ActiveIsLive` | from `UrlInv` below |
| `OnlyStopsUnserve` | when no reload fails, `Spec => OnlyStoppedByItself` | from `UrlInv`: nothing another preview's script does to files or to nginx changes where a URL that is served leads |

`PortsDisjoint` is not inductive by itself: a start puts a runtime on the port a script
was given much earlier, and nothing in it says that the port is still the script's.
`PortInv` adds `Reservation`: a script between its reservation and its start holds the
port in the file of its own color. With it, another preview's reservation cannot
choose that port (`Free` excludes what other files hold), and so neither disjointness nor
the freedom of the port to start on is lost through the build.

`UrlInv` says of each preview where its location file and nginx's loaded configuration may
lead (`Leading`, `Leads`), which colors run on which files' ports at each step of each
script (`Placed`, `Equipped`, `ColorsApart`), and what serves an active row (`ActiveServed`).
A reload by *another* preview's script loads this preview's location file as it stands, in
the middle of its own script if so it happens: `Leads` therefore speaks of the file
before its reload. After a refused cutover the file goes on leading to the aborted color,
whose port is this preview's still; that is why `UrlStaysOwn` holds with failing
promotions, and `OnlyStoppedByItself` does not.

### Loops, queues and the page

| Theorem | States | Argument |
| --- | --- | --- |
| `FreedAreOffered` | `BulkSpec => []FreedSlotsAreOffered` | from `BulkInv` below |
| `WakeQueueIsRight` | `WakeSpec => []WakeQueueAgrees` | inductive with the types: the keys in the queue are distinct (`DistinctKeys`), so that the count grows by as many as the set of those `Pump` starts (`PumpKeepsPlaces`) |
| `LinesStoredOnce` | `MetricsSpec => []LineStoredOnce` | inductive with the types, and that the log holds no line that was not written |
| `LoopsKeepTypes` | `ProgressSpec => []ProgressTypeOK` | the invariants of the four parts together; the parts at rest stay as they began |

`FreedSlotsAreOffered` speaks only of times when nothing is at work. `BulkInv` says what
holds meanwhile (`Offered`): whenever somebody waits beside a free slot, a job is queued
or runs for a row that exists (`Served`), or an operation is at work that serves the queue
when it ends or removes those who wait (`WillServe`). A step then either frees no slot and
removes no such job or operation (`OfferStays`, `NoSlotFreed`), or sets `freed`, or
serves the queue (`ServeOffers`). `VisitsFit` is needed to know that an awake of all frees
nothing and a restart of all is never in the middle of a script.

### Services

| Theorem | States | Argument |
| --- | --- | --- |
| `ResourcesTypeCorrect`, `PortsStayApart` | `ResourcesSpec => []ResourcesTypeOK`; with `Extends = {}`, `[]ResourcePortsApart` | `PortsInv` adds that the port a start was given is still on file (`GivenIsOnFile`); a slug that extends another has its file removed by the other's stop (`ForgetPorts`) |
| `RunningStaysReachable` | with `SameProject = {}`, `[]RunningIsReachable` | `ReachInv`: a request that is about to save a running row knows what the container was started with. The hypothesis is needed because `resource-down.sh` stops a compose project, and with it every slug of that project |
| `CommentsOnce`, `ManualLinksStand` | `NotifySpec => []CommentedOnce`, `ManualLinkStands` | `NotifyInv`: what a flow read of link and comment is still so when it saves (`FlowFits`), of the comments ClickUp has, exactly those that were lost are neither noted nor about to be, and at most one is either (`CommentNoted`); each way to end a flow keeps that (`FlowMoveInv`), a stop with at most one flow to lose (`ApiStopsInv`). Both properties speak of flows that do not overlap |
| `MergesStayGlobal` | with `NodeRecent <= PanelRecent`, `ViewsSpec => []MergesAreGlobal` | `MergeInv`: while nodes are asked, the newest rows of all that was seen, as many as one node sends, are merged already. The code's constants are 15 and 20 |
| `RowsAreTrue` | `ClusterSpec => []NodeRowsAreTrue` | the rows *held by requests* satisfy the property too (`CallIsGood`): a late save writes a row that was good when it was read, and a node that some request refers to is not registered anew with another key |
| `OnlyCrossingsBreakRule`, `SwitchesAreChecked` | `SettingsSpec => []OnlyCrossingBreaksRule`, `SwitchIsChecked` | every row a request is about to save was checked, and until something crossed so is the project's (`RowsAcceptable`): an UPDATE that meets the row its query found makes the project's row the request's, whatever the age of what the request read; of the steps of a zero-downtime deploy only that of a passed check changes what is served |
| `HostingStaysInRoom` | `AmplifySpec => HostingKeepsLimit` | `RoomInv`, for *every* number *m* requests may have counted up to, branches and the requests that may still create one exceed *m* by the number of requests at most; with the limit alone it is not inductive, since branches removed behind a count bring it down |
| `RowsMatch` | `AmplifySpec => []RowsMatchBranches` | `PoolInv`: what was answered stands at the place of its target, and a worker rests only when every target is taken |
| `AccountsKeepTypes`, `AdminStays` | `AccountsSpec => []AccountsTypeOK`; of one request at a time, `[]AdminRemains` | `AdminInv`: what a request is about to save or delete leaves an administrator. The hypothesis is what the finding `admin_removed` is about |
| `DemoDeploysEnd` | `DemoSpec => []DemoDeployHasTimer` | `DemoInv`, with the types: a handler changes rows and timers in one step, a late one too |
| `RoundTrip` | a value without a backslash is read from an env file as it was written | see below |
| `ShownStaysCommitted`, `EditorKeepsTypes` | `EnvironmentSpec => []ShownIsCommitted`, `[]EnvironmentTypeOK` | `EditorFits`, with how table and text of one map relate: typing, files, tabs and reloads each commit what they show |
| `SettingsArrive`, `SettingsReach` | `EnvironmentSpec => []ProcessGetsSettings`; the same of the composition | each layer's map comes through writing and reading unchanged (`KeptAll`), and the last file that has a key wins |
| `ServicesKeepTypes` | `ServicesSpec => []ServicesTypeOK` | below |

`RoundTrip` and `KeptAll` speak of sequences of any length without an induction theorem:
`LeastOf` (a nonempty set of naturals has a least element) gives the first place at which
what is read differs from what was written, and one step of the reader at that place
refutes it. Characters are those of `Char` and any others.

*What TLC says of the invariants.* The inductive invariants of this section were model-checked before
they were proved, and hold on the constants of the runs: `Shape`, `Fits`, `Truthful`, `Ownership` and
`CapsCurrent` on `serial.cfg`, `PortInv` and `UrlInv` on `scripts.cfg`, and those of the
services on `services.cfg` (but `RoomInv`, which quantifies over all numbers). To repeat it, give
TLC the `_proofs` module and a copy of the `.cfg` with these names under `INVARIANTS`; for the scripts, a module
that adds `Symmetry`.

*The composition.* `MCServices` chooses a part and steps it. `PartsRun` shows that a
behaviour of `ServicesSpec` is a behaviour of every service, the one chosen by its steps and the
others at rest, so that each service's theorem carries over; `LoopsKeepTypes` does the same for
`MCProgress`.

*What the proofs changed.* Some operators were restated in a form that can be reasoned about and
says the same of the code: the newest rows by their rank instead of a recursive sort
(`NewestFirst`), the branches a listing has seen and the batch of a tick as sets, the
dotenv reader by the last line of each key (`LastAt`, `KeysAt`), and parts of long actions
by names of their own (`ResumesIdleSleep`, `CancelPendingDeployJob`, `ProbeOk`).

*Only model-checked.* Liveness, which needs fairness and `ENABLED`: `DeployEnds`,
`WakesAnswered`, `ExpiredIsRemoved`, `CollectorCatchesUp`, `SwitchDisappears`; and the
counterexamples of the `violation` runs.

## 6. Not modelled, and what is left

* Two scripts of one preview at once (`destroy.sh` beside the `deploy.sh` of a job): rows
  overlap in `InstanceLifecycle`, files do not in `PreviewScripts`. A composition of the two
  is the next module worth writing, with rows left active by a stop whose reload fails.
* Names: `instance_name` joins project and branch with a dash, so that distinct previews can
  share a name, and `foo.next` is the staging color of `foo`. `PreviewScripts` takes
  previews whose names differ.
* Ports shared by previews *and* resources: each module has its own range.
* Settings other than the limit, project creation, API keys and cluster keys as rows, the
  setup pages: single inserts and queries that nothing races with.
* The contents of host samples, of git, docker and pm2 listings, of texts and messages:
  read-only, and without a property that tells them apart.
* The demo's resources and notifications; the rest of the web UI, which renders and calls
  the API, and so is contained in "any request at any time"; the CLI, the installer and the
  GitHub actions, which run once, in sequence.

Theorems worth attempting next: that `PreviewScripts` provides what `InstanceLifecycle` assumes
of a script (its `rt`), by a refinement between the two; and what of `SerialSpec`'s properties
survives flows that overlap, for instance `SlotLimit` with pauses whose saves are not stale.

## 7. Running it

```
tlc -workers 2 -config serial.cfg InstanceLifecycle.tla
tlc -workers 2 -config scripts.cfg MCPreviewScripts.tla
tlc -workers 2 -config services.cfg MCServices.tla
tlc -workers 2 -config progress.cfg MCProgress.tla
tlapm SerialLifecycle_proofs.tla
tlapm Services_proofs.tla
```

`progress`, `services`, `overlap_one` and `scripts_reload` take one to two minutes; the
others less.
