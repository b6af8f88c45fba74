-------------------------- MODULE InstanceLifecycle --------------------------
(***************************************************************************)
(* The life of a preview instance as previa's API drives it: the rows of   *)
(* preview_instances, the BullMQ `deploy` queue, the wake queue, the       *)
(* requests of the dashboard and of the scheduler, and what the core       *)
(* scripts do to the runtime and to nginx.                                 *)
(*                                                                         *)
(* A task is one asynchronous flow of the API about one preview: the       *)
(* worker running its deploy job, its doWake, or a request of a client.    *)
(* Each action is the code between two long awaits of a task (a core       *)
(* script, a health check, a poll, a queue).  A row read immediately       *)
(* before it is saved is read in the same action; a row read before a long *)
(* await is kept in the task's `snap`, and repo.save() writes the whole    *)
(* snapshot back, inserting the row again when it has been deleted.        *)
(***************************************************************************)
EXTENDS Naturals, FiniteSets

CONSTANTS
  Instance,       \* the previews: one (project, branch) pair each
  Client,         \* sources of requests: each has one in flight per preview
  Operations,     \* the requests and the failures that may happen
  HealthChecked,  \* previews whose project has a health check path
  ZeroDowntime,   \* previews with effective zero-downtime deploys
  Concurrency,    \* PREVIA_DEPLOY_CONCURRENCY, for jobs and for wakes
  Limits,         \* values max_active_instances may be set to
  InitialLimit

ASSUME InstanceAssumption == IsFiniteSet(Instance)
ASSUME ClientAssumption == Client \cap {"job", "wake"} = {}
ASSUME ZeroDowntimeAssumption ==
  ZeroDowntime \subseteq HealthChecked /\ HealthChecked \subseteq Instance
ASSUME LimitAssumption ==
  Limits \subseteq Nat \ {0} /\ InitialLimit \in Nat \ {0}
ASSUME ConcurrencyAssumption == Concurrency \in Nat \ {0}

VARIABLES
  row,       \* row[i]: the row of preview_instances, status "none" if absent
  newer,     \* newer[i]: the previews whose rows were created after i's
  job,       \* job[i]: the BullMQ job deploy:<slug>:<branch>, waiting or active
  task,      \* task[t]: where each asynchronous flow is
  suppress,  \* suppressDeployFinalize
  limit,     \* max_active_instances
  rt         \* rt[i]: the live runtime, its nginx location, the staging runtime

vars == <<row, newer, job, task, suppress, limit, rt>>

-----------------------------------------------------------------------------
Status == {"none", "waiting", "deploying", "active", "paused", "error"}
Row == [status : Status, idle : BOOLEAN, zdip : BOOLEAN]
NoRow == [status |-> "none", idle |-> FALSE, zdip |-> FALSE]

JobState == {"none", "plain", "forced"}

Runtime == [app : BOOLEAN, location : {"none", "app", "wake"}, staged : BOOLEAN]
NoRuntime == [app |-> FALSE, location |-> "none", staged |-> FALSE]
Asleep == [NoRuntime EXCEPT !.location = "wake"]

Kind == {"job", "wake"} \cup Client
Task == Kind \X Instance
Job(i) == <<"job", i>>
Wake(i) == <<"wake", i>>
Runs == {"job", "wake"} \X Instance
Requests == Client \X Instance

PC == {"idle", "queued", "poll", "await", "reserve", "build", "start", "meta",
       "health", "promote", "flip", "zdabort", "zdsave", "hcpause", "hcqueue",
       "fail", "schedule", "tail", "script", "enqueue", "kill", "gone",
       "stopped", "fetch"}
Op == {"none", "deploy", "cutover", "activate", "pause", "sleep", "destroy",
       "cancel", "restart", "clickup"}
TaskState == [pc : PC, op : Op, zd : BOOLEAN, snap : Row, cap : Nat]
Idle == [pc |-> "idle", op |-> "none", zd |-> FALSE, snap |-> NoRow, cap |-> 0]

At(pc, op) == [Idle EXCEPT !.pc = pc, !.op = op]
Move(t, pc) == task' = [task EXCEPT ![t].pc = pc]
Goto(t, pc) == task' = [task EXCEPT ![t] = At(pc, task[t].op)]
End(t) == task' = [task EXCEPT ![t] = Idle]

Quiet(i) == \A k \in Kind : task[<<k, i>>].pc = "idle"

-----------------------------------------------------------------------------
(* Slots and the waiting queue.                                            *)

Occupied == {i \in Instance : row[i].status \in {"active", "deploying"}}
Waiting == {i \in Instance : row[i].status = "waiting"}

\* Mutants of Verdict: a limit compared with > instead of >=, and a count that
\* forgets the previews still deploying.
VerdictOffByOne(i, cap) ==
  IF row[i].status = "active" /\ i \in ZeroDowntime THEN "run-zd"
  ELSE IF i \notin Occupied /\ Cardinality(Occupied) > cap THEN "queued"
  ELSE "run"
VerdictCountsActive(i, cap) ==
  IF row[i].status = "active" /\ i \in ZeroDowntime THEN "run-zd"
  ELSE IF i \notin Occupied
            /\ Cardinality({j \in Occupied : row[j].status = "active"}) >= cap
       THEN "queued"
  ELSE "run"

\* reserveDeployOrQueue, under the advisory lock; cap is the limit read before.
Verdict(i, cap) ==
  IF row[i].status = "active" /\ i \in ZeroDowntime THEN "run-zd"
  ELSE IF i \notin Occupied /\ Cardinality(Occupied) >= cap THEN "queued"
  ELSE "run"

Reserved(i, cap) ==
  CASE Verdict(i, cap) = "run-zd" -> [row[i] EXCEPT !.zdip = TRUE]
    [] Verdict(i, cap) = "run" -> [NoRow EXCEPT !.status = "deploying"]
    [] Verdict(i, cap) = "queued" ->
         IF row[i].status = "waiting" THEN row[i]
         ELSE [row[i] EXCEPT !.status = "waiting", !.zdip = FALSE]

TakeSlot(i, cap) ==
  /\ row' = [row EXCEPT ![i] = Reserved(i, cap)]
  /\ newer' = IF row[i].status # "none" THEN newer
              ELSE [j \in Instance |-> IF j = i THEN {} ELSE newer[j] \cup {i}]

\* deployQueue.add with a stable jobId: a job already there wins.
Add(i, data) == [job EXCEPT ![i] = IF @ = "none" THEN data ELSE @]

\* processWaitingQueue: the oldest waiting rows, one per free slot.
NextWaiting ==
  {i \in Waiting :
     Cardinality(Occupied)
       + Cardinality({j \in Waiting : i \in newer[j]}) < limit}
ProcessWaitingQueue ==
  job' = [i \in Instance |->
            IF i \in NextWaiting /\ job[i] = "none" THEN "plain" ELSE job[i]]

-----------------------------------------------------------------------------
(* How a run of the worker or of the wake queue ends.                      *)

\* The wake's promise settles; the job awaiting it goes on or rejects.
WakeSettled(i, next) ==
  [task EXCEPT ![Wake(i)] = Idle,
               ![Job(i)] = IF @.pc = "await" THEN At(next, "deploy") ELSE @]
Succeed(t) ==
  task' = IF t = Wake(t[2]) THEN WakeSettled(t[2], "schedule")
          ELSE [task EXCEPT ![t] = At("schedule", "deploy")]
Leave(t) ==
  task' = IF t = Wake(t[2]) THEN WakeSettled(t[2], "tail")
          ELSE [task EXCEPT ![t] = At("tail", "deploy")]

Running(kind, busy) == {i \in Instance : task[<<kind, i>>].pc \in busy}
WakeRunning == Running("wake", PC \ {"idle", "queued"})
JobRunning == Running("job", PC \ {"idle"})

-----------------------------------------------------------------------------
(* The deploy worker and doWake.                                           *)

\* A POST of the deploy webhook.
Webhook(i) ==
  /\ "webhook" \in Operations
  /\ job' = Add(i, "forced")
  /\ UNCHANGED <<row, newer, task, suppress, limit, rt>>

\* ensureAwake joins the wake in flight or queues one.
WakeQueued(f, i) ==
  [f EXCEPT ![Wake(i)] = IF @.pc = "idle" THEN At("queued", "deploy") ELSE @]

\* A hit on the sleeping preview's URL, or Awake in the dashboard.
RequestWake(i) ==
  /\ "wake" \in Operations
  /\ rt[i].location = "wake" \/ (row[i].status = "paused" /\ row[i].idle)
  /\ task' = WakeQueued(task, i)
  /\ UNCHANGED <<row, newer, job, suppress, limit, rt>>

\* A deploy enqueued before the idle sleep resumes, unless it is forced.
ResumesIdleSleep(i) == job[i] = "plain" /\ row[i].status = "paused" /\ row[i].idle

\* The worker takes a job: createAction up to its first await of a run.
StartJob(i) ==
  /\ job[i] # "none" /\ task[Job(i)].pc = "idle"
  /\ Cardinality(JobRunning) < Concurrency
  /\ IF ResumesIdleSleep(i)
     THEN task' = WakeQueued([task EXCEPT ![Job(i)] = At("await", "deploy")], i)
     ELSE task' = [task EXCEPT ![Job(i)] = [At("reserve", "deploy")
                                              EXCEPT !.cap = limit]]
  /\ UNCHANGED <<row, newer, job, suppress, limit, rt>>

\* doWake up to its reservation.
StartWake(i) ==
  /\ task[Wake(i)].pc = "queued"
  /\ Cardinality(WakeRunning) < Concurrency
  /\ CASE row[i].status = "active" -> Succeed(Wake(i))
       [] row[i].status = "deploying" -> Move(Wake(i), "poll")
       [] row[i].status = "paused" /\ row[i].idle ->
            task' = [task EXCEPT ![Wake(i)] = [At("reserve", "deploy")
                                                 EXCEPT !.cap = limit]]
       [] OTHER -> Leave(Wake(i))
  /\ UNCHANGED <<row, newer, job, suppress, limit, rt>>

\* The wake polls a deploy it found in progress, for two minutes at most.
PollDeploy(i) ==
  /\ task[Wake(i)].pc = "poll"
  /\ \/ row[i].status = "active" /\ Succeed(Wake(i))
     \/ row[i].status # "active" /\ Leave(Wake(i))
  /\ UNCHANGED <<row, newer, job, suppress, limit, rt>>

Reserve(t) ==
  LET i == t[2] IN
  /\ task[t].pc = "reserve" /\ t \in Runs
  /\ TakeSlot(i, task[t].cap)
  /\ CASE Verdict(i, task[t].cap) = "queued" -> Leave(t)
       [] OTHER ->
            task' = [task EXCEPT ![t] = [At("build", "deploy") EXCEPT
                       !.zd = t = Job(i) /\ Verdict(i, task[t].cap) = "run-zd"]]
  /\ UNCHANGED <<job, suppress, limit, rt>>

\* deploy.sh or resume.sh: a classic run stops the live runtime before it
\* builds; a zero-downtime run starts the staging color beside it.
Build(t) ==
  LET i == t[2] IN
  /\ task[t].pc = "build"
  /\ \/ ~task[t].zd /\ Move(t, "start") /\ rt' = [rt EXCEPT ![i].app = FALSE]
     \/ task[t].zd /\ Move(t, "meta") /\ rt' = [rt EXCEPT ![i].staged = TRUE]
  /\ UNCHANGED <<row, newer, job, suppress, limit>>

BuildFails(t) ==
  LET i == t[2] IN
  /\ "scriptFails" \in Operations
  /\ task[t].pc = "build"
  /\ Move(t, "fail")
  /\ IF task[t].zd THEN \E b \in BOOLEAN : rt' = [rt EXCEPT ![i].staged = b]
     ELSE UNCHANGED rt
  /\ UNCHANGED <<row, newer, job, suppress, limit>>

\* The rest of the classic script: build, start, location file, reload.
Start(t) ==
  /\ task[t].pc = "start"
  /\ Move(t, "meta")
  /\ rt' = [rt EXCEPT ![t[2]].app = TRUE, ![t[2]].location = "app"]
  /\ UNCHANGED <<row, newer, job, suppress, limit>>

StartFails(t) ==
  /\ "scriptFails" \in Operations
  /\ task[t].pc = "start"
  /\ Move(t, "fail")
  /\ \/ UNCHANGED rt
     \/ rt' = [rt EXCEPT ![t[2]].app = TRUE, ![t[2]].location = "app"]
  /\ UNCHANGED <<row, newer, job, suppress, limit>>

\* awaitHealthCheckAndFinalize up to the first probe: persistDeployMeta saves
\* the fresh row; without a health check the row becomes active at once.
Meta(t) ==
  LET i == t[2]
      saved == [row[i] EXCEPT !.idle = FALSE] IN
  /\ task[t].pc = "meta"
  /\ IF row[i].status = "none" THEN Move(t, "fail") /\ UNCHANGED row
     ELSE IF task[t].zd
     THEN task' = [task EXCEPT ![t].pc = "health", ![t].snap = row[i]]
          /\ UNCHANGED row
     ELSE IF i \in HealthChecked
     THEN task' = [task EXCEPT ![t].pc = "health", ![t].snap = saved]
          /\ row' = [row EXCEPT ![i] = saved]
     ELSE Succeed(t) /\ row' = [row EXCEPT ![i] = [saved EXCEPT !.status = "active"]]
  /\ UNCHANGED <<newer, job, suppress, limit, rt>>

\* A probe answers: setStatus(row, 'active') saves the snapshot of Meta.
Healthy(t) ==
  LET i == t[2] IN
  /\ task[t].pc = "health" /\ ~task[t].zd
  /\ rt[i].app
  /\ row' = IF task[t].snap.status = "active" THEN row
            ELSE [row EXCEPT ![i] = [task[t].snap EXCEPT !.status = "active",
                                                         !.idle = FALSE]]
  /\ Succeed(t)
  /\ UNCHANGED <<newer, job, suppress, limit, rt>>

\* Mutant of Unhealthy: the failed check stops the runtime but not the status.
UnhealthyKeepsStatus(t) ==
  /\ task[t].pc = "health" /\ ~task[t].zd
  /\ IF row[t[2]].status = "none" THEN Leave(t) ELSE Goto(t, "hcpause")
  /\ UNCHANGED <<row, newer, job, suppress, limit, rt>>

\* The deadline passes: finalizeHealthCheckFailure up to its pause script.
Unhealthy(t) ==
  LET i == t[2] IN
  /\ task[t].pc = "health" /\ ~task[t].zd
  /\ IF row[i].status = "none" THEN Leave(t) /\ UNCHANGED row
     ELSE Goto(t, "hcpause")
          /\ row' = [row EXCEPT ![i] = [NoRow EXCEPT !.status = "error"]]
  /\ UNCHANGED <<newer, job, suppress, limit, rt>>

\* pause.sh, raced against 30 seconds.
PauseUnhealthy(t) ==
  /\ task[t].pc = "hcpause"
  /\ Move(t, "hcqueue")
  /\ \/ rt' = [rt EXCEPT ![t[2]] = NoRuntime]
     \/ "stopFails" \in Operations /\ UNCHANGED rt
  /\ UNCHANGED <<row, newer, job, suppress, limit>>

QueueUnhealthy(t) ==
  /\ task[t].pc = "hcqueue"
  /\ ProcessWaitingQueue
  /\ Leave(t)
  /\ UNCHANGED <<row, newer, suppress, limit, rt>>

\* awaitZeroDowntimeHealthCheckAndFinalize: the staging runtime answers.
StagingHealthy(t) ==
  /\ task[t].pc = "health" /\ task[t].zd
  /\ rt[t[2]].staged
  /\ Move(t, "promote")
  /\ UNCHANGED <<row, newer, job, suppress, limit, rt>>

StagingUnhealthy(t) ==
  /\ task[t].pc = "health" /\ task[t].zd
  /\ Goto(t, "zdabort")
  /\ UNCHANGED <<row, newer, job, suppress, limit, rt>>

\* promote-zd.sh: nginx moves to the staging runtime, the live one is stopped.
Promote(t) ==
  /\ task[t].pc = "promote"
  /\ Move(t, "flip")
  /\ rt' = [rt EXCEPT ![t[2]] = [app |-> @.staged, location |-> "app",
                                 staged |-> FALSE]]
  /\ UNCHANGED <<row, newer, job, suppress, limit>>

\* The cutover fails: finalizeZeroDowntimeFailure, then the error is rethrown.
PromoteFails(t) ==
  /\ "promoteFails" \in Operations
  /\ task[t].pc = "promote"
  /\ task' = [task EXCEPT ![t] = At("zdabort", "cutover")]
  /\ UNCHANGED <<row, newer, job, suppress, limit, rt>>

Flip(t) ==
  LET i == t[2] IN
  /\ task[t].pc = "flip"
  /\ row' = [row EXCEPT ![i] = [NoRow EXCEPT !.status = "active"]]
  /\ Succeed(t)
  /\ UNCHANGED <<newer, job, suppress, limit, rt>>

\* finalizeZeroDowntimeFailure: the row is read, abort-zd.sh runs, it is saved.
AbortStaging(t) ==
  LET i == t[2] IN
  /\ task[t].pc = "zdabort"
  /\ IF row[i].status = "none"
     THEN UNCHANGED rt /\ (IF task[t].op = "cutover" THEN Move(t, "fail") ELSE Leave(t))
     ELSE /\ rt' = [rt EXCEPT ![i].staged = FALSE]
          /\ task' = [task EXCEPT ![t].pc = "zdsave", ![t].snap = row[i]]
  /\ UNCHANGED <<row, newer, job, suppress, limit>>

SaveAborted(t) ==
  /\ task[t].pc = "zdsave"
  /\ row' = [row EXCEPT ![t[2]] = [task[t].snap EXCEPT !.zdip = FALSE]]
  /\ IF task[t].op = "cutover" THEN Goto(t, "fail") ELSE Leave(t)
  /\ UNCHANGED <<newer, job, suppress, limit, rt>>

\* Mutants of FinalizeDeployError: every failure taken for one of a
\* zero-downtime deploy, and a status the entity does not know.
FinalizeErrorKeepsStatus(t) ==
  LET i == t[2] IN
  /\ task[t].pc = "fail"
  /\ row' = IF row[i].status = "none" \/ i \in suppress THEN row
            ELSE [row EXCEPT ![i].zdip = FALSE]
  /\ Leave(t)
  /\ UNCHANGED <<newer, job, suppress, limit, rt>>
FinalizeErrorUnknownStatus(t) ==
  LET i == t[2] IN
  /\ task[t].pc = "fail"
  /\ row' = IF row[i].status = "none" \/ i \in suppress THEN row
            ELSE [row EXCEPT ![i].status = "failed", ![i].zdip = FALSE]
  /\ Leave(t)
  /\ UNCHANGED <<newer, job, suppress, limit, rt>>

\* finalizeDeployError.
FinalizeDeployError(t) ==
  LET i == t[2] IN
  /\ task[t].pc = "fail"
  /\ row' = IF row[i].status = "none" \/ i \in suppress THEN row
            ELSE IF row[i].zdip /\ row[i].status = "active"
            THEN [row EXCEPT ![i].zdip = FALSE]
            ELSE [row EXCEPT ![i].status = "error", ![i].zdip = FALSE]
  /\ Leave(t)
  /\ UNCHANGED <<newer, job, suppress, limit, rt>>

\* processWaitingQueue at the end of a job or of a request.
Schedule(t) ==
  /\ task[t].pc = "schedule"
  /\ ProcessWaitingQueue
  /\ IF t \in Requests THEN End(t) ELSE Leave(t)
  /\ UNCHANGED <<row, newer, suppress, limit, rt>>

\* BullMQ removes the finished job and its id.
EndJob(i) ==
  /\ task[Job(i)].pc = "tail"
  /\ job' = [job EXCEPT ![i] = "none"]
  /\ End(Job(i))
  /\ UNCHANGED <<row, newer, suppress, limit, rt>>

-----------------------------------------------------------------------------
(* Requests: the dashboard's, the scheduler's and the destroy jobs.        *)

Interruptible(i) ==
  row[i].status = "deploying" \/ (row[i].status = "active" /\ row[i].zdip)

\* Mutant of Accepts: pause and sleep let a deploying preview through.
AcceptsDeploying(op, i) ==
  CASE op \in {"pause", "sleep"} -> i \in Occupied
    [] op \in {"destroy", "clickup"} -> row[i].status # "none"
    [] op = "activate" -> row[i].status \in {"active", "waiting", "paused", "error"}
    [] op \in {"cancel", "restart"} -> Interruptible(i)

\* What each request checks before anything else.
Accepts(op, i) ==
  CASE op \in {"pause", "sleep"} -> row[i].status = "active"
    [] op \in {"destroy", "clickup"} -> row[i].status # "none"
    [] op = "activate" -> row[i].status \in {"active", "waiting", "paused", "error"}
    [] op \in {"cancel", "restart"} -> Interruptible(i)

\* A request reads the row; cancel and restart first add the suppress key.
Begin(t, op) ==
  LET i == t[2] IN
  /\ op \in Operations /\ task[t].pc = "idle"
  /\ Accepts(op, i)
  /\ task' = [task EXCEPT ![t] =
                CASE op = "activate" -> [At("reserve", op) EXCEPT !.cap = limit]
                  [] op \in {"cancel", "restart"} ->
                       [At("kill", op) EXCEPT !.zd = row[i].status = "active"]
                  [] OTHER -> [At(IF op = "clickup" THEN "fetch" ELSE "script", op)
                                 EXCEPT !.snap = row[i]]]
  /\ suppress' = IF op \in {"cancel", "restart"} THEN suppress \cup {i} ELSE suppress
  /\ UNCHANGED <<row, newer, job, limit, rt>>

\* activateOrRedeployInstance after its guard.
ReserveActivate(t) ==
  LET i == t[2] IN
  /\ task[t].pc = "reserve" /\ t \in Requests
  /\ TakeSlot(i, task[t].cap)
  /\ IF Verdict(i, task[t].cap) = "queued" THEN End(t) ELSE Goto(t, "enqueue")
  /\ UNCHANGED <<job, suppress, limit, rt>>

EnqueueForced(t) ==
  /\ task[t].pc = "enqueue"
  /\ job' = Add(t[2], "forced")
  /\ End(t)
  /\ UNCHANGED <<row, newer, suppress, limit, rt>>

\* Mutant of CancelPendingDeployJob: an active job is removed too.
CancelActiveDeployJob(i) == [job EXCEPT ![i] = "none"]

\* A sleep drops the job that waits for the preview, not one at work.
CancelPendingDeployJob(i) == [job EXCEPT ![i] = IF task[Job(i)].pc = "idle" THEN "none" ELSE @]

\* Mutant of FinishScript: sleep forgets the idle flag.
FinishScriptForgetsIdle(t) ==
  LET i == t[2]
      op == task[t].op IN
  /\ task[t].pc = "script"
  /\ rt' = [rt EXCEPT ![i] = IF op = "sleep" THEN Asleep ELSE NoRuntime]
  /\ row' = [row EXCEPT ![i] = IF op = "destroy" THEN NoRow
                               ELSE [task[t].snap EXCEPT !.status = "paused"]]
  /\ job' = IF op = "sleep" THEN CancelPendingDeployJob(i) ELSE job
  /\ Goto(t, "schedule")
  /\ UNCHANGED <<newer, suppress, limit>>

\* pause.sh, sleep.sh or destroy.sh returns and the request saves its row.
FinishScript(t) ==
  LET i == t[2]
      op == task[t].op IN
  /\ task[t].pc = "script"
  /\ rt' = [rt EXCEPT ![i] = IF op = "sleep" THEN Asleep ELSE NoRuntime]
  /\ row' = [row EXCEPT ![i] =
               IF op = "destroy" THEN NoRow
               ELSE [task[t].snap EXCEPT !.status = "paused", !.idle = op = "sleep"]]
  /\ job' = IF op = "sleep" THEN CancelPendingDeployJob(i) ELSE job
  /\ Goto(t, "schedule")
  /\ UNCHANGED <<newer, suppress, limit>>

\* The script stops the runtimes, then fails (its last step reloads nginx).
ScriptFails(t) ==
  LET i == t[2] IN
  /\ "stopFails" \in Operations
  /\ task[t].pc = "script"
  /\ rt' = [rt EXCEPT ![i] = IF task[t].op = "sleep" THEN Asleep ELSE NoRuntime]
  /\ End(t)
  /\ UNCHANGED <<row, newer, job, suppress, limit>>

\* The dashboard opens the preview: ClickUp answers and the row read before
\* the request to ClickUp is saved.
SaveTaskInfo(t) ==
  /\ task[t].pc = "fetch"
  /\ row' = [row EXCEPT ![t[2]] = task[t].snap]
  /\ End(t)
  /\ UNCHANGED <<newer, job, suppress, limit, rt>>

\* killCoreDeployProcess: a script that has written its pid file dies.
Kill(t) ==
  LET scripts == {<<"job", t[2]>>, <<"wake", t[2]>>}
      InScript == {s \in scripts : task[s].pc \in {"build", "start"}}
      starting == {s \in scripts : task[s].pc = "build"} IN
  /\ task[t].pc = "kill"
  /\ \E missed \in IF "outlasts" \in Operations THEN SUBSET starting ELSE {{}} :
       task' = [s \in Task |->
                  IF s = t THEN [task[t] EXCEPT !.pc = "gone"]
                  ELSE IF s \in InScript \ missed
                  THEN [task[s] EXCEPT !.pc = "fail"] ELSE task[s]]
  /\ UNCHANGED <<row, newer, job, suppress, limit, rt>>

\* waitAndRemoveDeployJob: gone, or removed because it is not active.
JobGone(t) ==
  LET i == t[2] IN
  /\ task[t].pc = "gone"
  /\ task[Job(i)].pc = "idle"
  /\ job' = [job EXCEPT ![i] = "none"]
  /\ Move(t, "stopped")
  /\ suppress' = suppress \ {i}
  /\ UNCHANGED <<row, newer, limit, rt>>

\* Where a job can spend 20 seconds.
Lengthy == {"await", "build", "start", "health", "promote", "zdabort",
            "hcpause", "hcqueue"}

\* Mutant of JobStuck: the suppress key is dropped only when the job is gone.
JobStuckKeepsSuppress(t) ==
  /\ task[t].pc = "gone"
  /\ "outlasts" \in Operations
  /\ task[Job(t[2])].pc \in Lengthy
  /\ Move(t, "stopped")
  /\ UNCHANGED <<row, newer, job, suppress, limit, rt>>

\* ... or still active after 20 seconds: its lock makes remove() fail.
JobStuck(t) ==
  LET i == t[2] IN
  /\ task[t].pc = "gone"
  /\ "outlasts" \in Operations
  /\ task[Job(i)].pc \in Lengthy
  /\ Move(t, "stopped")
  /\ suppress' = suppress \ {i}
  /\ UNCHANGED <<row, newer, job, limit, rt>>

\* Mutant of Cancel: a cancelled zero-downtime deploy is stopped like a classic
\* one, its live runtime included.
CancelStopsLive(t) ==
  LET i == t[2] IN
  /\ task[t].pc = "stopped" /\ task[t].op = "cancel"
  /\ rt' = [rt EXCEPT ![i] = NoRuntime]
  /\ row' = IF row[i].status = "none" THEN row
            ELSE IF task[t].zd THEN [row EXCEPT ![i].zdip = FALSE]
            ELSE [row EXCEPT ![i].zdip = FALSE, ![i].status = "error"]
  /\ Goto(t, "schedule")
  /\ UNCHANGED <<newer, job, suppress, limit>>

\* cancelDeploy after stopInFlightDeploy.
Cancel(t) ==
  LET i == t[2] IN
  /\ task[t].pc = "stopped" /\ task[t].op = "cancel"
  /\ rt' = [rt EXCEPT ![i] = IF task[t].zd THEN [@ EXCEPT !.staged = FALSE]
                             ELSE NoRuntime]
  /\ row' = IF row[i].status = "none" THEN row
            ELSE IF task[t].zd THEN [row EXCEPT ![i].zdip = FALSE]
            ELSE [row EXCEPT ![i].zdip = FALSE, ![i].status = "error"]
  /\ Goto(t, "schedule")
  /\ UNCHANGED <<newer, job, suppress, limit>>

\* forceRestartDeploy after stopInFlightDeploy: no slot is reserved.
Restart(t) ==
  LET i == t[2] IN
  /\ task[t].pc = "stopped" /\ task[t].op = "restart"
  /\ rt' = IF task[t].zd THEN [rt EXCEPT ![i].staged = FALSE] ELSE rt
  /\ IF row[i].status = "none" THEN End(t) /\ UNCHANGED row
     ELSE /\ row' = [row EXCEPT ![i].zdip = task[t].zd,
                                ![i].status = IF task[t].zd THEN @ ELSE "deploying"]
          /\ Goto(t, "enqueue")
  /\ UNCHANGED <<newer, job, suppress, limit>>

\* PATCH of the settings: nothing else happens.
SetLimit ==
  /\ "limit" \in Operations
  /\ \E n \in Limits : n # limit /\ limit' = n
  /\ UNCHANGED <<row, newer, job, task, suppress, rt>>

\* The API stops and starts: every flow is lost; BullMQ runs a stalled job
\* again or gives it up.  The runtimes and nginx are other processes.
Crash ==
  /\ "crash" \in Operations
  /\ \E t \in Task : task[t].pc # "idle"
  /\ task' = [t \in Task |-> Idle]
  /\ suppress' = {}
  /\ \E lost \in SUBSET JobRunning :
       job' = [i \in Instance |-> IF i \in lost THEN "none" ELSE job[i]]
  /\ UNCHANGED <<row, newer, limit, rt>>

-----------------------------------------------------------------------------
Init ==
  /\ row = [i \in Instance |-> NoRow]
  /\ newer = [i \in Instance |-> {}]
  /\ job = [i \in Instance |-> "none"]
  /\ task = [t \in Task |-> Idle]
  /\ suppress = {}
  /\ limit = InitialLimit
  /\ rt = [i \in Instance |-> NoRuntime]

\* What a run does on its own, once started; failures of scripts apart.
RunStep(t) ==
  \/ Reserve(t) \/ Build(t) \/ Start(t) \/ Meta(t)
  \/ Healthy(t) \/ Unhealthy(t) \/ PauseUnhealthy(t) \/ QueueUnhealthy(t)
  \/ StagingHealthy(t) \/ StagingUnhealthy(t) \/ Promote(t) \/ Flip(t)
  \/ AbortStaging(t) \/ SaveAborted(t) \/ FinalizeDeployError(t)
RunFails(t) == BuildFails(t) \/ StartFails(t) \/ PromoteFails(t)

RequestStep(t) ==
  \/ ReserveActivate(t) \/ EnqueueForced(t) \/ FinishScript(t) \/ SaveTaskInfo(t)
  \/ Kill(t) \/ JobGone(t) \/ JobStuck(t) \/ Cancel(t) \/ Restart(t)

Next ==
  \/ \E i \in Instance :
       \/ Webhook(i) \/ RequestWake(i) \/ StartJob(i) \/ StartWake(i)
       \/ PollDeploy(i) \/ EndJob(i)
  \/ \E t \in Runs : RunStep(t) \/ RunFails(t)
  \/ \E t \in Requests : RequestStep(t) \/ ScriptFails(t)
       \/ \E op \in Op \ {"none", "deploy", "cutover"} : Begin(t, op)
  \/ \E t \in Task : Schedule(t)
  \/ SetLimit
  \/ Crash

Spec == Init /\ [][Next]_vars

-----------------------------------------------------------------------------
\* Rows, jobs, flows, suppress keys and runtimes keep the shapes the entity, the
\* queue and the services give them, whatever runs beside whatever.
TypeOK ==
  /\ row \in [Instance -> Row]
  /\ newer \in [Instance -> SUBSET Instance]
  /\ job \in [Instance -> JobState]
  /\ task \in [Task -> TaskState]
  /\ suppress \subseteq Instance
  /\ limit \in Nat
  /\ rt \in [Instance -> Runtime]

\* The discipline under which most of what follows holds: one flow at a time
\* about a preview, an interrupt and the run it interrupts apart, and a job
\* awaiting the wake it joined.  The code does not impose it.
Interrupts(i) ==
  {t \in Task : t[2] = i /\ task[t].op \in {"cancel", "restart"}}
Flows(i) ==
  {t \in Task : t[2] = i /\ task[t].pc \notin {"idle", "await"}} \ Interrupts(i)
OneFlow ==
  \A i \in Instance :
    /\ \A s, t \in Flows(i) : s = t
    /\ \A c, d \in Interrupts(i) : c = d
    /\ \A c \in Interrupts(i), t \in Flows(i) :
         task[t].pc \in IF task[c].pc \in {"kill", "gone"}
                        THEN {"build", "start", "fail", "tail"} ELSE {"tail"}

SerialSpec == Init /\ [][Next /\ OneFlow']_vars

\* docs/instances.md: slots are reserved atomically (active + deploying) so that
\* max_active_instances is not exceeded.  It takes every writer of a row, not
\* only reserveDeployOrQueue: a save of an old snapshot, a wake, a restart or a
\* zero-downtime flip could each put a preview back into a slot given away.
SlotLimit == Cardinality(Occupied) <= limit

\* A row that says `deploying`, or active with a zero-downtime deploy in
\* progress, belongs to a job in the queue or to a flow of the API: reservation,
\* enqueue and the five ways a run can end are different calls, and a row that
\* nobody owns holds its slot until an operator cancels it.
InProgressIsOwned ==
  \A i \in Instance : Interruptible(i) => job[i] # "none" \/ ~Quiet(i)

\* When no flow is at work on a preview, an active row is true: its runtime is
\* up and nginx leads there, through failed and cancelled zero-downtime deploys,
\* redeploys, wakes and failing scripts.
ActiveServes ==
  \A i \in Instance : row[i].status = "active" /\ Quiet(i) =>
    rt[i].app /\ rt[i].location = "app"

\* When no flow is at work, a paused preview runs nothing, and one asleep (the
\* idle flag of sleepInstanceForIdle) has the wake page at its URL and no other
\* has: else a hit on the URL could not wake it, or would revive a paused one.
PausedIsStopped ==
  \A i \in Instance : row[i].status = "paused" /\ Quiet(i) =>
    rt[i] = IF row[i].idle THEN Asleep ELSE NoRuntime

\* A reservation takes a slot only below the limit it read, and never sends an
\* active preview to the waiting queue, whatever runs beside it.
ReservationKeepsLimit ==
  [][\A t \in Task :
       task[t].pc = "reserve" /\ task'[t].pc # "reserve" =>
         /\ Occupied' \subseteq Occupied \/ Cardinality(Occupied') <= task[t].cap
         /\ row[t[2]].status = "active" => row'[t[2]].status # "waiting"]_vars

\* The deploy of a preview that is under way keeps its job id, so that BullMQ
\* cannot start a second deploy of the same preview beside it: whoever removes
\* a job (sleep, cancel, restart) leaves an active one alone.
DeployKeepsItsId ==
  \A i \in Instance : task[Job(i)].pc # "idle" => job[i] # "none"

\* finalizeDeployError is told to do nothing (suppressDeployFinalize) only
\* while a cancel or a restart is at work on the preview: a key left behind
\* would leave every later failure of the preview `deploying` for ever.
SuppressIsTemporary ==
  \A i \in suppress : \E c \in Interrupts(i) : task[c].pc \in {"kill", "gone"}

\* docs/instances.md: "Zero-downtime failures keep `active`".  No failure of a
\* deploy takes a preview that is active, and served, to error.
ActiveNeverError ==
  [][\A i \in Instance : row[i].status = "active" => row'[i].status # "error"]_vars

Slots == INSTANCE PreviewSlots WITH
           Preview <- Instance, MaxActive <- InitialLimit,
           status <- [i \in Instance |-> row[i].status]
\* The rows implement the abstract contract of PreviewSlots: the status of every
\* preview moves only along its arrows, slots are taken only when free and a
\* preview is left waiting only when none is.
KeepsSlotContract == Slots!Spec

\* The event loop runs every flow on (weak fairness of its next step); BullMQ and
\* the wake queue serve first in, first out, so that a job or a wake that is
\* ready again and again is started (strong fairness: other flows of the preview
\* take turns with it under OneFlow).  Nothing is assumed of clients or of the
\* success of scripts: Begin, RunFails and ScriptFails are not fair.  That a
\* script ends at all is assumed; the API gives deploy.sh no deadline.
FairSpec ==
  /\ SerialSpec
  /\ \A t \in Task : /\ WF_vars(RunStep(t) /\ OneFlow')
                     /\ WF_vars(RequestStep(t) /\ OneFlow')
                     /\ WF_vars(Schedule(t))
  /\ \A i \in Instance : /\ SF_vars(StartJob(i) /\ OneFlow')
                         /\ SF_vars(StartWake(i))
                         /\ WF_vars(PollDeploy(i))
                         /\ WF_vars(EndJob(i))

\* A deploy in progress comes to an end, in success, error, wait or removal: no
\* chain of cancelled, restarted, failing and awaiting flows leaves a preview
\* `deploying` for ever.
DeployEnds == \A i \in Instance : Interruptible(i) ~> ~Interruptible(i)

\* docs/instances.md: "Registered, waiting for a free slot".  A preview that
\* waits while a slot is free gets one, or another preview takes the slot.
WaitingServed ==
  \A i \in Instance :
    row[i].status = "waiting" /\ Cardinality(Occupied) < limit
      ~> row[i].status # "waiting" \/ Cardinality(Occupied) >= limit

=============================================================================
