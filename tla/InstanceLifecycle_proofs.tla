----------------------- MODULE InstanceLifecycle_proofs -----------------------
(***************************************************************************)
(* Theorems about InstanceLifecycle for every set of previews and clients, *)
(* every set of operations, every limit and every concurrency.             *)
(***************************************************************************)
EXTENDS InstanceLifecycle, FiniteSetTheorems, TLAPS

-----------------------------------------------------------------------------
(* Types of the building blocks.                                           *)

\* The flows of the worker, of the wakes and of the clients are tasks, each about
\* one preview.
LEMMA TaskTypes ==
  /\ Runs \subseteq Task /\ Requests \subseteq Task
  /\ \A i \in Instance : Job(i) \in Task /\ Wake(i) \in Task
  /\ \A t \in Task : t[2] \in Instance
BY DEF Runs, Requests, Task, Kind, Job, Wake

\* The fixed values the actions write have their types.
LEMMA ConstantTypes ==
  /\ NoRow \in Row /\ NoRuntime \in Runtime /\ Asleep \in Runtime
  /\ Idle \in TaskState
  /\ \A pc \in PC, op \in Op : At(pc, op) \in TaskState
<1>1. NoRow \in Row
  BY DEF NoRow, Row, Status
<1>2. NoRuntime \in Runtime /\ Asleep \in Runtime
  BY DEF NoRuntime, Runtime, Asleep
<1>3. Idle \in TaskState
  BY <1>1 DEF Idle, TaskState, PC, Op
<1>4. \A pc \in PC, op \in Op : At(pc, op) \in TaskState
  BY <1>3 DEF At, TaskState
<1> QED BY <1>1, <1>2, <1>3, <1>4

\* So does a row whose deploy is marked as ended.
LEMMA EndedRows ==
  ASSUME row \in [Instance -> Row], NEW i \in Instance
  PROVE  /\ [row EXCEPT ![i].zdip = FALSE] \in [Instance -> Row]
         /\ [row EXCEPT ![i].zdip = FALSE, ![i].status = "error"] \in [Instance -> Row]
         /\ [row EXCEPT ![i].status = "error", ![i].zdip = FALSE] \in [Instance -> Row]
<1>1. [row[i] EXCEPT !.zdip = FALSE] \in Row
  BY DEF Row
<1>2. [row[i] EXCEPT !.zdip = FALSE, !.status = "error"] \in Row
  BY DEF Row, Status
<1>3. [row[i] EXCEPT !.status = "error", !.zdip = FALSE] \in Row
  BY DEF Row, Status
<1>4. [row EXCEPT ![i].zdip = FALSE] \in [Instance -> Row]
  BY <1>1
<1>5. [row EXCEPT ![i].zdip = FALSE, ![i].status = "error"] \in [Instance -> Row]
  BY <1>2
<1>6. [row EXCEPT ![i].status = "error", ![i].zdip = FALSE] \in [Instance -> Row]
  BY <1>3
<1> QED BY <1>4, <1>5, <1>6

\* A step that only says where one task goes keeps the types of the tasks.
LEMMA MoveType ==
  ASSUME task \in [Task -> TaskState], NEW t \in Task, NEW pc \in PC,
         Move(t, pc) \/ Goto(t, pc) \/ End(t)
  PROVE  task' \in [Task -> TaskState]
<1>1. CASE Move(t, pc)
  BY <1>1 DEF Move, TaskState
<1>2. CASE Goto(t, pc)
  <2>1. task[t].op \in Op
    BY DEF TaskState
  <2>2. At(pc, task[t].op) \in TaskState
    BY <2>1, ConstantTypes
  <2> QED BY <1>2, <2>2 DEF Goto
<1>3. CASE End(t)
  BY <1>3, ConstantTypes DEF End
<1> QED BY <1>1, <1>2, <1>3

\* So does a wake that settles, whatever the job awaiting it does next.
LEMMA WakeSettledType ==
  ASSUME task \in [Task -> TaskState], NEW i \in Instance, NEW pc \in PC
  PROVE  WakeSettled(i, pc) \in [Task -> TaskState]
<1>1. "deploy" \in Op
  BY DEF Op
<1>2. At(pc, "deploy") \in TaskState /\ Idle \in TaskState
  BY <1>1, ConstantTypes
<1> QED BY <1>2, TaskTypes DEF WakeSettled

\* ... and so does a step by which a run ends.
LEMMA LeaveType ==
  ASSUME task \in [Task -> TaskState], NEW t \in Task,
         Succeed(t) \/ Leave(t)
  PROVE  task' \in [Task -> TaskState]
<1>1. t[2] \in Instance
  BY TaskTypes
<1>2. {"schedule", "tail"} \subseteq PC /\ "deploy" \in Op
  BY DEF PC, Op
<1>3. At("schedule", "deploy") \in TaskState /\ At("tail", "deploy") \in TaskState
  BY <1>2, ConstantTypes
<1>4. /\ WakeSettled(t[2], "schedule") \in [Task -> TaskState]
      /\ WakeSettled(t[2], "tail") \in [Task -> TaskState]
  BY <1>1, <1>2, WakeSettledType
<1>5. CASE Succeed(t)
  BY <1>3, <1>4, <1>5 DEF Succeed
<1>6. CASE Leave(t)
  BY <1>3, <1>4, <1>6 DEF Leave
<1> QED BY <1>5, <1>6

\* A wake that is queued, or joined, leaves the tasks well formed.
LEMMA WakeQueuedType ==
  ASSUME NEW f \in [Task -> TaskState], NEW i \in Instance
  PROVE  WakeQueued(f, i) \in [Task -> TaskState]
<1>1. "deploy" \in Op /\ "queued" \in PC
  BY DEF Op, PC
<1>2. At("queued", "deploy") \in TaskState
  BY <1>1, ConstantTypes
<1> QED BY <1>2, TaskTypes DEF WakeQueued

\* A reservation writes a row.
LEMMA ReservedType ==
  ASSUME TypeOK, NEW i \in Instance, NEW cap \in Nat
  PROVE  Reserved(i, cap) \in Row
<1>1. Verdict(i, cap) \in {"run-zd", "run", "queued"}
  BY DEF Verdict
<1>2. row[i] \in Row /\ NoRow \in Row
  BY ConstantTypes DEF TypeOK
<1> QED BY <1>1, <1>2 DEF Reserved, Row, Status

\* reserveDeployOrQueue writes a row, and a new row is newer than all others.
LEMMA TakeSlotType ==
  ASSUME TypeOK, NEW i \in Instance, NEW cap \in Nat, TakeSlot(i, cap)
  PROVE  /\ row' \in [Instance -> Row]
         /\ newer' \in [Instance -> SUBSET Instance]
BY ReservedType DEF TakeSlot, TypeOK

\* Adding jobs, one or those of processWaitingQueue, keeps the queue well formed.
LEMMA QueueType ==
  ASSUME TypeOK
  PROVE  /\ ProcessWaitingQueue => job' \in [Instance -> JobState]
         /\ \A i \in Instance, data \in JobState :
              Add(i, data) \in [Instance -> JobState]
BY DEF TypeOK, ProcessWaitingQueue, Add, JobState

-----------------------------------------------------------------------------
(* Type correctness.                                                       *)

\* The API starts with every variable in its type.
LEMMA TypeInit == Init => TypeOK
BY ConstantTypes, LimitAssumption DEF Init, TypeOK, JobState

\* One lemma per group of actions of Next: those that start a run or queue it.
LEMMA TypeStarts ==
  ASSUME TypeOK, NEW i \in Instance,
         \/ Webhook(i) \/ RequestWake(i) \/ StartJob(i) \/ StartWake(i)
         \/ PollDeploy(i) \/ EndJob(i)
  PROVE  TypeOK'
<1>0. /\ Job(i) \in Task /\ Wake(i) \in Task
      /\ {"deploy"} \subseteq Op
      /\ {"await", "reserve", "poll", "queued", "idle"} \subseteq PC
  BY TaskTypes DEF Op, PC
<1>a. /\ At("await", "deploy") \in TaskState
      /\ [At("reserve", "deploy") EXCEPT !.cap = limit] \in TaskState
  <2>1. At("await", "deploy") \in TaskState /\ At("reserve", "deploy") \in TaskState
    BY <1>0, ConstantTypes
  <2>2. limit \in Nat
    BY DEF TypeOK
  <2> QED BY <2>1, <2>2 DEF TaskState
<1>1. CASE Webhook(i)
  BY <1>1, QueueType DEF Webhook, TypeOK, JobState
<1>2. CASE RequestWake(i)
  BY <1>2, WakeQueuedType DEF RequestWake, TypeOK
<1>3. CASE StartJob(i)
  <2>1. [task EXCEPT ![Job(i)] = At("await", "deploy")] \in [Task -> TaskState]
    BY <1>0, <1>a DEF TypeOK
  <2>2. WakeQueued([task EXCEPT ![Job(i)] = At("await", "deploy")], i)
          \in [Task -> TaskState]
    BY <2>1, WakeQueuedType
  <2>3. task' \in [Task -> TaskState]
    BY <1>3, <1>0, <1>a, <2>2 DEF StartJob, ResumesIdleSleep, TypeOK
  <2> QED BY <1>3, <2>3 DEF StartJob, ResumesIdleSleep, TypeOK
<1>4. CASE StartWake(i)
  <2>1. CASE Succeed(Wake(i)) \/ Leave(Wake(i))
    BY <1>4, <1>0, <2>1, LeaveType DEF StartWake, TypeOK
  <2>2. CASE Move(Wake(i), "poll")
    BY <1>4, <1>0, <2>2, MoveType DEF StartWake, TypeOK
  <2>3. CASE task' = [task EXCEPT ![Wake(i)] = [At("reserve", "deploy")
                                                  EXCEPT !.cap = limit]]
    BY <1>4, <1>0, <1>a, <2>3 DEF StartWake, TypeOK
  <2> QED BY <1>4, <2>1, <2>2, <2>3 DEF StartWake
<1>5. CASE PollDeploy(i)
  BY <1>5, <1>0, LeaveType DEF PollDeploy, TypeOK
<1>6. CASE EndJob(i)
  BY <1>6, <1>0, MoveType, ConstantTypes DEF EndJob, End, TypeOK, JobState
<1> QED BY <1>1, <1>2, <1>3, <1>4, <1>5, <1>6

\* The steps of a deploy run, of the worker or of a wake, keep the types ...
LEMMA TypeRunStep ==
  ASSUME TypeOK, NEW t \in Runs, RunStep(t)
  PROVE  TypeOK'
<1>0. /\ t \in Task /\ t[2] \in Instance /\ task[t] \in TaskState
      /\ task[t].op \in Op /\ task[t].snap \in Row /\ task[t].cap \in Nat
      /\ "deploy" \in Op
      /\ {"build", "start", "meta", "fail", "health", "hcpause", "hcqueue",
          "promote", "flip", "zdabort", "zdsave"} \subseteq PC
  BY TaskTypes DEF TypeOK, TaskState, Op, PC
<1>a. task \in [Task -> TaskState]
  BY DEF TypeOK
<1>b. ASSUME NEW pc \in PC, NEW s \in Row
      PROVE  [task EXCEPT ![t].pc = pc, ![t].snap = s] \in [Task -> TaskState]
  BY <1>0, <1>a DEF TaskState
<1>c. ASSUME NEW s \in Row PROVE [row EXCEPT ![t[2]] = s] \in [Instance -> Row]
  BY <1>0 DEF TypeOK
<1>d. ASSUME NEW b \in BOOLEAN
      PROVE  /\ [rt EXCEPT ![t[2]].app = b] \in [Instance -> Runtime]
             /\ [rt EXCEPT ![t[2]].staged = b] \in [Instance -> Runtime]
  BY <1>0 DEF TypeOK, Runtime
<1>1. CASE Reserve(t)
  <2>1. /\ row' \in [Instance -> Row]
        /\ newer' \in [Instance -> SUBSET Instance]
    BY <1>0, <1>1, TakeSlotType DEF Reserve
  <2>2. task' \in [Task -> TaskState]
    <3>1. CASE Leave(t)
      BY <1>0, <1>a, <3>1, LeaveType
    <3>2. ASSUME NEW b \in BOOLEAN,
                 task' = [task EXCEPT ![t] = [At("build", "deploy") EXCEPT !.zd = b]]
          PROVE  task' \in [Task -> TaskState]
      <4>1. At("build", "deploy") \in TaskState
        BY <1>0, ConstantTypes
      <4>2. [At("build", "deploy") EXCEPT !.zd = b] \in TaskState
        BY <4>1 DEF TaskState
      <4> QED BY <1>a, <3>2, <4>2
    <3> QED BY <1>1, <3>1, <3>2 DEF Reserve
  <2> QED BY <1>1, <2>1, <2>2 DEF Reserve, TypeOK
<1>2. CASE Build(t)
  <2>1. task' \in [Task -> TaskState]
    BY <1>0, <1>a, <1>2, MoveType DEF Build
  <2>2. rt' \in [Instance -> Runtime]
    BY <1>d, <1>2 DEF Build
  <2> QED BY <1>2, <2>1, <2>2 DEF Build, TypeOK
<1>3. CASE Start(t)
  BY <1>0, <1>a, <1>3, MoveType DEF Start, TypeOK, Runtime
<1>4. CASE Meta(t)
  <2>1. row[t[2]] \in Row /\ [row[t[2]] EXCEPT !.idle = FALSE] \in Row
        /\ [[row[t[2]] EXCEPT !.idle = FALSE] EXCEPT !.status = "active"] \in Row
    BY <1>0 DEF TypeOK, Row, Status
  <2>2. task' \in [Task -> TaskState]
    <3>1. CASE Move(t, "fail") \/ Succeed(t)
      BY <1>0, <1>a, <3>1, MoveType, LeaveType
    <3>2. ASSUME NEW s \in Row,
                 task' = [task EXCEPT ![t].pc = "health", ![t].snap = s]
          PROVE  task' \in [Task -> TaskState]
      BY <1>0, <1>b, <3>2
    <3> QED BY <1>0, <1>4, <2>1, <3>1, <3>2 DEF Meta, TypeOK
  <2>3. row' \in [Instance -> Row]
    BY <1>c, <1>4, <2>1 DEF Meta, TypeOK
  <2> QED BY <1>4, <2>2, <2>3 DEF Meta, TypeOK
<1>5. CASE Healthy(t)
  <2>1. [task[t].snap EXCEPT !.status = "active", !.idle = FALSE] \in Row
    BY <1>0 DEF Row, Status
  <2> QED BY <1>0, <1>a, <1>c, <1>5, <2>1, LeaveType DEF Healthy, TypeOK
<1>6. CASE Unhealthy(t)
  <2>1. [NoRow EXCEPT !.status = "error"] \in Row
    BY DEF NoRow, Row, Status
  <2> QED BY <1>0, <1>a, <1>c, <1>6, <2>1, LeaveType, MoveType DEF Unhealthy, TypeOK
<1>7. CASE PauseUnhealthy(t)
  BY <1>0, <1>a, <1>7, MoveType, ConstantTypes DEF PauseUnhealthy, TypeOK
<1>8. CASE QueueUnhealthy(t)
  BY <1>0, <1>a, <1>8, LeaveType, QueueType DEF QueueUnhealthy, TypeOK
<1>9. CASE StagingHealthy(t) \/ StagingUnhealthy(t)
  BY <1>0, <1>a, <1>9, MoveType DEF StagingHealthy, StagingUnhealthy, TypeOK
<1>10. CASE Promote(t)
  BY <1>0, <1>a, <1>10, MoveType DEF Promote, TypeOK, Runtime
<1>11. CASE Flip(t)
  <2>1. [NoRow EXCEPT !.status = "active"] \in Row
    BY DEF NoRow, Row, Status
  <2> QED BY <1>0, <1>a, <1>c, <1>11, <2>1, LeaveType DEF Flip, TypeOK
<1>12. CASE AbortStaging(t)
  <2>1. row[t[2]] \in Row
    BY <1>0 DEF TypeOK
  <2>2. task' \in [Task -> TaskState]
    <3>1. CASE Move(t, "fail") \/ Leave(t)
      BY <1>0, <1>a, <3>1, MoveType, LeaveType
    <3>2. CASE task' = [task EXCEPT ![t].pc = "zdsave", ![t].snap = row[t[2]]]
      BY <1>0, <1>b, <2>1, <3>2
    <3> QED BY <1>12, <3>1, <3>2 DEF AbortStaging
  <2>3. rt' \in [Instance -> Runtime]
    BY <1>d, <1>12 DEF AbortStaging, TypeOK
  <2> QED BY <1>12, <2>2, <2>3 DEF AbortStaging, TypeOK
<1>13. CASE SaveAborted(t)
  <2>1. [task[t].snap EXCEPT !.zdip = FALSE] \in Row
    BY <1>0 DEF Row
  <2>2. task' \in [Task -> TaskState]
    BY <1>0, <1>a, <1>13, MoveType, LeaveType DEF SaveAborted
  <2> QED BY <1>c, <1>13, <2>1, <2>2 DEF SaveAborted, TypeOK
<1>14. CASE FinalizeDeployError(t)
  <2>1. row' \in [Instance -> Row]
    BY <1>0, <1>14, EndedRows DEF FinalizeDeployError, TypeOK
  <2> QED BY <1>0, <1>a, <1>14, <2>1, LeaveType DEF FinalizeDeployError, TypeOK
<1> QED BY <1>1, <1>2, <1>3, <1>4, <1>5, <1>6, <1>7, <1>8, <1>9, <1>10, <1>11,
          <1>12, <1>13, <1>14 DEF RunStep

\* ... and so do the steps in which one of its scripts fails ...
LEMMA TypeRunFails ==
  ASSUME TypeOK, NEW t \in Runs, RunFails(t)
  PROVE  TypeOK'
<1>0. /\ t \in Task /\ t[2] \in Instance /\ "fail" \in PC
      /\ At("zdabort", "cutover") \in TaskState
  BY TaskTypes, ConstantTypes DEF PC, Op
<1>a. task \in [Task -> TaskState]
  BY DEF TypeOK
<1>1. CASE BuildFails(t)
  <2>1. task' \in [Task -> TaskState]
    BY <1>0, <1>a, <1>1, MoveType DEF BuildFails
  <2>2. \A b \in BOOLEAN : [rt EXCEPT ![t[2]].staged = b] \in [Instance -> Runtime]
    BY <1>0 DEF TypeOK, Runtime
  <2>3. rt' \in [Instance -> Runtime]
    BY <1>1, <2>2 DEF BuildFails, TypeOK
  <2> QED BY <1>1, <2>1, <2>3 DEF BuildFails, TypeOK
<1>2. CASE StartFails(t)
  <2>1. task' \in [Task -> TaskState]
    BY <1>0, <1>a, <1>2, MoveType DEF StartFails
  <2>2. rt' \in [Instance -> Runtime]
    <3>1. [rt EXCEPT ![t[2]].app = TRUE, ![t[2]].location = "app"]
            \in [Instance -> Runtime]
      BY <1>0 DEF TypeOK, Runtime
    <3> QED BY <1>2, <3>1 DEF StartFails, TypeOK
  <2> QED BY <1>2, <2>1, <2>2 DEF StartFails, TypeOK
<1>3. CASE PromoteFails(t)
  BY <1>0, <1>a, <1>3 DEF PromoteFails, TypeOK
<1> QED BY <1>1, <1>2, <1>3 DEF RunFails

\* ... and those of a request under way ...
LEMMA TypeRequestStep ==
  ASSUME TypeOK, NEW t \in Requests, RequestStep(t) \/ ScriptFails(t)
  PROVE  TypeOK'
<1>0. /\ t \in Task /\ t[2] \in Instance /\ task[t] \in TaskState
      /\ task[t].snap \in Row /\ task[t].cap \in Nat
      /\ {"enqueue", "schedule", "gone", "stopped"} \subseteq PC
      /\ "forced" \in JobState /\ "none" \in JobState
  BY TaskTypes DEF TypeOK, TaskState, PC, JobState
<1>a. task \in [Task -> TaskState]
  BY DEF TypeOK
<1>b. ASSUME NEW s \in Row PROVE [row EXCEPT ![t[2]] = s] \in [Instance -> Row]
  BY <1>0 DEF TypeOK
<1>c. ASSUME NEW r \in Runtime PROVE [rt EXCEPT ![t[2]] = r] \in [Instance -> Runtime]
  BY <1>0 DEF TypeOK
<1>1. CASE ReserveActivate(t)
  <2>1. /\ row' \in [Instance -> Row]
        /\ newer' \in [Instance -> SUBSET Instance]
    BY <1>0, <1>1, TakeSlotType DEF ReserveActivate
  <2>2. task' \in [Task -> TaskState]
    BY <1>0, <1>a, <1>1, MoveType DEF ReserveActivate
  <2> QED BY <1>1, <2>1, <2>2 DEF ReserveActivate, TypeOK
<1>2. CASE EnqueueForced(t)
  BY <1>0, <1>a, <1>2, MoveType, QueueType DEF EnqueueForced, TypeOK
<1>3. CASE FinishScript(t)
  <2>1. task' \in [Task -> TaskState]
    BY <1>0, <1>a, <1>3, MoveType DEF FinishScript, CancelPendingDeployJob
  <2>2. [task[t].snap EXCEPT !.status = "paused", !.idle = task[t].op = "sleep"] \in Row
    BY <1>0 DEF Row, Status
  <2>3. row' \in [Instance -> Row]
    BY <1>b, <1>3, <2>2, ConstantTypes DEF FinishScript, CancelPendingDeployJob
  <2>4. rt' \in [Instance -> Runtime]
    BY <1>c, <1>3, ConstantTypes DEF FinishScript, CancelPendingDeployJob
  <2>5. job' \in [Instance -> JobState]
    BY <1>0, <1>3 DEF FinishScript, CancelPendingDeployJob, TypeOK
  <2> QED BY <1>3, <2>1, <2>3, <2>4, <2>5 DEF FinishScript, CancelPendingDeployJob, TypeOK
<1>4. CASE SaveTaskInfo(t)
  BY <1>0, <1>a, <1>b, <1>4, MoveType DEF SaveTaskInfo, TypeOK
<1>5. CASE Kill(t)
  <2>1. ASSUME NEW s \in Task, NEW pc \in PC
        PROVE  [task[s] EXCEPT !.pc = pc] \in TaskState
    BY <1>a, <2>1 DEF TaskState
  <2>2. "gone" \in PC /\ "fail" \in PC
    BY DEF PC
  <2>3. task' \in [Task -> TaskState]
    BY <1>0, <1>a, <1>5, <2>1, <2>2 DEF Kill
  <2> QED BY <1>5, <2>3 DEF Kill, TypeOK
<1>6. CASE JobGone(t) \/ JobStuck(t)
  BY <1>0, <1>a, <1>6, MoveType DEF JobGone, JobStuck, TypeOK
<1>7. CASE Cancel(t)
  <2>1. task' \in [Task -> TaskState]
    BY <1>0, <1>a, <1>7, MoveType DEF Cancel
  <2>2. row' \in [Instance -> Row]
    BY <1>0, <1>7, EndedRows DEF Cancel, TypeOK
  <2>0. rt[t[2]] \in Runtime
    BY <1>0 DEF TypeOK
  <2>3. [rt[t[2]] EXCEPT !.staged = FALSE] \in Runtime
    BY <2>0 DEF Runtime
  <2>4. rt' \in [Instance -> Runtime]
    BY <1>0, <1>c, <1>7, <2>3, ConstantTypes DEF Cancel, TypeOK
  <2> QED BY <1>7, <2>1, <2>2, <2>4 DEF Cancel, TypeOK
<1>8. CASE Restart(t)
  <2>1. task' \in [Task -> TaskState]
    BY <1>0, <1>a, <1>8, MoveType DEF Restart
  <2>2. task[t].zd \in BOOLEAN
    BY <1>0 DEF TaskState
  <2>3. row' \in [Instance -> Row]
    <3>1. ASSUME NEW b \in BOOLEAN, NEW s \in Status
          PROVE  [row EXCEPT ![t[2]].zdip = b, ![t[2]].status = s]
                   \in [Instance -> Row]
      BY <1>0 DEF TypeOK, Row
    <3>2. row[t[2]].status \in Status /\ "deploying" \in Status
      BY <1>0 DEF TypeOK, Row, Status
    <3> QED BY <1>8, <2>2, <3>1, <3>2 DEF Restart, TypeOK
  <2>4. rt' \in [Instance -> Runtime]
    <3>1. [rt EXCEPT ![t[2]].staged = FALSE] \in [Instance -> Runtime]
      BY <1>0 DEF TypeOK, Runtime
    <3> QED BY <1>8, <3>1 DEF Restart, TypeOK
  <2> QED BY <1>8, <2>1, <2>3, <2>4 DEF Restart, TypeOK
<1>9. CASE ScriptFails(t)
  BY <1>0, <1>a, <1>c, <1>9, MoveType, ConstantTypes DEF ScriptFails, TypeOK
<1> QED BY <1>1, <1>2, <1>3, <1>4, <1>5, <1>6, <1>7, <1>8, <1>9 DEF RequestStep

\* ... and the first step of a request, up to its first await.
LEMMA TypeBegin ==
  ASSUME TypeOK, NEW t \in Requests,
         NEW op \in Op \ {"none", "deploy", "cutover"}, Begin(t, op)
  PROVE  TypeOK'
<1>0. /\ t \in Task /\ t[2] \in Instance /\ row[t[2]] \in Row /\ limit \in Nat
      /\ {"reserve", "kill", "fetch", "script"} \subseteq PC
  BY TaskTypes DEF TypeOK, PC
<1>1. \A pc \in PC : At(pc, op) \in TaskState
  BY ConstantTypes
<1>2. /\ [At("reserve", op) EXCEPT !.cap = limit] \in TaskState
      /\ [At("kill", op) EXCEPT !.zd = row[t[2]].status = "active"] \in TaskState
      /\ \A pc \in PC : [At(pc, op) EXCEPT !.snap = row[t[2]]] \in TaskState
  <2>1. ASSUME NEW r \in TaskState
        PROVE  /\ [r EXCEPT !.cap = limit] \in TaskState
               /\ [r EXCEPT !.zd = row[t[2]].status = "active"] \in TaskState
               /\ [r EXCEPT !.snap = row[t[2]]] \in TaskState
    BY <1>0 DEF TaskState
  <2> QED BY <1>0, <1>1, <2>1
<1>3. task' \in [Task -> TaskState]
  BY <1>0, <1>2 DEF Begin, TypeOK
<1> QED BY <1>0, <1>3 DEF Begin, TypeOK

\* Every step of the API keeps the types.
LEMMA TypeStep == TypeOK /\ [Next]_vars => TypeOK'
<1> SUFFICES ASSUME TypeOK, [Next]_vars PROVE TypeOK'
  OBVIOUS
<1>1. ASSUME NEW i \in Instance,
             \/ Webhook(i) \/ RequestWake(i) \/ StartJob(i) \/ StartWake(i)
             \/ PollDeploy(i) \/ EndJob(i)
      PROVE  TypeOK'
  BY <1>1, TypeStarts
<1>2. ASSUME NEW t \in Runs, RunStep(t) \/ RunFails(t) PROVE TypeOK'
  BY <1>2, TypeRunStep, TypeRunFails
<1>3. ASSUME NEW t \in Requests, RequestStep(t) \/ ScriptFails(t) PROVE TypeOK'
  BY <1>3, TypeRequestStep
<1>4. ASSUME NEW t \in Requests, NEW op \in Op \ {"none", "deploy", "cutover"},
             Begin(t, op)
      PROVE  TypeOK'
  BY <1>4, TypeBegin
<1>5. ASSUME NEW t \in Task, Schedule(t) PROVE TypeOK'
  <2>1. task' \in [Task -> TaskState]
    <3>1. task \in [Task -> TaskState]
      BY DEF TypeOK
    <3>2. End(t) \/ Leave(t)
      BY <1>5 DEF Schedule
    <3>3. "idle" \in PC
      BY DEF PC
    <3> QED BY <1>5, <3>1, <3>2, <3>3, MoveType, LeaveType
  <2> QED BY <1>5, <2>1, QueueType DEF Schedule, TypeOK
<1>6. CASE SetLimit
  BY <1>6, LimitAssumption DEF SetLimit, TypeOK
<1>7. CASE Crash
  BY <1>7, ConstantTypes DEF Crash, TypeOK, JobState
<1>8. CASE UNCHANGED vars
  BY <1>8 DEF vars, TypeOK
<1> QED BY <1>1, <1>2, <1>3, <1>4, <1>5, <1>6, <1>7, <1>8 DEF Next

\* Every reachable state of the lifecycle, under any interleaving, has its
\* variables in their types: rows, jobs, flows and runtimes are well formed.
THEOREM TypeCorrect == Spec => []TypeOK
BY TypeInit, TypeStep, PTL DEF Spec

-----------------------------------------------------------------------------
(* Reservations respect the limit.                                         *)

\* There are finitely many previews, hence a number of slots in use.
LEMMA OccupiedFinite ==
  IsFiniteSet(Occupied) /\ Cardinality(Occupied) \in Nat
<1>1. Occupied \subseteq Instance
  BY DEF Occupied
<1> QED BY <1>1, InstanceAssumption, FS_Subset, FS_CardinalityType

\* What reserveDeployOrQueue does to the slots.
LEMMA TakeSlotKeepsLimit ==
  ASSUME TypeOK, NEW i \in Instance, NEW cap \in Nat, TakeSlot(i, cap)
  PROVE  /\ Occupied' \subseteq Occupied \/ Cardinality(Occupied') <= cap
         /\ row[i].status = "active" => row'[i].status # "waiting"
<1>1. /\ row' = [row EXCEPT ![i] = Reserved(i, cap)]
      /\ row \in [Instance -> Row]
  BY DEF TakeSlot, TypeOK
<1>2. /\ row'[i] = Reserved(i, cap)
      /\ \A j \in Instance : j # i => row'[j] = row[j]
  BY <1>1
<1>3. CASE Verdict(i, cap) = "run-zd"
  <2>1. row[i].status = "active" /\ row[i] \in Row
    BY <1>1, <1>3 DEF Verdict
  <2>2. Reserved(i, cap) = [row[i] EXCEPT !.zdip = TRUE]
    BY <1>3 DEF Reserved
  <2>3. row'[i].status = "active"
    BY <1>2, <2>1, <2>2 DEF Row
  <2> QED BY <1>2, <2>1, <2>3 DEF Occupied
<1>4. CASE Verdict(i, cap) = "queued"
  <2>1. i \notin Occupied
    BY <1>4 DEF Verdict
  <2>2. Reserved(i, cap) = IF row[i].status = "waiting" THEN row[i]
          ELSE [row[i] EXCEPT !.status = "waiting", !.zdip = FALSE]
    BY <1>4 DEF Reserved
  <2>3. row'[i].status = "waiting"
    BY <1>1, <1>2, <2>2 DEF Row
  <2> QED BY <1>2, <2>1, <2>3 DEF Occupied
<1>5. CASE Verdict(i, cap) = "run"
  <2>1. i \in Occupied \/ ~(Cardinality(Occupied) >= cap)
    BY <1>5 DEF Verdict
  <2>2. Reserved(i, cap) = [NoRow EXCEPT !.status = "deploying"]
    BY <1>5 DEF Reserved
  <2>3. row'[i].status = "deploying"
    BY <1>2, <2>2 DEF NoRow
  <2>4. Occupied' = Occupied \cup {i}
    BY <1>2, <2>3 DEF Occupied
  <2>5. CASE i \in Occupied
    BY <2>3, <2>4, <2>5
  <2>6. CASE i \notin Occupied
    <3>1. Cardinality(Occupied \cup {i}) = Cardinality(Occupied) + 1
      BY <2>6, OccupiedFinite, FS_AddElement
    <3> QED BY <2>1, <2>3, <2>4, <2>6, <3>1, OccupiedFinite
  <2> QED BY <2>5, <2>6
<1> QED BY <1>3, <1>4, <1>5 DEF Verdict

\* A step of task s leaves every other task where it is, but for a job that
\* awaits the wake s.
LEMMA OthersStay ==
  ASSUME TypeOK, NEW s \in Task, NEW t \in Task, t # s, task[t].pc # "await",
         \/ \E pc \in PC : Move(s, pc) \/ Goto(s, pc)
         \/ End(s) \/ Succeed(s) \/ Leave(s)
  PROVE  task'[t] = task[t]
<1>1. task \in [Task -> TaskState] /\ s[2] \in Instance
  BY TaskTypes DEF TypeOK
<1>2. ASSUME NEW i \in Instance, NEW pc \in PC, s = Wake(i), task' = WakeSettled(i, pc)
      PROVE  task'[t] = task[t]
  BY <1>1, <1>2, TaskTypes DEF WakeSettled
<1>3. "schedule" \in PC /\ "tail" \in PC
  BY DEF PC
<1>4. CASE Succeed(s)
  BY <1>1, <1>2, <1>3, <1>4 DEF Succeed
<1>5. CASE Leave(s)
  BY <1>1, <1>2, <1>3, <1>5 DEF Leave
<1>6. CASE End(s) \/ \E pc \in PC : Move(s, pc) \/ Goto(s, pc)
  BY <1>1, <1>6 DEF End, Move, Goto
<1> QED BY <1>4, <1>5, <1>6

\* A task about to reserve moves only by its own reservation or by a crash.
LEMMA OnlyReserving ==
  ASSUME TypeOK, Next, NEW t \in Task, task[t].pc = "reserve",
         task'[t].pc # "reserve"
  PROVE  Crash \/ Reserve(t) \/ ReserveActivate(t)
<1> SUFFICES ASSUME ~Crash, ~Reserve(t), ~ReserveActivate(t) PROVE FALSE
  OBVIOUS
<1>0. /\ task \in [Task -> TaskState]
      /\ PC # {} /\ {"poll", "idle", "start", "meta", "fail", "health", "hcpause",
          "hcqueue", "promote", "flip", "zdabort", "enqueue", "schedule",
          "stopped"} \subseteq PC
  BY DEF TypeOK, PC
<1>a. ASSUME NEW s \in Task, s = t => task[s].pc # "reserve",
             \/ \E pc \in PC : Move(s, pc) \/ Goto(s, pc)
             \/ End(s) \/ Succeed(s) \/ Leave(s)
      PROVE  FALSE
  BY <1>a, OthersStay
<1>b. ASSUME NEW s \in Task, task[s].pc # "reserve", NEW r,
             task' = [task EXCEPT ![s] = r]
      PROVE  FALSE
  BY <1>0, <1>b
<1>1. ASSUME NEW i \in Instance, Webhook(i) \/ RequestWake(i) PROVE FALSE
  BY <1>0, <1>1, TaskTypes DEF Webhook, RequestWake, WakeQueued
<1>2. ASSUME NEW i \in Instance, StartJob(i) PROVE FALSE
  <2>1. Job(i) \in Task /\ Wake(i) \in Task /\ task[Job(i)].pc = "idle"
    BY <1>2, TaskTypes DEF StartJob, ResumesIdleSleep
  <2>2. task' # WakeQueued([task EXCEPT ![Job(i)] = At("await", "deploy")], i)
    <3>1. [task EXCEPT ![Job(i)] = At("await", "deploy")][t] = task[t]
      BY <1>0, <2>1
    <3> QED BY <1>0, <2>1, <3>1 DEF WakeQueued
  <2> QED BY <1>b, <1>2, <2>1, <2>2 DEF StartJob, ResumesIdleSleep
<1>3. ASSUME NEW i \in Instance, StartWake(i) PROVE FALSE
  <2>1. Wake(i) \in Task /\ task[Wake(i)].pc = "queued"
    BY <1>3, TaskTypes DEF StartWake
  <2>2. ~Succeed(Wake(i)) /\ ~Leave(Wake(i)) /\ ~Move(Wake(i), "poll")
    BY <1>0, <1>a, <2>1
  <2>3. task' # [task EXCEPT ![Wake(i)] = [At("reserve", "deploy")
                                            EXCEPT !.cap = limit]]
    BY <1>b, <2>1
  <2> QED BY <1>3, <2>2, <2>3 DEF StartWake
<1>4. ASSUME NEW i \in Instance, PollDeploy(i) \/ EndJob(i) PROVE FALSE
  <2>1. /\ PollDeploy(i) => task[Wake(i)].pc = "poll"
        /\ EndJob(i) => task[Job(i)].pc = "tail"
    BY DEF PollDeploy, EndJob
  <2> QED BY <1>a, <1>4, <2>1, TaskTypes DEF PollDeploy, EndJob
<1>5. ASSUME NEW s \in Runs, RunStep(s) PROVE FALSE
  <2>0. s \in Task
    BY TaskTypes
  <2>1. CASE Reserve(s)
    <3>1. s # t
      BY <2>1
    <3>2. Leave(s) \/ \E r : task' = [task EXCEPT ![s] = r]
      BY <2>1 DEF Reserve
    <3>3. CASE Leave(s)
      BY <1>a, <2>0, <3>1, <3>3
    <3>4. ASSUME NEW r, task' = [task EXCEPT ![s] = r] PROVE FALSE
      BY <1>0, <2>0, <3>1, <3>4
    <3> QED BY <3>2, <3>3, <3>4
  <2>2. CASE Build(s) \/ Start(s)
    BY <1>0, <1>a, <2>0, <2>2 DEF Build, Start
  <2>3. CASE Meta(s)
    <3>1. task[s].pc = "meta"
      BY <2>3 DEF Meta
    <3>2. task' # [task EXCEPT ![s].pc = "health", ![s].snap = row[s[2]]]
          /\ task' # [task EXCEPT ![s].pc = "health",
                                  ![s].snap = [row[s[2]] EXCEPT !.idle = FALSE]]
      BY <1>0, <2>0, <3>1
    <3> QED BY <1>0, <1>a, <2>0, <2>3, <3>1, <3>2 DEF Meta
  <2>4. CASE Healthy(s) \/ Unhealthy(s) \/ PauseUnhealthy(s) \/ QueueUnhealthy(s)
    BY <1>0, <1>a, <2>0, <2>4
       DEF Healthy, Unhealthy, PauseUnhealthy, QueueUnhealthy
  <2>5. CASE StagingHealthy(s) \/ StagingUnhealthy(s) \/ Promote(s) \/ Flip(s)
    BY <1>0, <1>a, <2>0, <2>5 DEF StagingHealthy, StagingUnhealthy, Promote, Flip
  <2>6. CASE AbortStaging(s)
    <3>1. task[s].pc = "zdabort"
      BY <2>6 DEF AbortStaging
    <3>2. task' # [task EXCEPT ![s].pc = "zdsave", ![s].snap = row[s[2]]]
      BY <1>0, <2>0, <3>1
    <3> QED BY <1>0, <1>a, <2>0, <2>6, <3>1, <3>2 DEF AbortStaging
  <2>7. CASE SaveAborted(s) \/ FinalizeDeployError(s)
    BY <1>0, <1>a, <2>0, <2>7 DEF SaveAborted, FinalizeDeployError
  <2> QED BY <1>5, <2>1, <2>2, <2>3, <2>4, <2>5, <2>6, <2>7 DEF RunStep
<1>6. ASSUME NEW s \in Runs, RunFails(s) PROVE FALSE
  <2>0. s \in Task
    BY TaskTypes
  <2>1. CASE BuildFails(s) \/ StartFails(s)
    BY <1>0, <1>a, <2>0, <2>1 DEF BuildFails, StartFails
  <2>2. CASE PromoteFails(s)
    BY <1>b, <2>0, <2>2 DEF PromoteFails
  <2> QED BY <1>6, <2>1, <2>2 DEF RunFails
<1>7. ASSUME NEW s \in Requests, RequestStep(s) \/ ScriptFails(s) PROVE FALSE
  <2>0. s \in Task
    BY TaskTypes
  <2>1. CASE ReserveActivate(s)
    BY <1>0, <1>a, <2>0, <2>1 DEF ReserveActivate
  <2>2. CASE EnqueueForced(s) \/ FinishScript(s) \/ SaveTaskInfo(s) \/ ScriptFails(s)
    BY <1>0, <1>a, <2>0, <2>2
       DEF EnqueueForced, FinishScript, CancelPendingDeployJob, SaveTaskInfo, ScriptFails
  <2>3. CASE Kill(s)
    <3>1. task[s].pc = "kill"
      BY <2>3 DEF Kill
    <3> QED BY <1>0, <2>0, <2>3, <3>1 DEF Kill
  <2>4. CASE JobGone(s) \/ JobStuck(s) \/ Cancel(s) \/ Restart(s)
    BY <1>0, <1>a, <2>0, <2>4 DEF JobGone, JobStuck, Cancel, Restart
  <2> QED BY <1>7, <2>1, <2>2, <2>3, <2>4 DEF RequestStep
<1>8. ASSUME NEW s \in Requests, NEW op \in Op, Begin(s, op) PROVE FALSE
  <2>1. s \in Task /\ task[s].pc = "idle"
    BY <1>8, TaskTypes DEF Begin
  <2> QED BY <1>b, <1>8, <2>1 DEF Begin
<1>9. ASSUME NEW s \in Task, Schedule(s) PROVE FALSE
  <2>1. task[s].pc = "schedule" /\ (End(s) \/ Leave(s))
    BY <1>9 DEF Schedule
  <2> QED BY <1>a, <2>1
<1>10. ~SetLimit
  BY DEF SetLimit
<1> QED BY <1>1, <1>2, <1>3, <1>4, <1>5, <1>6, <1>7, <1>8, <1>9, <1>10 DEF Next

\* docs/instances.md promises that slots are reserved atomically so that the
\* limit is not exceeded, and that a redeploy of an active preview does not
\* enter the waiting queue: so it is for every reservation, of a job, a wake or
\* a request, whatever runs beside it, for any limit and any concurrency.
THEOREM ReservationsKeepLimit == Spec => ReservationKeepsLimit
<1> DEFINE Kept(t) ==
      task[t].pc = "reserve" /\ task'[t].pc # "reserve" =>
        /\ Occupied' \subseteq Occupied \/ Cardinality(Occupied') <= task[t].cap
        /\ row[t[2]].status = "active" => row'[t[2]].status # "waiting"
<1>1. TypeOK /\ [Next]_vars => [\A t \in Task : Kept(t)]_vars
  <2> SUFFICES ASSUME TypeOK, Next, NEW t \in Task, task[t].pc = "reserve",
                      task'[t].pc # "reserve"
               PROVE  Kept(t)
    OBVIOUS
  <2>1. t[2] \in Instance /\ task[t].cap \in Nat
    BY TaskTypes DEF TypeOK, TaskState
  <2>2. Crash \/ Reserve(t) \/ ReserveActivate(t)
    BY OnlyReserving
  <2>3. CASE Crash
    <3>1. row' = row /\ Occupied' = Occupied
      BY <2>3 DEF Crash, Occupied
    <3> QED BY <3>1
  <2>4. CASE Reserve(t) \/ ReserveActivate(t)
    <3>1. TakeSlot(t[2], task[t].cap)
      BY <2>4 DEF Reserve, ReserveActivate
    <3> QED BY <2>1, <3>1, TakeSlotKeepsLimit
  <2> QED BY <2>2, <2>3, <2>4
<1> QED BY <1>1, TypeCorrect, PTL DEF Spec, ReservationKeepsLimit

-----------------------------------------------------------------------------
(* The deploy of a preview keeps its job id.                               *)

\* No deploy job of the worker begins in this step.
NoJobBegins ==
  \A i \in Instance : task'[Job(i)].pc # "idle" => task[Job(i)].pc # "idle"

\* A step by which a task that is under way goes on or ends begins no job.
LEMMA MovesBeginNoJob ==
  ASSUME TypeOK, NEW s \in Task, task[s].pc # "idle",
         \/ \E pc \in PC : Move(s, pc) \/ Goto(s, pc)
         \/ End(s) \/ Succeed(s) \/ Leave(s)
  PROVE  NoJobBegins
<1>1. task \in [Task -> TaskState] /\ s[2] \in Instance
  BY TaskTypes DEF TypeOK
<1>2. ASSUME NEW i \in Instance, NEW pc \in PC, task' = WakeSettled(i, pc)
      PROVE  NoJobBegins
  BY <1>1, <1>2, TaskTypes DEF WakeSettled, NoJobBegins, Job, Wake, Idle
<1>3. "schedule" \in PC /\ "tail" \in PC
  BY DEF PC
<1>4. ASSUME NEW r, task' = [task EXCEPT ![s] = r] PROVE NoJobBegins
  BY <1>1, <1>4, TaskTypes DEF NoJobBegins
<1>5. CASE Succeed(s)
  BY <1>1, <1>2, <1>3, <1>4, <1>5 DEF Succeed
<1>6. CASE Leave(s)
  BY <1>1, <1>2, <1>3, <1>4, <1>6 DEF Leave
<1>7. CASE End(s) \/ \E pc \in PC : Move(s, pc) \/ Goto(s, pc)
  BY <1>1, <1>4, <1>7, TaskTypes DEF End, Move, Goto, NoJobBegins
<1> QED BY <1>5, <1>6, <1>7

\* The worker begins a deploy only in StartJob.
LEMMA OnlyStartJobBegins ==
  ASSUME TypeOK, Next
  PROVE  NoJobBegins \/ \E i \in Instance : StartJob(i)
<1>0. /\ task \in [Task -> TaskState]
      /\ PC # {} /\ {"poll", "idle", "start", "meta", "fail", "health", "hcpause",
          "hcqueue", "promote", "flip", "zdabort", "enqueue", "schedule",
          "stopped"} \subseteq PC
  BY DEF TypeOK, PC
<1>a. ASSUME NEW s \in Task, task[s].pc # "idle",
             \/ \E pc \in PC : Move(s, pc) \/ Goto(s, pc)
             \/ End(s) \/ Succeed(s) \/ Leave(s)
      PROVE  NoJobBegins
  BY <1>a, MovesBeginNoJob
<1>b. ASSUME NEW s \in Task, \A i \in Instance : s = Job(i) => task[s].pc # "idle",
             NEW r, task' = [task EXCEPT ![s] = r]
      PROVE  NoJobBegins
  BY <1>0, <1>b, TaskTypes DEF NoJobBegins
<1>1. ASSUME NEW i \in Instance, Webhook(i) \/ RequestWake(i) PROVE NoJobBegins
  <2>1. Wake(i) \in Task /\ \A j \in Instance : Job(j) # Wake(i)
    BY TaskTypes DEF Job, Wake
  <2> QED BY <1>0, <1>1, <2>1, TaskTypes
          DEF Webhook, RequestWake, WakeQueued, NoJobBegins
<1>2. ASSUME NEW i \in Instance, StartWake(i) PROVE NoJobBegins
  <2>1. Wake(i) \in Task /\ task[Wake(i)].pc = "queued"
    BY <1>2, TaskTypes DEF StartWake
  <2>2. CASE task' = [task EXCEPT ![Wake(i)] = [At("reserve", "deploy")
                                                  EXCEPT !.cap = limit]]
    BY <1>b, <2>1, <2>2
  <2>3. CASE Succeed(Wake(i)) \/ Leave(Wake(i)) \/ Move(Wake(i), "poll")
    BY <1>0, <1>a, <2>1, <2>3
  <2> QED BY <1>2, <2>2, <2>3 DEF StartWake
<1>3. ASSUME NEW i \in Instance, PollDeploy(i) \/ EndJob(i) PROVE NoJobBegins
  <2>1. /\ PollDeploy(i) => task[Wake(i)].pc = "poll"
        /\ EndJob(i) => task[Job(i)].pc = "tail"
    BY DEF PollDeploy, EndJob
  <2> QED BY <1>a, <1>3, <2>1, TaskTypes DEF PollDeploy, EndJob
<1>4. ASSUME NEW s \in Runs, RunStep(s) PROVE NoJobBegins
  <2>0. s \in Task
    BY TaskTypes
  <2>1. CASE Reserve(s)
    <3>1. task[s].pc = "reserve"
          /\ (Leave(s) \/ \E r : task' = [task EXCEPT ![s] = r])
      BY <2>1 DEF Reserve
    <3> QED BY <1>a, <1>b, <2>0, <3>1
  <2>2. CASE Build(s) \/ Start(s)
    BY <1>0, <1>a, <2>0, <2>2 DEF Build, Start
  <2>3. CASE Meta(s)
    <3>1. task[s].pc = "meta"
      BY <2>3 DEF Meta
    <3>2. ASSUME NEW snap, task' = [task EXCEPT ![s].pc = "health", ![s].snap = snap]
          PROVE  NoJobBegins
      BY <1>0, <2>0, <3>1, <3>2, TaskTypes DEF NoJobBegins
    <3> QED BY <1>0, <1>a, <2>0, <2>3, <3>1, <3>2 DEF Meta
  <2>4. CASE Healthy(s) \/ Unhealthy(s) \/ PauseUnhealthy(s) \/ QueueUnhealthy(s)
    BY <1>0, <1>a, <2>0, <2>4
       DEF Healthy, Unhealthy, PauseUnhealthy, QueueUnhealthy
  <2>5. CASE StagingHealthy(s) \/ StagingUnhealthy(s) \/ Promote(s) \/ Flip(s)
    BY <1>0, <1>a, <2>0, <2>5 DEF StagingHealthy, StagingUnhealthy, Promote, Flip
  <2>6. CASE AbortStaging(s)
    <3>1. task[s].pc = "zdabort"
      BY <2>6 DEF AbortStaging
    <3>2. ASSUME task' = [task EXCEPT ![s].pc = "zdsave", ![s].snap = row[s[2]]]
          PROVE  NoJobBegins
      BY <1>0, <2>0, <3>1, <3>2, TaskTypes DEF NoJobBegins
    <3> QED BY <1>0, <1>a, <2>0, <2>6, <3>1, <3>2 DEF AbortStaging
  <2>7. CASE SaveAborted(s) \/ FinalizeDeployError(s)
    BY <1>0, <1>a, <2>0, <2>7 DEF SaveAborted, FinalizeDeployError
  <2> QED BY <1>4, <2>1, <2>2, <2>3, <2>4, <2>5, <2>6, <2>7 DEF RunStep
<1>5. ASSUME NEW s \in Runs, RunFails(s) PROVE NoJobBegins
  <2>0. s \in Task
    BY TaskTypes
  <2>1. CASE BuildFails(s) \/ StartFails(s)
    BY <1>0, <1>a, <2>0, <2>1 DEF BuildFails, StartFails
  <2>2. CASE PromoteFails(s)
    BY <1>b, <2>0, <2>2 DEF PromoteFails
  <2> QED BY <1>5, <2>1, <2>2 DEF RunFails
<1>6. ASSUME NEW s \in Requests, RequestStep(s) \/ ScriptFails(s) PROVE NoJobBegins
  <2>0. s \in Task
    BY TaskTypes
  <2>1. CASE ReserveActivate(s)
    BY <1>0, <1>a, <2>0, <2>1 DEF ReserveActivate
  <2>2. CASE EnqueueForced(s) \/ FinishScript(s) \/ SaveTaskInfo(s) \/ ScriptFails(s)
    BY <1>0, <1>a, <2>0, <2>2
       DEF EnqueueForced, FinishScript, CancelPendingDeployJob, SaveTaskInfo, ScriptFails
  <2>3. CASE Kill(s)
    <3>1. task[s].pc = "kill"
      BY <2>3 DEF Kill
    <3>2. ASSUME NEW i \in Instance, task[Job(i)].pc = "idle"
          PROVE  task'[Job(i)] = task[Job(i)]
      BY <1>0, <2>0, <2>3, <3>1, <3>2, TaskTypes DEF Kill
    <3> QED BY <3>2 DEF NoJobBegins
  <2>4. CASE JobGone(s) \/ JobStuck(s) \/ Cancel(s) \/ Restart(s)
    BY <1>0, <1>a, <2>0, <2>4 DEF JobGone, JobStuck, Cancel, Restart
  <2> QED BY <1>6, <2>1, <2>2, <2>3, <2>4 DEF RequestStep
<1>7. ASSUME NEW s \in Requests, NEW op \in Op, Begin(s, op) PROVE NoJobBegins
  <2>1. s \in Task /\ \A i \in Instance : s # Job(i)
    BY TaskTypes, ClientAssumption DEF Requests, Job
  <2>2. \E r : task' = [task EXCEPT ![s] = r]
    BY <1>7 DEF Begin
  <2> QED BY <1>b, <2>1, <2>2
<1>8. ASSUME NEW s \in Task, Schedule(s) PROVE NoJobBegins
  <2>1. task[s].pc = "schedule" /\ (End(s) \/ Leave(s))
    BY <1>8 DEF Schedule
  <2> QED BY <1>a, <2>1
<1>9. CASE SetLimit
  BY <1>9 DEF SetLimit, NoJobBegins
<1>10. CASE Crash
  BY <1>0, <1>10, TaskTypes DEF Crash, NoJobBegins, Idle
<1> QED BY <1>1, <1>2, <1>3, <1>4, <1>5, <1>6, <1>7, <1>8, <1>9, <1>10 DEF Next

\* Only a sleep, an interrupt, the end of the job or a crash removes a job.
LEMMA JobsRemoved ==
  ASSUME TypeOK, Next, NEW i \in Instance, job[i] # "none", job'[i] = "none"
  PROVE  \/ task[Job(i)].pc = "idle"
         \/ task'[Job(i)].pc = "idle"
<1>0. /\ job \in [Instance -> JobState] /\ task \in [Task -> TaskState]
      /\ Job(i) \in Task
  BY TaskTypes DEF TypeOK
<1>a. ASSUME NEW j, NEW data, job' = Add(j, data) PROVE FALSE
  BY <1>0, <1>a DEF Add
<1>b. ASSUME ProcessWaitingQueue PROVE FALSE
  BY <1>0, <1>b DEF ProcessWaitingQueue
<1>1. ASSUME NEW j \in Instance, Webhook(j) PROVE FALSE
  BY <1>a, <1>1 DEF Webhook
<1>2. ASSUME NEW j \in Instance,
             RequestWake(j) \/ StartJob(j) \/ StartWake(j) \/ PollDeploy(j)
      PROVE  FALSE
  BY <1>2 DEF RequestWake, StartJob, ResumesIdleSleep, StartWake, PollDeploy
<1>3. ASSUME NEW j \in Instance, EndJob(j) PROVE task'[Job(i)].pc = "idle"
  <2>1. i = j
    BY <1>0, <1>3 DEF EndJob
  <2> QED BY <1>0, <1>3, <2>1 DEF EndJob, End, Idle
<1>4. ASSUME NEW s \in Runs, RunStep(s) PROVE FALSE
  BY <1>b, <1>4 DEF RunStep, Reserve, Build, Start, Meta, Healthy, Unhealthy,
     PauseUnhealthy, QueueUnhealthy, StagingHealthy, StagingUnhealthy, Promote,
     Flip, AbortStaging, SaveAborted, FinalizeDeployError
<1>5. ASSUME NEW s \in Runs, RunFails(s) PROVE FALSE
  BY <1>5 DEF RunFails, BuildFails, StartFails, PromoteFails
<1>6. ASSUME NEW s \in Requests, RequestStep(s) PROVE task[Job(i)].pc = "idle"
  <2>1. CASE EnqueueForced(s)
    BY <1>a, <2>1 DEF EnqueueForced
  <2>2. CASE FinishScript(s)
    BY <1>0, <2>2 DEF FinishScript, CancelPendingDeployJob
  <2>3. CASE JobGone(s)
    BY <1>0, <2>3 DEF JobGone
  <2>4. CASE ReserveActivate(s) \/ SaveTaskInfo(s) \/ Kill(s) \/ JobStuck(s)
             \/ Cancel(s) \/ Restart(s)
    BY <2>4 DEF ReserveActivate, SaveTaskInfo, Kill, JobStuck, Cancel, Restart
  <2> QED BY <1>6, <2>1, <2>2, <2>3, <2>4 DEF RequestStep
<1>7. ASSUME NEW s \in Requests, NEW op \in Op, Begin(s, op) \/ ScriptFails(s)
      PROVE  FALSE
  BY <1>7 DEF Begin, ScriptFails
<1>8. ASSUME NEW s \in Task, Schedule(s) PROVE FALSE
  BY <1>b, <1>8 DEF Schedule
<1>9. ~SetLimit
  BY DEF SetLimit
<1>10. CASE Crash
  BY <1>0, <1>10 DEF Crash, Idle
<1> QED BY <1>1, <1>2, <1>3, <1>4, <1>5, <1>6, <1>7, <1>8, <1>9, <1>10
        DEF Next, ScriptFails

\* The job of a deploy under way stays in BullMQ, with its id, until the deploy
\* ends, whatever sleeps, cancels, restarts and crashes run beside it: BullMQ
\* refuses a second job of that id, so one preview never has two workers.
THEOREM DeploysKeepTheirId == Spec => []DeployKeepsItsId
<1>1. Init => DeployKeepsItsId
  BY TaskTypes DEF Init, DeployKeepsItsId, Idle
<1>2. TypeOK /\ DeployKeepsItsId /\ [Next]_vars => DeployKeepsItsId'
  <2> SUFFICES ASSUME TypeOK, DeployKeepsItsId, Next PROVE DeployKeepsItsId'
    BY DEF vars, DeployKeepsItsId
  <2> SUFFICES ASSUME NEW i \in Instance, task'[Job(i)].pc # "idle"
               PROVE  job'[i] # "none"
    BY DEF DeployKeepsItsId
  <2>1. CASE task[Job(i)].pc # "idle"
    BY <2>1, JobsRemoved DEF DeployKeepsItsId
  <2>2. CASE task[Job(i)].pc = "idle"
    <3>1. PICK j \in Instance : StartJob(j)
      BY <2>2, OnlyStartJobBegins DEF NoJobBegins
    <3>2. Job(i) \in Task /\ Job(j) \in Task /\ Wake(j) \in Task /\ Job(i) # Wake(j)
      BY TaskTypes DEF Job, Wake
    <3>3. task \in [Task -> TaskState]
      BY DEF TypeOK
    <3>4. i = j
      <4>1. SUFFICES ASSUME Job(i) # Job(j) PROVE FALSE
        BY DEF Job
      <4>2. task'[Job(i)] = task[Job(i)]
        BY <3>1, <3>2, <3>3, <4>1 DEF StartJob, ResumesIdleSleep, WakeQueued
      <4> QED BY <2>2, <4>2
    <3> QED BY <3>1, <3>4 DEF StartJob, ResumesIdleSleep
  <2> QED BY <2>1, <2>2
<1> QED BY <1>1, <1>2, TypeCorrect, PTL DEF Spec

-----------------------------------------------------------------------------
(* The errors of a preview are not suppressed for ever.                    *)

\* A cancel or a restart that is stopping a deploy moves only by its own steps
\* or by a crash.
LEMMA InterruptStays ==
  ASSUME TypeOK, Next, NEW c \in Task, task[c].pc \in {"kill", "gone"},
         ~Crash, ~Kill(c), ~JobGone(c), ~JobStuck(c)
  PROVE  task'[c] = task[c]
<1>0. /\ task \in [Task -> TaskState]
      /\ PC # {} /\ {"poll", "idle", "start", "meta", "fail", "health", "hcpause",
          "hcqueue", "promote", "flip", "zdabort", "enqueue", "schedule",
          "stopped"} \subseteq PC
  BY DEF TypeOK, PC
<1>a. ASSUME NEW s \in Task, task[s].pc \notin {"kill", "gone"},
             \/ \E pc \in PC : Move(s, pc) \/ Goto(s, pc)
             \/ End(s) \/ Succeed(s) \/ Leave(s)
      PROVE  task'[c] = task[c]
  BY <1>a, OthersStay
<1>b. ASSUME NEW s \in Task, task[s].pc \notin {"kill", "gone"}, NEW r,
             task' = [task EXCEPT ![s] = r]
      PROVE  task'[c] = task[c]
  BY <1>0, <1>b
<1>1. ASSUME NEW i \in Instance, Webhook(i) \/ RequestWake(i) PROVE task'[c] = task[c]
  BY <1>0, <1>1, TaskTypes DEF Webhook, RequestWake, WakeQueued
<1>2. ASSUME NEW i \in Instance, StartJob(i) PROVE task'[c] = task[c]
  <2>1. Job(i) \in Task /\ Wake(i) \in Task /\ task[Job(i)].pc = "idle"
    BY <1>2, TaskTypes DEF StartJob, ResumesIdleSleep
  <2>2. CASE task' = WakeQueued([task EXCEPT ![Job(i)] = At("await", "deploy")], i)
    <3>1. [task EXCEPT ![Job(i)] = At("await", "deploy")][c] = task[c]
      BY <1>0, <2>1
    <3> QED BY <1>0, <2>1, <2>2, <3>1 DEF WakeQueued
  <2> QED BY <1>b, <1>2, <2>1, <2>2 DEF StartJob, ResumesIdleSleep
<1>3. ASSUME NEW i \in Instance, StartWake(i) PROVE task'[c] = task[c]
  <2>1. Wake(i) \in Task /\ task[Wake(i)].pc = "queued"
    BY <1>3, TaskTypes DEF StartWake
  <2>2. CASE Succeed(Wake(i)) \/ Leave(Wake(i)) \/ Move(Wake(i), "poll")
    BY <1>0, <1>a, <2>1, <2>2
  <2>3. CASE task' = [task EXCEPT ![Wake(i)] = [At("reserve", "deploy")
                                                  EXCEPT !.cap = limit]]
    BY <1>b, <2>1, <2>3
  <2> QED BY <1>3, <2>2, <2>3 DEF StartWake
<1>4. ASSUME NEW i \in Instance, PollDeploy(i) \/ EndJob(i) PROVE task'[c] = task[c]
  <2>1. /\ PollDeploy(i) => task[Wake(i)].pc = "poll"
        /\ EndJob(i) => task[Job(i)].pc = "tail"
    BY DEF PollDeploy, EndJob
  <2> QED BY <1>a, <1>4, <2>1, TaskTypes DEF PollDeploy, EndJob
<1>5. ASSUME NEW s \in Runs, RunStep(s) PROVE task'[c] = task[c]
  <2>0. s \in Task
    BY TaskTypes
  <2>1. CASE Reserve(s)
    <3>1. task[s].pc = "reserve"
          /\ (Leave(s) \/ \E r : task' = [task EXCEPT ![s] = r])
      BY <2>1 DEF Reserve
    <3> QED BY <1>a, <1>b, <2>0, <3>1
  <2>2. CASE Build(s) \/ Start(s)
    BY <1>0, <1>a, <2>0, <2>2 DEF Build, Start
  <2>3. CASE Meta(s)
    <3>1. task[s].pc = "meta"
      BY <2>3 DEF Meta
    <3>2. ASSUME NEW snap, task' = [task EXCEPT ![s].pc = "health", ![s].snap = snap]
          PROVE  task'[c] = task[c]
      BY <1>0, <2>0, <3>1, <3>2
    <3> QED BY <1>0, <1>a, <2>0, <2>3, <3>1, <3>2 DEF Meta
  <2>4. CASE Healthy(s) \/ Unhealthy(s) \/ PauseUnhealthy(s) \/ QueueUnhealthy(s)
    BY <1>0, <1>a, <2>0, <2>4
       DEF Healthy, Unhealthy, PauseUnhealthy, QueueUnhealthy
  <2>5. CASE StagingHealthy(s) \/ StagingUnhealthy(s) \/ Promote(s) \/ Flip(s)
    BY <1>0, <1>a, <2>0, <2>5 DEF StagingHealthy, StagingUnhealthy, Promote, Flip
  <2>6. CASE AbortStaging(s)
    <3>1. task[s].pc = "zdabort"
      BY <2>6 DEF AbortStaging
    <3>2. ASSUME task' = [task EXCEPT ![s].pc = "zdsave", ![s].snap = row[s[2]]]
          PROVE  task'[c] = task[c]
      BY <1>0, <2>0, <3>1, <3>2
    <3> QED BY <1>0, <1>a, <2>0, <2>6, <3>1, <3>2 DEF AbortStaging
  <2>7. CASE SaveAborted(s) \/ FinalizeDeployError(s)
    BY <1>0, <1>a, <2>0, <2>7 DEF SaveAborted, FinalizeDeployError
  <2> QED BY <1>5, <2>1, <2>2, <2>3, <2>4, <2>5, <2>6, <2>7 DEF RunStep
<1>6. ASSUME NEW s \in Runs, RunFails(s) PROVE task'[c] = task[c]
  <2>0. s \in Task
    BY TaskTypes
  <2>1. CASE BuildFails(s) \/ StartFails(s)
    BY <1>0, <1>a, <2>0, <2>1 DEF BuildFails, StartFails
  <2>2. CASE PromoteFails(s)
    BY <1>b, <2>0, <2>2 DEF PromoteFails
  <2> QED BY <1>6, <2>1, <2>2 DEF RunFails
<1>7. ASSUME NEW s \in Requests, RequestStep(s) \/ ScriptFails(s)
      PROVE  task'[c] = task[c]
  <2>0. s \in Task
    BY TaskTypes
  <2>1. CASE ReserveActivate(s)
    BY <1>0, <1>a, <2>0, <2>1 DEF ReserveActivate
  <2>2. CASE EnqueueForced(s) \/ FinishScript(s) \/ SaveTaskInfo(s) \/ ScriptFails(s)
    BY <1>0, <1>a, <2>0, <2>2
       DEF EnqueueForced, FinishScript, CancelPendingDeployJob, SaveTaskInfo, ScriptFails
  <2>3. CASE Kill(s)
    <3>1. c # s
      BY <2>3
    <3> QED BY <1>0, <2>0, <2>3, <3>1 DEF Kill
  <2>4. CASE JobGone(s) \/ JobStuck(s)
    <3>1. c # s /\ Move(s, "stopped")
      BY <2>4 DEF JobGone, JobStuck
    <3> QED BY <1>0, <2>0, <3>1 DEF Move
  <2>5. CASE Cancel(s) \/ Restart(s)
    BY <1>0, <1>a, <2>0, <2>5 DEF Cancel, Restart
  <2> QED BY <1>7, <2>1, <2>2, <2>3, <2>4, <2>5 DEF RequestStep
<1>8. ASSUME NEW s \in Requests, NEW op \in Op, Begin(s, op) PROVE task'[c] = task[c]
  <2>1. s \in Task /\ task[s].pc = "idle" /\ \E r : task' = [task EXCEPT ![s] = r]
    BY <1>8, TaskTypes DEF Begin
  <2> QED BY <1>b, <2>1
<1>9. ASSUME NEW s \in Task, Schedule(s) PROVE task'[c] = task[c]
  <2>1. task[s].pc = "schedule" /\ (End(s) \/ Leave(s))
    BY <1>9 DEF Schedule
  <2> QED BY <1>a, <2>1
<1>10. SetLimit => task'[c] = task[c]
  BY DEF SetLimit
<1> QED BY <1>1, <1>2, <1>3, <1>4, <1>5, <1>6, <1>7, <1>8, <1>9, <1>10 DEF Next

\* The suppress key of a preview is added only by a cancel or a restart that
\* begins.
LEMMA OnlyBeginSuppresses ==
  ASSUME Next, NEW i \in suppress', i \notin suppress
  PROVE  \E t \in Requests, op \in {"cancel", "restart"} : t[2] = i /\ Begin(t, op)
<1>1. ASSUME NEW t \in Requests, NEW op \in Op, Begin(t, op)
      PROVE  \E u \in Requests, p \in {"cancel", "restart"} : u[2] = i /\ Begin(u, p)
  <2>1. op \in {"cancel", "restart"} /\ t[2] = i
    BY <1>1 DEF Begin
  <2> QED BY <1>1, <2>1
<1>2. ASSUME NEW j \in Instance,
             \/ Webhook(j) \/ RequestWake(j) \/ StartJob(j) \/ StartWake(j)
             \/ PollDeploy(j) \/ EndJob(j)
      PROVE  FALSE
  BY <1>2 DEF Webhook, RequestWake, StartJob, ResumesIdleSleep, StartWake, PollDeploy, EndJob
<1>3. ASSUME NEW t \in Runs, RunStep(t) \/ RunFails(t) PROVE FALSE
  BY <1>3 DEF RunStep, RunFails, Reserve, Build, Start, Meta, Healthy, Unhealthy,
     PauseUnhealthy, QueueUnhealthy, StagingHealthy, StagingUnhealthy, Promote,
     Flip, AbortStaging, SaveAborted, FinalizeDeployError, BuildFails, StartFails,
     PromoteFails
<1>4. ASSUME NEW t \in Requests, RequestStep(t) \/ ScriptFails(t) PROVE FALSE
  BY <1>4 DEF RequestStep, ReserveActivate, EnqueueForced, FinishScript, CancelPendingDeployJob,
     SaveTaskInfo, Kill, JobGone, JobStuck, Cancel, Restart, ScriptFails
<1>5. ASSUME NEW t \in Task, Schedule(t) PROVE FALSE
  BY <1>5 DEF Schedule
<1>6. ~SetLimit /\ ~Crash
  BY DEF SetLimit, Crash
<1> QED BY <1>1, <1>2, <1>3, <1>4, <1>5, <1>6 DEF Next

\* finalizeDeployError drops an error only while a cancel or a restart is
\* stopping that preview's deploy: the key is always removed again, whether the
\* deploy ended or outlasted the twenty seconds it is given, and a crash clears
\* it, so that later failures of the preview are recorded.
THEOREM SuppressionIsTemporary == Spec => []SuppressIsTemporary
<1>1. Init => SuppressIsTemporary
  BY DEF Init, SuppressIsTemporary
<1>2. TypeOK /\ SuppressIsTemporary /\ [Next]_vars => SuppressIsTemporary'
  <2> SUFFICES ASSUME TypeOK, SuppressIsTemporary, Next PROVE SuppressIsTemporary'
    BY DEF vars, SuppressIsTemporary, Interrupts
  <2> SUFFICES ASSUME NEW i \in suppress'
               PROVE  \E c \in Task : /\ c[2] = i /\ task'[c].op \in {"cancel", "restart"}
                                      /\ task'[c].pc \in {"kill", "gone"}
    BY DEF SuppressIsTemporary, Interrupts
  <2>0. task \in [Task -> TaskState] /\ suppress \subseteq Instance
    BY DEF TypeOK
  <2>1. CASE i \in suppress
    <3>1. PICK c \in Task : /\ c[2] = i /\ task[c].op \in {"cancel", "restart"}
                            /\ task[c].pc \in {"kill", "gone"}
      BY <2>1 DEF SuppressIsTemporary, Interrupts
    <3>2. ~Crash /\ ~JobGone(c) /\ ~JobStuck(c)
      BY <3>1 DEF Crash, JobGone, JobStuck
    <3>3. CASE Kill(c)
      <4>1. task'[c] = [task[c] EXCEPT !.pc = "gone"]
        BY <2>0, <3>3 DEF Kill
      <4> QED BY <2>0, <3>1, <4>1 DEF TaskState
    <3>4. CASE ~Kill(c)
      BY <3>1, <3>2, <3>4, InterruptStays
    <3> QED BY <3>3, <3>4
  <2>2. CASE i \notin suppress
    <3>1. PICK t \in Requests, op \in {"cancel", "restart"} :
            t[2] = i /\ Begin(t, op)
      BY <2>2, OnlyBeginSuppresses
    <3>2. t \in Task /\ task'[t] = [At("kill", op) EXCEPT !.zd = row[t[2]].status = "active"]
      BY <2>0, <3>1, TaskTypes DEF Begin
    <3>3. task'[t].pc = "kill" /\ task'[t].op = op
      BY <3>2 DEF At, Idle
    <3> QED BY <3>1, <3>2, <3>3
  <2> QED BY <2>1, <2>2
<1> QED BY <1>1, <1>2, TypeCorrect, PTL DEF Spec

=============================================================================
