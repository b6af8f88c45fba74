------------------------ MODULE SerialLifecycle_proofs ------------------------
(***************************************************************************)
(* Theorems about InstanceLifecycle under SerialSpec, that is when one     *)
(* flow at a time is at work on a preview, for every set of previews and   *)
(* clients, every limit and every concurrency.  A theorem that needs an    *)
(* operation or a failure to be absent says so in its statement.           *)
(***************************************************************************)
EXTENDS InstanceLifecycle_proofs

-----------------------------------------------------------------------------
(* The inductive invariant.                                                *)

\* Where a task of each kind can be, and for which operation.
WellShaped(kind, pc, op, zd) ==
  \/ pc = "idle" /\ op = "none"
  \/ /\ kind = "wake" /\ op = "deploy" /\ ~zd
     /\ pc \in {"queued", "poll", "reserve", "build", "start", "meta", "health",
                "hcpause", "hcqueue", "fail"}
  \/ /\ kind = "job" /\ op = "deploy"
     /\ pc \in {"await", "reserve", "build", "start", "meta", "health", "promote",
                "flip", "zdabort", "zdsave", "hcpause", "hcqueue", "fail",
                "schedule", "tail"}
  \/ kind = "job" /\ op = "cutover" /\ pc \in {"zdabort", "zdsave", "fail"}
  \/ /\ kind \in Client
     /\ \/ op \in {"pause", "sleep", "destroy"} /\ pc \in {"script", "schedule"}
        \/ op = "activate" /\ pc \in {"reserve", "enqueue"}
        \/ op = "clickup" /\ pc = "fetch"
        \/ op = "cancel" /\ pc \in {"kill", "gone", "stopped", "schedule"}
        \/ op = "restart" /\ pc \in {"kill", "gone", "stopped", "enqueue"}
Shaped(t) == WellShaped(t[1], task[t].pc, task[t].op, task[t].zd)
Shape == \A t \in Task : Shaped(t)

\* A cancel or a restart is stopping the deploy of i.
Stopping(i) == \E c \in Client : task[<<c, i>>].pc \in {"kill", "gone"}

Serves(i) == rt[i].app /\ rt[i].location = "app"

\* What the step a run is at says of the row and of the runtimes of its preview.
RunFits(t) ==
  LET i == t[2]
      pc == task[t].pc
      status == row[i].status IN
  /\ pc = "poll" => status = "deploying"
  /\ pc = "reserve" /\ t = Wake(i) => status # "active"
  /\ pc \in {"build", "start", "meta", "health"} =>
       IF task[t].zd THEN status = "active" /\ row[i].zdip ELSE status = "deploying"
  /\ pc = "start" => ~task[t].zd
  /\ pc \in {"meta", "health"} /\ ~task[t].zd => Serves(i)
  /\ pc = "health" /\ ~task[t].zd => task[t].snap = row[i]
  /\ pc \in {"promote", "flip"} => status = "active" /\ row[i].zdip
  /\ pc \in {"zdabort", "zdsave"} => status = "active" /\ row[i].zdip
  /\ pc = "promote" => rt[i].staged
  /\ pc = "flip" => Serves(i)
  /\ pc = "zdsave" => task[t].snap = row[i]
  /\ pc = "fail" => \/ status = "deploying"
                    \/ status = "active" /\ (row[i].zdip \/ task[t].op = "cutover")
  /\ pc \in {"hcpause", "hcqueue"} => status = "error"
  /\ pc = "schedule" => ~Interruptible(i)

\* What the step a request is at says of the row.
RequestFits(t) ==
  LET i == t[2]
      pc == task[t].pc IN
  /\ pc \in {"script", "fetch"} => task[t].snap = row[i] /\ row[i].status # "none"
  /\ pc = "script" /\ task[t].op # "destroy" => row[i].status = "active"
  /\ pc \in {"kill", "gone", "stopped"} =>
       Interruptible(i) /\ (task[t].zd <=> row[i].status = "active")
  /\ pc \in {"kill", "gone"} => i \in suppress

\* A job awaits only a wake at work on a preview asleep; one at its tail leaves
\* nothing in progress behind, unless a cancel or a restart is stopping it; and
\* a cancel or a restart goes on only when the job is gone.
Meets(i) ==
  /\ task[Job(i)].pc = "await" =>
       /\ task[Wake(i)].pc \notin {"idle", "poll"}
       /\ task[Wake(i)].pc = "queued" => row[i].status = "paused"
  /\ task[Job(i)].pc = "tail" => ~Interruptible(i) \/ Stopping(i)
  /\ \A c \in Client :
       /\ task[<<c, i>>].op \in {"cancel", "restart"}
       /\ task[<<c, i>>].pc \notin {"kill", "gone"}
       => task[Job(i)].pc # "tail"

\* Every flow about i is where the row says.
FitsAt(i) ==
  /\ RunFits(Job(i)) /\ RunFits(Wake(i))
  /\ \A c \in Client : RequestFits(<<c, i>>)
  /\ Meets(i)
  /\ row[i].status = "deploying" => ~row[i].zdip

\* What a row says of the runtimes is true.
TrueAt(i) ==
  /\ row[i].status = "active" => Serves(i)
  /\ row[i].status = "paused" => rt[i] = IF row[i].idle THEN Asleep ELSE NoRuntime

\* A deploy in progress has an owner that will end it or hand it on.
Owned(i) ==
  \/ job[i] # "none"
  \/ task[Wake(i)].pc \in {"build", "start", "meta", "health", "fail"}
  \/ \E c \in Client : task[<<c, i>>].pc \in {"enqueue", "kill", "gone", "stopped"}
OwnedAt(i) == Interruptible(i) => Owned(i)

CapsCurrent == \A t \in Task : task[t].pc = "reserve" => task[t].cap = limit

Fits == \A i \in Instance : FitsAt(i)
Truthful == \A i \in Instance : TrueAt(i)
Ownership == \A i \in Instance : OwnedAt(i)

-----------------------------------------------------------------------------
(* What a step does to the tasks, point by point.                          *)

\* Only task t is touched.
Others(t) == \A s \in Task : s # t => task'[s] = task[s]

\* A task is a job, a wake or a request, never two of them.
LEMMA Kinds ==
  ASSUME NEW t \in Task
  PROVE  /\ t = <<t[1], t[2]>> /\ t[2] \in Instance
         /\ \/ t \in Runs /\ t \notin Requests /\ t = Job(t[2]) /\ t[1] = "job"
            \/ t \in Runs /\ t \notin Requests /\ t = Wake(t[2]) /\ t[1] = "wake"
            \/ t \in Requests /\ t \notin Runs /\ t[1] \in Client
               /\ t[1] \notin {"job", "wake"}
BY ClientAssumption DEF Task, Kind, Runs, Requests, Job, Wake

\* ... and the three can be named from the preview.
LEMMA Named ==
  ASSUME NEW i \in Instance
  PROVE  /\ Job(i) \in Runs /\ Job(i) \in Task /\ Job(i)[1] = "job" /\ Job(i)[2] = i
         /\ Wake(i) \in Runs /\ Wake(i) \in Task /\ Wake(i)[1] = "wake"
         /\ Wake(i)[2] = i /\ Job(i) # Wake(i)
         /\ \A c \in Client : /\ <<c, i>> \in Requests /\ <<c, i>> \in Task
                             /\ <<c, i>>[1] = c /\ <<c, i>>[2] = i
                             /\ <<c, i>> # Job(i) /\ <<c, i>> # Wake(i)
BY ClientAssumption DEF Task, Kind, Runs, Requests, Job, Wake

\* The fields of a fresh flow and of an idle task.
LEMMA Fields ==
  /\ Idle.pc = "idle" /\ Idle.op = "none" /\ ~Idle.zd
  /\ \A pc, op : At(pc, op).pc = pc /\ At(pc, op).op = op /\ ~At(pc, op).zd
BY DEF At, Idle

\* One task is given a new record.
LEMMA Given ==
  ASSUME TypeOK, NEW t \in Task, NEW r, task' = [task EXCEPT ![t] = r]
  PROVE  task'[t] = r /\ Others(t)
BY DEF TypeOK, Others

\* A flow begins with one of its locals set.
LEMMA BegunWith ==
  ASSUME TypeOK, NEW t \in Task, NEW pc, NEW op, NEW v,
         task' = [task EXCEPT ![t] = [At(pc, op) EXCEPT !.zd = v]]
  PROVE  task'[t].pc = pc /\ task'[t].op = op /\ task'[t].zd = v /\ Others(t)
<1> DEFINE r == [At(pc, op) EXCEPT !.zd = v]
<1>1. r.pc = pc /\ r.op = op /\ r.zd = v
  BY DEF At, Idle
<1> HIDE DEF r
<1>2. task' = [task EXCEPT ![t] = r]
  BY DEF r
<1> QED BY <1>1, <1>2, Given
LEMMA BegunUnder ==
  ASSUME TypeOK, NEW t \in Task, NEW pc, NEW op, NEW v,
         task' = [task EXCEPT ![t] = [At(pc, op) EXCEPT !.cap = v]]
  PROVE  task'[t].pc = pc /\ task'[t].op = op /\ task'[t].zd = FALSE
         /\ task'[t].cap = v /\ Others(t)
<1> DEFINE r == [At(pc, op) EXCEPT !.cap = v]
<1>1. r.pc = pc /\ r.op = op /\ r.cap = v /\ r.zd = FALSE
  BY DEF At, Idle
<1> HIDE DEF r
<1>2. task' = [task EXCEPT ![t] = r]
  BY DEF r
<1> QED BY <1>1, <1>2, Given
\* A run begins with its reservation.
LEMMA BegunReserving ==
  ASSUME TypeOK, NEW t \in Task,
         task' = [task EXCEPT ![t] = [At("reserve", "deploy") EXCEPT !.cap = limit]]
  PROVE  task'[t].pc = "reserve" /\ task'[t].op = "deploy" /\ task'[t].zd = FALSE
         /\ task'[t].cap = limit /\ Others(t)
<1> DEFINE r == [At("reserve", "deploy") EXCEPT !.cap = limit]
<1>1. r.pc = "reserve" /\ r.op = "deploy" /\ r.cap = limit /\ r.zd = FALSE
  BY DEF At, Idle
<1> HIDE DEF r
<1>2. task' = [task EXCEPT ![t] = r]
  BY DEF r
<1> QED BY <1>1, <1>2, Given
LEMMA BegunFrom ==
  ASSUME TypeOK, NEW t \in Task, NEW pc, NEW op, NEW v,
         task' = [task EXCEPT ![t] = [At(pc, op) EXCEPT !.snap = v]]
  PROVE  task'[t].pc = pc /\ task'[t].op = op /\ task'[t].snap = v /\ Others(t)
<1> DEFINE r == [At(pc, op) EXCEPT !.snap = v]
<1>1. r.pc = pc /\ r.op = op /\ r.snap = v
  BY DEF At, Idle
<1> HIDE DEF r
<1>2. task' = [task EXCEPT ![t] = r]
  BY DEF r
<1> QED BY <1>1, <1>2, Given

\* One task moves within its flow, loses its locals, or ends.
LEMMA Moved ==
  ASSUME TypeOK, NEW t \in Task, NEW pc
  PROVE  /\ Move(t, pc) =>
              /\ task'[t].pc = pc /\ task'[t].op = task[t].op
              /\ task'[t].zd = task[t].zd /\ task'[t].snap = task[t].snap
              /\ Others(t)
         /\ Goto(t, pc) =>
              /\ task'[t].pc = pc /\ task'[t].op = task[t].op /\ ~task'[t].zd
              /\ Others(t)
         /\ End(t) => task'[t] = Idle /\ Others(t)
<1>1. task \in [Task -> TaskState]
  BY DEF TypeOK
<1>2. Move(t, pc) => task'[t] = [task[t] EXCEPT !.pc = pc] /\ Others(t)
  BY <1>1 DEF Move, Others
<1>3. Goto(t, pc) => task'[t] = At(pc, task[t].op) /\ Others(t)
  BY <1>1 DEF Goto, Others
<1>4. End(t) => task'[t] = Idle /\ Others(t)
  BY <1>1 DEF End, Others
<1>5. task[t] \in TaskState
  BY <1>1
<1> DEFINE r == [task[t] EXCEPT !.pc = pc]
<1>6. r.pc = pc /\ r.op = task[t].op /\ r.zd = task[t].zd /\ r.snap = task[t].snap
  BY <1>5 DEF TaskState
<1>7. /\ At(pc, task[t].op).pc = pc /\ At(pc, task[t].op).op = task[t].op
      /\ ~At(pc, task[t].op).zd
  BY Fields
<1> HIDE DEF r
<1>8. Move(t, pc) => task'[t] = r /\ Others(t)
  BY <1>2 DEF r
<1> QED BY <1>3, <1>4, <1>6, <1>7, <1>8

\* How a run ends.
LEMMA EndOfRun ==
  ASSUME TypeOK, NEW t \in Runs, NEW next,
         (next = "schedule" /\ Succeed(t)) \/ (next = "tail" /\ Leave(t))
  PROVE  LET i == t[2] IN
         /\ t = Job(i) => task'[t] = At(next, "deploy") /\ Others(t)
         /\ t = Wake(i) =>
              /\ task'[t] = Idle
              /\ task'[Job(i)] = IF task[Job(i)].pc = "await" THEN At(next, "deploy")
                                 ELSE task[Job(i)]
              /\ \A s \in Task : s # t /\ s # Job(i) => task'[s] = task[s]
<1>1. task \in [Task -> TaskState] /\ t \in Task /\ t[2] \in Instance
  BY TaskTypes DEF TypeOK
<1>2. t = Job(t[2]) => t # Wake(t[2])
  BY <1>1, Named
<1>3. CASE t = Wake(t[2])
  <2>1. task' = WakeSettled(t[2], next)
    BY <1>3 DEF Succeed, Leave
  <2> QED BY <1>1, <1>2, <1>3, <2>1, Named DEF WakeSettled
<1>4. CASE t # Wake(t[2])
  <2>1. task' = [task EXCEPT ![t] = At(next, "deploy")]
    BY <1>4 DEF Succeed, Leave
  <2> QED BY <1>1, <1>4, <2>1 DEF Others
<1> QED BY <1>3, <1>4

-----------------------------------------------------------------------------
(* Every task is at a step of its kind.                                    *)

\* It is enough to look at the task that moved.
LEMMA ShapeKept ==
  ASSUME Shape, NEW t \in Task, Others(t), Shaped(t)'
  PROVE  Shape'
BY DEF Shape, Shaped, Others

\* A run that ends leaves tasks of their kinds, the job awaiting it included.
LEMMA ShapeEnd ==
  ASSUME TypeOK, Shape, NEW t \in Runs, Succeed(t) \/ Leave(t)
  PROVE  Shape'
<1>1. PICK next \in {"schedule", "tail"} :
        (next = "schedule" /\ Succeed(t)) \/ (next = "tail" /\ Leave(t))
  OBVIOUS
<1> DEFINE i == t[2]
<1>2. t \in Task /\ i \in Instance /\ (t = Job(i) \/ t = Wake(i))
  BY Kinds, TaskTypes DEF Requests, Runs
<1>3. WellShaped("job", At(next, "deploy").pc, At(next, "deploy").op,
                 At(next, "deploy").zd)
  BY Fields DEF WellShaped
<1>4. CASE t = Job(i)
  <2>1. Others(t) /\ task'[t] = At(next, "deploy")
    BY <1>1, <1>4, EndOfRun
  <2>2. Shaped(t)'
    BY <1>2, <1>3, <1>4, <2>1, Named DEF Shaped
  <2> QED BY <1>2, <2>1, <2>2, ShapeKept
<1>5. CASE t = Wake(i)
  <2>1. /\ task'[t] = Idle
        /\ task'[Job(i)] = IF task[Job(i)].pc = "await" THEN At(next, "deploy")
                           ELSE task[Job(i)]
        /\ \A s \in Task : s # t /\ s # Job(i) => task'[s] = task[s]
    BY <1>1, <1>5, EndOfRun
  <2>2. Job(i) \in Task /\ Job(i)[1] = "job"
    BY <1>2, Named
  <2>3. Shaped(t)'
    BY <2>1, Fields DEF Shaped, WellShaped
  <2>4. Shaped(Job(i))'
    BY <1>3, <2>1, <2>2 DEF Shaped, Shape
  <2> QED BY <2>1, <2>3, <2>4 DEF Shape, Shaped
<1> QED BY <1>2, <1>4, <1>5

\* The steps of a run keep it at a step of its kind ...
LEMMA ShapeRun ==
  ASSUME TypeOK, Shape, NEW t \in Runs, RunStep(t) \/ RunFails(t)
  PROVE  Shape'
<1>0. t \in Task /\ t[1] \in {"job", "wake"} /\ Shaped(t)
  BY DEF Runs, Task, Kind, Shape
<1>a. ASSUME NEW pc, Move(t, pc), WellShaped(t[1], pc, task[t].op, task[t].zd)
      PROVE  Shape'
  BY <1>0, <1>a, Moved, ShapeKept DEF Shaped
<1>b. ASSUME NEW pc, Goto(t, pc), WellShaped(t[1], pc, task[t].op, FALSE)
      PROVE  Shape'
  <2>1. task'[t].zd <=> FALSE
    BY <1>0, <1>b, Moved
  <2> QED BY <1>0, <1>b, <2>1, Moved, ShapeKept DEF Shaped, WellShaped
<1>1. CASE Reserve(t)
  <2>1. CASE Leave(t)
    BY <2>1, ShapeEnd
  <2>2. ASSUME task' = [task EXCEPT ![t] = [At("build", "deploy") EXCEPT
                       !.zd = t = Job(t[2]) /\ Verdict(t[2], task[t].cap) = "run-zd"]]
        PROVE  Shape'
    <3>1. Others(t) /\ task'[t].pc = "build" /\ task'[t].op = "deploy"
          /\ task'[t].zd = (t = Job(t[2]) /\ Verdict(t[2], task[t].cap) = "run-zd")
      BY <1>0, <2>2, BegunWith
    <3>2. ASSUME t[1] = "wake" PROVE ~task'[t].zd
      <4>1. t # Job(t[2])
        BY <3>2 DEF Job
      <4> QED BY <3>1, <4>1
    <3>3. Shaped(t)'
      BY <1>0, <3>1, <3>2 DEF Shaped, WellShaped
    <3> QED BY <1>0, <3>1, <3>3, ShapeKept
  <2> QED BY <1>1, <2>1, <2>2 DEF Reserve
<1>2. CASE Build(t) \/ Start(t)
  <2>1. Move(t, "start") \/ Move(t, "meta")
    BY <1>2 DEF Build, Start
  <2>2. task[t].pc \in {"build", "start"}
    BY <1>2 DEF Build, Start
  <2>3. \A pc \in {"start", "meta"} : WellShaped(t[1], pc, task[t].op, task[t].zd)
    BY <1>0, <2>2, ClientAssumption DEF Shaped, WellShaped
  <2> QED BY <1>a, <2>1, <2>3
<1>3. CASE Meta(t)
  <2>1. task[t].pc = "meta"
    BY <1>3 DEF Meta
  <2>2. \A pc \in {"fail", "health"} : WellShaped(t[1], pc, task[t].op, task[t].zd)
    BY <1>0, <2>1, ClientAssumption DEF Shaped, WellShaped
  <2>3. ASSUME NEW s, task' = [task EXCEPT ![t].pc = "health", ![t].snap = s]
        PROVE  Shape'
    <3>1. task \in [Task -> TaskState] /\ task[t] \in TaskState
      BY <1>0 DEF TypeOK
    <3>2. /\ task'[t] = [task[t] EXCEPT !.pc = "health", !.snap = s]
          /\ Others(t)
      BY <1>0, <2>3, <3>1 DEF Others
    <3>3. task'[t].pc = "health" /\ task'[t].op = task[t].op /\ task'[t].zd = task[t].zd
      BY <3>1, <3>2 DEF TaskState
    <3>4. Shaped(t)'
      BY <2>2, <3>3 DEF Shaped
    <3> QED BY <1>0, <3>2, <3>4, ShapeKept
  <2> QED BY <1>3, <1>a, <2>2, <2>3, ShapeEnd DEF Meta
<1>4. CASE Healthy(t) \/ QueueUnhealthy(t) \/ Flip(t) \/ FinalizeDeployError(t)
  BY <1>4, ShapeEnd DEF Healthy, QueueUnhealthy, Flip, FinalizeDeployError
<1>5. CASE Unhealthy(t) \/ StagingUnhealthy(t)
  <2>1. task[t].pc = "health" /\ (task[t].zd \/ Unhealthy(t))
        /\ (Leave(t) \/ (Goto(t, "hcpause") /\ Unhealthy(t)) \/ Goto(t, "zdabort"))
    BY <1>5 DEF Unhealthy, StagingUnhealthy
  <2>2. /\ Unhealthy(t) => WellShaped(t[1], "hcpause", task[t].op, FALSE)
        /\ task[t].zd => WellShaped(t[1], "zdabort", task[t].op, FALSE)
    BY <1>0, <2>1, ClientAssumption DEF Shaped, WellShaped
  <2>3. Unhealthy(t) => Leave(t) \/ Goto(t, "hcpause")
    BY DEF Unhealthy
  <2> QED BY <1>b, <2>1, <2>2, <2>3, ShapeEnd
<1>6. CASE PauseUnhealthy(t) \/ StagingHealthy(t) \/ Promote(t)
  <2>1. \/ task[t].pc = "hcpause" /\ Move(t, "hcqueue")
        \/ task[t].pc = "health" /\ task[t].zd /\ Move(t, "promote")
        \/ task[t].pc = "promote" /\ Move(t, "flip")
    BY <1>6 DEF PauseUnhealthy, StagingHealthy, Promote
  <2>2. /\ task[t].pc = "hcpause" => WellShaped(t[1], "hcqueue", task[t].op, task[t].zd)
        /\ task[t].pc = "health" /\ task[t].zd =>
             WellShaped(t[1], "promote", task[t].op, task[t].zd)
        /\ task[t].pc = "promote" => WellShaped(t[1], "flip", task[t].op, task[t].zd)
    BY <1>0, ClientAssumption DEF Shaped, WellShaped
  <2> QED BY <1>a, <2>1, <2>2
<1>7. CASE AbortStaging(t)
  <2>1. task[t].pc = "zdabort"
    BY <1>7 DEF AbortStaging
  <2>2. /\ WellShaped(t[1], "zdsave", task[t].op, task[t].zd)
        /\ WellShaped(t[1], "fail", task[t].op, task[t].zd)
    BY <1>0, <2>1, ClientAssumption DEF Shaped, WellShaped
  <2>3. ASSUME task' = [task EXCEPT ![t].pc = "zdsave", ![t].snap = row[t[2]]]
        PROVE  Shape'
    <3>1. task \in [Task -> TaskState] /\ task[t] \in TaskState
      BY <1>0 DEF TypeOK
    <3>2. /\ task'[t] = [task[t] EXCEPT !.pc = "zdsave", !.snap = row[t[2]]]
          /\ Others(t)
      BY <1>0, <2>3, <3>1 DEF Others
    <3>3. task'[t].pc = "zdsave" /\ task'[t].op = task[t].op /\ task'[t].zd = task[t].zd
      BY <3>1, <3>2 DEF TaskState
    <3>4. Shaped(t)'
      BY <2>2, <3>3 DEF Shaped
    <3> QED BY <1>0, <3>2, <3>4, ShapeKept
  <2> QED BY <1>7, <1>a, <2>2, <2>3, ShapeEnd DEF AbortStaging
<1>8. CASE SaveAborted(t)
  <2>1. task[t].pc = "zdsave" /\ (Leave(t) \/ Goto(t, "fail"))
    BY <1>8 DEF SaveAborted
  <2>2. WellShaped(t[1], "fail", task[t].op, FALSE)
    BY <1>0, <2>1, ClientAssumption DEF Shaped, WellShaped
  <2> QED BY <1>b, <2>1, <2>2, ShapeEnd
<1>9. CASE BuildFails(t) \/ StartFails(t)
  <2>1. task[t].pc \in {"build", "start"} /\ Move(t, "fail")
    BY <1>9 DEF BuildFails, StartFails
  <2>2. WellShaped(t[1], "fail", task[t].op, task[t].zd)
    BY <1>0, <2>1, ClientAssumption DEF Shaped, WellShaped
  <2> QED BY <1>a, <2>1, <2>2
<1>10. CASE PromoteFails(t)
  <2>1. task[t].pc = "promote" /\ task' = [task EXCEPT ![t] = At("zdabort", "cutover")]
    BY <1>10 DEF PromoteFails
  <2>2. t[1] = "job"
    BY <1>0, <2>1, ClientAssumption DEF Shaped, WellShaped
  <2>3. Others(t) /\ task'[t] = At("zdabort", "cutover")
    BY <1>0, <2>1, Given
  <2>4. Shaped(t)'
    BY <2>2, <2>3, Fields DEF Shaped, WellShaped
  <2> QED BY <1>0, <2>3, <2>4, ShapeKept
<1> QED BY <1>1, <1>2, <1>3, <1>4, <1>5, <1>6, <1>7, <1>8, <1>9, <1>10
        DEF RunStep, RunFails

\* ... so do those of a request ...
LEMMA ShapeRequest ==
  ASSUME TypeOK, Shape, NEW t \in Requests, RequestStep(t) \/ ScriptFails(t)
  PROVE  Shape'
<1>0. /\ t \in Task /\ t[1] \in Client /\ t[1] \notin {"job", "wake"} /\ Shaped(t)
      /\ t[2] \in Instance
  BY ClientAssumption DEF Requests, Task, Kind, Shape
<1>a. ASSUME NEW pc, Move(t, pc), WellShaped(t[1], pc, task[t].op, task[t].zd)
      PROVE  Shape'
  BY <1>0, <1>a, Moved, ShapeKept DEF Shaped
<1>b. ASSUME NEW pc, Goto(t, pc), WellShaped(t[1], pc, task[t].op, FALSE)
      PROVE  Shape'
  BY <1>0, <1>b, Moved, ShapeKept DEF Shaped, WellShaped
<1>c. ASSUME End(t) PROVE Shape'
  <2>1. task'[t].pc = "idle" /\ task'[t].op = "none" /\ Others(t)
    BY <1>0, <1>c, Moved, Fields
  <2> QED BY <1>0, <2>1, ShapeKept DEF Shaped, WellShaped
<1>1. CASE ReserveActivate(t)
  <2>1. task[t].pc = "reserve" /\ (End(t) \/ Goto(t, "enqueue"))
    BY <1>1 DEF ReserveActivate
  <2>2. WellShaped(t[1], "enqueue", task[t].op, FALSE)
    BY <1>0, <2>1 DEF Shaped, WellShaped
  <2> QED BY <1>b, <1>c, <2>1, <2>2
<1>2. CASE EnqueueForced(t) \/ SaveTaskInfo(t) \/ ScriptFails(t)
  BY <1>2, <1>c DEF EnqueueForced, SaveTaskInfo, ScriptFails
<1>3. CASE FinishScript(t)
  <2>1. task[t].pc = "script" /\ Goto(t, "schedule")
    BY <1>3 DEF FinishScript, CancelPendingDeployJob
  <2>2. WellShaped(t[1], "schedule", task[t].op, FALSE)
    BY <1>0, <2>1 DEF Shaped, WellShaped
  <2> QED BY <1>b, <2>1, <2>2
<1>4. CASE Kill(t)
  <2>1. task[t].pc = "kill"
    BY <1>4 DEF Kill
  <2>2. task \in [Task -> TaskState]
    BY DEF TypeOK
  <2>3. ASSUME NEW s \in Task
        PROVE  \/ task'[s] = task[s]
               \/ s = t /\ task'[s] = [task[s] EXCEPT !.pc = "gone"]
               \/ /\ s \in Runs /\ task[s].pc \in {"build", "start"}
                  /\ task'[s] = [task[s] EXCEPT !.pc = "fail"]
    <3>1. PICK missed : task' = [u \in Task |->
              IF u = t THEN [task[t] EXCEPT !.pc = "gone"]
              ELSE IF u \in {v \in {<<"job", t[2]>>, <<"wake", t[2]>>} :
                               task[v].pc \in {"build", "start"}} \ missed
              THEN [task[u] EXCEPT !.pc = "fail"] ELSE task[u]]
      BY <1>4 DEF Kill
    <3>2. <<"job", t[2]>> \in Runs /\ <<"wake", t[2]>> \in Runs
      BY <1>0 DEF Runs
    <3> QED BY <3>1, <3>2
  <2>4. ASSUME NEW s \in Task PROVE Shaped(s)'
    <3>1. Shaped(s) /\ task[s] \in TaskState
      BY <2>2 DEF Shape
    <3>2. CASE task'[s] = task[s]
      BY <3>1, <3>2 DEF Shaped
    <3>3. CASE s = t /\ task'[s] = [task[s] EXCEPT !.pc = "gone"]
      <4>1. task'[s].pc = "gone" /\ task'[s].op = task[s].op
        BY <3>1, <3>3 DEF TaskState
      <4> QED BY <1>0, <2>1, <3>3, <4>1 DEF Shaped, WellShaped
    <3>4. CASE /\ s \in Runs /\ task[s].pc \in {"build", "start"}
               /\ task'[s] = [task[s] EXCEPT !.pc = "fail"]
      <4>1. /\ task'[s].pc = "fail" /\ task'[s].op = task[s].op
            /\ task'[s].zd = task[s].zd
        BY <3>1, <3>4 DEF TaskState
      <4>2. s[1] \in {"job", "wake"}
        BY <3>4 DEF Runs
      <4> QED BY <3>1, <3>4, <4>1, <4>2, ClientAssumption DEF Shaped, WellShaped
    <3> QED BY <2>3, <3>2, <3>3, <3>4
  <2> QED BY <2>4 DEF Shape
<1>5. CASE JobGone(t) \/ JobStuck(t)
  <2>1. task[t].pc = "gone" /\ Move(t, "stopped")
    BY <1>5 DEF JobGone, JobStuck
  <2>2. WellShaped(t[1], "stopped", task[t].op, task[t].zd)
    BY <1>0, <2>1 DEF Shaped, WellShaped
  <2> QED BY <1>a, <2>1, <2>2
<1>6. CASE Cancel(t) \/ Restart(t)
  <2>1. \/ task[t].op = "cancel" /\ Goto(t, "schedule")
        \/ task[t].op = "restart" /\ (Goto(t, "enqueue") \/ End(t))
    BY <1>6 DEF Cancel, Restart
  <2>2. /\ task[t].op = "cancel" => WellShaped(t[1], "schedule", task[t].op, FALSE)
        /\ task[t].op = "restart" => WellShaped(t[1], "enqueue", task[t].op, FALSE)
    BY <1>0 DEF WellShaped
  <2> QED BY <1>b, <1>c, <2>1, <2>2
<1> QED BY <1>1, <1>2, <1>3, <1>4, <1>5, <1>6 DEF RequestStep

\* Where a request begins, and what it holds on to.
BeginsAt(t, op) ==
  LET i == t[2] IN
  /\ Others(t) /\ task[t].pc = "idle" /\ task'[t].op = op
  /\ \/ op = "activate" /\ task'[t].pc = "reserve" /\ task'[t].cap = limit
     \/ /\ op \in {"cancel", "restart"} /\ task'[t].pc = "kill"
        /\ Interruptible(i) /\ task'[t].zd = (row[i].status = "active")
     \/ /\ op \in {"pause", "sleep"} /\ task'[t].pc = "script"
        /\ row[i].status = "active" /\ task'[t].snap = row[i]
     \/ /\ op = "destroy" /\ task'[t].pc = "script"
        /\ row[i].status # "none" /\ task'[t].snap = row[i]
     \/ /\ op = "clickup" /\ task'[t].pc = "fetch"
        /\ row[i].status # "none" /\ task'[t].snap = row[i]

LEMMA BeginPoints ==
  ASSUME TypeOK, NEW t \in Task, NEW op \in Op \ {"none", "deploy", "cutover"},
         Begin(t, op)
  PROVE  BeginsAt(t, op)
<1>0. task[t].pc = "idle" /\ Accepts(op, t[2])
  BY DEF Begin
<1>1. CASE op = "activate"
  <2>1. task' = [task EXCEPT ![t] = [At("reserve", op) EXCEPT !.cap = limit]]
    BY <1>1 DEF Begin
  <2>2. /\ task'[t].pc = "reserve" /\ task'[t].op = op /\ task'[t].cap = limit
        /\ Others(t)
    BY <2>1, BegunUnder
  <2> QED BY <1>0, <1>1, <2>2 DEF BeginsAt
<1>2. CASE op \in {"cancel", "restart"}
  <2> DEFINE b == row[t[2]].status = "active"
  <2>1. task' = [task EXCEPT ![t] = [At("kill", op) EXCEPT !.zd = b]]
    BY <1>2 DEF Begin
  <2>2. Interruptible(t[2])
    BY <1>0, <1>2 DEF Accepts
  <2> HIDE DEF b
  <2>3. task'[t].pc = "kill" /\ task'[t].op = op /\ task'[t].zd = b /\ Others(t)
    BY <2>1, BegunWith
  <2> USE DEF b
  <2> QED BY <1>0, <1>2, <2>2, <2>3 DEF BeginsAt
<1>3. CASE op = "clickup"
  <2>1. task' = [task EXCEPT ![t] = [At("fetch", op) EXCEPT !.snap = row[t[2]]]]
    BY <1>3 DEF Begin
  <2>2. /\ task'[t].pc = "fetch" /\ task'[t].op = op /\ task'[t].snap = row[t[2]]
        /\ Others(t)
    BY <2>1, BegunFrom
  <2> QED BY <1>0, <1>3, <2>2 DEF BeginsAt, Accepts
<1>4. CASE op \in {"pause", "sleep", "destroy"}
  <2>1. task' = [task EXCEPT ![t] = [At("script", op) EXCEPT !.snap = row[t[2]]]]
    BY <1>4 DEF Begin
  <2>2. /\ task'[t].pc = "script" /\ task'[t].op = op /\ task'[t].snap = row[t[2]]
        /\ Others(t)
    BY <2>1, BegunFrom
  <2> QED BY <1>0, <1>4, <2>2 DEF BeginsAt, Accepts
<1> QED BY <1>1, <1>2, <1>3, <1>4 DEF Op

\* ... and every other step of the API.
LEMMA ShapeStep == TypeOK /\ Shape /\ [Next]_vars => Shape'
<1> SUFFICES ASSUME TypeOK, Shape, [Next]_vars PROVE Shape'
  OBVIOUS
<1>0. task \in [Task -> TaskState]
  BY DEF TypeOK
<1>q. ASSUME NEW f \in [Task -> TaskState], NEW i \in Instance, task' = WakeQueued(f, i),
             \A s \in Task : WellShaped(s[1], f[s].pc, f[s].op, f[s].zd)
      PROVE  Shape'
  <2>1. /\ Wake(i) \in Task /\ Wake(i)[1] = "wake"
        /\ task'[Wake(i)] = IF f[Wake(i)].pc = "idle" THEN At("queued", "deploy")
                            ELSE f[Wake(i)]
        /\ \A s \in Task : s # Wake(i) => task'[s] = f[s]
    BY <1>q, Named DEF WakeQueued
  <2>2. WellShaped("wake", At("queued", "deploy").pc, At("queued", "deploy").op,
                   At("queued", "deploy").zd)
    BY Fields DEF WellShaped
  <2> QED BY <1>q, <2>1, <2>2 DEF Shape, Shaped
<1>1. ASSUME NEW i \in Instance, Webhook(i) PROVE Shape'
  BY <1>1 DEF Webhook, Shape, Shaped
<1>2. ASSUME NEW i \in Instance, RequestWake(i) PROVE Shape'
  BY <1>0, <1>2, <1>q DEF RequestWake, Shape, Shaped
<1>3. ASSUME NEW i \in Instance, StartJob(i) PROVE Shape'
  <2>0. Job(i) \in Task /\ Job(i)[1] = "job"
    BY Named
  <2>1. CASE task' = WakeQueued([task EXCEPT ![Job(i)] = At("await", "deploy")], i)
    <3> DEFINE f == [task EXCEPT ![Job(i)] = At("await", "deploy")]
    <3>1. At("await", "deploy") \in TaskState
      BY ConstantTypes DEF PC, Op
    <3>2. f \in [Task -> TaskState]
      BY <1>0, <3>1
    <3>3. f[Job(i)] = At("await", "deploy") /\ \A s \in Task : s # Job(i) => f[s] = task[s]
      BY <1>0, <2>0
    <3>4. WellShaped("job", At("await", "deploy").pc, At("await", "deploy").op,
                     At("await", "deploy").zd)
      BY Fields DEF WellShaped
    <3> HIDE DEF f
    <3>5. \A s \in Task : WellShaped(s[1], f[s].pc, f[s].op, f[s].zd)
      BY <2>0, <3>3, <3>4 DEF Shape, Shaped
    <3>6. task' = WakeQueued(f, i)
      BY <2>1 DEF f
    <3> QED BY <1>q, <3>2, <3>5, <3>6
  <2>2. CASE task' = [task EXCEPT ![Job(i)] = [At("reserve", "deploy") EXCEPT !.cap = limit]]
    <3>1. Others(Job(i)) /\ task'[Job(i)].pc = "reserve" /\ task'[Job(i)].op = "deploy"
      BY <2>0, <2>2, BegunReserving
    <3> QED BY <2>0, <3>1, ShapeKept DEF Shaped, WellShaped
  <2> QED BY <1>3, <2>1, <2>2 DEF StartJob, ResumesIdleSleep
<1>4. ASSUME NEW i \in Instance, StartWake(i) \/ PollDeploy(i) PROVE Shape'
  <2>0. /\ Wake(i) \in Task /\ Wake(i)[1] = "wake" /\ Wake(i) \in Runs /\ Shaped(Wake(i))
        /\ task[Wake(i)].pc \in {"queued", "poll"}
    BY <1>4, Named DEF StartWake, PollDeploy, Shape
  <2>1. /\ task[Wake(i)].op = "deploy" /\ ~task[Wake(i)].zd
    BY <2>0, ClientAssumption DEF Shaped, WellShaped
  <2>2. CASE Succeed(Wake(i)) \/ Leave(Wake(i))
    BY <2>0, <2>2, ShapeEnd
  <2>3. CASE Move(Wake(i), "poll")
    <3>1. /\ Others(Wake(i)) /\ task'[Wake(i)].pc = "poll" /\ task'[Wake(i)].op = "deploy"
          /\ task'[Wake(i)].zd = task[Wake(i)].zd
      BY <2>0, <2>1, <2>3, Moved
    <3> QED BY <2>0, <2>1, <3>1, ShapeKept DEF Shaped, WellShaped
  <2>4. CASE task' = [task EXCEPT ![Wake(i)] = [At("reserve", "deploy") EXCEPT !.cap = limit]]
    <3>1. /\ Others(Wake(i)) /\ task'[Wake(i)].pc = "reserve"
          /\ task'[Wake(i)].op = "deploy" /\ ~task'[Wake(i)].zd
      BY <2>0, <2>4, BegunReserving
    <3> QED BY <2>0, <3>1, ShapeKept DEF Shaped, WellShaped
  <2> QED BY <1>4, <2>2, <2>3, <2>4 DEF StartWake, PollDeploy
<1>5. ASSUME NEW t \in Task, End(t) PROVE Shape'
  <2>1. task'[t].pc = "idle" /\ task'[t].op = "none" /\ Others(t)
    BY <1>5, Moved, Fields
  <2> QED BY <2>1, ShapeKept DEF Shaped, WellShaped
<1>6. ASSUME NEW i \in Instance, EndJob(i) PROVE Shape'
  BY <1>5, <1>6, Named DEF EndJob
<1>7. ASSUME NEW t \in Task, Schedule(t) PROVE Shape'
  BY <1>5, <1>7, Kinds, ShapeEnd DEF Schedule
<1>8. ASSUME NEW t \in Requests, NEW op \in Op \ {"none", "deploy", "cutover"},
             Begin(t, op)
      PROVE  Shape'
  <2>1. t \in Task /\ t[1] \in Client
    BY DEF Requests, Task, Kind
  <2>2. BeginsAt(t, op)
    BY <1>8, <2>1, BeginPoints
  <2>3. Shaped(t)'
    BY <2>1, <2>2 DEF Shaped, WellShaped, BeginsAt
  <2> QED BY <2>1, <2>2, <2>3, ShapeKept DEF BeginsAt
<1>9. CASE SetLimit \/ UNCHANGED vars
  BY <1>9 DEF SetLimit, vars, Shape, Shaped
<1>10. CASE Crash
  <2>1. \A t \in Task : task'[t].pc = "idle" /\ task'[t].op = "none"
    BY <1>10, Fields DEF Crash
  <2> QED BY <2>1 DEF Shape, Shaped, WellShaped
<1> QED BY <1>1, <1>2, <1>3, <1>4, <1>6, <1>7, <1>8, <1>9, <1>10,
        ShapeRun, ShapeRequest DEF Next

-----------------------------------------------------------------------------
(* A step is about one preview.                                            *)

StepOf(t) ==
  \/ t \in Runs /\ (RunStep(t) \/ RunFails(t))
  \/ /\ t \in Requests
     /\ \/ RequestStep(t) \/ ScriptFails(t)
        \/ \E op \in Op \ {"none", "deploy", "cutover"} : Begin(t, op)
  \/ Schedule(t)
About(j) ==
  \/ Webhook(j) \/ RequestWake(j) \/ StartJob(j) \/ StartWake(j) \/ PollDeploy(j)
  \/ EndJob(j)
  \/ \E t \in Task : t[2] = j /\ StepOf(t)

\* Preview i, its flows, its row and its runtimes are left alone; its job stays.
Untouched(i) ==
  /\ row'[i] = row[i] /\ rt'[i] = rt[i]
  /\ job[i] # "none" => job'[i] # "none"
  /\ i \in suppress' <=> i \in suppress
  /\ \A s \in Task : s[2] = i => task'[s] = task[s]

\* Every step but a change of the limit and a crash is about one preview.
LEMMA NextIsAboutOne == Next => SetLimit \/ Crash \/ \E j \in Instance : About(j)
<1> SUFFICES ASSUME Next, ~SetLimit, ~Crash PROVE \E j \in Instance : About(j)
  OBVIOUS
<1>1. ASSUME NEW t \in Task, StepOf(t) PROVE \E j \in Instance : About(j)
  BY <1>1, TaskTypes DEF About
<1>2. ASSUME NEW t \in Runs, RunStep(t) \/ RunFails(t) PROVE \E j \in Instance : About(j)
  BY <1>1, <1>2, TaskTypes DEF StepOf
<1>3. ASSUME NEW t \in Requests,
             \/ RequestStep(t) \/ ScriptFails(t)
             \/ \E op \in Op \ {"none", "deploy", "cutover"} : Begin(t, op)
      PROVE  \E j \in Instance : About(j)
  BY <1>1, <1>3, TaskTypes DEF StepOf
<1>4. ASSUME NEW t \in Task, Schedule(t) PROVE \E j \in Instance : About(j)
  BY <1>1, <1>4 DEF StepOf
<1>5. ASSUME NEW i \in Instance, \/ Webhook(i) \/ RequestWake(i) \/ StartJob(i)
                                 \/ StartWake(i) \/ PollDeploy(i) \/ EndJob(i)
      PROVE  \E j \in Instance : About(j)
  BY <1>5 DEF About
<1> QED BY <1>2, <1>3, <1>4, <1>5 DEF Next

\* The queue of another preview is only ever added to.
LEMMA QueueElsewhere ==
  ASSUME TypeOK, NEW i \in Instance, NEW j \in Instance, i # j,
         \/ ProcessWaitingQueue
         \/ \E data \in JobState : job' = Add(j, data)
         \/ \E data \in JobState : job' = [job EXCEPT ![j] = data]
         \/ job' = job
  PROVE  job[i] # "none" => job'[i] # "none"
BY DEF TypeOK, ProcessWaitingQueue, Add

\* The flows of another preview stay where they are.
LEMMA TasksElsewhere ==
  ASSUME TypeOK, NEW t \in Task, NEW s \in Task, s[2] # t[2],
         \/ Others(t)
         \/ \E pc : Move(t, pc) \/ Goto(t, pc)
         \/ End(t)
         \/ \E r : task' = [task EXCEPT ![t] = r]
         \/ t \in Runs /\ (Succeed(t) \/ Leave(t))
  PROVE  task'[s] = task[s]
<1>1. s # t /\ s # Job(t[2]) /\ t[2] \in Instance
  BY Kinds, Named
<1>2. CASE t \in Runs /\ (Succeed(t) \/ Leave(t))
  <2>1. t = Job(t[2]) \/ t = Wake(t[2])
    BY <1>2, Kinds DEF Runs, Requests
  <2> QED BY <1>1, <1>2, <2>1, EndOfRun DEF Others
<1> QED BY <1>1, <1>2, Moved, Given DEF Others

LEMMA RunElsewhere ==
  ASSUME TypeOK, NEW t \in Runs, NEW i \in Instance, i # t[2],
         RunStep(t) \/ RunFails(t)
  PROVE  Untouched(i)
<1>0. /\ t \in Task /\ t[2] \in Instance /\ task \in [Task -> TaskState]
      /\ row \in [Instance -> Row] /\ rt \in [Instance -> Runtime]
  BY TaskTypes DEF TypeOK
<1>1. suppress' = suppress
  BY DEF RunStep, Reserve, Build, Start, Meta, Healthy, Unhealthy, PauseUnhealthy,
         QueueUnhealthy, StagingHealthy, StagingUnhealthy, Promote, Flip,
         AbortStaging, SaveAborted, FinalizeDeployError, RunFails, BuildFails,
         StartFails, PromoteFails
<1>2. job[i] # "none" => job'[i] # "none"
  <2>1. job' = job \/ ProcessWaitingQueue
    BY DEF RunStep, Reserve, Build, Start, Meta, Healthy, Unhealthy, PauseUnhealthy,
         QueueUnhealthy, StagingHealthy, StagingUnhealthy, Promote, Flip,
         AbortStaging, SaveAborted, FinalizeDeployError, RunFails, BuildFails,
         StartFails, PromoteFails
  <2> QED BY <1>0, <2>1, QueueElsewhere
<1>3. row'[i] = row[i]
  <2>1. CASE RunFails(t)
    BY <2>1 DEF RunFails, BuildFails, StartFails, PromoteFails
  <2>2. CASE Reserve(t)
    BY <1>0, <2>2 DEF Reserve, TakeSlot
  <2>3. CASE Meta(t)
    BY <1>0, <2>3 DEF Meta
  <2>4. CASE FinalizeDeployError(t)
    BY <1>0, <2>4 DEF FinalizeDeployError
  <2>5. CASE Healthy(t) \/ Unhealthy(t) \/ Flip(t) \/ SaveAborted(t)
    BY <1>0, <2>5 DEF Healthy, Unhealthy, Flip, SaveAborted
  <2>6. CASE \/ Build(t) \/ Start(t) \/ PauseUnhealthy(t) \/ QueueUnhealthy(t)
             \/ StagingHealthy(t) \/ StagingUnhealthy(t) \/ Promote(t)
             \/ AbortStaging(t)
    BY <2>6 DEF Build, Start, PauseUnhealthy, QueueUnhealthy, StagingHealthy,
       StagingUnhealthy, Promote, AbortStaging
  <2> QED BY <2>1, <2>2, <2>3, <2>4, <2>5, <2>6 DEF RunStep
<1>4. rt'[i] = rt[i]
  <2>1. CASE RunFails(t)
    BY <1>0, <2>1 DEF RunFails, BuildFails, StartFails, PromoteFails
  <2>2. CASE RunStep(t)
    BY <1>0, <2>2 DEF RunStep, Reserve, Build, Start, Meta, Healthy, Unhealthy,
         PauseUnhealthy, QueueUnhealthy, StagingHealthy, StagingUnhealthy, Promote,
         Flip, AbortStaging, SaveAborted, FinalizeDeployError
  <2> QED BY <2>1, <2>2
<1>5. ASSUME NEW s \in Task, s[2] = i PROVE task'[s] = task[s]
  <2>1. \/ \E pc : Move(t, pc) \/ Goto(t, pc)
        \/ \E r : task' = [task EXCEPT ![t] = r]
        \/ Succeed(t) \/ Leave(t)
        \/ Meta(t) \/ AbortStaging(t)
    BY DEF RunStep, Reserve, Build, Start, Healthy, Unhealthy, PauseUnhealthy,
         QueueUnhealthy, StagingHealthy, StagingUnhealthy, Promote, Flip,
         SaveAborted, FinalizeDeployError, RunFails, BuildFails, StartFails, PromoteFails
  <2>2. CASE Meta(t) \/ AbortStaging(t)
    <3>1. \/ \E pc : Move(t, pc)
          \/ Succeed(t) \/ Leave(t)
          \/ \E pc, r : task' = [task EXCEPT ![t].pc = pc, ![t].snap = r]
      BY <2>2 DEF Meta, AbortStaging
    <3>2. ASSUME NEW pc, NEW r, task' = [task EXCEPT ![t].pc = pc, ![t].snap = r]
          PROVE  task'[s] = task[s]
      BY <1>0, <1>5, <3>2
    <3> QED BY <1>0, <1>5, <3>1, <3>2, TasksElsewhere
  <2> QED BY <1>0, <1>5, <2>1, <2>2, TasksElsewhere
<1> QED BY <1>1, <1>2, <1>3, <1>4, <1>5 DEF Untouched

LEMMA RequestElsewhere ==
  ASSUME TypeOK, NEW t \in Requests, NEW i \in Instance, i # t[2],
         \/ RequestStep(t) \/ ScriptFails(t)
         \/ \E op \in Op \ {"none", "deploy", "cutover"} : Begin(t, op)
  PROVE  Untouched(i)
<1>0. /\ t \in Task /\ t[2] \in Instance /\ task \in [Task -> TaskState]
      /\ row \in [Instance -> Row] /\ rt \in [Instance -> Runtime]
      /\ {"none", "forced"} \subseteq JobState
  BY TaskTypes DEF TypeOK, JobState
<1>1. CASE \E op \in Op \ {"none", "deploy", "cutover"} : Begin(t, op)
  <2>1. PICK op \in Op \ {"none", "deploy", "cutover"} : Begin(t, op)
    BY <1>1
  <2>2. Others(t)
    BY <1>0, <2>1, BeginPoints DEF BeginsAt
  <2> QED BY <1>0, <2>1, <2>2, TasksElsewhere DEF Begin, Untouched
<1>2. CASE RequestStep(t) \/ ScriptFails(t)
  <2>1. i \in suppress' <=> i \in suppress
    BY <1>2 DEF RequestStep, ReserveActivate, EnqueueForced, FinishScript,
       CancelPendingDeployJob, SaveTaskInfo,
       Kill, JobGone, JobStuck, Cancel, Restart, ScriptFails
  <2>2. job[i] # "none" => job'[i] # "none"
    <3>1. \/ job' = job
          \/ \E data \in JobState : job' = Add(t[2], data)
          \/ \E data \in JobState : job' = [job EXCEPT ![t[2]] = data]
      <4>1. CASE FinishScript(t)
        <5>1. job' = job \/ job' = CancelPendingDeployJob(t[2])
          BY <4>1 DEF FinishScript
        <5>2. CancelPendingDeployJob(t[2]) = job \/ CancelPendingDeployJob(t[2]) = [job EXCEPT ![t[2]] = "none"]
          BY <1>0 DEF CancelPendingDeployJob, TypeOK
        <5> QED BY <1>0, <5>1, <5>2
      <4>2. CASE ~FinishScript(t)
        BY <1>0, <1>2, <4>2 DEF RequestStep, ReserveActivate, EnqueueForced, SaveTaskInfo,
           Kill, JobGone, JobStuck, Cancel, Restart, ScriptFails
      <4> QED BY <4>1, <4>2
    <3> QED BY <1>0, <3>1, QueueElsewhere
  <2>3. row'[i] = row[i]
    BY <1>0, <1>2 DEF RequestStep, ReserveActivate, EnqueueForced, FinishScript,
       CancelPendingDeployJob,
       SaveTaskInfo, Kill, JobGone, JobStuck, Cancel, Restart, ScriptFails, TakeSlot
  <2>4. rt'[i] = rt[i]
    BY <1>0, <1>2 DEF RequestStep, ReserveActivate, EnqueueForced, FinishScript,
       CancelPendingDeployJob,
       SaveTaskInfo, Kill, JobGone, JobStuck, Cancel, Restart, ScriptFails
  <2>5. ASSUME NEW s \in Task, s[2] = i PROVE task'[s] = task[s]
    <3>1. CASE Kill(t)
      <4>1. s # t /\ s # <<"job", t[2]>> /\ s # <<"wake", t[2]>>
        BY <1>0, <2>5, Kinds
      <4> QED BY <3>1, <4>1 DEF Kill
    <3>2. CASE ~Kill(t)
      <4>1. (\E pc : Move(t, pc) \/ Goto(t, pc)) \/ End(t)
        BY <1>2, <3>2 DEF RequestStep, ReserveActivate, EnqueueForced, FinishScript,
           CancelPendingDeployJob,
           SaveTaskInfo, JobGone, JobStuck, Cancel, Restart, ScriptFails
      <4> QED BY <1>0, <2>5, <4>1, TasksElsewhere
    <3> QED BY <3>1, <3>2
  <2> QED BY <2>1, <2>2, <2>3, <2>4, <2>5 DEF Untouched
<1> QED BY <1>1, <1>2

\* A step about one preview leaves every other alone.
LEMMA Elsewhere ==
  ASSUME TypeOK, NEW i \in Instance, NEW j \in Instance, i # j, About(j)
  PROVE  Untouched(i)
<1>0. /\ task \in [Task -> TaskState] /\ job \in [Instance -> JobState]
      /\ {"none", "forced"} \subseteq JobState
  BY DEF TypeOK, JobState
<1>1. ASSUME NEW t \in Task, t[2] = j, StepOf(t) PROVE Untouched(i)
  <2>1. CASE Schedule(t)
    <3>1. End(t) \/ (t \in Runs /\ Leave(t))
      BY <2>1, Kinds DEF Schedule
    <3>2. \A s \in Task : s[2] = i => task'[s] = task[s]
      BY <1>1, <3>1, TasksElsewhere
    <3> QED BY <1>1, <2>1, <3>2, QueueElsewhere DEF Schedule, Untouched
  <2> QED BY <1>1, <2>1, RunElsewhere, RequestElsewhere DEF StepOf
<1>2. CASE Webhook(j)
  BY <1>0, <1>2, QueueElsewhere DEF Webhook, Untouched
<1>3. CASE RequestWake(j)
  <2>1. \A s \in Task : s[2] = i => task'[s] = task[s]
    BY <1>0, <1>3, Named DEF RequestWake, WakeQueued
  <2> QED BY <1>3, <2>1 DEF RequestWake, Untouched
<1>4. CASE StartJob(j)
  <2>1. ASSUME NEW s \in Task, s[2] = i PROVE task'[s] = task[s]
    <3>1. s # Job(j) /\ s # Wake(j) /\ Job(j) \in Task /\ Wake(j) \in Task
      BY <2>1, Named
    <3>2. CASE task' = WakeQueued([task EXCEPT ![Job(j)] = At("await", "deploy")], j)
      <4>1. [task EXCEPT ![Job(j)] = At("await", "deploy")][s] = task[s]
        BY <1>0, <3>1
      <4> QED BY <1>0, <3>1, <3>2, <4>1 DEF WakeQueued
    <3>3. CASE task' = [task EXCEPT ![Job(j)] = [At("reserve", "deploy") EXCEPT !.cap = limit]]
      BY <1>0, <3>1, <3>3
    <3> QED BY <1>4, <3>2, <3>3 DEF StartJob, ResumesIdleSleep
  <2> QED BY <1>4, <2>1 DEF StartJob, ResumesIdleSleep, Untouched
<1>5. CASE StartWake(j) \/ PollDeploy(j)
  <2>1. Wake(j) \in Task /\ Wake(j) \in Runs /\ Wake(j)[2] = j
    BY Named
  <2>2. \/ Succeed(Wake(j)) \/ Leave(Wake(j)) \/ Move(Wake(j), "poll")
        \/ \E r : task' = [task EXCEPT ![Wake(j)] = r]
    BY <1>5 DEF StartWake, PollDeploy
  <2>3. \A s \in Task : s[2] = i => task'[s] = task[s]
    BY <2>1, <2>2, TasksElsewhere
  <2> QED BY <1>5, <2>3 DEF StartWake, PollDeploy, Untouched
<1>6. CASE EndJob(j)
  <2>1. \A s \in Task : s[2] = i => task'[s] = task[s]
    BY <1>6, Named, TasksElsewhere DEF EndJob
  <2> QED BY <1>0, <1>6, <2>1 DEF EndJob, Untouched
<1> QED BY <1>1, <1>2, <1>3, <1>4, <1>5, <1>6 DEF About

-----------------------------------------------------------------------------
(* Who else is at work on the preview.                                     *)

\* What the serial discipline, the types and the earlier theorems give.
Steady == TypeOK /\ Shape /\ OneFlow /\ DeployKeepsItsId /\ SuppressIsTemporary

\* Beside a flow there is at most a job awaiting it, and an interrupt that stops it.
LEMMA Company ==
  ASSUME Steady, NEW i \in Instance, NEW t \in Task, t[2] = i,
         task[t].pc \notin {"idle", "await"}, task[t].op \notin {"cancel", "restart"},
         NEW s \in Task, s[2] = i, s # t
  PROVE  \/ task[s].pc = "idle"
         \/ s = Job(i) /\ task[s].pc = "await"
         \/ /\ s \in Requests /\ task[s].op \in {"cancel", "restart"}
            /\ \/ task[t].pc = "tail"
               \/ /\ task[s].pc \in {"kill", "gone"}
                  /\ task[t].pc \in {"build", "start", "fail"}
<1>1. Shaped(s) /\ t \in Flows(i)
  BY DEF Steady, Shape, Flows, Interrupts
<1>2. CASE task[s].op \in {"cancel", "restart"}
  <2>1. s \in Interrupts(i)
    BY <1>2 DEF Interrupts
  <2>2. task[t].pc \in IF task[s].pc \in {"kill", "gone"}
                       THEN {"build", "start", "fail", "tail"} ELSE {"tail"}
    BY <1>1, <2>1 DEF Steady, OneFlow
  <2>3. s \in Requests
    BY <1>1, <1>2, Kinds, ClientAssumption DEF Shaped, WellShaped
  <2> QED BY <1>2, <2>2, <2>3
<1>3. CASE task[s].op \notin {"cancel", "restart"} /\ task[s].pc \notin {"idle", "await"}
  <2>1. s \in Flows(i)
    BY <1>3 DEF Flows, Interrupts
  <2> QED BY <1>1, <2>1 DEF Steady, OneFlow
<1>4. CASE task[s].pc = "await"
  BY <1>1, <1>4, Kinds DEF Shaped, WellShaped
<1> QED BY <1>2, <1>3, <1>4

\* Beside an interrupt there is at most the run it stops.
LEMMA Interrupting ==
  ASSUME Steady, NEW i \in Instance, FitsAt(i), NEW c \in Task, c[2] = i,
         task[c].op \in {"cancel", "restart"},
         NEW s \in Task, s[2] = i, s # c
  PROVE  \/ task[s].pc = "idle"
         \/ /\ s \in Runs /\ task[c].pc \in {"kill", "gone"}
            /\ task[s].pc \in {"await", "build", "start", "fail", "tail"}
            /\ task[s].pc = "await" => s = Job(i)
<1>1. Shaped(s) /\ Shaped(c) /\ c \in Interrupts(i)
  BY DEF Steady, Shape, Interrupts
<1>2. c \in Requests /\ c = <<c[1], i>> /\ c[1] \in Client
  BY <1>1, Kinds, ClientAssumption DEF Shaped, WellShaped
<1>3. s \notin Interrupts(i)
  BY <1>1 DEF Steady, OneFlow
<1>4. ASSUME NEW u \in Flows(i)
      PROVE  task[c].pc \in {"kill", "gone"}
             /\ task[u].pc \in {"build", "start", "fail", "tail"}
  <2>1. task[u].pc \in IF task[c].pc \in {"kill", "gone"}
                       THEN {"build", "start", "fail", "tail"} ELSE {"tail"}
    BY <1>1, <1>4 DEF Steady, OneFlow
  <2>2. CASE task[c].pc \notin {"kill", "gone"}
    <3>1. task[Job(i)].pc # "tail"
      BY <1>2, <2>2 DEF FitsAt, Meets
    <3>2. u \in Task /\ u[2] = i /\ Shaped(u)
      BY <1>4 DEF Flows, Steady, Shape
    <3>3. u = Job(i)
      BY <2>1, <2>2, <3>2, Kinds, ClientAssumption DEF Shaped, WellShaped
    <3> QED BY <2>1, <2>2, <3>1, <3>3
  <2> QED BY <2>1, <2>2
<1>5. CASE task[s].pc \notin {"idle", "await"}
  <2>1. s \in Flows(i)
    BY <1>3, <1>5 DEF Flows
  <2>2. s \in Runs
    BY <1>1, <1>4, <2>1, Kinds DEF Shaped, WellShaped
  <2> QED BY <1>4, <1>5, <2>1, <2>2
<1>6. CASE task[s].pc = "await"
  <2>1. s = Job(i)
    BY <1>1, <1>6, Kinds DEF Shaped, WellShaped
  <2>2. /\ Wake(i) \in Task /\ Wake(i)[2] = i /\ Shaped(Wake(i)) /\ Wake(i)[1] = "wake"
        /\ task[Wake(i)].pc \notin {"idle", "poll"}
    BY <1>6, <2>1, Named DEF Steady, Shape, FitsAt, Meets
  <2>3. task[Wake(i)].pc # "await" /\ task[Wake(i)].op \notin {"cancel", "restart"}
    BY <2>2, ClientAssumption DEF Shaped, WellShaped
  <2>4. Wake(i) \in Flows(i)
    BY <2>2, <2>3 DEF Flows, Interrupts
  <2> QED BY <1>4, <1>6, <2>1, <2>4, Named
<1> QED BY <1>5, <1>6

\* A suppressed preview is being cancelled or restarted.
LEMMA SuppressedStopping ==
  ASSUME Steady, NEW i \in Instance, i \in suppress
  PROVE  Stopping(i)
<1>1. PICK c \in Interrupts(i) : task[c].pc \in {"kill", "gone"}
  BY DEF Steady, SuppressIsTemporary
<1>2. c \in Task /\ c[2] = i /\ Shaped(c)
  BY DEF Interrupts, Steady, Shape
<1>3. c = <<c[1], i>> /\ c[1] \in Client
  BY <1>1, <1>2, Kinds DEF Shaped, WellShaped
<1> QED BY <1>1, <1>3 DEF Stopping

-----------------------------------------------------------------------------
(* What a step about a preview does to it.                                 *)

\* How the status of a row moves.
RowMoves(i) ==
  LET old == row[i].status
      new == row'[i].status IN
  \/ new = old
  \/ \E t \in Task : /\ t[2] = i /\ task[t].pc = "reserve"
                     /\ TakeSlot(i, task[t].cap)
  \/ old = "deploying" /\ new \in {"active", "error"}
  \/ old = "active" /\ new = "paused"
  \/ old # "none" /\ new = "none"
  \/ old = "active" /\ new = "error" /\ \E t \in Task : task[t].op = "cutover"

StaysTrue(i) == "stopFails" \notin Operations /\ TrueAt(i) => TrueAt(i)'
StaysOwned(i) == OwnedAt(i) => OwnedAt(i)'
Kept(i) == FitsAt(i)' /\ RowMoves(i) /\ StaysTrue(i) /\ StaysOwned(i)

JobStays(i) == job[i] # "none" => job'[i] # "none"

\* A run that goes on: it is enough to look at the run.
LEMMA RunGoesOn ==
  ASSUME Steady, NEW i \in Instance, FitsAt(i), NEW t \in Runs, t[2] = i,
         task[t].pc \notin {"idle", "await", "tail"}, Others(t),
         task'[t].pc \notin {"idle", "await", "tail", "queued"},
         task'[t].pc = "poll" => task[Job(i)].pc # "await",
         RunFits(t)', row'[i].status = "deploying" => ~row'[i].zdip,
         row'[i] = row[i] \/ i \notin suppress \/ task[t].pc \notin {"build", "start", "fail"},
         suppress' = suppress, JobStays(i),
         \/ t = Job(i) \/ ~Interruptible(i)'
         \/ task'[t].pc \in {"build", "start", "meta", "health", "fail"}
         \/ row'[i] = row[i] /\ task[t].pc \in {"queued", "poll"}
  PROVE  FitsAt(i)' /\ StaysOwned(i)
<1>0. /\ t \in Task /\ Shaped(t) /\ t[1] \in {"job", "wake"} /\ (t = Job(i) \/ t = Wake(i))
      /\ task[t].op \notin {"cancel", "restart"}
  <2>1. t \in Task /\ Shaped(t) /\ t[1] \in {"job", "wake"} /\ (t = Job(i) \/ t = Wake(i))
    BY TaskTypes, Kinds DEF Runs, Requests, Steady, Shape
  <2> QED BY <2>1, ClientAssumption DEF Shaped, WellShaped
<1>1. ASSUME NEW s \in Runs, s[2] = i, s # t
      PROVE  task'[s] = task[s] /\ (task[s].pc = "idle" \/ (s = Job(i) /\ task[s].pc = "await"))
  <2>1. s \in Task /\ s \notin Requests
    BY TaskTypes, Kinds
  <2> QED BY <1>0, <1>1, <2>1, Company DEF Others
<1>2. ASSUME NEW c \in Client
      PROVE  /\ task'[<<c, i>>] = task[<<c, i>>]
             /\ \/ task[<<c, i>>].pc = "idle"
                \/ task[<<c, i>>].pc \in {"kill", "gone"} /\ i \in suppress
                   /\ task[t].pc \in {"build", "start", "fail"}
  <2>1. <<c, i>> \in Task /\ <<c, i>> # t /\ <<c, i>>[2] = i /\ <<c, i>> # Job(i)
    BY <1>0, Named
  <2>2. task[<<c, i>>].pc \in {"kill", "gone"} => i \in suppress
    BY <2>1 DEF FitsAt, RequestFits
  <2> QED BY <1>0, <2>1, <2>2, Company DEF Others
<1>3. RunFits(Job(i))' /\ RunFits(Wake(i))'
  BY <1>0, <1>1, Named DEF RunFits
<1>4. ASSUME NEW c \in Client PROVE RequestFits(<<c, i>>)'
  <2>1. <<c, i>>[2] = i /\ RequestFits(<<c, i>>)
    BY Named DEF FitsAt
  <2> QED BY <1>2, <2>1 DEF RequestFits, Interruptible
<1>5. Meets(i)'
  <2>1. task'[Job(i)].pc # "tail"
    BY <1>0, <1>1, Named
  <2>2. CASE task'[Job(i)].pc = "await"
    <3>1. t = Wake(i)
      BY <1>0, <2>2
    <3>2. task[Job(i)].pc = "await"
      BY <1>1, <2>2, <3>1, Named
    <3> QED BY <2>1, <3>1, <3>2 DEF Meets
  <2> QED BY <2>1, <2>2 DEF Meets
<1>6. StaysOwned(i)
  <2> SUFFICES ASSUME OwnedAt(i), Interruptible(i)' PROVE Owned(i)'
    BY DEF StaysOwned, OwnedAt
  <2>1. CASE t = Job(i)
    BY <2>1 DEF Steady, DeployKeepsItsId, JobStays, Owned
  <2>2. CASE t = Wake(i) /\ task'[t].pc \in {"build", "start", "meta", "health", "fail"}
    BY <2>2 DEF Owned
  <2>3. CASE t = Wake(i) /\ row'[i] = row[i] /\ task[t].pc \in {"queued", "poll"}
    <3>1. Owned(i)
      BY <2>3 DEF OwnedAt, Interruptible
    <3> QED BY <1>2, <2>3, <3>1 DEF Owned, JobStays
  <2> QED BY <1>0, <2>1, <2>2, <2>3
<1> QED BY <1>3, <1>4, <1>5, <1>6 DEF FitsAt

\* A run that is over: the job awaiting it goes on.
LEMMA RunIsOver ==
  ASSUME Steady, NEW i \in Instance, FitsAt(i), NEW t \in Runs, t[2] = i,
         task[t].pc \notin {"idle", "await", "tail"},
         NEW next, (next = "schedule" /\ Succeed(t)) \/ (next = "tail" /\ Leave(t)),
         \/ ~Interruptible(i)'
         \/ next = "tail" /\ i \in suppress
         \/ t = Wake(i) /\ task[t].pc = "poll" /\ row'[i] = row[i],
         row'[i].status = "deploying" => ~row'[i].zdip,
         row'[i] = row[i] \/ i \notin suppress \/ task[t].pc \notin {"build", "start", "fail"},
         suppress' = suppress, JobStays(i)
  PROVE  FitsAt(i)' /\ StaysOwned(i)
<1>0. /\ t \in Task /\ Shaped(t) /\ t[1] \in {"job", "wake"} /\ (t = Job(i) \/ t = Wake(i))
      /\ task[t].op \notin {"cancel", "restart"}
  <2>1. t \in Task /\ Shaped(t) /\ t[1] \in {"job", "wake"} /\ (t = Job(i) \/ t = Wake(i))
    BY TaskTypes, Kinds DEF Runs, Requests, Steady, Shape
  <2> QED BY <2>1, ClientAssumption DEF Shaped, WellShaped
<1>a. TypeOK /\ i \in Instance
  BY DEF Steady
<1>b. /\ Job(i) \in Task /\ Wake(i) \in Task /\ Job(i) # Wake(i) /\ Job(i)[2] = i
      /\ Wake(i)[2] = i /\ Job(i) \notin Requests /\ Wake(i) \notin Requests
  BY Named, Kinds
<1>c. At(next, "deploy").pc = next
  BY Fields
<1>1. /\ task'[Wake(i)].pc = "idle"
      /\ task'[Job(i)].pc \in {"idle", next}
      /\ task[Job(i)].pc = "await" => task[t].pc # "poll"
      /\ t = Wake(i) /\ task'[Job(i)].pc # "idle" => task[Job(i)].pc = "await"
  <2>1. CASE t = Job(i)
    <3>1. task'[Job(i)] = At(next, "deploy") /\ Others(t)
      BY <1>a, <2>1, EndOfRun
    <3>2. task[Wake(i)].pc = "idle"
      BY <1>0, <1>b, <2>1, Company
    <3>3. task'[Wake(i)] = task[Wake(i)]
      BY <1>b, <2>1, <3>1 DEF Others
    <3> QED BY <1>b, <1>c, <2>1, <3>1, <3>2, <3>3
  <2>2. CASE t = Wake(i)
    <3>1. /\ task'[Wake(i)] = Idle
          /\ task'[Job(i)] = IF task[Job(i)].pc = "await" THEN At(next, "deploy")
                             ELSE task[Job(i)]
      BY <1>a, <2>2, EndOfRun
    <3>2. task[Job(i)].pc \in {"idle", "await"}
      BY <1>0, <1>b, <2>2, Company
    <3>3. task[Job(i)].pc = "await" => task[t].pc # "poll"
      BY <2>2 DEF FitsAt, Meets
    <3> QED BY <1>c, <3>1, <3>2, <3>3, Fields
  <2> QED BY <1>0, <2>1, <2>2
<1>2. ASSUME NEW c \in Client
      PROVE  /\ task'[<<c, i>>] = task[<<c, i>>]
             /\ \/ task[<<c, i>>].pc = "idle"
                \/ task[<<c, i>>].pc \in {"kill", "gone"} /\ i \in suppress
                   /\ task[t].pc \in {"build", "start", "fail"}
  <2>1. /\ <<c, i>> \in Task /\ <<c, i>> # t /\ <<c, i>>[2] = i /\ <<c, i>> # Job(i)
        /\ <<c, i>> # Wake(i)
    BY <1>0, Named
  <2>2. task[<<c, i>>].pc \in {"kill", "gone"} => i \in suppress
    BY <2>1 DEF FitsAt, RequestFits
  <2>3. task'[<<c, i>>] = task[<<c, i>>]
    BY <1>0, <1>a, <2>1, EndOfRun DEF Others
  <2> QED BY <1>0, <2>1, <2>2, <2>3, Company
<1>3. i \in suppress => Stopping(i)'
  <2> SUFFICES ASSUME i \in suppress PROVE Stopping(i)'
    OBVIOUS
  <2>1. PICK c \in Client : task[<<c, i>>].pc \in {"kill", "gone"}
    BY SuppressedStopping DEF Stopping
  <2> QED BY <1>2, <2>1 DEF Stopping
<1>4. task'[Job(i)].pc = next => ~Interruptible(i)' \/ (next = "tail" /\ i \in suppress)
  BY <1>0, <1>1, <1>b
<1>5. RunFits(Job(i))' /\ RunFits(Wake(i))'
  <2>1. next \in {"schedule", "tail"}
    OBVIOUS
  <2> QED BY <1>1, <1>4, <1>b, <2>1 DEF RunFits
<1>6. ASSUME NEW c \in Client PROVE RequestFits(<<c, i>>)'
  <2>1. <<c, i>>[2] = i /\ RequestFits(<<c, i>>)
    BY Named DEF FitsAt
  <2> QED BY <1>2, <2>1 DEF RequestFits, Interruptible
<1>7. Meets(i)'
  <2>1. ASSUME NEW c \in Client, task'[<<c, i>>].op \in {"cancel", "restart"}
        PROVE  task'[<<c, i>>].pc \in {"kill", "gone"}
    <3>1. Shaped(<<c, i>>) /\ <<c, i>>[1] = c
      BY Named DEF Steady, Shape
    <3> QED BY <1>2, <2>1, <3>1, ClientAssumption DEF Shaped, WellShaped
  <2> QED BY <1>1, <1>3, <1>4, <2>1 DEF Meets
<1>8. StaysOwned(i)
  <2> SUFFICES ASSUME OwnedAt(i), Interruptible(i)' PROVE Owned(i)'
    BY DEF StaysOwned, OwnedAt
  <2>1. CASE i \in suppress
    BY <1>3, <2>1 DEF Stopping, Owned
  <2>2. CASE t = Wake(i) /\ task[t].pc = "poll" /\ row'[i] = row[i]
    <3>1. Owned(i)
      BY <2>2 DEF OwnedAt, Interruptible
    <3> QED BY <1>2, <2>2, <3>1 DEF Owned, JobStays
  <2> QED BY <2>1, <2>2
<1> QED BY <1>5, <1>6, <1>7, <1>8 DEF FitsAt

-----------------------------------------------------------------------------
(* The steps of a run.                                                     *)

\* A run removes no job and no suppress key.
LEMMA RunLeaves ==
  ASSUME TypeOK, NEW i \in Instance, NEW t \in Runs,
         RunStep(t) \/ RunFails(t) \/ Schedule(t)
  PROVE  JobStays(i) /\ suppress' = suppress
<1>1. job' = job \/ ProcessWaitingQueue
  BY DEF Schedule, RunStep, Reserve, Build, Start, Meta, Healthy, Unhealthy,
     PauseUnhealthy, QueueUnhealthy, StagingHealthy, StagingUnhealthy, Promote, Flip,
     AbortStaging, SaveAborted, FinalizeDeployError, RunFails, BuildFails,
     StartFails, PromoteFails
<1>2. suppress' = suppress
  BY DEF Schedule, RunStep, Reserve, Build, Start, Meta, Healthy, Unhealthy,
     PauseUnhealthy, QueueUnhealthy, StagingHealthy, StagingUnhealthy, Promote, Flip,
     AbortStaging, SaveAborted, FinalizeDeployError, RunFails, BuildFails,
     StartFails, PromoteFails
<1> QED BY <1>1, <1>2 DEF TypeOK, ProcessWaitingQueue, JobStays

\* The premises every case below starts from.
RunAt(t, i) ==
  /\ Steady /\ FitsAt(i) /\ i \in Instance /\ t \in Runs /\ t \in Task /\ t[2] = i
  /\ RunFits(t) /\ task[t] \in TaskState /\ row[i] \in Row /\ rt[i] \in Runtime
  /\ JobStays(i) /\ suppress' = suppress

LEMMA RunPremises ==
  ASSUME Steady, NEW i \in Instance, FitsAt(i), NEW t \in Runs, t[2] = i,
         RunStep(t) \/ RunFails(t) \/ Schedule(t)
  PROVE  RunAt(t, i)
<1>1. TypeOK
  BY DEF Steady
<1>2. t \in Task /\ (t = Job(i) \/ t = Wake(i))
  BY TaskTypes, Kinds DEF Runs, Requests
<1>3. RunFits(t)
  BY <1>2 DEF FitsAt
<1> QED BY <1>1, <1>2, <1>3, RunLeaves DEF RunAt, TypeOK

\* Reserving: the row takes the slot, or waits.
LEMMA ReserveKeeps ==
  ASSUME NEW i \in Instance, NEW t \in Runs, RunAt(t, i), Reserve(t)
  PROVE  Kept(i)
<1>0. /\ task[t].pc = "reserve" /\ TakeSlot(i, task[t].cap) /\ rt' = rt
      /\ row \in [Instance -> Row] /\ TypeOK /\ t \in Task /\ t[2] = i
  BY DEF Reserve, RunAt, Steady, TypeOK
<1>1. row'[i] = Reserved(i, task[t].cap)
  BY <1>0 DEF TakeSlot
<1>2. RowMoves(i)
  BY <1>0 DEF RowMoves
<1>3. CASE Verdict(i, task[t].cap) = "queued"
  <2>1. row'[i].status = "waiting"
    BY <1>0, <1>1, <1>3 DEF Reserved, Row
  <2>2. Leave(t)
    BY <1>0, <1>3 DEF Reserve
  <2>3. ~Interruptible(i)'
    BY <2>1 DEF Interruptible
  <2>4. FitsAt(i)' /\ StaysOwned(i)
    BY <1>0, <2>1, <2>2, <2>3, RunIsOver DEF RunAt
  <2> QED BY <1>2, <2>1, <2>4 DEF Kept, StaysTrue, TrueAt
<1>4. CASE Verdict(i, task[t].cap) = "run"
  <2>1. row'[i].status = "deploying" /\ ~row'[i].zdip
    BY <1>1, <1>4 DEF Reserved, NoRow
  <2>2. task'[t].pc = "build" /\ ~task'[t].zd /\ Others(t)
    <3> DEFINE v == t = Job(i) /\ Verdict(i, task[t].cap) = "run-zd"
    <3>1. task' = [task EXCEPT ![t] = [At("build", "deploy") EXCEPT !.zd = v]]
      BY <1>0, <1>4 DEF Reserve
    <3>2. v = FALSE
      BY <1>4
    <3> HIDE DEF v
    <3>3. task'[t].pc = "build" /\ task'[t].zd = v /\ Others(t)
      BY <1>0, <3>1, BegunWith
    <3> QED BY <3>2, <3>3
  <2>3. RunFits(t)'
    BY <1>0, <2>1, <2>2 DEF RunFits
  <2>4. FitsAt(i)' /\ StaysOwned(i)
    BY <1>0, <2>1, <2>2, <2>3, RunGoesOn DEF RunAt
  <2> QED BY <1>2, <2>1, <2>4 DEF Kept, StaysTrue, TrueAt
<1>5. CASE Verdict(i, task[t].cap) = "run-zd"
  <2>1. row[i].status = "active"
    BY <1>5 DEF Verdict
  <2>2. row'[i].status = "active" /\ row'[i].zdip
    BY <1>0, <1>1, <1>5, <2>1 DEF Reserved, Row
  <2>3. t = Job(i)
    BY <1>0, <2>1, Kinds DEF RunAt, RunFits
  <2>4. task'[t].pc = "build" /\ task'[t].zd /\ Others(t)
    <3> DEFINE v == t = Job(i) /\ Verdict(i, task[t].cap) = "run-zd"
    <3>1. task' = [task EXCEPT ![t] = [At("build", "deploy") EXCEPT !.zd = v]]
      BY <1>0, <1>5 DEF Reserve
    <3>2. v
      BY <1>5, <2>3
    <3> HIDE DEF v
    <3> QED BY <1>0, <3>1, <3>2, BegunWith
  <2>5. RunFits(t)'
    BY <1>0, <2>2, <2>4 DEF RunFits
  <2>6. FitsAt(i)' /\ StaysOwned(i)
    BY <1>0, <2>2, <2>3, <2>4, <2>5, RunGoesOn DEF RunAt
  <2>7. StaysTrue(i)
    BY <1>0, <2>1, <2>2 DEF StaysTrue, TrueAt, Serves
  <2> QED BY <1>2, <2>6, <2>7 DEF Kept
<1> QED BY <1>3, <1>4, <1>5 DEF Verdict

\* The scripts of a run, whether they succeed or fail, act on the runtimes only.
LEMMA ScriptsKeep ==
  ASSUME NEW i \in Instance, NEW t \in Runs, RunAt(t, i),
         Build(t) \/ BuildFails(t) \/ Start(t) \/ StartFails(t)
  PROVE  Kept(i)
<1>0. /\ task[t].pc \in {"build", "start"} /\ row' = row /\ TypeOK
      /\ t \in Task /\ t[2] = i /\ rt \in [Instance -> Runtime] /\ rt[i] \in Runtime
  BY DEF Build, BuildFails, Start, StartFails, RunAt, Steady, TypeOK
<1>1. /\ IF task[t].zd THEN row[i].status = "active" /\ row[i].zdip
         ELSE row[i].status = "deploying"
      /\ task[t].pc = "start" => ~task[t].zd
  BY <1>0 DEF RunAt, RunFits
<1>2. \/ Move(t, "start") /\ ~task[t].zd
      \/ Move(t, "meta") /\ (task[t].zd \/ Start(t))
      \/ Move(t, "fail")
  BY DEF Build, BuildFails, Start, StartFails
<1>3. /\ task'[t].pc \in {"start", "meta", "fail"} /\ Others(t)
      /\ task'[t].zd = task[t].zd /\ task'[t].op = task[t].op
      /\ task'[t].pc = "start" => ~task[t].zd
      /\ task'[t].pc = "meta" => task[t].zd \/ Start(t)
  BY <1>0, <1>2, Moved
<1>4. Start(t) => Serves(i)'
  <2>1. Start(t) => rt'[i] = [rt[i] EXCEPT !.app = TRUE, !.location = "app"]
    BY <1>0 DEF Start
  <2> QED BY <1>0, <2>1 DEF Runtime, Serves
<1>5. task[t].zd => rt'[i].app = rt[i].app /\ rt'[i].location = rt[i].location
  BY <1>0, <1>1 DEF Build, BuildFails, Start, StartFails, Runtime
<1>6. RunFits(t)'
  BY <1>0, <1>1, <1>3, <1>4 DEF RunFits
<1>7. row[i].status = "deploying" => ~row[i].zdip
  BY DEF RunAt, FitsAt
<1>8. FitsAt(i)' /\ StaysOwned(i)
  BY <1>0, <1>3, <1>6, <1>7, RunGoesOn DEF RunAt
<1>9. StaysTrue(i)
  BY <1>0, <1>1, <1>5 DEF StaysTrue, TrueAt, Serves
<1> QED BY <1>0, <1>8, <1>9 DEF Kept, RowMoves

\* persistDeployMeta, and the row that becomes active without a health check.
LEMMA MetaKeeps ==
  ASSUME NEW i \in Instance, NEW t \in Runs, RunAt(t, i), Meta(t)
  PROVE  Kept(i)
<1>0. /\ task[t].pc = "meta" /\ rt' = rt /\ TypeOK /\ t \in Task /\ t[2] = i
      /\ row \in [Instance -> Row] /\ row[i] \in Row /\ task \in [Task -> TaskState]
      /\ task[t] \in TaskState
  BY DEF Meta, RunAt, Steady, TypeOK
<1>1. /\ IF task[t].zd THEN row[i].status = "active" /\ row[i].zdip
         ELSE row[i].status = "deploying"
      /\ ~task[t].zd => Serves(i)
  BY <1>0 DEF RunAt, RunFits
<1>2. row[i].status = "deploying" => ~row[i].zdip
  BY DEF RunAt, FitsAt
<1>3. ASSUME NEW s, task' = [task EXCEPT ![t].pc = "health", ![t].snap = s]
      PROVE  /\ task'[t].pc = "health" /\ task'[t].zd = task[t].zd
             /\ task'[t].snap = s /\ Others(t)
  <2>1. task'[t] = [task[t] EXCEPT !.pc = "health", !.snap = s] /\ Others(t)
    BY <1>0, <1>3 DEF Others
  <2> QED BY <1>0, <2>1 DEF TaskState
<1>4. CASE task[t].zd
  <2>1. task' = [task EXCEPT ![t].pc = "health", ![t].snap = row[i]] /\ row' = row
    BY <1>0, <1>1, <1>4 DEF Meta
  <2>2. RunFits(t)'
    BY <1>0, <1>1, <1>3, <1>4, <2>1 DEF RunFits
  <2>3. FitsAt(i)' /\ StaysOwned(i)
    BY <1>0, <1>2, <1>3, <2>1, <2>2, RunGoesOn DEF RunAt
  <2> QED BY <1>0, <2>1, <2>3 DEF Kept, RowMoves, StaysTrue, TrueAt, Serves
<1>5. CASE ~task[t].zd /\ i \in HealthChecked
  <2>1. /\ task' = [task EXCEPT ![t].pc = "health",
                                ![t].snap = [row[i] EXCEPT !.idle = FALSE]]
        /\ row'[i] = [row[i] EXCEPT !.idle = FALSE]
    BY <1>0, <1>1, <1>5 DEF Meta
  <2>2. row'[i].status = "deploying" /\ ~row'[i].zdip
    BY <1>0, <1>1, <1>2, <1>5, <2>1 DEF Row
  <2>3. RunFits(t)'
    BY <1>0, <1>1, <1>3, <1>5, <2>1, <2>2 DEF RunFits, Serves
  <2>4. FitsAt(i)' /\ StaysOwned(i)
    BY <1>0, <1>2, <1>3, <2>1, <2>2, <2>3, RunGoesOn DEF RunAt
  <2> QED BY <1>0, <1>1, <1>5, <2>2, <2>4 DEF Kept, RowMoves, StaysTrue, TrueAt
<1>6. CASE ~task[t].zd /\ i \notin HealthChecked
  <2>1. /\ Succeed(t)
        /\ row'[i] = [[row[i] EXCEPT !.idle = FALSE] EXCEPT !.status = "active"]
    BY <1>0, <1>1, <1>6 DEF Meta
  <2>2. row'[i].status = "active" /\ ~row'[i].zdip
    BY <1>0, <1>1, <1>2, <1>6, <2>1 DEF Row
  <2>3. ~Interruptible(i)'
    BY <2>2 DEF Interruptible
  <2>4. FitsAt(i)' /\ StaysOwned(i)
    BY <1>0, <2>1, <2>2, <2>3, RunIsOver DEF RunAt
  <2>5. Serves(i)'
    BY <1>0, <1>1, <1>6 DEF Serves
  <2> QED BY <1>1, <1>6, <2>2, <2>4, <2>5 DEF Kept, RowMoves, StaysTrue, TrueAt
<1> QED BY <1>4, <1>5, <1>6

\* A probe answers: the snapshot of Meta, still the row, becomes active.
LEMMA HealthyKeeps ==
  ASSUME NEW i \in Instance, NEW t \in Runs, RunAt(t, i), Healthy(t)
  PROVE  Kept(i)
<1>0. /\ task[t].pc = "health" /\ ~task[t].zd /\ rt' = rt /\ TypeOK /\ t[2] = i
      /\ row \in [Instance -> Row] /\ row[i] \in Row
  BY DEF Healthy, RunAt, Steady, TypeOK
<1>1. row[i].status = "deploying" /\ Serves(i) /\ task[t].snap = row[i] /\ ~row[i].zdip
  BY <1>0 DEF RunAt, RunFits, FitsAt
<1>2. row'[i] = [row[i] EXCEPT !.status = "active", !.idle = FALSE] /\ Succeed(t)
  BY <1>0, <1>1 DEF Healthy
<1>3. row'[i].status = "active" /\ ~row'[i].zdip
  BY <1>0, <1>1, <1>2 DEF Row
<1>4. FitsAt(i)' /\ StaysOwned(i)
  BY <1>0, <1>2, <1>3, RunIsOver DEF RunAt, Interruptible
<1>5. Serves(i)'
  BY <1>0, <1>1 DEF Serves
<1> QED BY <1>1, <1>3, <1>4, <1>5 DEF Kept, RowMoves, StaysTrue, TrueAt

\* The deadline passes: the row is in error before the runtime is stopped, and
\* the waiting queue is served after.
LEMMA UnhealthyKeeps ==
  ASSUME NEW i \in Instance, NEW t \in Runs, RunAt(t, i),
         Unhealthy(t) \/ PauseUnhealthy(t) \/ QueueUnhealthy(t)
  PROVE  Kept(i)
<1>0. /\ TypeOK /\ t \in Task /\ t[2] = i /\ row \in [Instance -> Row]
  BY DEF RunAt, Steady, TypeOK
<1>1. CASE Unhealthy(t)
  <2>1. task[t].pc = "health" /\ row[i].status = "deploying" /\ rt' = rt
    BY <1>0, <1>1 DEF Unhealthy, RunAt, RunFits
  <2>2. Goto(t, "hcpause") /\ row'[i] = [NoRow EXCEPT !.status = "error"]
    BY <1>0, <1>1, <2>1 DEF Unhealthy
  <2>3. row'[i].status = "error"
    BY <2>2 DEF NoRow
  <2>4. task'[t].pc = "hcpause" /\ Others(t)
    BY <1>0, <2>2, Moved
  <2>5. RunFits(t)' /\ ~Interruptible(i)'
    BY <1>0, <2>3, <2>4 DEF RunFits, Interruptible
  <2>6. FitsAt(i)' /\ StaysOwned(i)
    BY <1>0, <2>1, <2>3, <2>4, <2>5, RunGoesOn DEF RunAt
  <2> QED BY <2>1, <2>3, <2>6 DEF Kept, RowMoves, StaysTrue, TrueAt
<1>2. CASE PauseUnhealthy(t)
  <2>1. task[t].pc = "hcpause" /\ row[i].status = "error" /\ row' = row
    BY <1>0, <1>2 DEF PauseUnhealthy, RunAt, RunFits
  <2>2. task'[t].pc = "hcqueue" /\ Others(t)
    BY <1>0, <1>2, Moved DEF PauseUnhealthy
  <2>3. RunFits(t)' /\ ~Interruptible(i)'
    BY <1>0, <2>1, <2>2 DEF RunFits, Interruptible
  <2>4. FitsAt(i)' /\ StaysOwned(i)
    BY <1>0, <2>1, <2>2, <2>3, RunGoesOn DEF RunAt
  <2> QED BY <2>1, <2>4 DEF Kept, RowMoves, StaysTrue, TrueAt
<1>3. CASE QueueUnhealthy(t)
  <2>1. /\ task[t].pc = "hcqueue" /\ row[i].status = "error" /\ row' = row /\ Leave(t)
    BY <1>0, <1>3 DEF QueueUnhealthy, RunAt, RunFits
  <2>2. ~Interruptible(i)'
    BY <2>1 DEF Interruptible
  <2>3. FitsAt(i)' /\ StaysOwned(i)
    BY <1>0, <2>1, <2>2, RunIsOver DEF RunAt
  <2> QED BY <2>1, <2>3 DEF Kept, RowMoves, StaysTrue, TrueAt
<1> QED BY <1>1, <1>2, <1>3

\* A zero-downtime deploy: the live runtime serves until the cutover, and the
\* row stays active throughout.
LEMMA StagingKeeps ==
  ASSUME NEW i \in Instance, NEW t \in Runs, RunAt(t, i),
         \/ StagingHealthy(t) \/ StagingUnhealthy(t) \/ Promote(t) \/ PromoteFails(t)
         \/ Flip(t)
  PROVE  Kept(i)
<1>0. /\ TypeOK /\ t \in Task /\ t[2] = i /\ row \in [Instance -> Row] /\ Shaped(t)
      /\ rt \in [Instance -> Runtime] /\ rt[i] \in Runtime /\ row[i] \in Row
      /\ (t = Job(i) \/ t = Wake(i)) /\ t[1] \in {"job", "wake"}
  BY Kinds DEF RunAt, Steady, TypeOK, Shape, Runs, Requests
<1>1. /\ task[t].pc \in {"health", "promote", "flip"}
      /\ task[t].pc = "health" => task[t].zd
      /\ row[i].status = "active" /\ row[i].zdip
  BY <1>0 DEF StagingHealthy, StagingUnhealthy, Promote, PromoteFails, Flip,
     RunAt, RunFits
<1>2. t = Job(i)
  BY <1>0, <1>1, ClientAssumption, Named DEF Shaped, WellShaped
<1>3. CASE Flip(t)
  <2>1. /\ task[t].pc = "flip" /\ rt' = rt /\ Succeed(t)
        /\ row'[i] = [NoRow EXCEPT !.status = "active"]
    BY <1>0, <1>3 DEF Flip
  <2>2. row'[i].status = "active" /\ ~row'[i].zdip
    BY <2>1 DEF NoRow
  <2>3. FitsAt(i)' /\ StaysOwned(i)
    BY <1>0, <2>1, <2>2, RunIsOver DEF RunAt, Interruptible
  <2>4. Serves(i)'
    BY <1>0, <2>1 DEF RunAt, RunFits, Serves
  <2> QED BY <1>1, <2>2, <2>3, <2>4 DEF Kept, RowMoves, StaysTrue, TrueAt
<1>4. CASE StagingHealthy(t) \/ StagingUnhealthy(t) \/ Promote(t) \/ PromoteFails(t)
  <2>1. row' = row
    BY <1>4 DEF StagingHealthy, StagingUnhealthy, Promote, PromoteFails
  <2>2. /\ task'[t].pc \in {"promote", "flip", "zdabort"} /\ Others(t)
        /\ task'[t].pc = "promote" => StagingHealthy(t)
        /\ task'[t].pc = "flip" => Promote(t)
        /\ task'[t].pc = "zdabort" => StagingUnhealthy(t) \/ PromoteFails(t)
    <3>1. CASE PromoteFails(t)
      <4>1. task' = [task EXCEPT ![t] = At("zdabort", "cutover")]
        BY <3>1 DEF PromoteFails
      <4>2. task'[t] = At("zdabort", "cutover") /\ Others(t)
        BY <1>0, <4>1, Given
      <4>3. task'[t].pc = "zdabort"
        BY <4>2, Fields
      <4> QED BY <3>1, <4>2, <4>3
    <3>2. CASE ~PromoteFails(t)
      BY <1>0, <1>4, <3>2, Moved DEF StagingHealthy, StagingUnhealthy, Promote
    <3> QED BY <3>1, <3>2
  <2>3. StagingHealthy(t) => rt'[i].staged
    BY DEF StagingHealthy, RunAt
  <2>4. Promote(t) => Serves(i)'
    <3> SUFFICES ASSUME Promote(t) PROVE Serves(i)'
      OBVIOUS
    <3>1. /\ rt'[i] = [app |-> rt[i].staged, location |-> "app", staged |-> FALSE]
          /\ rt[i].staged
      BY <1>0 DEF Promote, RunAt, RunFits
    <3> QED BY <3>1 DEF Serves
  <2>5. ~Promote(t) => rt' = rt
    BY <1>4 DEF StagingHealthy, StagingUnhealthy, PromoteFails
  <2>6. RunFits(t)'
    BY <1>0, <1>1, <2>1, <2>2, <2>3, <2>4 DEF RunFits
  <2>7. FitsAt(i)' /\ StaysOwned(i)
    BY <1>0, <1>1, <1>2, <2>1, <2>2, <2>6, RunGoesOn DEF RunAt
  <2> QED BY <1>1, <2>1, <2>4, <2>5, <2>7 DEF Kept, RowMoves, StaysTrue, TrueAt, Serves
<1> QED BY <1>3, <1>4

\* finalizeZeroDowntimeFailure: the preview stays active, the flag goes.
LEMMA AbortKeeps ==
  ASSUME NEW i \in Instance, NEW t \in Runs, RunAt(t, i),
         AbortStaging(t) \/ SaveAborted(t)
  PROVE  Kept(i)
<1>0. /\ TypeOK /\ t \in Task /\ t[2] = i /\ row \in [Instance -> Row] /\ Shaped(t)
      /\ rt \in [Instance -> Runtime] /\ rt[i] \in Runtime /\ row[i] \in Row
      /\ (t = Job(i) \/ t = Wake(i)) /\ t[1] \in {"job", "wake"}
      /\ task \in [Task -> TaskState] /\ task[t] \in TaskState
  BY Kinds DEF RunAt, Steady, TypeOK, Shape, Runs, Requests
<1>1. task[t].pc \in {"zdabort", "zdsave"} /\ row[i].status = "active" /\ row[i].zdip
  BY <1>0 DEF AbortStaging, SaveAborted, RunAt, RunFits
<1>2. t = Job(i)
  BY <1>0, <1>1, ClientAssumption, Named DEF Shaped, WellShaped
<1>3. CASE AbortStaging(t)
  <2>1. /\ rt'[i] = [rt[i] EXCEPT !.staged = FALSE] /\ row' = row
        /\ task' = [task EXCEPT ![t].pc = "zdsave", ![t].snap = row[i]]
    BY <1>0, <1>1, <1>3 DEF AbortStaging
  <2>2. /\ task'[t] = [task[t] EXCEPT !.pc = "zdsave", !.snap = row[i]]
        /\ Others(t)
    BY <1>0, <2>1 DEF Others
  <2>3. task'[t].pc = "zdsave" /\ task'[t].snap = row[i]
    BY <1>0, <2>2 DEF TaskState
  <2>4. RunFits(t)'
    BY <1>0, <1>1, <2>1, <2>3 DEF RunFits
  <2>5. FitsAt(i)' /\ StaysOwned(i)
    BY <1>0, <1>1, <1>2, <2>1, <2>2, <2>3, <2>4, RunGoesOn DEF RunAt
  <2>6. rt'[i].app = rt[i].app /\ rt'[i].location = rt[i].location
    BY <1>0, <2>1 DEF Runtime
  <2> QED BY <1>1, <2>1, <2>5, <2>6 DEF Kept, RowMoves, StaysTrue, TrueAt, Serves
<1>4. CASE SaveAborted(t)
  <2>1. task[t].pc = "zdsave" /\ task[t].snap = row[i] /\ rt' = rt
    BY <1>0, <1>4 DEF SaveAborted, RunAt, RunFits
  <2>2. row'[i] = [row[i] EXCEPT !.zdip = FALSE]
    BY <1>0, <1>4, <2>1 DEF SaveAborted
  <2>3. row'[i].status = "active" /\ ~row'[i].zdip
    BY <1>0, <1>1, <2>2 DEF Row
  <2>4. ~Interruptible(i)'
    BY <2>3 DEF Interruptible
  <2>5. RowMoves(i) /\ StaysTrue(i)
    BY <1>0, <1>1, <2>1, <2>3 DEF RowMoves, StaysTrue, TrueAt, Serves
  <2>6. CASE Leave(t)
    <3>1. FitsAt(i)' /\ StaysOwned(i)
      BY <1>0, <2>1, <2>3, <2>4, <2>6, RunIsOver DEF RunAt
    <3> QED BY <2>5, <3>1 DEF Kept
  <2>7. CASE Goto(t, "fail") /\ task[t].op = "cutover"
    <3>1. task'[t].pc = "fail" /\ task'[t].op = "cutover" /\ Others(t)
      BY <1>0, <2>7, Moved
    <3>2. RunFits(t)'
      BY <1>0, <2>3, <3>1 DEF RunFits
    <3>3. FitsAt(i)' /\ StaysOwned(i)
      BY <1>0, <1>2, <2>1, <2>3, <3>1, <3>2, RunGoesOn DEF RunAt
    <3> QED BY <2>5, <3>3 DEF Kept
  <2> QED BY <1>4, <2>6, <2>7 DEF SaveAborted
<1> QED BY <1>3, <1>4

\* finalizeDeployError: a cancel or a restart has silenced it, or nothing is in
\* progress after it.
LEMMA FailKeeps ==
  ASSUME NEW i \in Instance, NEW t \in Runs, RunAt(t, i), FinalizeDeployError(t)
  PROVE  Kept(i)
<1>0. /\ TypeOK /\ t \in Task /\ t[2] = i /\ row \in [Instance -> Row]
      /\ row[i] \in Row /\ task[t].pc = "fail" /\ Leave(t) /\ rt' = rt
  BY DEF RunAt, Steady, TypeOK, FinalizeDeployError
<1>1. \/ row[i].status = "deploying"
      \/ row[i].status = "active" /\ (row[i].zdip \/ task[t].op = "cutover")
  BY <1>0 DEF RunAt, RunFits
<1>2. row[i].status = "deploying" => ~row[i].zdip
  BY DEF RunAt, FitsAt
<1>3. CASE i \in suppress
  <2>1. row' = row
    BY <1>0, <1>3 DEF FinalizeDeployError
  <2>2. FitsAt(i)' /\ StaysOwned(i)
    BY <1>0, <1>2, <1>3, <2>1, RunIsOver DEF RunAt
  <2> QED BY <1>0, <2>1, <2>2 DEF Kept, RowMoves, StaysTrue, TrueAt, Serves
<1>4. CASE i \notin suppress /\ row[i].zdip /\ row[i].status = "active"
  <2>1. row'[i] = [row[i] EXCEPT !.zdip = FALSE]
    BY <1>0, <1>4 DEF FinalizeDeployError
  <2>2. row'[i].status = "active" /\ ~row'[i].zdip
    BY <1>0, <1>4, <2>1 DEF Row
  <2>3. ~Interruptible(i)'
    BY <2>2 DEF Interruptible
  <2>4. FitsAt(i)' /\ StaysOwned(i)
    BY <1>0, <1>4, <2>2, <2>3, RunIsOver DEF RunAt
  <2> QED BY <1>0, <1>4, <2>2, <2>4 DEF Kept, RowMoves, StaysTrue, TrueAt, Serves
<1>5. CASE i \notin suppress /\ ~(row[i].zdip /\ row[i].status = "active")
  <2>1. row'[i] = [row[i] EXCEPT !.status = "error", !.zdip = FALSE]
    BY <1>0, <1>1, <1>5 DEF FinalizeDeployError
  <2>2. row'[i].status = "error"
    BY <1>0, <2>1 DEF Row
  <2>3. ~Interruptible(i)'
    BY <2>2 DEF Interruptible
  <2>4. FitsAt(i)' /\ StaysOwned(i)
    BY <1>0, <1>5, <2>2, <2>3, RunIsOver DEF RunAt
  <2> QED BY <1>0, <1>1, <1>5, <2>2, <2>4 DEF Kept, RowMoves, StaysTrue, TrueAt
<1> QED BY <1>3, <1>4, <1>5

\* processWaitingQueue ends a run of the worker.
LEMMA RunScheduleKeeps ==
  ASSUME NEW i \in Instance, NEW t \in Runs, RunAt(t, i), Schedule(t)
  PROVE  Kept(i)
<1>0. /\ TypeOK /\ t \in Task /\ t[2] = i /\ t \notin Requests
      /\ task[t].pc = "schedule" /\ row' = row /\ rt' = rt
  BY Kinds DEF RunAt, Steady, Schedule
<1>1. Leave(t) /\ ~Interruptible(i)'
  BY <1>0 DEF Schedule, RunAt, RunFits, Interruptible
<1>2. row[i].status = "deploying" => ~row[i].zdip
  BY DEF RunAt, FitsAt
<1>3. FitsAt(i)' /\ StaysOwned(i)
  BY <1>0, <1>1, <1>2, RunIsOver DEF RunAt
<1> QED BY <1>0, <1>3 DEF Kept, RowMoves, StaysTrue, TrueAt, Serves

\* Every step of a run.
LEMMA RunKeeps ==
  ASSUME Steady, NEW i \in Instance, FitsAt(i), NEW t \in Runs, t[2] = i,
         RunStep(t) \/ RunFails(t) \/ Schedule(t)
  PROVE  Kept(i)
<1>1. RunAt(t, i)
  BY RunPremises
<1> QED BY <1>1, ReserveKeeps, ScriptsKeep, MetaKeeps, HealthyKeeps, UnhealthyKeeps,
        StagingKeeps, AbortKeeps, FailKeeps, RunScheduleKeeps DEF RunStep, RunFails

-----------------------------------------------------------------------------
(* Where a run begins, and where the worker lets go of a job.              *)

\* What a flow that stands still says stays true while its preview does.
LEMMA StandStill ==
  ASSUME NEW i \in Instance, NEW s \in Task, s[2] = i, task'[s] = task[s],
         row'[i] = row[i], rt'[i] = rt[i], i \in suppress => i \in suppress'
  PROVE  (RunFits(s) => RunFits(s)') /\ (RequestFits(s) => RequestFits(s)')
<1>1. RunFits(s) => RunFits(s)'
  BY DEF RunFits, Serves, Interruptible
<1>2. RequestFits(s) => RequestFits(s)'
  BY DEF RequestFits, Interruptible
<1> QED BY <1>1, <1>2

\* The requests stand still, and the runs fit: the rest is where the runs meet.
LEMMA RunsMove ==
  ASSUME Steady, NEW i \in Instance, FitsAt(i),
         row'[i] = row[i], rt'[i] = rt[i], suppress' = suppress,
         \A c \in Client : task'[<<c, i>>] = task[<<c, i>>],
         RunFits(Job(i))', RunFits(Wake(i))',
         task'[Job(i)].pc # "tail",
         task'[Job(i)].pc = "await" =>
           /\ task'[Wake(i)].pc \notin {"idle", "poll"}
           /\ task'[Wake(i)].pc = "queued" => row[i].status = "paused",
         \/ JobStays(i) /\ task[Wake(i)].pc \notin {"build", "start", "meta", "health", "fail"}
         \/ JobStays(i) /\ task'[Wake(i)] = task[Wake(i)]
         \/ Interruptible(i) => Stopping(i)
  PROVE  Kept(i)
<1>1. ASSUME NEW c \in Client PROVE RequestFits(<<c, i>>)'
  BY <1>1, StandStill, Named DEF FitsAt
<1>2. Meets(i)'
  BY DEF Meets
<1>3. StaysOwned(i)
  <2>1. Interruptible(i)' <=> Interruptible(i)
    BY DEF Interruptible
  <2>2. CASE Interruptible(i) => Stopping(i)
    BY <2>1, <2>2 DEF StaysOwned, OwnedAt, Owned, Stopping
  <2>3. CASE JobStays(i) /\ task[Wake(i)].pc \notin {"build", "start", "meta", "health", "fail"}
    BY <2>1, <2>3 DEF StaysOwned, OwnedAt, Owned, JobStays
  <2>4. CASE JobStays(i) /\ task'[Wake(i)] = task[Wake(i)]
    BY <2>1, <2>4 DEF StaysOwned, OwnedAt, Owned, JobStays
  <2> QED BY <2>2, <2>3, <2>4
<1> QED BY <1>1, <1>2, <1>3 DEF Kept, FitsAt, RowMoves, StaysTrue, TrueAt, Serves

\* A wake is queued unless it is in flight.
LEMMA WakeIsQueued ==
  ASSUME NEW i \in Instance, NEW f \in [Task -> TaskState], task' = WakeQueued(f, i)
  PROVE  /\ \A s \in Task : s # Wake(i) => task'[s] = f[s]
         /\ f[Wake(i)].pc # "idle" => task'[Wake(i)] = f[Wake(i)]
         /\ f[Wake(i)].pc = "idle" => task'[Wake(i)].pc = "queued"
<1>1. Wake(i) \in Task
  BY Named
<1>2. /\ \A s \in Task : s # Wake(i) => task'[s] = f[s]
      /\ task'[Wake(i)] = IF f[Wake(i)].pc = "idle" THEN At("queued", "deploy")
                          ELSE f[Wake(i)]
  BY <1>1 DEF WakeQueued
<1> QED BY <1>2, Fields

\* A job is added, a wake is queued, and the worker takes a job.
LEMMA QueueKeeps ==
  ASSUME Steady, NEW i \in Instance, FitsAt(i),
         Webhook(i) \/ RequestWake(i) \/ StartJob(i)
  PROVE  Kept(i)
<1>0. /\ Job(i) \in Task /\ Wake(i) \in Task /\ Job(i) # Wake(i) /\ Job(i)[2] = i
      /\ Wake(i)[2] = i /\ task \in [Task -> TaskState] /\ job \in [Instance -> JobState]
      /\ \A c \in Client : <<c, i>> \in Task /\ <<c, i>> # Job(i) /\ <<c, i>> # Wake(i)
  BY Named DEF Steady, TypeOK
<1>1. /\ row' = row /\ rt' = rt /\ suppress' = suppress
  BY DEF Webhook, RequestWake, StartJob, ResumesIdleSleep
<1>2. JobStays(i)
  BY <1>0 DEF Webhook, RequestWake, StartJob, ResumesIdleSleep, JobStays, Add
<1>3. RunFits(Job(i)) /\ RunFits(Wake(i)) /\ Meets(i)
  BY DEF FitsAt
<1>4. CASE Webhook(i)
  <2>1. task' = task
    BY <1>4 DEF Webhook
  <2>2. RunFits(Job(i))' /\ RunFits(Wake(i))'
    BY <1>0, <1>1, <1>3, <2>1, StandStill
  <2>3. Meets(i)' /\ \A c \in Client : RequestFits(<<c, i>>)'
    BY <1>0, <1>1, <1>3, <2>1, StandStill, Named
       DEF Meets, FitsAt, Interruptible, Stopping
  <2>4. StaysOwned(i)
    BY <1>1, <1>2, <2>1 DEF StaysOwned, OwnedAt, Owned, Interruptible, JobStays
  <2> QED BY <1>1, <2>2, <2>3, <2>4 DEF Kept, FitsAt, RowMoves, StaysTrue, TrueAt, Serves
<1>5. CASE RequestWake(i)
  <2>1. /\ \A s \in Task : s # Wake(i) => task'[s] = task[s]
        /\ task[Wake(i)].pc # "idle" => task'[Wake(i)] = task[Wake(i)]
        /\ task[Wake(i)].pc = "idle" => task'[Wake(i)].pc = "queued"
    BY <1>0, <1>5, WakeIsQueued DEF RequestWake
  <2>2. RunFits(Job(i))'
    BY <1>0, <1>1, <1>3, <2>1, StandStill
  <2>3. RunFits(Wake(i))'
    <3>1. CASE task[Wake(i)].pc # "idle"
      BY <1>0, <1>1, <1>3, <2>1, <3>1, StandStill
    <3>2. CASE task[Wake(i)].pc = "idle"
      BY <2>1, <3>2 DEF RunFits
    <3> QED BY <3>1, <3>2
  <2>4. Meets(i)' /\ \A c \in Client : RequestFits(<<c, i>>)'
    <3>1. \A c \in Client : RequestFits(<<c, i>>)'
      BY <1>0, <1>1, <2>1, StandStill, Named DEF FitsAt
    <3>2. task'[Job(i)] = task[Job(i)] /\ \A c \in Client : task'[<<c, i>>] = task[<<c, i>>]
      BY <1>0, <2>1
    <3> QED BY <1>1, <1>3, <2>1, <3>1, <3>2 DEF Meets, Interruptible, Stopping
  <2>5. StaysOwned(i)
    BY <1>0, <1>1, <1>2, <2>1 DEF StaysOwned, OwnedAt, Owned, Interruptible, JobStays
  <2> QED BY <1>1, <2>2, <2>3, <2>4, <2>5 DEF Kept, FitsAt, RowMoves, StaysTrue, TrueAt, Serves
<1>6. CASE StartJob(i)
  <2>1. CASE /\ row[i].status = "paused"
             /\ task' = WakeQueued([task EXCEPT ![Job(i)] = At("await", "deploy")], i)
    <3> DEFINE f == [task EXCEPT ![Job(i)] = At("await", "deploy")]
    <3>1. At("await", "deploy") \in TaskState
      BY ConstantTypes DEF PC, Op
    <3>2. /\ f \in [Task -> TaskState] /\ f[Job(i)] = At("await", "deploy")
          /\ \A s \in Task : s # Job(i) => f[s] = task[s]
      BY <1>0, <3>1
    <3> HIDE DEF f
    <3>3. task' = WakeQueued(f, i)
      BY <2>1 DEF f
    <3>4. /\ \A s \in Task : s # Wake(i) => task'[s] = f[s]
          /\ f[Wake(i)].pc # "idle" => task'[Wake(i)] = f[Wake(i)]
          /\ f[Wake(i)].pc = "idle" => task'[Wake(i)].pc = "queued"
      BY <3>2, <3>3, WakeIsQueued
    <3>5. /\ task'[Job(i)].pc = "await"
          /\ task[Wake(i)].pc # "idle" => task'[Wake(i)] = task[Wake(i)]
          /\ task[Wake(i)].pc = "idle" => task'[Wake(i)].pc = "queued"
          /\ \A c \in Client : task'[<<c, i>>] = task[<<c, i>>]
      BY <1>0, <3>2, <3>4, Fields
    <3>6. task[Wake(i)].pc # "poll"
      BY <1>0, <1>3, <2>1 DEF RunFits
    <3>7. RunFits(Job(i))'
      BY <3>5 DEF RunFits
    <3>8. RunFits(Wake(i))'
      <4>1. CASE task[Wake(i)].pc # "idle"
        BY <1>0, <1>1, <1>3, <3>5, <4>1, StandStill
      <4>2. CASE task[Wake(i)].pc = "idle"
        BY <3>5, <4>2 DEF RunFits
      <4> QED BY <4>1, <4>2
    <3>9. task'[Wake(i)].pc \notin {"idle", "poll"}
      BY <3>5, <3>6
    <3>10. ~Interruptible(i)
      BY <2>1 DEF Interruptible
    <3> QED BY <1>1, <2>1, <3>5, <3>7, <3>8, <3>9, <3>10, RunsMove
  <2>2. CASE task' = [task EXCEPT ![Job(i)] = [At("reserve", "deploy") EXCEPT !.cap = limit]]
    <3>1. task'[Job(i)].pc = "reserve" /\ Others(Job(i))
      BY <1>0, <2>2, BegunReserving DEF Steady
    <3>2. RunFits(Job(i))'
      BY <1>0, <3>1 DEF RunFits
    <3>3. task'[Wake(i)] = task[Wake(i)] /\ \A c \in Client : task'[<<c, i>>] = task[<<c, i>>]
      BY <1>0, <3>1 DEF Others
    <3>4. RunFits(Wake(i))'
      BY <1>0, <1>1, <1>3, <3>3, StandStill
    <3> QED BY <1>1, <1>2, <3>1, <3>2, <3>3, <3>4, RunsMove
  <2> QED BY <1>6, <2>1, <2>2 DEF StartJob, ResumesIdleSleep
<1> QED BY <1>4, <1>5, <1>6

\* doWake up to its reservation, and its poll of a deploy it found in progress.
LEMMA WakeKeeps ==
  ASSUME Steady, NEW i \in Instance, FitsAt(i), StartWake(i) \/ PollDeploy(i)
  PROVE  Kept(i)
<1> DEFINE w == Wake(i)
<1>0. /\ Job(i) \in Task /\ w \in Task /\ w \in Runs /\ Job(i) # w /\ Job(i)[2] = i
      /\ w[2] = i /\ TypeOK
      /\ \A c \in Client : <<c, i>> \in Task /\ <<c, i>> # Job(i) /\ <<c, i>> # w
  BY Named DEF Steady
<1>1. /\ row' = row /\ rt' = rt /\ suppress' = suppress /\ job' = job /\ JobStays(i)
      /\ task[w].pc \in {"queued", "poll"}
  BY DEF StartWake, PollDeploy, JobStays
<1>2. RunFits(Job(i)) /\ RunFits(w) /\ Meets(i) /\ (row[i].status = "deploying" => ~row[i].zdip)
  BY DEF FitsAt
<1>a. ASSUME FitsAt(i)', StaysOwned(i) PROVE Kept(i)
  BY <1>1, <1>a DEF Kept, RowMoves, StaysTrue, TrueAt, Serves
<1>3. CASE PollDeploy(i)
  <2>1. PICK next : (next = "schedule" /\ Succeed(w)) \/ (next = "tail" /\ Leave(w))
    BY <1>3 DEF PollDeploy
  <2>2. task[w].pc = "poll"
    BY <1>3 DEF PollDeploy
  <2> HIDE DEF w
  <2>3. w = Wake(i)
    BY DEF w
  <2>4. FitsAt(i)' /\ StaysOwned(i)
    BY <1>0, <1>1, <1>2, <2>1, <2>2, <2>3, RunIsOver
  <2> QED BY <1>a, <2>4
<1>4. CASE StartWake(i) /\ row[i].status = "active"
  <2>1. Succeed(w) /\ task[w].pc = "queued" /\ task[Job(i)].pc # "await"
    BY <1>1, <1>2, <1>4 DEF StartWake, Meets
  <2>2. /\ task'[w] = Idle /\ task'[Job(i)] = task[Job(i)]
        /\ \A s \in Task : s # w /\ s # Job(i) => task'[s] = task[s]
    BY <1>0, <2>1, EndOfRun
  <2>3. RunFits(w)'
    BY <2>2, Fields DEF RunFits
  <2>4. RunFits(Job(i))'
    BY <1>0, <1>1, <1>2, <2>2, StandStill
  <2>5. task[Job(i)].pc # "tail"
    <3>1. task[Job(i)].pc = "idle"
      <4>1. Shaped(w) /\ w[1] = "wake"
        BY <1>0, Named DEF Steady, Shape
      <4>2. task[w].op \notin {"cancel", "restart"}
        BY <2>1, <4>1, ClientAssumption DEF Shaped, WellShaped
      <4> QED BY <1>0, <2>1, <4>2, Company
    <3> QED BY <3>1
  <2>6. \A c \in Client : task'[<<c, i>>] = task[<<c, i>>]
    BY <1>0, <2>2
  <2> QED BY <1>1, <2>1, <2>2, <2>3, <2>4, <2>5, <2>6, RunsMove
<1>5. CASE StartWake(i) /\ row[i].status = "deploying"
  <2>1. Move(w, "poll") /\ task[w].pc = "queued" /\ task[Job(i)].pc # "await"
    BY <1>1, <1>2, <1>5 DEF StartWake, Meets
  <2>2. task'[w].pc = "poll" /\ Others(w)
    BY <1>0, <2>1, Moved
  <2>3. RunFits(w)'
    BY <1>0, <1>1, <1>5, <2>2 DEF RunFits
  <2>4. FitsAt(i)' /\ StaysOwned(i)
    BY <1>0, <1>1, <1>2, <2>1, <2>2, <2>3, RunGoesOn
  <2> QED BY <1>a, <2>4
<1>6. CASE StartWake(i) /\ row[i].status = "paused" /\ row[i].idle
  <2>1. /\ task' = [task EXCEPT ![w] = [At("reserve", "deploy") EXCEPT !.cap = limit]]
        /\ task[w].pc = "queued"
    BY <1>6 DEF StartWake
  <2>2. task'[w].pc = "reserve" /\ Others(w)
    BY <1>0, <2>1, BegunReserving
  <2>3. RunFits(w)' /\ ~Interruptible(i)'
    BY <1>0, <1>1, <1>6, <2>2 DEF RunFits, Interruptible
  <2>4. FitsAt(i)' /\ StaysOwned(i)
    BY <1>0, <1>1, <1>2, <2>1, <2>2, <2>3, RunGoesOn
  <2> QED BY <1>a, <2>4
<1>7. CASE /\ StartWake(i) /\ row[i].status \notin {"active", "deploying"}
           /\ ~(row[i].status = "paused" /\ row[i].idle)
  <2>1. Leave(w) /\ task[w].pc = "queued" /\ ~Interruptible(i)'
    BY <1>1, <1>7 DEF StartWake, Interruptible
  <2>2. FitsAt(i)' /\ StaysOwned(i)
    BY <1>0, <1>1, <1>2, <2>1, RunIsOver
  <2> QED BY <1>a, <2>2
<1> QED BY <1>3, <1>4, <1>5, <1>6, <1>7

\* BullMQ removes the finished job: nothing is in progress, or whoever stops the
\* deploy goes on with it.
LEMMA EndJobKeeps ==
  ASSUME Steady, NEW i \in Instance, FitsAt(i), EndJob(i)
  PROVE  Kept(i)
<1>0. /\ Job(i) \in Task /\ Wake(i) \in Task /\ Job(i) # Wake(i) /\ Wake(i)[2] = i
      /\ TypeOK /\ Job(i)[2] = i
      /\ \A c \in Client : <<c, i>> \in Task /\ <<c, i>> # Job(i)
  BY Named DEF Steady
<1>1. /\ row' = row /\ rt' = rt /\ suppress' = suppress /\ task[Job(i)].pc = "tail"
      /\ task'[Job(i)].pc = "idle" /\ Others(Job(i))
  BY <1>0, Moved, Fields DEF EndJob
<1>2. RunFits(Job(i))'
  BY <1>1 DEF RunFits
<1>3. RunFits(Wake(i))'
  BY <1>0, <1>1, StandStill DEF FitsAt, Others
<1>4. Interruptible(i) => Stopping(i)
  BY <1>1 DEF FitsAt, Meets
<1>5. \A c \in Client : task'[<<c, i>>] = task[<<c, i>>]
  BY <1>0, <1>1 DEF Others
<1> QED BY <1>1, <1>2, <1>3, <1>4, <1>5, RunsMove

-----------------------------------------------------------------------------
(* The steps of a request.                                                 *)

\* The premises every case below starts from.
RequestAt(t, i) ==
  /\ Steady /\ FitsAt(i) /\ TypeOK /\ i \in Instance /\ t \in Requests /\ t \in Task
  /\ t[2] = i /\ t = <<t[1], i>> /\ t[1] \in Client /\ Shaped(t) /\ RequestFits(t)
  /\ row \in [Instance -> Row] /\ row[i] \in Row
  /\ rt \in [Instance -> Runtime] /\ rt[i] \in Runtime
  /\ row[i].status = "deploying" => ~row[i].zdip

LEMMA RequestPremises ==
  ASSUME Steady, NEW i \in Instance, FitsAt(i), NEW t \in Requests, t[2] = i
  PROVE  RequestAt(t, i)
<1>1. t \in Task /\ t = <<t[1], i>> /\ t[1] \in Client /\ Shaped(t)
  BY TaskTypes, Kinds DEF Steady, Shape
<1>2. RequestFits(t)
  BY <1>1 DEF FitsAt
<1> QED BY <1>1, <1>2 DEF RequestAt, Steady, TypeOK, FitsAt

\* Only an interrupt that has yet to see the job gone has company.
LEMMA Alone ==
  ASSUME NEW i \in Instance, NEW t \in Requests, RequestAt(t, i),
         task[t].pc \notin {"idle", "kill", "gone"},
         NEW s \in Task, s[2] = i, s # t
  PROVE  task[s].pc = "idle"
<1>0. Steady /\ FitsAt(i) /\ t \in Task /\ t[2] = i /\ Shaped(t) /\ t[1] \in Client
      /\ t[1] \notin {"job", "wake"}
  BY Kinds, ClientAssumption DEF RequestAt
<1>1. CASE task[t].op \in {"cancel", "restart"}
  BY <1>0, <1>1, Interrupting
<1>2. CASE task[t].op \notin {"cancel", "restart"}
  <2>1. task[t].pc \notin {"await", "tail", "build", "start", "fail"}
    BY <1>0 DEF Shaped, WellShaped
  <2>2. \A u \in Task : u[2] = i /\ u # t =>
          task[u].pc = "idle" \/ (u = Job(i) /\ task[u].pc = "await")
    BY <1>0, <1>2, <2>1, Company
  <2>3. Wake(i) \in Task /\ Wake(i)[2] = i /\ Wake(i) # t /\ Wake(i) # Job(i)
    BY <1>0, Named
  <2>4. task[Wake(i)].pc = "idle"
    BY <2>2, <2>3
  <2> QED BY <1>0, <2>2, <2>4 DEF FitsAt, Meets
<1> QED BY <1>1, <1>2

\* When a request is alone, it is enough to look at it.
LEMMA AloneFits ==
  ASSUME NEW i \in Instance, NEW t \in Requests, RequestAt(t, i),
         task[t].pc \notin {"idle", "kill", "gone"}, Others(t), RequestFits(t)',
         row'[i].status = "deploying" => ~row'[i].zdip
  PROVE  FitsAt(i)'
<1>1. ASSUME NEW s \in Task, s[2] = i, s # t PROVE task'[s].pc = "idle"
  BY <1>1, Alone DEF Others
<1>2. task'[Job(i)].pc = "idle" /\ task'[Wake(i)].pc = "idle"
  BY <1>1, Named, Kinds
<1>3. RunFits(Job(i))' /\ RunFits(Wake(i))'
  BY <1>2 DEF RunFits
<1>4. ASSUME NEW c \in Client PROVE RequestFits(<<c, i>>)'
  <2>1. CASE <<c, i>> = t
    BY <2>1
  <2>2. CASE <<c, i>> # t
    <3>1. task'[<<c, i>>].pc = "idle"
      BY <1>1, <2>2, Named
    <3> QED BY <3>1 DEF RequestFits
  <2> QED BY <2>1, <2>2
<1> QED BY <1>2, <1>3, <1>4 DEF FitsAt, Meets

\* A request begins: it reads the row, or silences the deploy it will stop.
LEMMA BeginKeeps ==
  ASSUME NEW i \in Instance, NEW t \in Requests, RequestAt(t, i),
         NEW op \in Op \ {"none", "deploy", "cutover"}, Begin(t, op)
  PROVE  Kept(i)
<1>0. /\ TypeOK /\ t \in Task /\ t[2] = i /\ t = <<t[1], i>> /\ t[1] \in Client
      /\ task[t].pc = "idle" /\ Accepts(op, i) /\ row' = row /\ rt' = rt /\ job' = job
      /\ i \in suppress => i \in suppress'
      /\ op \in {"cancel", "restart"} => i \in suppress'
  BY DEF RequestAt, Begin
<1>1. BeginsAt(t, op)
  BY <1>0, BeginPoints
<1>2. Others(t)
  BY <1>1 DEF BeginsAt
<1>3. RequestFits(t)'
  <2>1. op \in {"cancel", "restart"} => Interruptible(i)'
    BY <1>0 DEF Accepts, Interruptible
  <2>2. op \notin {"cancel", "restart", "activate"} => row[i].status # "none"
    BY <1>0 DEF Accepts, Op
  <2>3. op \in {"pause", "sleep"} => row[i].status = "active"
    BY <1>0 DEF Accepts
  <2> QED BY <1>0, <1>1, <2>1, <2>2, <2>3 DEF BeginsAt, RequestFits, Op
<1>4. ASSUME NEW s \in Task, s[2] = i, s # t
      PROVE  /\ task'[s] = task[s]
             /\ (RunFits(s) => RunFits(s)') /\ (RequestFits(s) => RequestFits(s)')
  BY <1>0, <1>2, <1>4, StandStill DEF Others
<1>5. /\ Job(i) \in Task /\ Job(i)[2] = i /\ Job(i) # t
      /\ Wake(i) \in Task /\ Wake(i)[2] = i /\ Wake(i) # t
  BY Named, Kinds
<1>6. RunFits(Job(i))' /\ RunFits(Wake(i))'
  BY <1>4, <1>5 DEF RequestAt, FitsAt
<1>7. ASSUME NEW c \in Client PROVE RequestFits(<<c, i>>)'
  <2>1. <<c, i>> \in Task /\ <<c, i>>[2] = i
    BY Named
  <2> QED BY <1>3, <1>4, <2>1 DEF RequestAt, FitsAt
<1>8. \A c \in Client : task[<<c, i>>].pc \in {"enqueue", "kill", "gone", "stopped"} =>
        task'[<<c, i>>] = task[<<c, i>>]
  BY <1>0, <1>4, Named
<1>9. Meets(i)'
  <2>1. Meets(i)
    BY DEF RequestAt, FitsAt
  <2>2. task'[Job(i)] = task[Job(i)] /\ task'[Wake(i)] = task[Wake(i)]
    BY <1>4, <1>5
  <2>3. task'[Job(i)].pc = "tail" => ~Interruptible(i)' \/ Stopping(i)'
    BY <1>0, <1>8, <2>1, <2>2 DEF Meets, Interruptible, Stopping
  <2>4. ASSUME NEW c \in Client, task'[<<c, i>>].op \in {"cancel", "restart"},
               task'[<<c, i>>].pc \notin {"kill", "gone"}
        PROVE  task'[Job(i)].pc # "tail"
    <3>1. <<c, i>> # t
      BY <1>1, <2>4 DEF BeginsAt
    <3> QED BY <1>4, <2>1, <2>2, <2>4, <3>1, Named DEF Meets
  <2> QED BY <1>0, <2>1, <2>2, <2>3, <2>4 DEF Meets
<1>10. StaysOwned(i)
  BY <1>0, <1>4, <1>5, <1>8 DEF StaysOwned, OwnedAt, Owned, Interruptible
<1> QED BY <1>0, <1>6, <1>7, <1>9, <1>10
        DEF Kept, FitsAt, RequestAt, RowMoves, StaysTrue, TrueAt, Serves

\* Activation: the slot is taken before the job is added, and the request owns
\* it in between.
LEMMA ActivateKeeps ==
  ASSUME NEW i \in Instance, NEW t \in Requests, RequestAt(t, i), ReserveActivate(t)
  PROVE  Kept(i)
<1>0. /\ task[t].pc = "reserve" /\ TakeSlot(i, task[t].cap) /\ rt' = rt /\ TypeOK
      /\ t \in Task /\ t[2] = i /\ row \in [Instance -> Row] /\ t = <<t[1], i>>
      /\ t[1] \in Client /\ (End(t) \/ Goto(t, "enqueue"))
      /\ Verdict(i, task[t].cap) # "queued" => Goto(t, "enqueue")
  BY DEF ReserveActivate, RequestAt
<1>1. row'[i] = Reserved(i, task[t].cap)
  BY <1>0 DEF TakeSlot
<1>2. /\ Others(t) /\ task'[t].pc \in {"idle", "enqueue"}
      /\ Verdict(i, task[t].cap) # "queued" => task'[t].pc = "enqueue"
  BY <1>0, Moved, Fields
<1>3. \/ row'[i].status = "waiting" /\ Verdict(i, task[t].cap) = "queued"
      \/ row'[i].status = "deploying" /\ ~row'[i].zdip
      \/ row'[i].status = "active" /\ row[i].status = "active"
         /\ Verdict(i, task[t].cap) # "queued"
  <2>1. Verdict(i, task[t].cap) = "queued" => row'[i].status = "waiting"
    BY <1>0, <1>1 DEF Reserved, Row, RequestAt
  <2>2. Verdict(i, task[t].cap) = "run" => row'[i].status = "deploying" /\ ~row'[i].zdip
    BY <1>1 DEF Reserved, NoRow
  <2>3. Verdict(i, task[t].cap) = "run-zd" =>
          row'[i].status = "active" /\ row[i].status = "active"
    BY <1>0, <1>1 DEF Reserved, Row, RequestAt, Verdict
  <2> QED BY <2>1, <2>2, <2>3 DEF Verdict
<1>4. RequestFits(t)'
  BY <1>2 DEF RequestFits
<1>5. FitsAt(i)'
  BY <1>0, <1>2, <1>3, <1>4, AloneFits
<1>6. StaysOwned(i)
  <2>1. Interruptible(i)' => task'[t].pc = "enqueue"
    <3>1. Verdict(i, task[t].cap) = "queued" => ~Interruptible(i)'
      BY <1>0, <1>1 DEF Reserved, Row, RequestAt, Interruptible
    <3> QED BY <1>2, <3>1
  <2> QED BY <1>0, <2>1 DEF StaysOwned, OwnedAt, Owned
<1>7. RowMoves(i) /\ StaysTrue(i)
  BY <1>0, <1>3 DEF RowMoves, StaysTrue, TrueAt, Serves
<1> QED BY <1>5, <1>6, <1>7 DEF Kept

\* The job is added: the queue owns the deploy from here on.
LEMMA EnqueueKeeps ==
  ASSUME NEW i \in Instance, NEW t \in Requests, RequestAt(t, i), EnqueueForced(t)
  PROVE  Kept(i)
<1>0. /\ task[t].pc = "enqueue" /\ rt' = rt /\ row' = row /\ TypeOK /\ t[2] = i
      /\ job' = Add(i, "forced") /\ End(t) /\ t \in Task /\ job \in [Instance -> JobState]
  BY DEF EnqueueForced, RequestAt, TypeOK
<1>1. Others(t) /\ task'[t].pc = "idle" /\ job'[i] # "none"
  BY <1>0, Moved, Fields DEF Add
<1>2. RequestFits(t)'
  BY <1>1 DEF RequestFits
<1>3. FitsAt(i)'
  BY <1>0, <1>1, <1>2, AloneFits DEF RequestAt
<1> QED BY <1>0, <1>1, <1>3 DEF Kept, RowMoves, StaysTrue, TrueAt, Serves, StaysOwned,
        OwnedAt, Owned

\* pause.sh, sleep.sh or destroy.sh returns, and the row says so; or it fails.
LEMMA ScriptKeeps ==
  ASSUME NEW i \in Instance, NEW t \in Requests, RequestAt(t, i),
         FinishScript(t) \/ ScriptFails(t)
  PROVE  Kept(i)
<1>0. /\ task[t].pc = "script" /\ t \in Task /\ t[2] = i /\ TypeOK
      /\ rt'[i] = IF task[t].op = "sleep" THEN Asleep ELSE NoRuntime
      /\ row \in [Instance -> Row] /\ row[i] \in Row /\ Shaped(t)
  BY DEF FinishScript, CancelPendingDeployJob, ScriptFails, RequestAt
<1>1. task[t].snap = row[i] /\ (task[t].op = "destroy" \/ row[i].status = "active")
      /\ row[i].status # "none"
  BY <1>0 DEF RequestAt, RequestFits
<1>2. CASE FinishScript(t)
  <2>1. /\ Goto(t, "schedule")
        /\ row'[i] = IF task[t].op = "destroy" THEN NoRow
                     ELSE [row[i] EXCEPT !.status = "paused", !.idle = task[t].op = "sleep"]
    BY <1>0, <1>1, <1>2 DEF FinishScript, CancelPendingDeployJob
  <2>2. task'[t].pc = "schedule" /\ Others(t)
    BY <1>0, <2>1, Moved
  <2>3. /\ row'[i].status = IF task[t].op = "destroy" THEN "none" ELSE "paused"
        /\ task[t].op # "destroy" => (row'[i].idle <=> task[t].op = "sleep")
    <3>1. task[t].op = "destroy" => row'[i].status = "none"
      BY <2>1 DEF NoRow
    <3> DEFINE b == task[t].op = "sleep"
    <3>2. task[t].op # "destroy" => row'[i] = [row[i] EXCEPT !.status = "paused", !.idle = b]
      BY <2>1
    <3> HIDE DEF b
    <3>3. task[t].op # "destroy" => row'[i].status = "paused" /\ row'[i].idle = b
      BY <1>0, <3>2 DEF Row
    <3> QED BY <3>1, <3>3 DEF b
  <2>4. RequestFits(t)'
    BY <2>2 DEF RequestFits
  <2>5. FitsAt(i)'
    BY <1>0, <2>2, <2>3, <2>4, AloneFits
  <2>6. RowMoves(i)
    BY <1>1, <2>3 DEF RowMoves
  <2>7. StaysTrue(i)
    BY <1>0, <2>3 DEF StaysTrue, TrueAt
  <2> QED BY <2>3, <2>5, <2>6, <2>7 DEF Kept, StaysOwned, OwnedAt, Interruptible
<1>3. CASE ScriptFails(t)
  <2>1. row' = row /\ job' = job /\ End(t) /\ "stopFails" \in Operations
    BY <1>3 DEF ScriptFails
  <2>2. Others(t) /\ task'[t].pc = "idle"
    BY <1>0, <2>1, Moved, Fields
  <2>3. RequestFits(t)'
    BY <2>2 DEF RequestFits
  <2>4. FitsAt(i)'
    BY <1>0, <2>1, <2>2, <2>3, AloneFits DEF RequestAt
  <2>5. StaysOwned(i)
    <3>1. \A c \in Client : task[<<c, i>>].pc \in {"enqueue", "kill", "gone", "stopped"} =>
            task'[<<c, i>>] = task[<<c, i>>]
      BY <1>0, <2>2, Named DEF Others
    <3>2. task'[Wake(i)] = task[Wake(i)]
      BY <2>2, Named, Kinds DEF Others
    <3> QED BY <2>1, <3>1, <3>2 DEF StaysOwned, OwnedAt, Owned, Interruptible
  <2> QED BY <2>1, <2>4, <2>5 DEF Kept, RowMoves, StaysTrue
<1> QED BY <1>2, <1>3

\* A request ends without touching its row: the answer of ClickUp is saved over
\* the very row it was read from, and the waiting queue is served.
LEMMA RequestEndKeeps ==
  ASSUME NEW i \in Instance, NEW t \in Requests, RequestAt(t, i),
         SaveTaskInfo(t) \/ Schedule(t)
  PROVE  Kept(i)
<1>0. /\ task[t].pc \in {"fetch", "schedule"} /\ t \in Task /\ t[2] = i /\ TypeOK
      /\ rt' = rt /\ End(t) /\ row \in [Instance -> Row] /\ job \in [Instance -> JobState]
  BY DEF SaveTaskInfo, Schedule, RequestAt, TypeOK
<1>1. row'[i] = row[i]
  BY <1>0 DEF SaveTaskInfo, Schedule, RequestAt, RequestFits
<1>2. Others(t) /\ task'[t].pc = "idle"
  BY <1>0, Moved, Fields
<1>3. RequestFits(t)'
  BY <1>2 DEF RequestFits
<1>4. FitsAt(i)'
  BY <1>0, <1>1, <1>2, <1>3, AloneFits DEF RequestAt
<1>5. JobStays(i)
  BY <1>0 DEF SaveTaskInfo, Schedule, ProcessWaitingQueue, JobStays
<1>6. StaysOwned(i)
  <2>1. \A c \in Client : task[<<c, i>>].pc \in {"enqueue", "kill", "gone", "stopped"} =>
          task'[<<c, i>>] = task[<<c, i>>]
    BY <1>0, <1>2, Named DEF Others
  <2>2. task'[Wake(i)] = task[Wake(i)]
    BY <1>2, Named, Kinds DEF Others
  <2> QED BY <1>1, <1>5, <2>1, <2>2
          DEF StaysOwned, OwnedAt, Owned, Interruptible, JobStays
<1> QED BY <1>0, <1>1, <1>4, <1>6 DEF Kept, RowMoves, StaysTrue, TrueAt, Serves

\* Stopping a deploy: its script dies, and the interrupt waits for the job.  The
\* row stays in progress, in the interrupt's hands.
LEMMA KillKeeps ==
  ASSUME NEW i \in Instance, NEW t \in Requests, RequestAt(t, i), Kill(t)
  PROVE  Kept(i)
<1>0. /\ task[t].pc = "kill" /\ t \in Task /\ t[2] = i /\ TypeOK /\ t = <<t[1], i>>
      /\ t[1] \in Client /\ row' = row /\ rt' = rt /\ suppress' = suppress /\ job' = job
      /\ task \in [Task -> TaskState] /\ Job(i) \in Task /\ Job(i) # t /\ Job(i)[2] = i
      /\ Wake(i) \in Task /\ Wake(i) # t /\ Wake(i)[2] = i /\ Job(i) # Wake(i)
      /\ t \in Requests /\ Steady /\ FitsAt(i) /\ Shaped(t)
  BY Named, Kinds DEF Kill, RequestAt, TypeOK
<1>a. task[t].op \in {"cancel", "restart"}
  <2>1. t[1] \notin {"job", "wake"}
    BY <1>0, ClientAssumption
  <2> QED BY <1>0, <2>1 DEF Shaped, WellShaped
<1>1. /\ task'[t].pc = "gone" /\ task'[t].zd = task[t].zd
      /\ \A s \in Task : s # t => task'[s] = task[s] \/
           /\ s \in {Job(i), Wake(i)} /\ task[s].pc \in {"build", "start"}
           /\ task'[s].pc = "fail" /\ task'[s].zd = task[s].zd
  <2>1. PICK S \in SUBSET {Job(i), Wake(i)} :
          /\ \A s \in S : task[s].pc \in {"build", "start"}
          /\ task' = [s \in Task |->
               IF s = t THEN [task[t] EXCEPT !.pc = "gone"]
               ELSE IF s \in S THEN [task[s] EXCEPT !.pc = "fail"] ELSE task[s]]
    <3> DEFINE scripts == {<<"job", t[2]>>, <<"wake", t[2]>>}
               InScript == {s \in scripts : task[s].pc \in {"build", "start"}}
               starting == {s \in scripts : task[s].pc = "build"}
    <3>1. PICK missed \in IF "outlasts" \in Operations THEN SUBSET starting ELSE {{}} :
            task' = [s \in Task |->
                  IF s = t THEN [task[t] EXCEPT !.pc = "gone"]
                  ELSE IF s \in InScript \ missed
                  THEN [task[s] EXCEPT !.pc = "fail"] ELSE task[s]]
      BY Zenon DEF Kill
    <3>2. InScript \ missed \in SUBSET {Job(i), Wake(i)}
      BY <1>0 DEF Job, Wake
    <3> QED BY <3>1, <3>2
  <2>2. ASSUME NEW s \in Task PROVE task[s] \in TaskState
    BY <1>0
  <2>3. task'[t] = [task[t] EXCEPT !.pc = "gone"]
    BY <1>0, <2>1
  <2>4. ASSUME NEW s \in Task, s # t, s \notin S PROVE task'[s] = task[s]
    BY <2>1, <2>4
  <2>5. ASSUME NEW s \in Task, s # t, s \in S
        PROVE  /\ task[s].pc \in {"build", "start"}
               /\ task'[s].pc = "fail" /\ task'[s].zd = task[s].zd
    <3>1. task'[s] = [task[s] EXCEPT !.pc = "fail"]
      BY <2>1, <2>5
    <3> QED BY <2>1, <2>2, <2>5, <3>1 DEF TaskState
  <2>6. task'[t].pc = "gone" /\ task'[t].zd = task[t].zd
    BY <1>0, <2>2, <2>3 DEF TaskState
  <2> QED BY <2>4, <2>5, <2>6
<1>2. ASSUME NEW s \in {Job(i), Wake(i)} PROVE RunFits(s)'
  <2>1. RunFits(s) /\ s \in Task /\ s[2] = i /\ s # t
    BY <1>0 DEF FitsAt
  <2>2. CASE task'[s] = task[s]
    BY <1>0, <2>1, <2>2, StandStill
  <2>3. CASE /\ task[s].pc \in {"build", "start"} /\ task'[s].pc = "fail"
             /\ task'[s].zd = task[s].zd
    BY <1>0, <2>1, <2>3 DEF RunFits
  <2> QED BY <1>1, <2>1, <2>2, <2>3
<1>3. ASSUME NEW c \in Client, <<c, i>> # t PROVE task'[<<c, i>>].pc = "idle"
  <2>1. /\ <<c, i>> \in Task /\ <<c, i>>[2] = i /\ <<c, i>> \in Requests
        /\ <<c, i>> # Job(i) /\ <<c, i>> # Wake(i)
    BY Named
  <2>2. task[<<c, i>>].pc = "idle"
    BY <1>0, <1>a, <1>3, <2>1, Interrupting, Kinds
  <2> QED BY <1>1, <1>3, <2>1, <2>2
<1>4. RequestFits(t)'
  BY <1>0, <1>1 DEF RequestAt, RequestFits, Interruptible
<1>5. \A c \in Client : RequestFits(<<c, i>>)'
  <2> SUFFICES ASSUME NEW c \in Client PROVE RequestFits(<<c, i>>)'
    OBVIOUS
  <2>1. CASE <<c, i>> = t
    BY <1>4, <2>1
  <2>2. CASE <<c, i>> # t
    BY <1>3, <2>2 DEF RequestFits
  <2> QED BY <2>1, <2>2
<1>6. Meets(i)'
  <2>1. Stopping(i)'
    BY <1>0, <1>1 DEF Stopping
  <2>2. \A c \in Client : /\ task'[<<c, i>>].op \in {"cancel", "restart"}
                          /\ task'[<<c, i>>].pc \notin {"kill", "gone"}
                          => task'[Job(i)].pc # "tail"
    <3> SUFFICES ASSUME NEW c \in Client, task'[<<c, i>>].op \in {"cancel", "restart"},
                        task'[<<c, i>>].pc \notin {"kill", "gone"}
                 PROVE  FALSE
      OBVIOUS
    <3>1. <<c, i>> # t
      BY <1>1
    <3>2. task'[<<c, i>>].pc = "idle" /\ task'[<<c, i>>] = task[<<c, i>>]
      BY <1>1, <1>3, <3>1, Named
    <3>3. Shaped(<<c, i>>)
      BY Named, <1>0 DEF Steady, Shape
    <3> QED BY <3>2, <3>3 DEF Shaped, WellShaped
  <2>3. task'[Job(i)].pc = "await" => task[Job(i)].pc = "await"
    BY <1>0, <1>1
  <2>4. /\ task'[Wake(i)].pc \in {"idle", "poll"} => task'[Wake(i)] = task[Wake(i)]
        /\ task'[Wake(i)].pc = "queued" => task'[Wake(i)] = task[Wake(i)]
    BY <1>0, <1>1
  <2> QED BY <1>0, <2>1, <2>2, <2>3, <2>4 DEF Meets, FitsAt
<1>7. StaysOwned(i)
  BY <1>0, <1>1 DEF StaysOwned, OwnedAt, Owned
<1> QED BY <1>0, <1>2, <1>5, <1>6, <1>7
        DEF Kept, FitsAt, RowMoves, StaysTrue, TrueAt, Serves, RequestAt

\* ... it is gone, or too long in going, and the suppress key is dropped ...
LEMMA GoneKeeps ==
  ASSUME NEW i \in Instance, NEW t \in Requests, RequestAt(t, i), JobGone(t) \/ JobStuck(t)
  PROVE  Kept(i)
<1>0. /\ task[t].pc = "gone" /\ t \in Task /\ t[2] = i /\ TypeOK /\ t = <<t[1], i>>
      /\ t[1] \in Client /\ row' = row /\ rt' = rt /\ Move(t, "stopped")
      /\ Job(i) \in Task /\ Job(i) # t /\ Job(i)[2] = i /\ task[Job(i)].pc # "tail"
      /\ Wake(i) \in Task /\ Wake(i) # t /\ Wake(i)[2] = i
      /\ Steady /\ FitsAt(i) /\ Shaped(t)
  BY Named, Kinds DEF JobGone, JobStuck, RequestAt, Lengthy
<1>a. task[t].op \in {"cancel", "restart"}
  <2>1. t[1] \notin {"job", "wake"}
    BY <1>0, ClientAssumption
  <2> QED BY <1>0, <2>1 DEF Shaped, WellShaped
<1>1. task'[t].pc = "stopped" /\ task'[t].zd = task[t].zd /\ Others(t)
  BY <1>0, Moved
<1>2. task'[Job(i)] = task[Job(i)] /\ task'[Wake(i)] = task[Wake(i)]
  BY <1>0, <1>1 DEF Others
<1>3. RunFits(Job(i))' /\ RunFits(Wake(i))'
  BY <1>0, <1>2 DEF FitsAt, RunFits, Serves, Interruptible
<1>4. ASSUME NEW c \in Client PROVE RequestFits(<<c, i>>)'
  <2>1. CASE <<c, i>> = t
    BY <1>0, <1>1, <2>1 DEF RequestAt, RequestFits, Interruptible
  <2>2. CASE <<c, i>> # t
    <3>1. <<c, i>> \in Task /\ <<c, i>>[2] = i /\ <<c, i>> \in Requests
      BY Named
    <3>2. task'[<<c, i>>].pc = "idle"
      BY <1>0, <1>a, <1>1, <2>2, <3>1, Interrupting, Kinds DEF Others
    <3> QED BY <3>2 DEF RequestFits
  <2> QED BY <2>1, <2>2
<1>5. Meets(i)'
  BY <1>0, <1>2 DEF FitsAt, Meets
<1>6. StaysOwned(i)
  BY <1>0, <1>1 DEF StaysOwned, OwnedAt, Owned
<1> QED BY <1>0, <1>3, <1>4, <1>5, <1>6
        DEF Kept, FitsAt, RowMoves, StaysTrue, TrueAt, Serves, RequestAt

\* ... and the cancel ends the deploy, or the restart enqueues it again.
LEMMA StoppedKeeps ==
  ASSUME NEW i \in Instance, NEW t \in Requests, RequestAt(t, i), Cancel(t) \/ Restart(t)
  PROVE  Kept(i)
<1>0. /\ task[t].pc = "stopped" /\ t \in Task /\ t[2] = i /\ TypeOK /\ t = <<t[1], i>>
      /\ t[1] \in Client /\ row \in [Instance -> Row] /\ row[i] \in Row
      /\ rt \in [Instance -> Runtime] /\ rt[i] \in Runtime
      /\ row[i].status = "deploying" => ~row[i].zdip
      /\ task \in [Task -> TaskState] /\ task[t].zd \in BOOLEAN
  BY DEF Cancel, Restart, RequestAt, TypeOK, TaskState
<1>1. IF task[t].zd THEN row[i].status = "active" /\ row[i].zdip
                    ELSE row[i].status = "deploying"
  BY <1>0 DEF RequestAt, RequestFits, Interruptible
<1>2. task[t].zd => rt'[i].app = rt[i].app /\ rt'[i].location = rt[i].location
  <2>1. task[t].zd => rt'[i] = [rt[i] EXCEPT !.staged = FALSE]
    BY <1>0 DEF Cancel, Restart
  <2> QED BY <1>0, <2>1 DEF Runtime
<1>3. CASE Cancel(t)
  <2>1. row'[i] = IF task[t].zd THEN [row[i] EXCEPT !.zdip = FALSE]
                  ELSE [row[i] EXCEPT !.zdip = FALSE, !.status = "error"]
    BY <1>0, <1>1, <1>3 DEF Cancel
  <2>2. row'[i].status = (IF task[t].zd THEN "active" ELSE "error") /\ ~row'[i].zdip
    BY <1>0, <1>1, <2>1 DEF Row
  <2>3. task'[t].pc = "schedule" /\ Others(t)
    BY <1>0, <1>3, Moved DEF Cancel
  <2>4. RequestFits(t)'
    BY <2>3 DEF RequestFits
  <2>5. FitsAt(i)'
    BY <1>0, <2>2, <2>3, <2>4, AloneFits
  <2> QED BY <1>1, <1>2, <2>2, <2>5 DEF Kept, RowMoves, StaysTrue, TrueAt, Serves,
          StaysOwned, OwnedAt, Interruptible
<1>4. CASE Restart(t)
  <2>1. /\ row'[i] = [row[i] EXCEPT !.zdip = task[t].zd,
                                    !.status = IF task[t].zd THEN @ ELSE "deploying"]
        /\ Goto(t, "enqueue")
    BY <1>0, <1>1, <1>4 DEF Restart
  <2>2. row'[i].status = row[i].status /\ row'[i].zdip = task[t].zd
    BY <1>0, <1>1, <2>1 DEF Row
  <2>3. task'[t].pc = "enqueue" /\ Others(t)
    BY <1>0, <2>1, Moved
  <2>4. RequestFits(t)'
    BY <2>3 DEF RequestFits
  <2>5. row'[i].status = "deploying" => ~row'[i].zdip
    BY <1>1, <2>2
  <2>6. FitsAt(i)'
    BY <1>0, <2>3, <2>4, <2>5, AloneFits
  <2>7. StaysOwned(i)
    BY <1>0, <2>3 DEF StaysOwned, OwnedAt, Owned
  <2> QED BY <1>1, <1>2, <2>2, <2>6, <2>7 DEF Kept, RowMoves, StaysTrue, TrueAt, Serves
<1> QED BY <1>3, <1>4

-----------------------------------------------------------------------------
(* The inductive invariant is kept.                                        *)

\* A step about a preview keeps what its flows and its row say.
LEMMA AboutKeeps ==
  ASSUME Steady, NEW i \in Instance, FitsAt(i), About(i)
  PROVE  Kept(i)
<1>1. ASSUME NEW t \in Task, t[2] = i, StepOf(t) PROVE Kept(i)
  <2>1. CASE t \in Runs
    <3>1. t \notin Requests
      BY <2>1, Kinds
    <3> QED BY <1>1, <2>1, <3>1, RunKeeps DEF StepOf
  <2>2. CASE t \in Requests /\ t \notin Runs
    <3>1. RequestAt(t, i)
      BY <1>1, <2>2, RequestPremises
    <3> QED BY <1>1, <2>2, <3>1, BeginKeeps, ActivateKeeps, EnqueueKeeps, ScriptKeeps,
            RequestEndKeeps, KillKeeps, GoneKeeps, StoppedKeeps DEF StepOf, RequestStep
  <2> QED BY <2>1, <2>2, Kinds
<1> QED BY <1>1, QueueKeeps, WakeKeeps, EndJobKeeps DEF About

\* So does a step that leaves the preview alone.
LEMMA UntouchedKeeps ==
  ASSUME Steady, NEW i \in Instance, FitsAt(i), Untouched(i)
  PROVE  Kept(i)
<1>1. ASSUME NEW s \in Task, s[2] = i
      PROVE  /\ task'[s] = task[s]
             /\ (RunFits(s) => RunFits(s)') /\ (RequestFits(s) => RequestFits(s)')
  BY <1>1, StandStill DEF Untouched
<1>2. /\ task'[Job(i)] = task[Job(i)] /\ task'[Wake(i)] = task[Wake(i)]
      /\ \A c \in Client : task'[<<c, i>>] = task[<<c, i>>]
  BY <1>1, Named
<1>3. Meets(i)'
  BY <1>2 DEF Untouched, FitsAt, Meets, Interruptible, Stopping
<1>4. RunFits(Job(i))' /\ RunFits(Wake(i))' /\ \A c \in Client : RequestFits(<<c, i>>)'
  BY <1>1, Named DEF FitsAt
<1>5. StaysOwned(i)
  BY <1>2 DEF Untouched, StaysOwned, OwnedAt, Owned, Interruptible
<1> QED BY <1>3, <1>4, <1>5
        DEF Untouched, Kept, FitsAt, RowMoves, StaysTrue, TrueAt, Serves

\* A crash loses every flow: whatever was in progress has no owner any more, but
\* nothing the rows say of the runtimes has changed.
LEMMA CrashKeeps ==
  ASSUME NEW i \in Instance, FitsAt(i), Crash
  PROVE  FitsAt(i)' /\ RowMoves(i) /\ StaysTrue(i)
<1>1. \A s \in Task : task'[s].pc = "idle"
  BY Fields DEF Crash
<1>2. row' = row /\ rt' = rt
  BY DEF Crash
<1>3. task'[Job(i)].pc = "idle" /\ task'[Wake(i)].pc = "idle"
      /\ \A c \in Client : task'[<<c, i>>].pc = "idle"
  BY <1>1, Named
<1> QED BY <1>2, <1>3 DEF FitsAt, RunFits, RequestFits, Meets, RowMoves, StaysTrue,
        TrueAt, Serves

\* Every step of the API, for every preview.
LEMMA NextKeeps ==
  ASSUME Steady, Fits, [Next]_vars, NEW i \in Instance
  PROVE  FitsAt(i)' /\ RowMoves(i) /\ StaysTrue(i) /\ (StaysOwned(i) \/ Crash)
<1>0. FitsAt(i) /\ TypeOK
  BY DEF Fits, Steady
<1>1. CASE Crash
  BY <1>0, <1>1, CrashKeeps
<1>2. CASE SetLimit \/ UNCHANGED vars
  <2>1. Untouched(i)
    BY <1>2 DEF SetLimit, vars, Untouched
  <2> QED BY <1>0, <2>1, UntouchedKeeps DEF Kept
<1>3. ASSUME NEW j \in Instance, About(j)
      PROVE  FitsAt(i)' /\ RowMoves(i) /\ StaysTrue(i) /\ StaysOwned(i)
  <2>1. CASE i = j
    BY <1>0, <1>3, <2>1, AboutKeeps DEF Kept
  <2>2. CASE i # j
    BY <1>0, <1>3, <2>2, Elsewhere, UntouchedKeeps DEF Kept
  <2> QED BY <2>1, <2>2
<1> QED BY <1>1, <1>2, <1>3, NextIsAboutOne

\* No flow has begun, and there is no preview: the invariant holds.
LEMMA SerialInit == Init => Shape /\ OneFlow /\ Fits /\ Truthful /\ Ownership
<1> SUFFICES ASSUME Init PROVE Shape /\ OneFlow /\ Fits /\ Truthful /\ Ownership
  OBVIOUS
<1>1. \A t \in Task : task[t].pc = "idle" /\ task[t].op = "none"
  BY Fields DEF Init
<1>2. \A i \in Instance : row[i].status = "none"
  BY DEF Init, NoRow
<1>3. Shape
  BY <1>1 DEF Shape, Shaped, WellShaped
<1>4. OneFlow
  BY <1>1 DEF OneFlow, Flows, Interrupts
<1>5. ASSUME NEW i \in Instance PROVE FitsAt(i) /\ TrueAt(i) /\ OwnedAt(i)
  <2>1. task[Job(i)].pc = "idle" /\ task[Wake(i)].pc = "idle"
        /\ \A c \in Client : task[<<c, i>>].pc = "idle"
    BY <1>1, Named
  <2> QED BY <1>2, <2>1 DEF FitsAt, RunFits, RequestFits, Meets, TrueAt, OwnedAt,
          Interruptible
<1> QED BY <1>3, <1>4, <1>5 DEF Fits, Truthful, Ownership

\* A serial run of the API is a run of the API.
LEMMA SerialIsRun == SerialSpec => Spec
<1>1. [Next /\ OneFlow']_vars => [Next]_vars
  OBVIOUS
<1> QED BY <1>1, PTL DEF SerialSpec, Spec

\* When one flow at a time is at work on a preview, every flow is where the row
\* says, whatever fails, is interrupted, restarted, woken or lost in a crash: a
\* run that stages a zero-downtime deploy has its row active, one that is past
\* its script has the runtime up, a request saves the very row it read, and no
\* run finds a status it does not expect.
THEOREM FlowsFit == SerialSpec => [](Steady /\ Fits)
<1>1. Shape /\ TypeOK /\ [Next]_vars => Shape'
  BY ShapeStep
<1>2. OneFlow /\ [Next /\ OneFlow']_vars => OneFlow'
  BY DEF vars, OneFlow, Flows, Interrupts
<1>3. Steady /\ Fits /\ [Next]_vars => Fits'
  BY NextKeeps DEF Fits
<1>4. Steady <=> TypeOK /\ Shape /\ OneFlow /\ DeployKeepsItsId /\ SuppressIsTemporary
  BY DEF Steady
<1>5. [Next /\ OneFlow']_vars => [Next]_vars
  OBVIOUS
<1> QED BY <1>1, <1>2, <1>3, <1>4, <1>5, SerialInit, SerialIsRun, TypeCorrect,
        DeploysKeepTheirId, SuppressionIsTemporary, PTL DEF SerialSpec

-----------------------------------------------------------------------------
(* What a row says of the runtimes, and who owns what is in progress.      *)

\* Beyond the flows, the rows are true unless a stopping script may fail ...
LEMMA RowsTrue ==
  ASSUME "stopFails" \notin Operations
  PROVE  SerialSpec => []Truthful
<1>1. Steady /\ Fits /\ Truthful /\ [Next /\ OneFlow']_vars => Truthful'
  <2> SUFFICES ASSUME Steady, Fits, Truthful, [Next]_vars, NEW i \in Instance
               PROVE  TrueAt(i)'
    BY DEF Truthful
  <2> QED BY NextKeeps DEF Truthful, StaysTrue
<1> QED BY <1>1, SerialInit, FlowsFit, PTL DEF SerialSpec

\* When no flow is at work on a preview that is active, its runtime is up and
\* nginx leads there: through redeploys, failing scripts, failed, cancelled and
\* restarted zero-downtime deploys, wakes and crashes of the API.  It takes that
\* a script that stops a runtime says so (stopFails): see PausedIsStopped.
THEOREM ActiveIsServed ==
  ASSUME "stopFails" \notin Operations
  PROVE  SerialSpec => []ActiveServes
<1>1. Truthful => ActiveServes
  BY DEF Truthful, TrueAt, ActiveServes, Serves
<1> QED BY <1>1, RowsTrue, PTL

\* When no flow is at work on a preview that is paused, nothing of it runs, and
\* the wake page is at its URL exactly when it sleeps.
THEOREM PausedRunsNothing ==
  ASSUME "stopFails" \notin Operations
  PROVE  SerialSpec => []PausedIsStopped
<1>1. Truthful => PausedIsStopped
  BY DEF Truthful, TrueAt, PausedIsStopped
<1> QED BY <1>1, RowsTrue, PTL

\* A deploy in progress always has an owner: its job, or the run or the request
\* that is about to end it, to enqueue it or to give it up.  Only a crash of the
\* API can leave one to nobody.
THEOREM InProgressHasOwner ==
  ASSUME "crash" \notin Operations
  PROVE  SerialSpec => []InProgressIsOwned
<1>1. Steady /\ Fits /\ Ownership /\ [Next /\ OneFlow']_vars => Ownership'
  <2> SUFFICES ASSUME Steady, Fits, Ownership, [Next]_vars, NEW i \in Instance
               PROVE  OwnedAt(i)'
    BY DEF Ownership
  <2>1. ~Crash
    BY DEF Crash
  <2> QED BY <2>1, NextKeeps DEF Ownership, StaysOwned
<1>2. Ownership => InProgressIsOwned
  <2> SUFFICES ASSUME Ownership, NEW i \in Instance, Interruptible(i)
               PROVE  job[i] # "none" \/ ~Quiet(i)
    BY DEF InProgressIsOwned
  <2>1. Owned(i)
    BY DEF Ownership, OwnedAt
  <2>2. ASSUME NEW k \in Kind, task[<<k, i>>].pc # "idle" PROVE ~Quiet(i)
    BY <2>2 DEF Quiet
  <2>3. "wake" \in Kind /\ Client \subseteq Kind
    BY DEF Kind
  <2> QED BY <2>1, <2>2, <2>3 DEF Owned, Wake
<1> QED BY <1>1, <1>2, SerialInit, FlowsFit, PTL DEF SerialSpec

-----------------------------------------------------------------------------
(* The limit.                                                              *)

\* A reservation begins with the limit of the moment, and no flow becomes a
\* failed cutover but by one.
Fresh(s) ==
  /\ task'[s].pc = "reserve" => task'[s] = task[s] \/ task'[s].cap = limit
  /\ task'[s].op = "cutover" =>
       task[s].op = "cutover" \/ "promoteFails" \in Operations

LEMMA FreshRun ==
  ASSUME TypeOK, NEW t \in Runs, RunStep(t) \/ RunFails(t) \/ (Schedule(t) /\ Leave(t)),
         NEW s \in Task
  PROVE  Fresh(s)
<1>0. t \in Task /\ t[2] \in Instance /\ task \in [Task -> TaskState]
  BY TaskTypes DEF TypeOK
<1>1. ASSUME Succeed(t) \/ Leave(t) PROVE Fresh(s)
  <2>1. PICK next : next # "reserve" /\
                    ((next = "schedule" /\ Succeed(t)) \/ (next = "tail" /\ Leave(t)))
    BY <1>1
  <2>2. At(next, "deploy").pc # "reserve" /\ At(next, "deploy").op = "deploy"
    BY <2>1, Fields
  <2>3. \/ task'[s] = task[s] \/ task'[s] = Idle \/ task'[s] = At(next, "deploy")
    BY <1>0, <2>1, EndOfRun, Kinds DEF Others, Runs, Requests
  <2> QED BY <2>2, <2>3, Fields DEF Fresh
<1>2. ASSUME Others(t), task'[t].pc # "reserve",
             task'[t].op \in {task[t].op, "deploy"} \/ "promoteFails" \in Operations
      PROVE  Fresh(s)
  BY <1>2 DEF Fresh, Others
<1>3. ASSUME NEW pc, pc # "reserve", Move(t, pc) \/ Goto(t, pc) PROVE Fresh(s)
  BY <1>0, <1>2, <1>3, Moved
<1>4. ASSUME NEW pc, NEW snap, pc # "reserve",
             task' = [task EXCEPT ![t].pc = pc, ![t].snap = snap]
      PROVE  Fresh(s)
  <2>1. task'[t] = [task[t] EXCEPT !.pc = pc, !.snap = snap] /\ Others(t)
        /\ task[t] \in TaskState
    BY <1>0, <1>4 DEF Others
  <2>2. task'[t].pc = pc /\ task'[t].op = task[t].op
    BY <2>1 DEF TaskState
  <2> QED BY <1>2, <1>4, <2>1, <2>2
<1>5. ASSUME NEW v, task' = [task EXCEPT ![t] = [At("build", "deploy") EXCEPT !.zd = v]]
      PROVE  Fresh(s)
  <2>1. task'[t].pc = "build" /\ task'[t].op = "deploy" /\ Others(t)
    BY <1>0, <1>5, BegunWith
  <2> QED BY <1>2, <2>1
<1>6. CASE Reserve(t)
  <2>1. Leave(t) \/ \E v : task' = [task EXCEPT ![t] = [At("build", "deploy") EXCEPT !.zd = v]]
    BY <1>6 DEF Reserve
  <2> QED BY <1>1, <1>5, <2>1
<1>7. CASE Meta(t) \/ AbortStaging(t)
  <2>1. \/ Succeed(t) \/ Leave(t) \/ Move(t, "fail")
        \/ \E snap : task' = [task EXCEPT ![t].pc = "health", ![t].snap = snap]
        \/ \E snap : task' = [task EXCEPT ![t].pc = "zdsave", ![t].snap = snap]
    BY <1>7 DEF Meta, AbortStaging
  <2> QED BY <1>1, <1>3, <1>4, <2>1
<1>8. CASE PromoteFails(t)
  <2>1. /\ task' = [task EXCEPT ![t] = At("zdabort", "cutover")]
        /\ "promoteFails" \in Operations
    BY <1>8 DEF PromoteFails
  <2>2. task'[t] = At("zdabort", "cutover") /\ Others(t)
    BY <1>0, <2>1, Given
  <2>3. task'[t].pc # "reserve"
    BY <2>2, Fields
  <2> QED BY <1>2, <2>1, <2>2, <2>3
<1>9. CASE \/ Healthy(t) \/ Unhealthy(t) \/ QueueUnhealthy(t) \/ Flip(t)
           \/ SaveAborted(t) \/ FinalizeDeployError(t) \/ (Schedule(t) /\ Leave(t))
  <2>1. Succeed(t) \/ Leave(t) \/ Goto(t, "hcpause") \/ Goto(t, "fail")
    BY <1>9 DEF Healthy, Unhealthy, QueueUnhealthy, Flip, SaveAborted,
       FinalizeDeployError
  <2> QED BY <1>1, <1>3, <2>1
<1>10. CASE \/ Build(t) \/ BuildFails(t) \/ Start(t) \/ StartFails(t)
            \/ PauseUnhealthy(t) \/ StagingHealthy(t) \/ StagingUnhealthy(t)
            \/ Promote(t)
  <2>1. \/ Move(t, "start") \/ Move(t, "meta") \/ Move(t, "fail") \/ Move(t, "hcqueue")
        \/ Move(t, "promote") \/ Move(t, "flip") \/ Goto(t, "zdabort")
    BY <1>10 DEF Build, BuildFails, Start, StartFails, PauseUnhealthy, StagingHealthy,
       StagingUnhealthy, Promote
  <2> QED BY <1>3, <2>1
<1> QED BY <1>6, <1>7, <1>8, <1>9, <1>10 DEF RunStep, RunFails

LEMMA FreshRequest ==
  ASSUME TypeOK, NEW t \in Requests,
         \/ RequestStep(t) \/ ScriptFails(t) \/ Schedule(t)
         \/ \E op \in Op \ {"none", "deploy", "cutover"} : Begin(t, op),
         NEW s \in Task
  PROVE  Fresh(s)
<1>0. t \in Task /\ t \in Requests /\ task \in [Task -> TaskState]
  BY TaskTypes DEF TypeOK
<1>1. CASE \E op \in Op \ {"none", "deploy", "cutover"} : Begin(t, op)
  <2>1. PICK op \in Op \ {"none", "deploy", "cutover"} : Begin(t, op)
    BY <1>1
  <2>2. BeginsAt(t, op)
    BY <1>0, <2>1, BeginPoints
  <2> QED BY <2>1, <2>2 DEF BeginsAt, Fresh, Others
<1>2. CASE Kill(t)
  <2>1. task'[s] = task[s] \/ task'[s] = [task[s] EXCEPT !.pc = "gone"]
        \/ task'[s] = [task[s] EXCEPT !.pc = "fail"]
    BY <1>2 DEF Kill
  <2>2. task[s] \in TaskState
    BY <1>0
  <2>3. task'[s] = task[s] \/ (task'[s].pc # "reserve" /\ task'[s].op = task[s].op)
    BY <2>1, <2>2 DEF TaskState
  <2> QED BY <2>3 DEF Fresh
<1>3. ASSUME NEW pc, pc # "reserve", Move(t, pc) \/ Goto(t, pc) PROVE Fresh(s)
  BY <1>0, <1>3, Moved DEF Fresh, Others
<1>4. ASSUME End(t) PROVE Fresh(s)
  BY <1>0, <1>4, Moved, Fields DEF Fresh, Others
<1>5. CASE ScriptFails(t) \/ Schedule(t) \/ (RequestStep(t) /\ ~Kill(t))
  <2>1. \/ End(t) \/ Goto(t, "enqueue") \/ Goto(t, "schedule") \/ Move(t, "stopped")
    BY <1>0, <1>5 DEF ScriptFails, Schedule, RequestStep, ReserveActivate, EnqueueForced,
       FinishScript, CancelPendingDeployJob, SaveTaskInfo, JobGone, JobStuck, Cancel, Restart
  <2> QED BY <1>3, <1>4, <2>1
<1> QED BY <1>1, <1>2, <1>5

LEMMA FreshStep ==
  ASSUME TypeOK, [Next]_vars, NEW s \in Task
  PROVE  Fresh(s)
<1>0. task \in [Task -> TaskState]
  BY DEF TypeOK
<1>1. ASSUME NEW t \in Runs, RunStep(t) \/ RunFails(t) PROVE Fresh(s)
  BY <1>1, FreshRun
<1>2. ASSUME NEW t \in Requests,
             \/ RequestStep(t) \/ ScriptFails(t)
             \/ \E op \in Op \ {"none", "deploy", "cutover"} : Begin(t, op)
      PROVE  Fresh(s)
  BY <1>2, FreshRequest
<1>3. ASSUME NEW t \in Task, Schedule(t) PROVE Fresh(s)
  BY <1>3, Kinds, FreshRun, FreshRequest DEF Schedule
<1>q. ASSUME NEW i \in Instance, NEW f \in [Task -> TaskState], task' = WakeQueued(f, i)
      PROVE  task'[s] = f[s] \/ (task'[s].pc = "queued" /\ task'[s].op = "deploy")
  <2>1. At("queued", "deploy").pc = "queued" /\ At("queued", "deploy").op = "deploy"
    BY Fields
  <2>2. task'[s] = f[s] \/ task'[s] = At("queued", "deploy")
    BY <1>q DEF WakeQueued
  <2> QED BY <2>1, <2>2
<1>4. ASSUME NEW i \in Instance, Webhook(i) \/ RequestWake(i) PROVE Fresh(s)
  BY <1>0, <1>4, <1>q DEF Webhook, RequestWake, Fresh
<1>5. ASSUME NEW i \in Instance, StartJob(i) PROVE Fresh(s)
  <2>0. Job(i) \in Task
    BY Named
  <2>1. CASE task' = WakeQueued([task EXCEPT ![Job(i)] = At("await", "deploy")], i)
    <3> DEFINE f == [task EXCEPT ![Job(i)] = At("await", "deploy")]
    <3>1. At("await", "deploy") \in TaskState
      BY ConstantTypes DEF PC, Op
    <3>2. /\ f \in [Task -> TaskState]
          /\ f[s] = task[s] \/ f[s] = At("await", "deploy")
      BY <1>0, <2>0, <3>1
    <3> HIDE DEF f
    <3>3. task' = WakeQueued(f, i)
      BY <2>1 DEF f
    <3> QED BY <1>q, <3>2, <3>3, Fields DEF Fresh
  <2>2. CASE task' = [task EXCEPT ![Job(i)] = [At("reserve", "deploy") EXCEPT !.cap = limit]]
    <3> DEFINE t == Job(i)
    <3>0. t \in Task /\ task' = [task EXCEPT ![t] = [At("reserve", "deploy") EXCEPT !.cap = limit]]
      BY <2>0, <2>2
    <3> HIDE DEF t
    <3>1. /\ Others(t) /\ task'[t].pc = "reserve" /\ task'[t].cap = limit
          /\ task'[t].op = "deploy"
      BY <3>0, BegunReserving
    <3> QED BY <3>1 DEF Fresh, Others
  <2> QED BY <1>5, <2>1, <2>2 DEF StartJob, ResumesIdleSleep
<1>6. ASSUME NEW i \in Instance, StartWake(i) \/ PollDeploy(i) PROVE Fresh(s)
  <2>0. Wake(i) \in Task /\ Wake(i) \in Runs /\ Wake(i)[2] = i
    BY Named
  <2>1. CASE Succeed(Wake(i)) \/ Leave(Wake(i))
    <3>1. PICK next : next # "reserve" /\
            ((next = "schedule" /\ Succeed(Wake(i))) \/ (next = "tail" /\ Leave(Wake(i))))
      BY <2>1
    <3>2. At(next, "deploy").pc # "reserve" /\ At(next, "deploy").op = "deploy"
      BY <3>1, Fields
    <3>3. \/ task'[s] = task[s] \/ task'[s] = Idle \/ task'[s] = At(next, "deploy")
      BY <2>0, <3>1, EndOfRun
    <3> QED BY <3>2, <3>3, Fields DEF Fresh
  <2>2. CASE Move(Wake(i), "poll")
    BY <2>0, <2>2, Moved DEF Fresh, Others
  <2>3. CASE task' = [task EXCEPT ![Wake(i)] = [At("reserve", "deploy") EXCEPT !.cap = limit]]
    <3> DEFINE t == Wake(i)
    <3>0. t \in Task /\ task' = [task EXCEPT ![t] = [At("reserve", "deploy") EXCEPT !.cap = limit]]
      BY <2>0, <2>3
    <3> HIDE DEF t
    <3>1. /\ Others(t) /\ task'[t].pc = "reserve" /\ task'[t].cap = limit
          /\ task'[t].op = "deploy"
      BY <3>0, BegunReserving
    <3> QED BY <3>1 DEF Fresh, Others
  <2> QED BY <1>6, <2>1, <2>2, <2>3 DEF StartWake, PollDeploy
<1>7. ASSUME NEW i \in Instance, EndJob(i) PROVE Fresh(s)
  BY <1>7, Named, Moved, Fields DEF EndJob, Fresh, Others
<1>8. CASE SetLimit \/ UNCHANGED vars
  BY <1>8 DEF SetLimit, vars, Fresh
<1>9. CASE Crash
  BY <1>9, Fields DEF Crash, Fresh
<1> QED BY <1>1, <1>2, <1>3, <1>4, <1>5, <1>6, <1>7, <1>8, <1>9 DEF Next

\* With the setting left alone the limit is the initial one, and it is the limit
\* of every reservation under way.
Unlimited == limit = InitialLimit /\ CapsCurrent

LEMMA LimitStands ==
  ASSUME "limit" \notin Operations
  PROVE  SerialSpec => []Unlimited
<1>1. Init => Unlimited
  <2> SUFFICES ASSUME Init PROVE Unlimited
    OBVIOUS
  <2>1. \A t \in Task : task[t].pc = "idle"
    BY Fields DEF Init
  <2> QED BY <2>1 DEF Init, Unlimited, CapsCurrent
<1>2. TypeOK /\ Unlimited /\ [Next /\ OneFlow']_vars => Unlimited'
  <2> SUFFICES ASSUME TypeOK, Unlimited, [Next]_vars PROVE Unlimited'
    OBVIOUS
  <2>1. limit' = limit
    <3>1. ~SetLimit
      BY DEF SetLimit
    <3>2. ASSUME NEW i \in Instance, \/ Webhook(i) \/ RequestWake(i) \/ StartJob(i)
                                     \/ StartWake(i) \/ PollDeploy(i) \/ EndJob(i)
          PROVE  limit' = limit
      BY <3>2 DEF Webhook, RequestWake, StartJob, ResumesIdleSleep, StartWake, PollDeploy, EndJob
    <3>3. ASSUME NEW t \in Runs, RunStep(t) \/ RunFails(t) PROVE limit' = limit
      BY <3>3 DEF RunStep, Reserve, Build, Start, Meta, Healthy, Unhealthy,
         PauseUnhealthy, QueueUnhealthy, StagingHealthy, StagingUnhealthy, Promote,
         Flip, AbortStaging, SaveAborted, FinalizeDeployError, RunFails, BuildFails,
         StartFails, PromoteFails
    <3>4. ASSUME NEW t \in Requests,
                 \/ RequestStep(t) \/ ScriptFails(t)
                 \/ \E op \in Op \ {"none", "deploy", "cutover"} : Begin(t, op)
          PROVE  limit' = limit
      BY <3>4 DEF RequestStep, ReserveActivate, EnqueueForced, FinishScript, CancelPendingDeployJob,
         SaveTaskInfo, Kill, JobGone, JobStuck, Cancel, Restart, ScriptFails, Begin
    <3>5. ASSUME NEW t \in Task, Schedule(t) PROVE limit' = limit
      BY <3>5 DEF Schedule
    <3>6. Crash \/ UNCHANGED vars => limit' = limit
      BY DEF Crash, vars
    <3> QED BY <3>1, <3>2, <3>3, <3>4, <3>5, <3>6 DEF Next
  <2>2. ASSUME NEW t \in Task, task'[t].pc = "reserve" PROVE task'[t].cap = limit'
    <3>1. task'[t] = task[t] \/ task'[t].cap = limit
      BY <2>2, FreshStep DEF Fresh
    <3> QED BY <2>1, <2>2, <3>1 DEF Unlimited, CapsCurrent
  <2> QED BY <2>1, <2>2 DEF Unlimited, CapsCurrent
<1> QED BY <1>1, <1>2, SerialIsRun, TypeCorrect, PTL DEF SerialSpec

\* Whoever reserves does it below the limit of the moment, and nobody else takes
\* a slot.
LEMMA SlotsTaken ==
  ASSUME Steady, Fits, Unlimited, [Next]_vars
  PROVE  Occupied' \subseteq Occupied \/ Cardinality(Occupied') <= limit
<1>1. CASE \E t \in Task : task[t].pc = "reserve" /\ TakeSlot(t[2], task[t].cap)
  <2>1. PICK t \in Task : task[t].pc = "reserve" /\ TakeSlot(t[2], task[t].cap)
    BY <1>1
  <2>2. task[t].cap \in Nat /\ t[2] \in Instance /\ TypeOK
    BY TaskTypes DEF Steady, TypeOK, TaskState
  <2>3. task[t].cap = limit
    BY <2>1 DEF Unlimited, CapsCurrent
  <2> QED BY <2>1, <2>2, <2>3, TakeSlotKeepsLimit
<1>2. CASE ~\E t \in Task : task[t].pc = "reserve" /\ TakeSlot(t[2], task[t].cap)
  <2>1. ASSUME NEW i \in Instance, row'[i].status \in {"active", "deploying"}
        PROVE  row[i].status \in {"active", "deploying"}
    <3>1. RowMoves(i)
      BY NextKeeps
    <3> QED BY <1>2, <2>1, <3>1 DEF RowMoves
  <2> QED BY <2>1 DEF Occupied
<1> QED BY <1>1, <1>2

\* docs/instances.md: previews active and deploying never exceed
\* max_active_instances.  Of all the writers of a row only the three reservations
\* take a slot; a wake, a restart, a health check, a zero-downtime flip, a save of
\* a row read earlier keep the one their preview holds.  The operator may still
\* lower the setting below what is in use, hence the hypothesis.
THEOREM SlotsWithinLimit ==
  ASSUME "limit" \notin Operations
  PROVE  SerialSpec => []SlotLimit
<1>1. Init => SlotLimit
  <2> SUFFICES ASSUME Init PROVE SlotLimit
    OBVIOUS
  <2>1. Occupied = {}
    BY DEF Init, Occupied, NoRow
  <2> QED BY <2>1, FS_EmptySet, LimitAssumption DEF Init, SlotLimit
<1>2. Steady /\ Fits /\ Unlimited /\ Unlimited' /\ SlotLimit /\ [Next /\ OneFlow']_vars
      => SlotLimit'
  <2> SUFFICES ASSUME Steady, Fits, Unlimited, Unlimited', SlotLimit, [Next]_vars
               PROVE  SlotLimit'
    OBVIOUS
  <2>1. limit' = limit /\ limit \in Nat
    BY LimitAssumption DEF Unlimited
  <2>2. CASE Cardinality(Occupied') <= limit
    BY <2>1, <2>2 DEF SlotLimit
  <2>3. CASE Occupied' \subseteq Occupied
    <3>1. /\ Cardinality(Occupied') <= Cardinality(Occupied)
          /\ Cardinality(Occupied) \in Nat /\ Cardinality(Occupied') \in Nat
      BY <2>3, OccupiedFinite, FS_Subset, FS_CardinalityType
    <3> QED BY <2>1, <3>1 DEF SlotLimit
  <2> QED BY <2>2, <2>3, SlotsTaken
<1> QED BY <1>1, <1>2, FlowsFit, LimitStands, PTL DEF SerialSpec

-----------------------------------------------------------------------------
(* The rows implement the contract of PreviewSlots.                        *)

NoCutover == \A t \in Task : task[t].op # "cutover"

LEMMA CutoverNeverFails ==
  ASSUME "promoteFails" \notin Operations
  PROVE  SerialSpec => []NoCutover
<1>1. Init => NoCutover
  BY Fields DEF Init, NoCutover
<1>2. TypeOK /\ NoCutover /\ [Next /\ OneFlow']_vars => NoCutover'
  <2> SUFFICES ASSUME TypeOK, NoCutover, [Next]_vars PROVE NoCutover'
    OBVIOUS
  <2> QED BY FreshStep DEF Fresh, NoCutover
<1> QED BY <1>1, <1>2, SerialIsRun, TypeCorrect, PTL DEF SerialSpec

\* The contract counts as the API does.
LEMMA SameCount == \A S : Slots!Cardinality(S) = Cardinality(S)
BY DEF Slots!Cardinality, Cardinality

\* The status of one row moves along an arrow of the contract, or stays.
LEMMA ContractArrow ==
  ASSUME NEW i \in Instance, TypeOK, TypeOK', RowMoves(i), Unlimited, NoCutover,
         \A j \in Instance : j # i => row'[j] = row[j]
  PROVE  \/ [j \in Instance |-> row'[j].status] = [j \in Instance |-> row[j].status]
         \/ Slots!Next
<1> DEFINE old == [j \in Instance |-> row[j].status]
           new == [j \in Instance |-> row'[j].status]
<1>0. /\ row \in [Instance -> Row] /\ row' \in [Instance -> Row]
      /\ new = [old EXCEPT ![i] = row'[i].status]
      /\ Slots!Holders = Occupied
  BY DEF TypeOK, Occupied, Slots!Holders
<1>a. ASSUME NEW s, row'[i].status = s PROVE Slots!Become(i, s)
  BY <1>0, <1>a DEF Slots!Become
<1>1. CASE row'[i].status = row[i].status
  BY <1>1
<1>2. CASE row[i].status = "deploying" /\ row'[i].status \in {"active", "error"}
  <2>1. Slots!Serve(i) \/ Slots!Fail(i)
    BY <1>0, <1>2 DEF Slots!Serve, Slots!Fail, Slots!Become
  <2> QED BY <2>1 DEF Slots!Next
<1>3. CASE row[i].status = "active" /\ row'[i].status = "paused"
  BY <1>0, <1>3 DEF Slots!Stop, Slots!Become, Slots!Next
<1>4. CASE row[i].status # "none" /\ row'[i].status = "none"
  BY <1>0, <1>4 DEF Slots!Destroy, Slots!Become, Slots!Next
<1>5. ASSUME NEW t \in Task, task[t].pc = "reserve", TakeSlot(i, task[t].cap),
             row'[i].status # row[i].status
      PROVE  Slots!Next
  <2>1. row'[i] = Reserved(i, InitialLimit)
    BY <1>0, <1>5 DEF TakeSlot, Unlimited, CapsCurrent
  <2>2. row[i] \in Row
    BY <1>0
  <2>3. CASE Verdict(i, InitialLimit) = "run"
    <3>1. row'[i].status = "deploying"
      BY <2>1, <2>3 DEF Reserved, NoRow
    <3>2. i \in Occupied \/ Cardinality(Occupied) < InitialLimit
      BY <2>3, OccupiedFinite, LimitAssumption DEF Verdict
    <3>3. Slots!Deploy(i)
      BY <1>0, <1>a, <3>1, <3>2, SameCount DEF Slots!Deploy
    <3> QED BY <3>3 DEF Slots!Next
  <2>4. CASE Verdict(i, InitialLimit) = "queued"
    <3>1. row'[i].status = "waiting"
      BY <2>1, <2>2, <2>4 DEF Reserved, Row
    <3>2. i \notin Occupied /\ Cardinality(Occupied) >= InitialLimit
      BY <2>4 DEF Verdict
    <3>3. Slots!Wait(i)
      BY <1>0, <1>a, <3>1, <3>2, SameCount DEF Slots!Wait
    <3> QED BY <3>3 DEF Slots!Next
  <2>5. CASE Verdict(i, InitialLimit) = "run-zd"
    <3>1. row'[i].status = row[i].status
      BY <2>1, <2>2, <2>5 DEF Reserved, Row
    <3> QED BY <1>5, <3>1
  <2> QED BY <2>3, <2>4, <2>5 DEF Verdict
<1>6. ~\E t \in Task : task[t].op = "cutover"
  BY DEF NoCutover
<1> QED BY <1>1, <1>2, <1>3, <1>4, <1>5, <1>6 DEF RowMoves

\* The rows implement the contract of PreviewSlots, with every wake, interrupt,
\* failing script and crash: the status of a preview moves only along its arrows,
\* a slot is taken only when free and a preview waits only when none is.  A failed
\* cutover breaks it (promoteFails, see ActiveNeverError), and so does an operator
\* who changes the limit, hence the hypotheses.
THEOREM RowsKeepContract ==
  ASSUME {"limit", "promoteFails"} \cap Operations = {}
  PROVE  SerialSpec => KeepsSlotContract
<1>1. Init => Slots!Init
  BY DEF Init, Slots!Init, NoRow
<1>2. Steady /\ Steady' /\ Fits /\ Unlimited /\ NoCutover /\ [Next /\ OneFlow']_vars
      => [Slots!Next]_([i \in Instance |-> row[i].status])
  <2> SUFFICES ASSUME Steady, Steady', Fits, Unlimited, NoCutover, [Next]_vars
               PROVE  [Slots!Next]_([i \in Instance |-> row[i].status])
    OBVIOUS
  <2>1. CASE SetLimit \/ Crash \/ UNCHANGED vars
    BY <2>1 DEF SetLimit, Crash, vars
  <2>2. ASSUME NEW i \in Instance, About(i)
        PROVE  [Slots!Next]_([j \in Instance |-> row[j].status])
    <3>1. RowMoves(i)
      BY NextKeeps
    <3>2. \A j \in Instance : j # i => row'[j] = row[j]
      BY <2>2, Elsewhere DEF Steady, Untouched
    <3> QED BY <3>1, <3>2, ContractArrow DEF Steady
  <2> QED BY <2>1, <2>2, NextIsAboutOne
<1>3. "limit" \notin Operations /\ "promoteFails" \notin Operations
  OBVIOUS
<1>4. SerialSpec => []Unlimited /\ []NoCutover
  BY <1>3, LimitStands, CutoverNeverFails
<1> QED BY <1>1, <1>2, <1>4, FlowsFit, PTL
        DEF SerialSpec, KeepsSlotContract, Slots!Spec

\* docs/instances.md: "Zero-downtime failures keep `active`", and so does every
\* other step: the failed cutover of ActiveNeverError's run is the only one by
\* which a preview in service is marked in error.
THEOREM OnlyCutoverFails ==
  ASSUME "promoteFails" \notin Operations
  PROVE  SerialSpec => ActiveNeverError
<1>1. /\ Steady /\ Fits /\ NoCutover /\ [Next /\ OneFlow']_vars
      => [\A i \in Instance : row[i].status = "active" => row'[i].status # "error"]_vars
  <2> SUFFICES ASSUME Steady, Fits, NoCutover, [Next]_vars, NEW i \in Instance,
                      row[i].status = "active", row'[i].status = "error"
               PROVE  FALSE
    OBVIOUS
  <2>1. RowMoves(i)
    BY NextKeeps
  <2>2. PICK t \in Task : TakeSlot(i, task[t].cap)
    BY <2>1 DEF RowMoves, NoCutover
  <2>3. row \in [Instance -> Row]
    BY DEF Steady, TypeOK
  <2>4. row'[i] = Reserved(i, task[t].cap)
    BY <2>2, <2>3 DEF TakeSlot
  <2>5. Reserved(i, task[t].cap).status # "error"
    BY <2>3 DEF Reserved, Verdict, NoRow, Row
  <2> QED BY <2>4, <2>5
<1> QED BY <1>1, FlowsFit, CutoverNeverFails, PTL DEF SerialSpec, ActiveNeverError

=============================================================================
