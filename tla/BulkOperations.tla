--------------------------- MODULE BulkOperations ---------------------------
(***************************************************************************)
(* The operations over many previews: pause, sleep, awake, restart and     *)
(* destroy all of a project, and the lifetime limits the scheduler         *)
(* enforces each minute.  Each reads its rows once, and then visits them   *)
(* one after the other through scripts of seconds, while the others, the   *)
(* deploy jobs and the clock go on.  Deploys and wakes succeed here: those *)
(* that fail are InstanceLifecycle's.                                      *)
(***************************************************************************)
EXTENDS Naturals, FiniteSets

CONSTANTS Held,        \* the previews of the project
          Loop,        \* operations that may be at work at once,
          Cron,        \* and those of them that are runs of the scheduler
          BulkOps,     \* the operations that are asked for
          SlotMax      \* max_active_instances

VARIABLES
  state,    \* state[i]: the row's status, "asleep" for paused with idleSleep
  old,      \* old[i]: older than max_existence_lifetime
  tired,    \* tired[i]: active for longer than max_active_lifetime
  deploy,   \* deploy[i]: the preview's job
  loop      \* loop[l]: an operation at work

bulkVars == <<state, old, tired, deploy, loop>>

-----------------------------------------------------------------------------
HeldStatus == {"none", "waiting", "deploying", "active", "paused", "asleep"}
BulkOp == {"pauseAll", "sleepAll", "awakeAll", "restartAll", "destroyAll", "lifetime"}
ASSUME BulkAssumption == IsFiniteSet(Held) /\ Cron \subseteq Loop
                        /\ BulkOps \subseteq BulkOp /\ SlotMax \in Nat \ {0}

Visit == {"skip", "pause", "sleep", "awake", "restart", "destroy"}
IdleLoop == [op |-> "none", todo |-> [i \in Held |-> "skip"], at |-> {}, freed |-> FALSE]

Taken == {i \in Held : state[i] \in {"active", "deploying"}}
InQueue == {i \in Held : state[i] = "waiting"}
SlotFree == Cardinality(Taken) < SlotMax

\* processWaitingQueue: a job for as many of the waiting as slots are free.
ServeQueue(st, jobs) ==
  LET taken == {i \in Held : st[i] \in {"active", "deploying"}}
      waiting == {i \in Held : st[i] = "waiting"}
      free == IF Cardinality(taken) < SlotMax THEN SlotMax - Cardinality(taken) ELSE 0
      some == {w \in SUBSET waiting :
                 Cardinality(w) = IF Cardinality(waiting) < free
                                  THEN Cardinality(waiting) ELSE free} IN
  \E w \in some :
    deploy' = [i \in Held |-> IF i \in w /\ jobs[i] = "none" THEN "queued" ELSE jobs[i]]

\* Mutant of Due: a preview that is not active has no limit.
DueOfActive(op, idle) ==
  [i \in Held |->
    CASE state[i] = "none" -> "skip"
      [] op = "destroyAll" -> "destroy"
      [] op = "lifetime" /\ old[i] /\ state[i] = "active" -> "destroy"
      [] OTHER -> "skip"]

\* What the rows read at the start say is to be done with each, at a time
\* `idle` have had no request for idlePauseMinutes.  The first limit that is
\* exceeded decides.
Due(op, idle) ==
  [i \in Held |->
    CASE state[i] = "none" -> "skip"
      [] op = "destroyAll" -> "destroy"
      [] op = "lifetime" /\ old[i] -> "destroy"
      [] op \in {"pauseAll", "lifetime"} /\ state[i] = "active"
           /\ (op = "lifetime" => tired[i]) -> "pause"
      [] op \in {"sleepAll", "lifetime"} /\ state[i] = "active"
           /\ (op = "lifetime" => i \in idle) -> "sleep"
      [] op = "awakeAll" /\ state[i] = "asleep" -> "awake"
      [] op = "restartAll" /\ state[i] # "deploying" -> "restart"
      [] OTHER -> "skip"]

-----------------------------------------------------------------------------
\* Deploy jobs: a webhook, reserveDeployOrQueue, and the end of a deploy.
DeployHeld(i) ==
  /\ deploy[i] = "none"
  /\ deploy' = [deploy EXCEPT ![i] = "queued"]
  /\ UNCHANGED <<state, old, tired, loop>>

\* A job without force wakes a preview that fell asleep since it was added;
\* one of a missing row creates it.
ReserveHeld(i) ==
  /\ deploy[i] = "queued"
  /\ IF i \in Taken \/ SlotFree
     THEN /\ state' = [state EXCEPT ![i] = "deploying"]
          /\ deploy' = [deploy EXCEPT ![i] = "running"]
     ELSE /\ state' = [state EXCEPT ![i] = "waiting"]
          /\ deploy' = [deploy EXCEPT ![i] = "none"]
  /\ old' = [old EXCEPT ![i] = old[i] /\ state[i] # "none"]
  /\ UNCHANGED <<tired, loop>>

\* setStatus stamps activatedAt when the status changes, and the queue is served;
\* the job of a row that is gone fails.
Deployed(i) ==
  /\ deploy[i] = "running"
  /\ LET jobs == [deploy EXCEPT ![i] = "none"]
         after == [state EXCEPT ![i] = "active"] IN
     IF state[i] = "none" THEN deploy' = jobs /\ UNCHANGED <<state, tired>>
     ELSE /\ state' = after /\ ServeQueue(after, jobs)
          /\ tired' = [tired EXCEPT ![i] = tired[i] /\ state[i] = "active"]
  /\ UNCHANGED <<old, loop>>

Ages(i) ==
  /\ state[i] # "none"
  /\ \/ old' = [old EXCEPT ![i] = TRUE] /\ UNCHANGED tired
     \/ state[i] = "active" /\ tired' = [tired EXCEPT ![i] = TRUE] /\ UNCHANGED old
  /\ UNCHANGED <<state, deploy, loop>>

-----------------------------------------------------------------------------
BeginBulk(l, op) ==
  /\ loop[l].op = "none" /\ (op = "lifetime" => l \in Cron)
  /\ \E idle \in SUBSET Held :
       /\ op # "lifetime" => idle = {}
       /\ loop' = [loop EXCEPT ![l] = [op |-> op, todo |-> Due(op, idle),
                                       at |-> {}, freed |-> FALSE]]
  /\ UNCHANGED <<state, old, tired, deploy>>

ToVisit(l, i) == loop[l].op # "none" /\ loop[l].at = {} /\ loop[l].todo[i] # "skip"
Drop(l, i, freed) ==
  loop' = [loop EXCEPT ![l].todo[i] = "skip", ![l].at = {}, ![l].freed = @ \/ freed]

\* pauseInstance, sleepInstanceForIdle, destroyInstanceById and ensureAwake read
\* the row again before their script, and a wake without a slot waits; a restart
\* reserves and adds its job.
Visited(l, i) ==
  /\ ToVisit(l, i)
  /\ LET visit == loop[l].todo[i]
         fits == CASE visit \in {"pause", "sleep"} -> state[i] = "active"
                   [] visit = "awake" -> state[i] = "asleep" /\ SlotFree
                   [] visit = "destroy" -> state[i] # "none"
                   [] OTHER -> FALSE IN
     \/ /\ fits
        /\ loop' = [loop EXCEPT ![l].at = {i}]
        /\ state' = IF visit = "awake" THEN [state EXCEPT ![i] = "deploying"] ELSE state
        /\ UNCHANGED deploy
     \/ /\ ~fits /\ visit # "restart"
        /\ state' = IF visit = "awake" /\ state[i] = "asleep"
                    THEN [state EXCEPT ![i] = "waiting"] ELSE state
        /\ Drop(l, i, visit = "sleep" /\ state[i] # "none")
        /\ UNCHANGED deploy
     \/ /\ visit = "restart" /\ state[i] \notin {"none", "deploying"}
        /\ IF i \in Taken \/ SlotFree
           THEN /\ state' = [state EXCEPT ![i] = "deploying"]
                /\ deploy' = [deploy EXCEPT ![i] = IF @ = "none" THEN "running" ELSE @]
           ELSE state' = [state EXCEPT ![i] = "waiting"] /\ UNCHANGED deploy
        /\ Drop(l, i, FALSE)
     \/ /\ visit = "restart" /\ state[i] \in {"none", "deploying"}
        /\ Drop(l, i, FALSE)
        /\ UNCHANGED <<state, deploy>>
  /\ UNCHANGED <<old, tired>>

\* The script ends: the row that was read is saved, even if it was removed
\* meanwhile; a sleep removes the job that is not started yet.
VisitEnds(l, i) ==
  /\ i \in loop[l].at
  /\ LET visit == loop[l].todo[i]
         becomes == CASE visit = "pause" -> "paused" [] visit = "sleep" -> "asleep"
                      [] visit = "awake" -> "active" [] OTHER -> "none"
         after == [state EXCEPT ![i] = becomes]
         jobs == IF visit = "sleep" /\ deploy[i] = "queued"
                 THEN [deploy EXCEPT ![i] = "none"] ELSE deploy IN
     /\ state' = after
     /\ tired' = IF visit = "awake" THEN [tired EXCEPT ![i] = FALSE] ELSE tired
     /\ IF loop[l].op = "destroyAll" THEN ServeQueue(after, jobs) ELSE deploy' = jobs
  /\ Drop(l, i, loop[l].op # "awakeAll")
  /\ UNCHANGED old

\* The script fails; the others are visited all the same.
VisitFails(l, i) ==
  /\ i \in loop[l].at /\ loop[l].todo[i] \in {"pause", "sleep", "destroy"}
  /\ Drop(l, i, FALSE)
  /\ UNCHANGED <<state, old, tired, deploy>>

AllVisited(l) == loop[l].op # "none" /\ \A i \in Held : loop[l].todo[i] = "skip"

\* Mutant of EndBulk: only the operator's pause and sleep serve the queue.
EndBulkUnserved(l) ==
  /\ AllVisited(l)
  /\ loop' = [loop EXCEPT ![l] = IdleLoop]
  /\ IF loop[l].freed /\ loop[l].op \in {"pauseAll", "sleepAll"}
     THEN ServeQueue(state, deploy) ELSE UNCHANGED deploy
  /\ UNCHANGED <<state, old, tired>>

\* The queue is served after the last visit; destroyAll deletes the project and,
\* with it, the rows whose script failed.
EndBulk(l) ==
  /\ AllVisited(l)
  /\ loop' = [loop EXCEPT ![l] = IdleLoop]
  /\ IF loop[l].freed /\ loop[l].op \in {"pauseAll", "sleepAll", "lifetime"}
     THEN ServeQueue(state, deploy) ELSE UNCHANGED deploy
  /\ state' = IF loop[l].op = "destroyAll" THEN [i \in Held |-> "none"] ELSE state
  /\ UNCHANGED <<old, tired>>

-----------------------------------------------------------------------------
BulkInit ==
  /\ state = [i \in Held |-> "none"] /\ deploy = [i \in Held |-> "none"]
  /\ old = [i \in Held |-> FALSE] /\ tired = [i \in Held |-> FALSE]
  /\ loop = [l \in Loop |-> IdleLoop]

BulkStep(l) ==
  (\E i \in Held : Visited(l, i) \/ VisitEnds(l, i) \/ VisitFails(l, i)) \/ EndBulk(l)
BulkNext ==
  \/ \E i \in Held : DeployHeld(i) \/ ReserveHeld(i) \/ Deployed(i) \/ Ages(i)
  \/ \E l \in Loop : BulkStep(l) \/ \E op \in BulkOps : BeginBulk(l, op)

BulkSpec == BulkInit /\ [][BulkNext]_bulkVars

-----------------------------------------------------------------------------
\* Type invariant: rows in a status of the entity, and operations that have
\* something to do only with previews.
BulkTypeOK ==
  /\ state \in [Held -> HeldStatus] /\ deploy \in [Held -> {"none", "queued", "running"}]
  /\ old \in [Held -> BOOLEAN] /\ tired \in [Held -> BOOLEAN]
  /\ loop \in [Loop -> [op : BulkOp \cup {"none"}, todo : [Held -> Visit],
                        at : SUBSET Held, freed : BOOLEAN]]

\* Slots freed by an operation are offered to those who wait, however operations,
\* deploys and failing scripts interleave: once nothing is at work, nobody waits
\* beside a free slot.
FreedSlotsAreOffered ==
  (\A l \in Loop : loop[l].op = "none") /\ (\A i \in Held : deploy[i] = "none")
    => InQueue = {} \/ ~SlotFree

\* A preview past max_existence_lifetime is removed in the end, in any status.
ExpiredIsRemoved == \A i \in Held : old[i] /\ state[i] # "none" ~> state[i] = "none"

=============================================================================
