----------------------------- MODULE DemoBackend -----------------------------
(***************************************************************************)
(* The API the panel talks to in demo mode: an in-memory store, handlers   *)
(* that answer from it, and timers that stand for the builds.  A handler   *)
(* waits and then checks and changes its row in one turn of the browser's  *)
(* event loop; a timer, once scheduled, runs whatever happened to its      *)
(* instance, or to the store, meanwhile.                                   *)
(***************************************************************************)
EXTENDS Naturals, FiniteSets

CONSTANTS
  DemoInstance,  \* the local instances of the fixtures, all of one project
  DemoEmail,     \* "admin" and "operator", and addresses of users to create
  DemoBranch,    \* names of Amplify branches; demoHidden cannot be touched
  DemoHidden,
  MaxTimers      \* bound on the pending timers of an instance

ASSUME DemoAssumption == MaxTimers \in Nat \ {0} /\ DemoHidden \subseteq DemoBranch

VARIABLES
  demoRow,       \* demoRow[i]: status, idleSleep, who deploys it; no
                 \* fixture has, or gets, a zero-downtime redeploy in progress
  demoTimer,     \* demoTimer[i]: timers of scheduleDemoDeploy to come
  demoUser,      \* demoUser[e]: role of the user, none when there is none
  demoAmplify,   \* Amplify's branches and their limit
  demoLate       \* a handler waits that took the store before it was reset

demoVars == <<demoRow, demoTimer, demoUser, demoAmplify, demoLate>>

-----------------------------------------------------------------------------
DemoGone == [status |-> "gone", idle |-> FALSE, by |-> "fixture"]
Fixture(status, idle) == [status |-> status, idle |-> idle, by |-> "fixture"]
DemoFixtures ==
  {Fixture("active", FALSE), Fixture("paused", TRUE), Fixture("deploying", FALSE),
   Fixture("waiting", FALSE), Fixture("error", FALSE)}
\* requireAuth looks the session's user up; requireAdmin asks for its role.
DemoAdmin(e) == demoUser[e] = "admin"
Present(i) == demoRow[i].status # "gone"
Ongoing(i) == demoRow[i].status = "deploying"

Touch(i, row) == demoRow' = [demoRow EXCEPT ![i] = row]
ScheduleAll(S) == demoTimer' = [i \in DemoInstance |-> demoTimer[i] + IF i \in S THEN 1 ELSE 0]
RoomForTimer(i) == demoTimer[i] < MaxTimers
\* A deploy some user asked for; `by` is not a field of the row.
Building(i) == [demoRow[i] EXCEPT !.status = "deploying", !.by = "user"]
OnlyRows == UNCHANGED <<demoTimer, demoUser, demoAmplify>>

-----------------------------------------------------------------------------
(* handleInstances *)

DemoPause(i) ==
  /\ demoRow[i].status = "active"
  /\ Touch(i, [demoRow[i] EXCEPT !.status = "paused", !.idle = FALSE]) /\ OnlyRows

\* The timer of the deploy that is cancelled stays.
DemoCancel(i) ==
  /\ Ongoing(i)
  /\ Touch(i, [demoRow[i] EXCEPT !.status = "error"]) /\ OnlyRows

\* Mutant of DemoForce: the build that restarts is not scheduled.
DemoForceUnscheduled(i) ==
  /\ Ongoing(i) /\ RoomForTimer(i)
  /\ Touch(i, Building(i))
  /\ OnlyRows

DemoForce(i) ==
  /\ Ongoing(i) /\ RoomForTimer(i)
  /\ Touch(i, Building(i))
  /\ ScheduleAll({i}) /\ UNCHANGED <<demoUser, demoAmplify>>

DemoActivate(i) ==
  /\ Present(i) /\ RoomForTimer(i)
  /\ Touch(i, [Building(i) EXCEPT !.idle = FALSE])
  /\ ScheduleAll({i}) /\ UNCHANGED <<demoUser, demoAmplify>>

DemoAwake(i) ==
  /\ demoRow[i].status = "paused" /\ demoRow[i].idle
  /\ Touch(i, [demoRow[i] EXCEPT !.status = "active", !.idle = FALSE]) /\ OnlyRows

DemoRemove(e, i) ==
  /\ DemoAdmin(e) /\ Present(i)
  /\ Touch(i, DemoGone) /\ OnlyRows

-----------------------------------------------------------------------------
(* handleProjects: teardown, restart and removal of the project *)

DemoTeardown(e) ==
  /\ DemoAdmin(e)
  /\ demoRow' = [i \in DemoInstance |->
       IF demoRow[i].status = "active" THEN [demoRow[i] EXCEPT !.status = "paused"] ELSE demoRow[i]]
  /\ OnlyRows

DemoRestartAll(e) ==
  LET here == {i \in DemoInstance : Present(i)} IN
  /\ DemoAdmin(e) /\ \A i \in here : RoomForTimer(i)
  /\ demoRow' = [i \in DemoInstance |-> IF i \in here THEN Building(i) ELSE demoRow[i]]
  /\ ScheduleAll(here) /\ UNCHANGED <<demoUser, demoAmplify>>

DemoDeleteProject(e) ==
  /\ DemoAdmin(e)
  /\ demoRow' = [i \in DemoInstance |-> DemoGone]
  /\ OnlyRows

-----------------------------------------------------------------------------
(* handleUsers, handleAmplify; nobody keeps the last administrator *)

DemoSetUser(e, u, role) ==
  /\ DemoAdmin(e) /\ role \in {"admin", "operator", "none"}
  /\ demoUser' = [demoUser EXCEPT ![u] = role]
  /\ UNCHANGED <<demoRow, demoTimer, demoAmplify>>

DemoHost(b) ==
  /\ b \notin DemoHidden
  /\ b \in demoAmplify.branches \/ Cardinality(demoAmplify.branches) < demoAmplify.limit
  /\ demoAmplify' = [demoAmplify EXCEPT !.branches = @ \cup {b}]
  /\ UNCHANGED <<demoRow, demoTimer, demoUser>>

DemoDeleteBranch(e, b) ==
  /\ DemoAdmin(e) /\ b \in demoAmplify.branches \ DemoHidden
  /\ demoAmplify' = [demoAmplify EXCEPT !.branches = @ \ {b}]
  /\ UNCHANGED <<demoRow, demoTimer, demoUser>>

DemoSetLimit(e, n) ==
  /\ DemoAdmin(e)
  /\ demoAmplify' = [demoAmplify EXCEPT !.limit = n]
  /\ UNCHANGED <<demoRow, demoTimer, demoUser>>

-----------------------------------------------------------------------------
\* touchInstance sets the status alone, if the row still is there.
DemoTimerFires(i) ==
  /\ demoTimer[i] > 0
  /\ demoTimer' = [demoTimer EXCEPT ![i] = @ - 1]
  /\ demoRow' = IF Present(i) THEN [demoRow EXCEPT ![i].status = "active"] ELSE demoRow
  /\ UNCHANGED <<demoUser, demoAmplify>>

FreshStore(row, branches) ==
  /\ row \in [DemoInstance -> DemoFixtures]
  /\ branches = [branches |-> DemoHidden, limit |-> Cardinality(DemoBranch) - 1]
FreshUsers == [e \in DemoEmail |-> IF e \in {"admin", "operator"} THEN e ELSE "none"]

\* resetDemoStore, by the pages /demo and /login: timers are not cancelled.
DemoReset ==
  /\ FreshStore(demoRow', demoAmplify') /\ demoUser' = FreshUsers
  /\ demoLate' \in BOOLEAN
  /\ UNCHANGED demoTimer

\* A handler that waited while the store was reset checks the row it has in the
\* old one; touchInstance changes that of the new one.
DemoLate(i) ==
  /\ demoLate /\ demoLate' = FALSE /\ Present(i)
  /\ \/ \E to \in {"paused", "error", "active"} :
          /\ Touch(i, [demoRow[i] EXCEPT !.status = to, !.idle = @ /\ to = "error"])
          /\ UNCHANGED demoTimer
     \/ /\ RoomForTimer(i) /\ ScheduleAll({i})
        /\ \E idle \in {FALSE, demoRow[i].idle} : Touch(i, [Building(i) EXCEPT !.idle = idle])
  /\ UNCHANGED <<demoUser, demoAmplify>>

DemoInit ==
  /\ FreshStore(demoRow, demoAmplify) /\ demoLate = FALSE
  /\ demoTimer = [i \in DemoInstance |-> 0] /\ demoUser = FreshUsers

DemoHandler ==
  \/ \E i \in DemoInstance :
       \/ DemoPause(i) \/ DemoCancel(i) \/ DemoForce(i) \/ DemoActivate(i) \/ DemoAwake(i)
       \/ DemoTimerFires(i)
       \/ \E e \in DemoEmail : DemoRemove(e, i)
  \/ \E e \in DemoEmail :
       \/ DemoTeardown(e) \/ DemoRestartAll(e) \/ DemoDeleteProject(e)
       \/ \E u \in DemoEmail, role \in {"admin", "operator", "none"} : DemoSetUser(e, u, role)
       \/ \E b \in DemoBranch : DemoDeleteBranch(e, b)
       \/ \E n \in 1 .. Cardinality(DemoBranch) : DemoSetLimit(e, n)
  \/ \E b \in DemoBranch : DemoHost(b)

DemoNext ==
  \/ DemoHandler /\ UNCHANGED demoLate
  \/ DemoReset
  \/ \E i \in DemoInstance : DemoLate(i)

DemoSpec == DemoInit /\ [][DemoNext]_demoVars

-----------------------------------------------------------------------------
\* Type invariant; hidden branches are never removed.
DemoTypeOK ==
  /\ demoRow \in [DemoInstance -> [status : {"active", "paused", "deploying", "waiting", "error", "gone"},
                                   idle : BOOLEAN, by : {"fixture", "user"}]]
  /\ demoTimer \in [DemoInstance -> 0 .. MaxTimers] /\ demoLate \in BOOLEAN
  /\ demoUser \in [DemoEmail -> {"admin", "operator", "none"}]
  /\ DemoHidden \subseteq demoAmplify.branches /\ demoAmplify.branches \subseteq DemoBranch

\* The page never waits in vain for a deploy it asked for: whatever other
\* handlers, timers and resets do, an instance some user set deploying still
\* has a timer that will end it.
DemoDeployHasTimer ==
  \A i \in DemoInstance : demoRow[i].status = "deploying" /\ demoRow[i].by = "user" => demoTimer[i] > 0

=============================================================================
