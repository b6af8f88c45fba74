------------------------- MODULE Resources_proofs -------------------------
(***************************************************************************)
(* Theorems about Resources for any slugs, kinds, ports and environments.  *)
(***************************************************************************)
EXTENDS Resources, TLAPS

(* Types.                                                                  *)

LEMMA ResourceConstants ==
  /\ NoResource \in ResourceRow /\ NoContainer \in Container /\ NoRequest \in Request
  /\ NoResource.port = 0 /\ NoContainer.port = 0 /\ NoRequest.port = 0
  /\ 0 \notin HostPort
BY ResourceAssumption DEF NoResource, ResourceRow, ResourceStatus, NoContainer, Container,
                          NoRequest, Request, RequestPC

LEMMA ResourcesInitType == ResourcesInit => ResourcesTypeOK
BY ResourceConstants DEF ResourcesInit, ResourcesTypeOK

\* Requests that change rows.
LEMMA RowStepType ==
  ASSUME ResourcesTypeOK, NEW s \in Slug,
         \/ CreateResource(s) \/ EditResource(s)
         \/ \E op \in {"start", "stop", "remove"} : BeginResource(s, op)
         \/ SaveStarted(s) \/ SaveFailed(s) \/ SaveStopped(s)
  PROVE  ResourcesTypeOK'
<1>0. request[s].row \in ResourceRow
  BY DEF ResourcesTypeOK, Request
<1>1. CASE CreateResource(s)
  <2>1. PICK e \in Env : resource' = [resource EXCEPT ![s] =
                           [NoResource EXCEPT !.status = "paused", !.env = e]]
    BY <1>1 DEF CreateResource
  <2>2. [NoResource EXCEPT !.status = "paused", !.env = e] \in ResourceRow
    BY ResourceConstants DEF ResourceRow, ResourceStatus
  <2> QED BY <1>1, <2>1, <2>2 DEF CreateResource, ResourcesTypeOK
<1>2. CASE EditResource(s)
  <2>1. PICK e \in Env : resource' = [resource EXCEPT ![s].env = e]
    BY <1>2 DEF EditResource
  <2>2. resource' \in [Slug -> ResourceRow]
    BY <2>1 DEF ResourcesTypeOK, ResourceRow
  <2> QED BY <1>2, <2>2 DEF EditResource, ResourcesTypeOK
<1>3. ASSUME NEW op \in {"start", "stop", "remove"}, BeginResource(s, op)
      PROVE  ResourcesTypeOK'
  <2> DEFINE read == IF op = "start" THEN [resource[s] EXCEPT !.status = "starting"]
                     ELSE resource[s]
             begun == [pc |-> IF op = "start" THEN "clear" ELSE "down",
                       op |-> op, row |-> read, port |-> 0]
  <2>1. read \in ResourceRow
    BY DEF ResourcesTypeOK, ResourceRow, ResourceStatus
  <2>2. begun \in Request
    <3> HIDE DEF read
    <3> QED BY <2>1 DEF Request, RequestPC
  <2>3. request' = [request EXCEPT ![s] = begun] /\ resource' = [resource EXCEPT ![s] = read]
    BY <1>3 DEF BeginResource
  <2> HIDE DEF read, begun
  <2> QED BY <1>3, <2>1, <2>2, <2>3 DEF BeginResource, ResourcesTypeOK
<1>4. CASE SaveStarted(s)
  <2>1. request[s] \in Request
    BY DEF ResourcesTypeOK
  <2>2. [request[s].row EXCEPT !.status = "running", !.port = request[s].port,
                               !.shown = request[s].row.env] \in ResourceRow
    BY <2>1 DEF Request, ResourceRow, ResourceStatus
  <2> QED BY <1>4, <2>2, ResourceConstants DEF SaveStarted, Answer, ResourcesTypeOK
<1>5. CASE SaveFailed(s)
  <2>1. [request[s].row EXCEPT !.status = "error"] \in ResourceRow
    BY <1>0 DEF ResourceRow, ResourceStatus
  <2> QED BY <1>5, <2>1, ResourceConstants DEF SaveFailed, Answer, ResourcesTypeOK
<1>6. CASE SaveStopped(s)
  <2>1. [request[s].row EXCEPT !.status = "paused"] \in ResourceRow
    BY <1>0 DEF ResourceRow, ResourceStatus
  <2> QED BY <1>6, <2>1, ResourceConstants DEF SaveStopped, Answer, ResourcesTypeOK
<1> QED BY <1>1, <1>2, <1>3, <1>4, <1>5, <1>6

\* A step of a script keeps the type of its request.
LEMMA ProceedType ==
  ASSUME ResourcesTypeOK, NEW s \in Slug, NEW pc \in RequestPC, Proceed(s, pc)
  PROVE  request' \in [Slug -> Request]
BY DEF Proceed, ResourcesTypeOK, Request

LEMMA WithoutType ==
  ASSUME ResourcesTypeOK, NEW gone
  PROVE  Without(gone) \in [Slug -> Container]
BY ResourceConstants DEF Without, ResourcesTypeOK

LEMMA ScriptStepType ==
  ASSUME ResourcesTypeOK, NEW s \in Slug,
         \/ ClearRuntime(s) \/ AllocatePort(s) \/ RunContainer(s) \/ UpFails(s)
         \/ StopRuntime(s) \/ ForgetPorts(s)
  PROVE  ResourcesTypeOK'
<1>1. {"allocate", "started", "failed", "forget", "stopped"} \subseteq RequestPC
  BY DEF RequestPC
<1>2. CASE ClearRuntime(s) \/ StopRuntime(s)
  <2>1. request' \in [Slug -> Request]
    BY <1>1, <1>2, ProceedType DEF ClearRuntime, StopRuntime
  <2>2. container' \in [Slug -> Container]
    BY <1>2, WithoutType DEF ClearRuntime, StopRuntime
  <2> QED BY <1>2, <2>1, <2>2 DEF ClearRuntime, StopRuntime, ResourcesTypeOK
<1>3. CASE AllocatePort(s)
  <2>1. PICK p \in HostPort :
           /\ portFile' = [portFile EXCEPT ![s] = p]
           /\ request' = [request EXCEPT ![s].pc = "run", ![s].port = p]
    BY <1>3 DEF AllocatePort, Lowest, FreePorts
  <2>2. [request[s] EXCEPT !.pc = "run", !.port = p] \in Request
    BY DEF ResourcesTypeOK, Request, RequestPC
  <2>3. request' = [request EXCEPT ![s] = [request[s] EXCEPT !.pc = "run", !.port = p]]
    BY <2>1 DEF ResourcesTypeOK
  <2>4. portFile' \in [Slug -> HostPort \cup {0}] /\ request' \in [Slug -> Request]
    BY <2>1, <2>2, <2>3 DEF ResourcesTypeOK
  <2> QED BY <1>3, <2>4 DEF AllocatePort, ResourcesTypeOK
<1>4. CASE RunContainer(s)
  <2>1. [port |-> request[s].port, env |-> IF s \in Compose THEN NoEnv ELSE request[s].row.env]
           \in Container
    BY DEF ResourcesTypeOK, Request, ResourceRow, Container
  <2>2. request' \in [Slug -> Request]
    BY <1>1, <1>4, ProceedType DEF RunContainer
  <2> QED BY <1>4, <2>1, <2>2 DEF RunContainer, ResourcesTypeOK
<1>5. CASE UpFails(s)
  <2>1. request' \in [Slug -> Request]
    BY <1>1, <1>5, ProceedType DEF UpFails
  <2> QED BY <1>5, <2>1 DEF UpFails, ResourcesTypeOK
<1>6. CASE ForgetPorts(s)
  <2>1. request' \in [Slug -> Request]
    BY <1>1, <1>6, ProceedType DEF ForgetPorts
  <2> QED BY <1>6, <2>1 DEF ForgetPorts, ResourcesTypeOK
<1> QED BY <1>2, <1>3, <1>4, <1>5, <1>6

LEMMA ResourcesStepType == ResourcesTypeOK /\ [ResourcesNext]_resourceVars => ResourcesTypeOK'
<1>1. ASSUME ResourcesTypeOK, UNCHANGED resourceVars PROVE ResourcesTypeOK'
  BY <1>1 DEF resourceVars, ResourcesTypeOK
<1> QED BY <1>1, RowStepType, ScriptStepType DEF ResourcesNext

\* Rows, port files, containers and requests keep the shapes the API and the scripts give
\* them, whatever requests cross.
THEOREM ResourcesTypeCorrect == ResourcesSpec => []ResourcesTypeOK
BY ResourcesInitType, ResourcesStepType, PTL DEF ResourcesSpec

-----------------------------------------------------------------------------
(* Ports.                                                                  *)

\* A port a start was given stands in the resource's own file until the start is
\* answered; other requests have none.
GivenIsOnFile ==
  \A s \in Slug : request[s].port # 0 =>
    request[s].pc \in {"run", "started", "failed"} /\ portFile[s] = request[s].port

PortsInv == ResourcesTypeOK /\ GivenIsOnFile /\ ResourcePortsApart

\* No slug holds a port it did not hold, save one that reserves a port nobody else holds.
LEMMA ApartStays ==
  ASSUME ResourcePortsApart, NEW s \in Slug, NEW p,
         \A t \in Slug : t # s => p \notin HeldPorts(t),
         \A t \in Slug : HeldPorts(t)' \subseteq HeldPorts(t) \cup (IF t = s THEN {p} ELSE {})
  PROVE  ResourcePortsApart'
<1> SUFFICES ASSUME NEW t \in Slug, NEW u \in Slug, t # u, NEW q \in HeldPorts(t)',
                    q \in HeldPorts(u)'
             PROVE  FALSE
  BY DEF ResourcePortsApart
<1>1. q \notin HeldPorts(t) \/ q \notin HeldPorts(u)
  BY DEF ResourcePortsApart
<1> QED BY <1>1

\* The port a reservation finds is held by no other resource.
LEMMA FoundPortIsFree ==
  ASSUME PortsInv, NEW s \in Slug, NEW t \in Slug, t # s,
         NEW p \in IF portFile[s] \in (HostPort \ Published) THEN {portFile[s]}
                   ELSE Lowest(FreePorts(s))
  PROVE  p \in HostPort /\ p \notin HeldPorts(t)
<1>1. p \in HostPort /\ p \notin Published
  BY DEF Lowest, FreePorts
<1>2. p # 0
  BY <1>1, ResourceConstants
<1>3. container[t].port # p
  BY <1>1, <1>2 DEF Published
<1>4. portFile[t] # p
  <2>1. CASE p = portFile[s]
    <3>1. p \in HeldPorts(s) /\ (portFile[t] # 0 => portFile[t] \in HeldPorts(t))
      BY <1>2, <2>1 DEF HeldPorts
    <3> QED BY <1>2, <3>1 DEF PortsInv, ResourcePortsApart
  <2>2. CASE p \in FreePorts(s)
    BY <2>2 DEF FreePorts
  <2> QED BY <2>1, <2>2 DEF Lowest
<1>5. request[t].port # p
  BY <1>2, <1>4 DEF PortsInv, GivenIsOnFile
<1> QED BY <1>1, <1>3, <1>4, <1>5 DEF HeldPorts

LEMMA PortsInit == ResourcesInit => PortsInv
<1> SUFFICES ASSUME ResourcesInit PROVE PortsInv
  OBVIOUS
<1>1. \A s \in Slug : portFile[s] = 0 /\ container[s].port = 0 /\ request[s].port = 0
  BY ResourceConstants DEF ResourcesInit
<1>2. GivenIsOnFile /\ ResourcePortsApart
  BY <1>1 DEF GivenIsOnFile, ResourcePortsApart, HeldPorts
<1> QED BY <1>2, ResourcesInitType DEF PortsInv

\* Saves and edits of rows: a request that begins or is answered holds no port.
LEMMA RowStepPorts ==
  ASSUME PortsInv, NEW s \in Slug,
         \/ CreateResource(s) \/ EditResource(s)
         \/ \E op \in {"start", "stop", "remove"} : BeginResource(s, op)
         \/ SaveStarted(s) \/ SaveFailed(s) \/ SaveStopped(s)
  PROVE  GivenIsOnFile' /\ ResourcePortsApart'
<1>1. UNCHANGED <<portFile, container>>
  BY DEF CreateResource, EditResource, BeginResource, SaveStarted, SaveFailed, SaveStopped
<1>2. \A t \in Slug : request'[t] = request[t] \/ request'[t].port = 0
  <2>1. CASE CreateResource(s) \/ EditResource(s)
    BY <2>1 DEF CreateResource, EditResource
  <2>2. ASSUME NEW op, BeginResource(s, op)
        PROVE  \A t \in Slug : request'[t] = request[t] \/ request'[t].port = 0
    BY <2>2 DEF BeginResource, PortsInv, ResourcesTypeOK
  <2>3. CASE SaveStarted(s) \/ SaveFailed(s) \/ SaveStopped(s)
    <3>1. request' = [request EXCEPT ![s] = NoRequest]
      BY <2>3 DEF SaveStarted, SaveFailed, SaveStopped, Answer
    <3> QED BY <3>1, ResourceConstants DEF PortsInv, ResourcesTypeOK
  <2> QED BY <2>1, <2>2, <2>3
<1>3. GivenIsOnFile'
  BY <1>1, <1>2 DEF PortsInv, GivenIsOnFile
<1>4. \A t \in Slug : HeldPorts(t)' \subseteq HeldPorts(t)
  BY <1>1, <1>2 DEF HeldPorts
<1>5. ResourcePortsApart'
  BY <1>4 DEF PortsInv, ResourcePortsApart
<1> QED BY <1>3, <1>5

\* A script that stops a runtime, or fails, gives ports back only.
LEMMA StopStepPorts ==
  ASSUME PortsInv, Extends = {}, NEW s \in Slug,
         ClearRuntime(s) \/ StopRuntime(s) \/ ForgetPorts(s) \/ UpFails(s)
  PROVE  GivenIsOnFile' /\ ResourcePortsApart'
<1>1. \A t \in Slug : request'[t].port = request[t].port
  <2>1. PICK pc : Proceed(s, pc)
    BY DEF ClearRuntime, StopRuntime, ForgetPorts, UpFails
  <2> QED BY <2>1 DEF Proceed, PortsInv, ResourcesTypeOK, Request
<1>2. \A t \in Slug : t # s => request'[t] = request[t] /\ portFile'[t] = portFile[t]
  BY DEF ClearRuntime, StopRuntime, ForgetPorts, UpFails, Proceed, PortsInv, ResourcesTypeOK
<1>3. \A t \in Slug : portFile'[t] = portFile[t] \/ portFile'[t] = 0
  BY DEF ClearRuntime, StopRuntime, ForgetPorts, UpFails, PortsInv, ResourcesTypeOK
<1>4. \A t \in Slug : container'[t].port = container[t].port \/ container'[t].port = 0
  BY ResourceConstants
     DEF ClearRuntime, StopRuntime, ForgetPorts, UpFails, Without, PortsInv, ResourcesTypeOK
<1>5. GivenIsOnFile'
  <2>1. request'[s].port # 0 => request'[s].pc = "failed" /\ portFile'[s] = portFile[s]
    <3>1. request[s].port # 0 => request[s].pc \in {"run", "started", "failed"}
      BY DEF PortsInv, GivenIsOnFile
    <3>2. ASSUME request[s].port # 0
          PROVE  UpFails(s) /\ request[s].pc = "run" /\ UNCHANGED portFile
      BY <3>1, <3>2 DEF ClearRuntime, StopRuntime, ForgetPorts, UpFails
    <3>3. UpFails(s) => request'[s].pc = "failed"
      BY DEF UpFails, Proceed, PortsInv, ResourcesTypeOK
    <3> QED BY <1>1, <3>2, <3>3
  <2> QED BY <1>1, <1>2, <2>1 DEF PortsInv, GivenIsOnFile
<1>6. \A t \in Slug : HeldPorts(t)' \subseteq HeldPorts(t)
  BY <1>1, <1>3, <1>4 DEF HeldPorts
<1> QED BY <1>5, <1>6 DEF PortsInv, ResourcePortsApart

LEMMA AllocateStepPorts ==
  ASSUME PortsInv, NEW s \in Slug, AllocatePort(s)
  PROVE  GivenIsOnFile' /\ ResourcePortsApart'
<1>1. PICK p \in IF portFile[s] \in (HostPort \ Published) THEN {portFile[s]}
                 ELSE Lowest(FreePorts(s)) :
         /\ portFile' = [portFile EXCEPT ![s] = p]
         /\ request' = [request EXCEPT ![s].pc = "run", ![s].port = p]
  BY DEF AllocatePort
<1>2. \A t \in Slug : t # s => p \notin HeldPorts(t)
  BY FoundPortIsFree
<1>3. \A t \in Slug : t # s => portFile'[t] = portFile[t] /\ request'[t] = request[t]
  BY <1>1 DEF PortsInv, ResourcesTypeOK
<1>4. portFile'[s] = p /\ request'[s].port = p /\ request'[s].pc = "run"
  BY <1>1 DEF PortsInv, ResourcesTypeOK, Request
<1>5. UNCHANGED container
  BY DEF AllocatePort
<1>6. GivenIsOnFile'
  BY <1>3, <1>4 DEF PortsInv, GivenIsOnFile
<1>7. \A t \in Slug : HeldPorts(t)' \subseteq HeldPorts(t) \cup (IF t = s THEN {p} ELSE {})
  BY <1>3, <1>4, <1>5 DEF HeldPorts
<1>8. ResourcePortsApart'
  BY <1>2, <1>7, ApartStays DEF PortsInv
<1> QED BY <1>6, <1>8

LEMMA RunStepPorts ==
  ASSUME PortsInv, NEW s \in Slug, RunContainer(s)
  PROVE  GivenIsOnFile' /\ ResourcePortsApart'
<1>1. UNCHANGED portFile /\ \A t \in Slug : request'[t].port = request[t].port
  BY DEF RunContainer, Proceed, PortsInv, ResourcesTypeOK
<1>2. /\ request'[s].pc = "started"
      /\ \A t \in Slug : t # s => request'[t].pc = request[t].pc /\ container'[t] = container[t]
  BY DEF RunContainer, Proceed, PortsInv, ResourcesTypeOK, Request
<1>3. container'[s].port = request[s].port
  BY DEF RunContainer, PortsInv, ResourcesTypeOK
<1>4. GivenIsOnFile'
  BY <1>1, <1>2 DEF PortsInv, GivenIsOnFile
<1>5. \A t \in Slug : HeldPorts(t)' \subseteq HeldPorts(t)
  BY <1>1, <1>2, <1>3 DEF HeldPorts
<1> QED BY <1>4, <1>5 DEF PortsInv, ResourcePortsApart

\* Whatever starts, stops, edits and failures of resources cross each other, no two
\* resources hold one port, from the reservation to the stop (reserve_free_port,
\* allocate_ports), provided that no slug extends another.
THEOREM PortsStayApart ==
  ASSUME Extends = {}
  PROVE  ResourcesSpec => []ResourcePortsApart
<1>1. PortsInv /\ [ResourcesNext]_resourceVars => PortsInv'
  <2> SUFFICES ASSUME PortsInv, [ResourcesNext]_resourceVars PROVE PortsInv'
    OBVIOUS
  <2>1. ResourcesTypeOK'
    BY ResourcesStepType DEF PortsInv
  <2>2. CASE UNCHANGED resourceVars
    BY <2>2 DEF PortsInv, resourceVars, ResourcesTypeOK, GivenIsOnFile, ResourcePortsApart, HeldPorts
  <2>3. CASE ResourcesNext
    BY <2>1, <2>3, RowStepPorts, StopStepPorts, AllocateStepPorts, RunStepPorts
       DEF ResourcesNext, PortsInv
  <2> QED BY <2>2, <2>3
<1>2. PortsInv => ResourcePortsApart
  BY DEF PortsInv
<1> QED BY <1>1, <1>2, PortsInit, PTL DEF ResourcesSpec


-----------------------------------------------------------------------------
(* What is shown of a running resource.                                    *)

\* What a container of s runs with is what port and env say of it.
RunsWith(s, port, env) ==
  /\ container[s].port = port /\ port # 0
  /\ s \notin Compose => container[s].env = env

\* A row that says running says what the container runs with, and so does the
\* request that is about to save such a row; a request about to run a container
\* has a port for it.  RunningIsReachable alone says nothing of requests.
ShownIsRun(s) ==
  /\ request[s].pc = "run" => request[s].port # 0
  /\ request[s].pc = "started" => RunsWith(s, request[s].port, request[s].row.env)
  /\ request[s].pc = "idle" /\ resource[s].status = "running" =>
       RunsWith(s, resource[s].port, resource[s].shown)

ReachInv == ResourcesTypeOK /\ \A s \in Slug : ShownIsRun(s)

\* The steps of one resource leave the others as they are, if no two of them are
\* one compose project.
LEMMA OthersShown ==
  ASSUME ReachInv, SameProject = {}, NEW t \in Slug, NEW s \in Slug \ {t},
         \/ CreateResource(t) \/ EditResource(t)
         \/ \E op \in {"start", "stop", "remove"} : BeginResource(t, op)
         \/ ClearRuntime(t) \/ AllocatePort(t) \/ RunContainer(t) \/ UpFails(t)
         \/ SaveStarted(t) \/ SaveFailed(t)
         \/ StopRuntime(t) \/ ForgetPorts(t) \/ SaveStopped(t)
  PROVE  ShownIsRun(s)'
<1>0. /\ resource \in [Slug -> ResourceRow] /\ request \in [Slug -> Request]
      /\ container \in [Slug -> Container] /\ ShownIsRun(s)
  BY DEF ReachInv, ResourcesTypeOK
<1>1. resource'[s] = resource[s]
  BY <1>0 DEF CreateResource, EditResource, BeginResource, ClearRuntime, AllocatePort,
              RunContainer, UpFails, SaveStarted, SaveFailed, StopRuntime, ForgetPorts,
              SaveStopped
<1>2. request'[s] = request[s]
  BY <1>0 DEF CreateResource, EditResource, BeginResource, ClearRuntime, AllocatePort,
              RunContainer, UpFails, SaveStarted, SaveFailed, StopRuntime, ForgetPorts,
              SaveStopped, Proceed, Answer
<1>3. s \notin {t} \cup InProject(t)
  BY DEF InProject
<1>4. container'[s] = container[s]
  BY <1>0, <1>3 DEF CreateResource, EditResource, BeginResource, ClearRuntime,
              AllocatePort, RunContainer, UpFails, SaveStarted, SaveFailed, StopRuntime,
              ForgetPorts, SaveStopped, Without
<1> QED BY <1>0, <1>1, <1>2, <1>4 DEF ShownIsRun, RunsWith

\* Creation, edits and the beginning of a request: a running row has a request
\* or stays as it is.
LEMMA BeginShown ==
  ASSUME ReachInv, NEW s \in Slug,
         \/ CreateResource(s) \/ EditResource(s)
         \/ \E op \in {"start", "stop", "remove"} : BeginResource(s, op)
  PROVE  ShownIsRun(s)'
<1>0. /\ resource \in [Slug -> ResourceRow] /\ request \in [Slug -> Request]
      /\ resource[s] \in ResourceRow /\ ShownIsRun(s)
  BY DEF ReachInv, ResourcesTypeOK
<1>1. CASE CreateResource(s)
  <2>1. resource'[s].status = "paused" /\ UNCHANGED <<container, request>>
    BY <1>0, <1>1 DEF CreateResource, NoResource
  <2> QED BY <1>0, <2>1 DEF ShownIsRun, RunsWith
<1>2. CASE EditResource(s)
  <2>1. /\ resource'[s].status = resource[s].status /\ resource'[s].port = resource[s].port
        /\ resource'[s].shown = resource[s].shown /\ UNCHANGED <<container, request>>
    BY <1>0, <1>2 DEF EditResource, ResourceRow
  <2> QED BY <1>0, <2>1 DEF ShownIsRun, RunsWith
<1>3. ASSUME NEW op, BeginResource(s, op) PROVE ShownIsRun(s)'
  <2>1. request'[s].pc \in {"clear", "down"}
    BY <1>0, <1>3 DEF BeginResource
  <2> QED BY <2>1 DEF ShownIsRun
<1> QED BY <1>1, <1>2, <1>3

\* The scripts, and the row saved after them.
LEMMA ScriptShown ==
  ASSUME ReachInv, NEW s \in Slug,
         \/ ClearRuntime(s) \/ AllocatePort(s) \/ RunContainer(s) \/ UpFails(s)
         \/ SaveStarted(s) \/ SaveFailed(s)
         \/ StopRuntime(s) \/ ForgetPorts(s) \/ SaveStopped(s)
  PROVE  ShownIsRun(s)'
<1>0. /\ resource \in [Slug -> ResourceRow] /\ request \in [Slug -> Request]
      /\ container \in [Slug -> Container] /\ request[s] \in Request
      /\ request[s].row \in ResourceRow /\ request[s].port \in HostPort \cup {0}
      /\ ShownIsRun(s)
  BY DEF ReachInv, ResourcesTypeOK, Request
<1>1. CASE ClearRuntime(s) \/ UpFails(s) \/ StopRuntime(s) \/ ForgetPorts(s)
  <2>1. request'[s].pc \in {"allocate", "failed", "forget", "stopped"}
    BY <1>0, <1>1 DEF ClearRuntime, UpFails, StopRuntime, ForgetPorts, Proceed, Request
  <2> QED BY <2>1 DEF ShownIsRun
<1>2. CASE AllocatePort(s)
  <2>1. PICK p \in HostPort : request' = [request EXCEPT ![s].pc = "run", ![s].port = p]
    BY <1>2 DEF AllocatePort, Lowest, FreePorts
  <2>2. request'[s].pc = "run" /\ request'[s].port = p
    BY <1>0, <2>1 DEF Request
  <2> QED BY <2>2, ResourceConstants DEF ShownIsRun
<1>3. CASE RunContainer(s)
  <2>1. /\ request[s].pc = "run" /\ request'[s].pc = "started"
        /\ request'[s].port = request[s].port /\ request'[s].row = request[s].row
    BY <1>0, <1>3 DEF RunContainer, Proceed, Request
  <2>2. /\ container'[s].port = request[s].port
        /\ s \notin Compose => container'[s].env = request[s].row.env
    BY <1>0, <1>3 DEF RunContainer
  <2> QED BY <1>0, <2>1, <2>2 DEF ShownIsRun, RunsWith
<1>4. CASE SaveStarted(s)
  <2>1. /\ request[s].pc = "started" /\ request'[s].pc = "idle" /\ UNCHANGED container
    BY <1>0, <1>4 DEF SaveStarted, Answer, NoRequest
  <2>2. resource'[s].port = request[s].port /\ resource'[s].shown = request[s].row.env
    BY <1>0, <1>4 DEF SaveStarted, ResourceRow
  <2> QED BY <1>0, <2>1, <2>2 DEF ShownIsRun, RunsWith
<1>5. CASE SaveFailed(s) \/ SaveStopped(s)
  <2>1. request'[s].pc = "idle" /\ resource'[s].status # "running"
    BY <1>0, <1>5 DEF SaveFailed, SaveStopped, Answer, NoRequest, NoResource, ResourceRow
  <2> QED BY <2>1 DEF ShownIsRun
<1> QED BY <1>1, <1>2, <1>3, <1>4, <1>5

\* The address and the credentials shown for a running resource are those its
\* container runs with, whatever edits, failures and repeated starts cross, as
\* long as no two slugs are one compose project (resource-down.sh stops the
\* containers of both).
THEOREM RunningStaysReachable ==
  ASSUME SameProject = {}
  PROVE  ResourcesSpec => []RunningIsReachable
<1>1. ResourcesInit => ReachInv
  <2>1. ResourcesInit => \A s \in Slug : request[s].pc = "idle" /\ resource[s].status = "none"
    BY DEF ResourcesInit, NoRequest, NoResource
  <2> QED BY <2>1, ResourcesInitType DEF ReachInv, ShownIsRun
<1>2. ReachInv /\ [ResourcesNext]_resourceVars => ReachInv'
  <2> SUFFICES ASSUME ReachInv, [ResourcesNext]_resourceVars PROVE ReachInv'
    OBVIOUS
  <2>1. ResourcesTypeOK'
    BY ResourcesStepType DEF ReachInv
  <2>2. CASE UNCHANGED resourceVars
    BY <2>1, <2>2 DEF ReachInv, resourceVars, ShownIsRun, RunsWith
  <2>3. ASSUME NEW s \in Slug, NEW t \in Slug,
               \/ CreateResource(t) \/ EditResource(t)
               \/ \E op \in {"start", "stop", "remove"} : BeginResource(t, op)
               \/ ClearRuntime(t) \/ AllocatePort(t) \/ RunContainer(t) \/ UpFails(t)
               \/ SaveStarted(t) \/ SaveFailed(t)
               \/ StopRuntime(t) \/ ForgetPorts(t) \/ SaveStopped(t)
        PROVE  ShownIsRun(s)'
    <3>1. CASE s = t
      BY <2>3, <3>1, BeginShown, ScriptShown
    <3>2. CASE s # t
      BY <2>3, <3>2, OthersShown
    <3> QED BY <3>1, <3>2
  <2> QED BY <2>1, <2>2, <2>3 DEF ResourcesNext, ReachInv
<1>3. ReachInv => RunningIsReachable
  <2> SUFFICES ASSUME ReachInv, NEW s \in Slug, Item(s).status = "running",
                      request[s].pc = "idle"
               PROVE  /\ Item(s).online /\ container[s].port = Item(s).port
                      /\ s \notin Compose => container[s].env = Item(s).env
    BY DEF RunningIsReachable
  <2>1. RunsWith(s, resource[s].port, resource[s].shown)
    BY DEF ReachInv, ShownIsRun, Item
  <2> QED BY <2>1 DEF RunsWith, Item
<1> QED BY <1>1, <1>2, <1>3, PTL DEF ResourcesSpec

=============================================================================
