------------------------------ MODULE Resources ------------------------------
(***************************************************************************)
(* The shared Docker services of a host: the rows of provisioned_resources,*)
(* the requests that start, stop, edit and remove them, and what           *)
(* resource-up.sh and resource-down.sh do to containers and to the port    *)
(* files they share with each other under one lock.  Each action is the    *)
(* code between two commands that take time.                               *)
(***************************************************************************)
EXTENDS Naturals, FiniteSets

CONSTANTS
  Slug,          \* the slugs resources may have
  Compose,       \* those of kind compose
  SameProject,   \* pairs of slugs that are one compose project without dashes
  Extends,       \* pairs <<s, t>>: t's slug is s's followed by a dash and more
  HostPort,      \* the ports reserve_free_port tries
  Env,           \* versions of the environment an operator writes
  DockerFails    \* whether docker may refuse to run a container

ASSUME ResourceAssumption ==
  /\ Compose \subseteq Slug /\ SameProject \subseteq Slug \X Slug
  /\ Extends \subseteq Slug \X Slug /\ \A s \in Slug : <<s, s>> \notin Extends
  /\ IsFiniteSet(HostPort) /\ HostPort \subseteq Nat \ {0}
  /\ DockerFails \in BOOLEAN

VARIABLES
  resource,   \* resource[s]: the row
  portFile,   \* portFile[s]: what prv-res-<slug>-<port>.port holds, 0 if absent
  container,  \* container[s]: the host port and the environment it runs with
  request     \* request[s]: the request at work on s, and the row it read

resourceVars == <<resource, portFile, container, request>>

-----------------------------------------------------------------------------
ResourceStatus == {"none", "starting", "running", "paused", "error"}
NoEnv == "unset"
ResourceRow == [status : ResourceStatus, port : HostPort \cup {0},
                env : Env \cup {NoEnv}, shown : Env \cup {NoEnv}]
NoResource == [status |-> "none", port |-> 0, env |-> NoEnv, shown |-> NoEnv]
Container == [port : HostPort \cup {0}, env : Env \cup {NoEnv}]
NoContainer == [port |-> 0, env |-> NoEnv]
RequestPC == {"idle", "clear", "allocate", "run", "started", "failed",
              "down", "forget", "stopped"}
Request == [pc : RequestPC, op : {"none", "start", "stop", "remove"},
            row : ResourceRow, port : HostPort \cup {0}]
NoRequest == [pc |-> "idle", op |-> "none", row |-> NoResource, port |-> 0]

Proceed(s, pc) == request' = [request EXCEPT ![s].pc = pc]
Answer(s) == request' = [request EXCEPT ![s] = NoRequest]

Published == {container[s].port : s \in Slug} \ {0}
FreePorts(s) == HostPort \ (Published \cup {portFile[t] : t \in Slug \ {s}})
Lowest(ports) == {p \in ports : \A q \in ports : p <= q}

\* The containers of a compose project; docker run's are in none.
InProject(s) == {t \in Compose : t = s \/ <<s, t>> \in SameProject}
Without(gone) == [t \in Slug |-> IF t \in gone THEN NoContainer ELSE container[t]]

-----------------------------------------------------------------------------
(* Requests *)

\* create: a slug is taken once.
CreateResource(s) ==
  /\ resource[s].status = "none"
  /\ \E e \in Env :
       resource' = [resource EXCEPT ![s] = [NoResource EXCEPT !.status = "paused",
                                                               !.env = e]]
  /\ UNCHANGED <<portFile, container, request>>

\* update: the row alone changes, until the next start.
EditResource(s) ==
  /\ resource[s].status # "none"
  /\ \E e \in Env : resource' = [resource EXCEPT ![s].env = e]
  /\ UNCHANGED <<portFile, container, request>>

BeginResource(s, op) ==
  /\ request[s].pc = "idle" /\ resource[s].status # "none"
  /\ LET read == IF op = "start" THEN [resource[s] EXCEPT !.status = "starting"]
                 ELSE resource[s] IN
     /\ request' = [request EXCEPT ![s] = [pc |-> IF op = "start" THEN "clear" ELSE "down",
                                           op |-> op, row |-> read, port |-> 0]]
     /\ resource' = [resource EXCEPT ![s] = read]
  /\ UNCHANGED <<portFile, container>>

-----------------------------------------------------------------------------
(* resource-up.sh *)

ClearRuntime(s) ==
  /\ request[s].pc = "clear"
  /\ container' = Without({s} \cup IF s \in Compose THEN InProject(s) ELSE {})
  /\ Proceed(s, "allocate")
  /\ UNCHANGED <<resource, portFile>>

\* Mutant of AllocatePort: the port is looked for without a look at the files.
AllocateUnreserved(s) ==
  /\ request[s].pc = "allocate"
  /\ \E p \in Lowest(HostPort \ Published) :
       /\ portFile' = [portFile EXCEPT ![s] = p]
       /\ request' = [request EXCEPT ![s].pc = "run", ![s].port = p]
  /\ UNCHANGED <<resource, container>>

\* allocate_ports: the port of its own file, unless somebody listens there.
AllocatePort(s) ==
  /\ request[s].pc = "allocate"
  /\ \E p \in IF portFile[s] \in (HostPort \ Published) THEN {portFile[s]}
              ELSE Lowest(FreePorts(s)) :
       /\ portFile' = [portFile EXCEPT ![s] = p]
       /\ request' = [request EXCEPT ![s].pc = "run", ![s].port = p]
  /\ UNCHANGED <<resource, container>>

\* docker run with the environment of the row that was read; compose up is
\* given none.
RunContainer(s) ==
  /\ request[s].pc = "run"
  /\ request[s].port \notin Published
  /\ container' = [container EXCEPT ![s] = [port |-> request[s].port,
                    env |-> IF s \in Compose THEN NoEnv ELSE request[s].row.env]]
  /\ Proceed(s, "started")
  /\ UNCHANGED <<resource, portFile>>

\* No port is free once the own one, in use, is given back; or the port is
\* taken, or docker refuses.
UpFails(s) ==
  /\ \/ /\ request[s].pc = "allocate"
        /\ FreePorts(s) = {} /\ portFile[s] \notin HostPort \ Published
        /\ portFile' = [portFile EXCEPT ![s] = 0]
     \/ /\ request[s].pc = "run"
        /\ DockerFails \/ request[s].port \in Published
        /\ UNCHANGED portFile
  /\ Proceed(s, "failed")
  /\ UNCHANGED <<resource, container>>

\* Mutant of SaveStarted: the connection shown is built from the row as it is now.
SaveStartedFresh(s) ==
  /\ request[s].pc = "started"
  /\ resource' = [resource EXCEPT ![s] = [request[s].row EXCEPT
                    !.status = "running", !.port = request[s].port,
                    !.shown = resource[s].env]]
  /\ Answer(s)
  /\ UNCHANGED <<portFile, container>>

\* startLocal saves the row it read before the script, with what the script
\* answered: the edits made meanwhile are undone.
SaveStarted(s) ==
  /\ request[s].pc = "started"
  /\ resource' = [resource EXCEPT ![s] = [request[s].row EXCEPT
                    !.status = "running", !.port = request[s].port,
                    !.shown = request[s].row.env]]
  /\ Answer(s)
  /\ UNCHANGED <<portFile, container>>

SaveFailed(s) ==
  /\ request[s].pc = "failed"
  /\ resource' = [resource EXCEPT ![s] = [request[s].row EXCEPT !.status = "error"]]
  /\ Answer(s)
  /\ UNCHANGED <<portFile, container>>

-----------------------------------------------------------------------------
(* resource-down.sh *)

StopRuntime(s) ==
  /\ request[s].pc = "down"
  /\ container' = Without({s} \cup InProject(s))
  /\ Proceed(s, "forget")
  /\ UNCHANGED <<resource, portFile>>

\* The files prv-res-<slug>-*.port: also those of a slug that extends this one.
ForgetPorts(s) ==
  /\ request[s].pc = "forget"
  /\ portFile' = [t \in Slug |-> IF t = s \/ <<s, t>> \in Extends THEN 0 ELSE portFile[t]]
  /\ Proceed(s, "stopped")
  /\ UNCHANGED <<resource, container>>

SaveStopped(s) ==
  /\ request[s].pc = "stopped"
  /\ resource' = [resource EXCEPT ![s] =
       IF request[s].op = "remove" THEN NoResource
       ELSE [request[s].row EXCEPT !.status = "paused"]]
  /\ Answer(s)
  /\ UNCHANGED <<portFile, container>>

-----------------------------------------------------------------------------
ResourcesInit ==
  /\ resource = [s \in Slug |-> NoResource]
  /\ portFile = [s \in Slug |-> 0]
  /\ container = [s \in Slug |-> NoContainer]
  /\ request = [s \in Slug |-> NoRequest]

ResourcesNext == \E s \in Slug :
  \/ CreateResource(s) \/ EditResource(s)
  \/ \E op \in {"start", "stop", "remove"} : BeginResource(s, op)
  \/ ClearRuntime(s) \/ AllocatePort(s) \/ RunContainer(s) \/ UpFails(s)
  \/ SaveStarted(s) \/ SaveFailed(s)
  \/ StopRuntime(s) \/ ForgetPorts(s) \/ SaveStopped(s)

ResourcesSpec == ResourcesInit /\ [][ResourcesNext]_resourceVars

-----------------------------------------------------------------------------
\* Type invariant: rows, port files, containers and requests have the shapes the
\* API and the scripts give them.
ResourcesTypeOK ==
  /\ resource \in [Slug -> ResourceRow]
  /\ portFile \in [Slug -> HostPort \cup {0}]
  /\ container \in [Slug -> Container]
  /\ request \in [Slug -> Request]

HeldPorts(s) == {portFile[s], container[s].port, request[s].port} \ {0}

\* common.sh:228 says of reserve_free_port that it never takes the port of
\* another instance.  From the reservation, through a pull or a build of
\* minutes, to the stop no two resources hold a port together, provided that no
\* slug extends another one (ForgetPorts).
ResourcePortsApart ==
  \A s, t \in Slug : s # t => HeldPorts(s) \cap HeldPorts(t) = {}

\* What listLocalForApi shows of a resource.
Item(s) ==
  [status |-> resource[s].status, port |-> resource[s].port,
   env |-> resource[s].shown,
   online |-> \E t \in {s} \cup (IF s \in Compose THEN InProject(s) ELSE {}) :
                container[t].port # 0]

\* The address and the credentials shown for a running resource are those its
\* container runs with, whatever was edited while it was started, and through
\* failed and repeated starts: previews connect with a copy of them.
RunningIsReachable ==
  \A s \in Slug : Item(s).status = "running" /\ request[s].pc = "idle" =>
    /\ Item(s).online /\ container[s].port = Item(s).port
    /\ s \notin Compose => container[s].env = Item(s).env

=============================================================================
