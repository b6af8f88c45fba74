---------------------------- MODULE PreviewScripts ----------------------------
(***************************************************************************)
(* The core scripts of previa (core/bin and core/lib/common.sh): the port  *)
(* files under the state directory, the two colors of a preview, its nginx *)
(* location file and the configuration nginx has loaded.  Scripts of       *)
(* different previews run side by side and share the ports, the lock that  *)
(* reserves them and nginx; the scripts of one preview run one at a time,  *)
(* in the order in which the API calls them.                               *)
(***************************************************************************)
EXTENDS Naturals, FiniteSets

CONSTANTS
  Preview,
  Port,      \* the ports reserve_free_port tries, in increasing order
  Api,       \* the port of the API, where a sleeping preview's URL leads
  Failures   \* what may go wrong: build, start, reload, promote, kill

ASSUME PortAssumption == IsFiniteSet(Port) /\ Port \subseteq Nat \ {0}
ASSUME ApiAssumption == Api \in Nat \ (Port \cup {0})

VARIABLES
  port,    \* port[n]: what the file <n>.port holds, 0 if there is none
  up,      \* up[n]: the port the runtime n listens on, 0 if it is stopped
  live,    \* live[i]: the color in <base>.live, "primary" if there is none
  file,    \* file[i]: the port in i's location file, 0 if there is none
  loaded,  \* loaded[i]: the same in the configuration nginx runs
  row,     \* row[i]: what the API's row of i says, as far as scripts depend on it
  script   \* script[i]: the script of i that runs, and how far it is

vars == <<port, up, live, file, loaded, row, script>>

-----------------------------------------------------------------------------
Color == {"primary", "next"}
Opposite(c) == IF c = "next" THEN "primary" ELSE "next"

\* zd_runtime_name: the primary runtime bears the name of the preview itself.
Name == Preview \X Color
Base(i) == <<i, "primary">>
Live(i) == <<i, live[i]>>

PC == {"idle", "reserve", "stop", "check", "again", "start", "meta", "location",
       "reload", "record", "settle", "files"}
Op == {"none", "classic", "staging", "promote", "abort", "pause", "sleep", "destroy"}
Script == [pc : PC, op : Op, color : Color, port : Port \cup {0}]
NoScript == [pc |-> "idle", op |-> "none", color |-> "primary", port |-> 0]
Deploying == {"classic", "staging"}
Stopping == {"pause", "sleep", "destroy"}

Own(i) == <<i, script[i].color>>
Goto(i, pc) == script' = [script EXCEPT ![i].pc = pc]
Run(i, op, pc) == script' = [script EXCEPT ![i].op = op, ![i].pc = pc,
                               ![i].port = IF op = "promote" THEN @ ELSE 0]
End(i) == script' = [script EXCEPT ![i] = NoScript]

Listening == {up[n] : n \in Name} \ {0}

\* Mutants of Free: one port beyond the last, and the port files not read.
FreeOneTooMany(n) ==
  (Port \cup {p + 1 : p \in Port}) \ (Listening \cup {port[m] : m \in Name \ {n}})
FreeIgnoresFiles(n) == Port \ Listening

\* The ports nobody listens on and no other file holds; reserve_free_port gives
\* a name the port of its own file, or else the first of them.
Free(n) == Port \ (Listening \cup {port[m] : m \in Name \ {n}})
PortFor(n) == IF port[n] # 0 THEN {port[n]}
              ELSE {p \in Free(n) : \A q \in Free(n) : p <= q}

-----------------------------------------------------------------------------
(* deploy.sh                                                               *)

\* A classic run (or a wake) works on the live color; a zero-downtime run, of
\* an active preview, on the other one.  The row of a classic one is deploying.
Begin(i, op) ==
  /\ script[i].pc = "idle"
  /\ op \in Deploying
  /\ op = "staging" => row[i] = "active"
  /\ script' = [script EXCEPT ![i] =
       [pc |-> "reserve", op |-> op, port |-> 0,
        color |-> IF op = "classic" THEN live[i] ELSE Opposite(live[i])]]
  /\ row' = [row EXCEPT ![i] = IF op = "classic" THEN "down" ELSE @]
  /\ UNCHANGED <<port, up, live, file, loaded>>

\* reserve_free_port, under its lock.
Reserve(i) ==
  /\ script[i].pc \in {"reserve", "again"}
  /\ \E p \in PortFor(Own(i)) :
       /\ port' = [port EXCEPT ![Own(i)] = p]
       /\ script' = [script EXCEPT ![i].port = p,
                       ![i].pc = IF @ = "reserve" THEN "stop" ELSE "start"]
  /\ UNCHANGED <<up, live, file, loaded, row>>

\* Mutant of StopOwn: deploy.sh stops both colors, as the other scripts do.
StopOwnStopsBoth(i) ==
  /\ script[i].pc = "stop" /\ script[i].op \in Deploying
  /\ up' = [n \in Name |-> IF n[1] = i THEN 0 ELSE up[n]]
  /\ Goto(i, "check")
  /\ UNCHANGED <<port, live, file, loaded, row>>

\* The color the run works on is stopped before anything is built in it.
StopOwn(i) ==
  /\ script[i].pc = "stop" /\ script[i].op \in Deploying
  /\ up' = [up EXCEPT ![Own(i)] = 0]
  /\ Goto(i, "check")
  /\ UNCHANGED <<port, live, file, loaded, row>>

\* Mutant of Check: the port reserved earlier is used as it is.
CheckNothing(i) ==
  /\ script[i].pc = "check"
  /\ Goto(i, "start")
  /\ UNCHANGED <<port, up, live, file, loaded, row>>

\* Somebody still listens on the reserved port: the file is dropped and
\* another port reserved.
Check(i) ==
  /\ script[i].pc = "check"
  /\ IF script[i].port \in Listening
     THEN /\ port' = [port EXCEPT ![Own(i)] = 0]
          /\ script' = [script EXCEPT ![i].pc = "again", ![i].port = 0]
     ELSE UNCHANGED port /\ Goto(i, "start")
  /\ UNCHANGED <<up, live, file, loaded, row>>

\* The build, then the start of the runtime on the reserved port.
Start(i) ==
  /\ script[i].pc = "start"
  /\ script[i].port \notin Listening
  /\ up' = [up EXCEPT ![Own(i)] = script[i].port]
  /\ Goto(i, IF script[i].op = "classic" THEN "location" ELSE "meta")
  /\ UNCHANGED <<port, live, file, loaded, row>>

\* write_location_file and nginx_reload, of deploy.sh and of promote-zd.sh.  A
\* reload loads the location files of every preview.
WriteLocation(i) ==
  /\ script[i].pc = "location"
  /\ file' = [file EXCEPT ![i] = script[i].port]
  /\ Goto(i, "reload")
  /\ UNCHANGED <<port, up, live, loaded, row>>

Reload(i) ==
  /\ script[i].pc = "reload"
  /\ loaded' = file
  /\ Goto(i, IF script[i].op \in Stopping THEN "settle" ELSE "record")
  /\ UNCHANGED <<port, up, live, file, row>>

\* Mutant of Record: the new live color is not written.
RecordForgetsColor(i) ==
  /\ script[i].pc = "record"
  /\ up' = IF live[i] = script[i].color THEN up ELSE [up EXCEPT ![Live(i)] = 0]
  /\ port' = [port EXCEPT ![Base(i)] = script[i].port]
  /\ Goto(i, IF script[i].op = "classic" THEN "meta" ELSE "settle")
  /\ UNCHANGED <<live, file, loaded, row>>

\* The end of promote-zd.sh and of a classic deploy.sh: the old color is
\* stopped, the live color and the port of the preview are written.
Record(i) ==
  /\ script[i].pc = "record"
  /\ up' = IF live[i] = script[i].color THEN up ELSE [up EXCEPT ![Live(i)] = 0]
  /\ live' = [live EXCEPT ![i] = script[i].color]
  /\ port' = [port EXCEPT ![Base(i)] = script[i].port]
  /\ Goto(i, IF script[i].op = "classic" THEN "meta" ELSE "settle")
  /\ UNCHANGED <<file, loaded, row>>

\* set -e ends deploy.sh where it fails: without a free port, in a git or build
\* command, in a start that may leave the runtime behind, in a reload.  Nothing
\* is undone; the API only writes the row.
Fails(i) ==
  /\ script[i].op \in Deploying
  /\ \/ script[i].pc \in {"reserve", "again"} /\ PortFor(Own(i)) = {} /\ UNCHANGED up
     \/ "build" \in Failures /\ script[i].pc \in {"reserve", "start"} /\ UNCHANGED up
     \/ "start" \in Failures /\ script[i].pc = "start"
        /\ up' = [up EXCEPT ![Own(i)] = script[i].port]
     \/ "reload" \in Failures /\ script[i].pc = "reload" /\ UNCHANGED up
  /\ End(i)
  /\ UNCHANGED <<port, live, file, loaded, row>>

\* A cancel kills deploy.sh anywhere, then runs abort-zd.sh after a staging
\* run and pause.sh after a classic one; a restart leaves a classic one as it
\* is and deploys again.
Kill(i) ==
  /\ "kill" \in Failures
  /\ script[i].op \in Deploying /\ script[i].pc # "meta"
  /\ \/ script[i].op = "staging" /\ Run(i, "abort", "stop")
     \/ script[i].op = "classic" /\ (Run(i, "pause", "stop") \/ End(i))
  /\ UNCHANGED <<port, up, live, file, loaded, row>>

-----------------------------------------------------------------------------
(* What the API does with a deploy.sh that has written its result.         *)

\* The probe asks the port that deploy.sh wrote into its result.
ProbeOk(i) == up[Own(i)] = script[i].port

\* The runtime answers: a classic preview is active, a staged one promoted.
Healthy(i) ==
  /\ script[i].pc = "meta" /\ ProbeOk(i)
  /\ \/ /\ script[i].op = "classic"
        /\ row' = [row EXCEPT ![i] = "active"]
        /\ End(i)
     \/ script[i].op = "staging" /\ Run(i, "promote", "location") /\ UNCHANGED row
  /\ UNCHANGED <<port, up, live, file, loaded>>

\* It does not: pause.sh for a classic one, abort-zd.sh for a staged one.
Unhealthy(i) ==
  /\ script[i].pc = "meta"
  /\ Run(i, IF script[i].op = "classic" THEN "pause" ELSE "abort", "stop")
  /\ UNCHANGED <<port, up, live, file, loaded, row>>

\* nginx refuses promote-zd.sh's reload: the API aborts the staging runtime and
\* then takes the row to error.
PromoteFails(i) ==
  /\ "promote" \in Failures
  /\ script[i].op = "promote" /\ script[i].pc = "reload"
  /\ Run(i, "abort", "stop")
  /\ row' = [row EXCEPT ![i] = "down"]
  /\ UNCHANGED <<port, up, live, file, loaded>>

\* abort-zd.sh: the staging runtime stops, its port stays reserved.
Abort(i) ==
  /\ script[i].pc = "stop" /\ script[i].op = "abort"
  /\ up' = IF Own(i) = Live(i) THEN up ELSE [up EXCEPT ![Own(i)] = 0]
  /\ End(i)
  /\ UNCHANGED <<port, live, file, loaded, row>>

-----------------------------------------------------------------------------
(* pause.sh, sleep.sh and destroy.sh                                       *)

BeginStop(i, op) ==
  /\ script[i].pc = "idle"
  /\ row[i] = "active" \/ (op = "destroy" /\ row[i] # "none")
  /\ op \in Stopping
  /\ Run(i, op, "stop")
  /\ UNCHANGED <<port, up, live, file, loaded, row>>

StopBoth(i) ==
  /\ script[i].pc = "stop" /\ script[i].op \in Stopping
  /\ up' = [n \in Name |-> IF n[1] = i THEN 0 ELSE up[n]]
  /\ Goto(i, "files")
  /\ UNCHANGED <<port, live, file, loaded, row>>

\* Mutant of RemoveFiles: pause.sh gives the ports back too.
RemoveFilesOnPause(i) ==
  /\ script[i].pc = "files"
  /\ file' = [file EXCEPT ![i] = IF script[i].op = "sleep" THEN Api ELSE 0]
  /\ IF script[i].op # "sleep"
     THEN /\ port' = [n \in Name |-> IF n[1] = i THEN 0 ELSE port[n]]
          /\ live' = [live EXCEPT ![i] = "primary"]
     ELSE UNCHANGED <<port, live>>
  /\ Goto(i, "reload")
  /\ UNCHANGED <<up, loaded, row>>

\* destroy.sh forgets ports and color; sleep.sh leads the URL to the API.
RemoveFiles(i) ==
  /\ script[i].pc = "files"
  /\ file' = [file EXCEPT ![i] = IF script[i].op = "sleep" THEN Api ELSE 0]
  /\ IF script[i].op = "destroy"
     THEN /\ port' = [n \in Name |-> IF n[1] = i THEN 0 ELSE port[n]]
          /\ live' = [live EXCEPT ![i] = "primary"]
     ELSE UNCHANGED <<port, live>>
  /\ Goto(i, "reload")
  /\ UNCHANGED <<up, loaded, row>>

\* The reload of a stop fails: the script fails, and the row is left alone.
StopFails(i) ==
  /\ "reload" \in Failures
  /\ script[i].op \in Stopping /\ script[i].pc = "reload"
  /\ End(i)
  /\ UNCHANGED <<port, up, live, file, loaded, row>>

\* The API saves the row.
Settle(i) ==
  /\ script[i].pc = "settle"
  /\ row' = [row EXCEPT ![i] = CASE script[i].op = "promote" -> "active"
                                 [] script[i].op = "destroy" -> "none"
                                 [] OTHER -> "down"]
  /\ End(i)
  /\ UNCHANGED <<port, up, live, file, loaded>>

-----------------------------------------------------------------------------
Init ==
  /\ port = [n \in Name |-> 0] /\ up = [n \in Name |-> 0]
  /\ live = [i \in Preview |-> "primary"]
  /\ file = [i \in Preview |-> 0] /\ loaded = [i \in Preview |-> 0]
  /\ row = [i \in Preview |-> "none"]
  /\ script = [i \in Preview |-> NoScript]

Next == \E i \in Preview :
  \/ \E op \in Op : Begin(i, op) \/ BeginStop(i, op)
  \/ Reserve(i) \/ StopOwn(i) \/ Check(i) \/ Start(i) \/ WriteLocation(i)
  \/ Reload(i) \/ Record(i) \/ Fails(i) \/ Kill(i)
  \/ Healthy(i) \/ Unhealthy(i) \/ PromoteFails(i) \/ Abort(i)
  \/ StopBoth(i) \/ RemoveFiles(i) \/ StopFails(i) \/ Settle(i)

Spec == Init /\ [][Next]_vars

-----------------------------------------------------------------------------
\* Port files hold ports of the range or are absent, location files lead to a
\* port or to the API, and every script is at one of its own steps.
TypeOK ==
  /\ port \in [Name -> Port \cup {0}] /\ up \in [Name -> Port \cup {0}]
  /\ live \in [Preview -> Color]
  /\ file \in [Preview -> Port \cup {0, Api}]
  /\ loaded \in [Preview -> Port \cup {0, Api}]
  /\ row \in [Preview -> {"none", "down", "active"}]
  /\ script \in [Preview -> Script]

\* The ports of a preview: those its files reserve, those it listens on and
\* the one its script was given.
Ports(i) == ({port[<<i, c>>] : c \in Color} \cup {up[<<i, c>>] : c \in Color}
               \cup {script[i].port}) \ {0}

\* reserve_free_port "never takes a port of another preview": no port is ever
\* two previews', through redeploys, flips, aborted staging and destroys.
PortsDisjoint ==
  \A i, j \in Preview : i # j => Ports(i) \cap Ports(j) = {}

\* A runtime is started on a port nobody listens on: between the check of
\* deploy.sh and the start at the end of a long build nothing takes the port,
\* neither another preview nor the other color of the same one.
StartFindsPortFree ==
  \A i \in Preview : script[i].pc = "start" => script[i].port \notin Listening

\* nginx never leads the URL of a preview to the runtime of another one, while
\* destroy.sh gives its ports back apart.
UrlStaysOwn ==
  \A i, j \in Preview :
    i # j /\ script[i].op # "destroy" => loaded[i] \notin Ports(j)

Served(i) == loaded[i] \in {up[<<i, c>>] : c \in Color} \ {0}

\* The URL of a preview stops being served only by a stop or by a classic
\* deploy of that preview: no zero-downtime deploy, however it fails, and
\* nothing that happens to another preview takes it down.
OnlyStoppedByItself ==
  [][\A i \in Preview : Served(i) /\ ~Served(i)' =>
       script[i].op \in {"classic"} \cup Stopping]_vars

\* Between scripts, an active preview is served by the runtime of its live
\* color, on the port that runtime has reserved.
ActiveIsLive ==
  \A i \in Preview : row[i] = "active" /\ script[i].pc = "idle" =>
    /\ up[Live(i)] # 0 /\ loaded[i] = up[Live(i)] /\ file[i] = up[Live(i)]
    /\ port[Live(i)] = up[Live(i)]

=============================================================================
