---------------------------- MODULE InstancePage ----------------------------
(***************************************************************************)
(* The page of one instance in the browser: the row it shows, the lock     *)
(* that keeps its buttons to one action at a time, the toast of that       *)
(* action, and the other requests whose answers change the row: the polls  *)
(* of a zero-downtime redeploy, saves and reloads.  The server's row       *)
(* changes under all of them, and an answer brings the row as it was when  *)
(* the API read it.                                                        *)
(***************************************************************************)
EXTENDS Naturals

CONSTANTS
  ServerRow,  \* what a row can show: see PageRow
  MaxWait,    \* maxAttempts of waitUntilStatusSettled
  PagePoll,   \* polls of the two second interval that may overlap
  PagePatch   \* the other requests: "reload", "clickup", "env", "switch"

\* A status; "zd" is active with a zero-downtime redeploy in progress, "failed"
\* active with lastDeployError, "asleep" paused with idleSleep.
PageRow == {"active", "zd", "failed", "deploying", "waiting", "error", "paused", "asleep"}

ASSUME PageAssumption ==
  MaxWait \in Nat \ {0} /\ ServerRow \subseteq PageRow /\ PagePoll \cap PagePatch = {}

VARIABLES
  serverRow,  \* the instance as the API has it
  page,       \* row and toast shown, actionLock
  action,     \* the action under way: kind, where it is, attempts made
  pageCall    \* pageCall[k]: the row poll or request k will bring

pageVars == <<serverRow, page, action, pageCall>>

-----------------------------------------------------------------------------
NoAction == [at |-> "idle", kind |-> "none", tries |-> 0]
PageAction == {"pause", "awake", "activate", "restart", "cancel", "remove"}

InFlux(r) == r \in {"deploying", "zd"}
Loaded == page.row \in PageRow
Polling == page.row = "zd"

\* The buttons drawn for row r.
Offered(kind, r) ==
  CASE kind = "pause" -> r \in {"active", "failed"}
    [] kind = "awake" -> r = "asleep"
    [] kind = "activate" -> ~InFlux(r) /\ r # "asleep"
    [] kind \in {"restart", "cancel"} -> InFlux(r)
    [] kind = "remove" -> r # "zd"
    [] kind \in {"reload", "env", "clickup"} -> TRUE
    [] kind = "switch" -> r # "zd"

\* A page that no longer shows "zd" cleans its polls up: they change nothing.
Remaining(r) ==
  [k \in PagePoll \cup PagePatch |-> IF k \in PagePoll /\ r # "zd" THEN "none" ELSE pageCall[k]]

-----------------------------------------------------------------------------
(* The end of every action: its toast and, in finally, the lock *)

EndAction(r, toast) ==
  /\ page' = [row |-> r, toast |-> toast, lock |-> FALSE]
  /\ pageCall' = Remaining(r)
  /\ action' = NoAction

StayLocked(r, act) ==
  /\ page' = [row |-> r, toast |-> "loading", lock |-> TRUE]
  /\ pageCall' = Remaining(r)
  /\ action' = act

\* The toast for the last row known; finishFromStatus and its like.
Outcome(kind, r) ==
  CASE kind \in {"pause", "cancel"} -> "success"
    [] kind = "restart" -> IF r \in {"error", "failed"} THEN "error" ELSE "success"
    [] kind = "awake" -> IF r = "waiting" THEN "info" ELSE IF r = "error" THEN "error" ELSE "success"
    [] OTHER -> IF r = "waiting" THEN "info"
                ELSE IF r \in {"error", "failed"} THEN "error" ELSE "success"

ClickAction(kind) ==
  /\ Loaded /\ ~page.lock /\ Offered(kind, page.row)
  /\ page' = [page EXCEPT !.lock = TRUE, !.toast = "loading"]
  /\ action' = [at |-> "sent", kind |-> kind, tries |-> 0]
  /\ UNCHANGED <<serverRow, pageCall>>

WaitsFor(kind, r) ==
  \/ kind = "pause" /\ r = "deploying"
  \/ kind \in {"activate", "restart"} /\ InFlux(r)

\* The API runs the command and answers with the row it leaves.
CommandAnswers ==
  /\ action.at = "sent" /\ action.kind # "remove"
  /\ \E r \in ServerRow :
       /\ serverRow' = r
       /\ IF WaitsFor(action.kind, r)
          THEN StayLocked(r, [action EXCEPT !.at = "waiting"])
          ELSE EndAction(r, Outcome(action.kind, r))

\* A page left for /instances keeps its lock.
RemoveAnswers ==
  /\ action.at = "sent" /\ action.kind = "remove"
  /\ page' = [row |-> "left", toast |-> "success", lock |-> TRUE]
  /\ action' = NoAction /\ pageCall' = [k \in PagePoll \cup PagePatch |-> "none"]
  /\ UNCHANGED serverRow

\* Refused, timed out or lost, before or after the API ran it.
CommandFails ==
  /\ action.at = "sent" /\ serverRow' \in ServerRow
  /\ IF action.kind \in {"activate", "awake"}
     THEN action' = [action EXCEPT !.at = "recover"] /\ UNCHANGED <<page, pageCall>>
     ELSE EndAction(page.row, "error")

\* The catch of runActivate and runAwake asks for the row once.
RecoverAnswers ==
  /\ action.at = "recover"
  /\ IF action.kind = "awake"
     THEN EndAction(serverRow, IF serverRow \in {"active", "zd", "failed"} THEN "success" ELSE "error")
     ELSE IF InFlux(serverRow)
     THEN StayLocked(serverRow, [action EXCEPT !.at = "waiting", !.kind = "recovered"])
     ELSE EndAction(serverRow, Outcome("activate", serverRow))
  /\ UNCHANGED serverRow

RecoverFails ==
  /\ action.at = "recover"
  /\ EndAction(page.row, "error")
  /\ UNCHANGED serverRow

-----------------------------------------------------------------------------
(* waitUntilStatusSettled: MaxWait attempts, then a last request *)

WaitAnswers ==
  /\ action.at = "waiting"
  /\ IF action.tries = MaxWait \/ ~InFlux(serverRow)
     THEN EndAction(serverRow, Outcome(action.kind, serverRow))
     ELSE StayLocked(serverRow, [action EXCEPT !.tries = @ + 1])
  /\ UNCHANGED serverRow

\* Without a last answer runActivate ends with the row it had, or with none.
WaitFails ==
  /\ action.at = "waiting"
  /\ IF action.tries = MaxWait
     THEN EndAction(page.row, IF action.kind = "recovered" THEN "success"
                              ELSE Outcome(action.kind, page.row))
     ELSE action' = [action EXCEPT !.tries = @ + 1] /\ UNCHANGED <<page, pageCall>>
  /\ UNCHANGED serverRow

-----------------------------------------------------------------------------
(* Polls while the row shows a switch; reloads and saves *)

BeginPoll(k) ==
  /\ Polling /\ pageCall[k] = "none"
  /\ pageCall' = [pageCall EXCEPT ![k] = serverRow]
  /\ UNCHANGED <<serverRow, page, action>>

\* The first load, the reload button, the saves of the page; a save may find
\* the row as it is, but never changes what PageRow tells apart.
BeginCall(k) ==
  /\ pageCall[k] = "none" /\ ~page.lock
  /\ IF k = "reload" THEN page.row # "left" ELSE Loaded /\ Offered(k, page.row)
  /\ pageCall' = [pageCall EXCEPT ![k] = serverRow]
  /\ UNCHANGED <<serverRow, page, action>>

\* Mutant of CallAnswers: a poll refreshes the draft but not the row.
PollKeepsRow(k) ==
  /\ pageCall[k] # "none"
  /\ pageCall' = [pageCall EXCEPT ![k] = "none"]
  /\ page' = IF k \in PagePoll THEN page ELSE [page EXCEPT !.row = pageCall[k]]
  /\ UNCHANGED <<serverRow, action>>

CallAnswers(k) ==
  /\ pageCall[k] # "none"
  /\ pageCall' = [Remaining(pageCall[k]) EXCEPT ![k] = "none"]
  /\ page' = [page EXCEPT !.row = pageCall[k]]
  /\ UNCHANGED <<serverRow, action>>

CallFails(k) ==
  /\ pageCall[k] # "none"
  /\ pageCall' = [pageCall EXCEPT ![k] = "none"]
  /\ UNCHANGED <<serverRow, page, action>>

-----------------------------------------------------------------------------
\* Workers, schedulers and other users change the row.
ServerMoves ==
  /\ serverRow' \in ServerRow
  /\ UNCHANGED <<page, action, pageCall>>

PageInit ==
  /\ serverRow \in ServerRow
  /\ page = [row |-> "none", toast |-> "none", lock |-> FALSE]
  /\ action = NoAction
  /\ pageCall = [k \in PagePoll \cup PagePatch |-> "none"]

PageNext ==
  \/ \E kind \in PageAction : ClickAction(kind)
  \/ CommandAnswers \/ RemoveAnswers \/ CommandFails \/ RecoverAnswers \/ RecoverFails
  \/ WaitAnswers \/ WaitFails
  \/ \E k \in PagePoll : BeginPoll(k)
  \/ \E k \in PagePatch : BeginCall(k)
  \/ \E k \in PagePoll \cup PagePatch : CallAnswers(k) \/ CallFails(k)
  \/ ServerMoves

\* Requests are answered or fail, waits end; the interval polls on, and of
\* polls sent again and again some are answered.
PageFairness ==
  /\ WF_pageVars(CommandAnswers \/ RemoveAnswers \/ CommandFails)
  /\ WF_pageVars(RecoverAnswers \/ RecoverFails)
  /\ WF_pageVars(WaitAnswers \/ WaitFails)
  /\ \A k \in PagePoll : WF_pageVars(BeginPoll(k)) /\ SF_pageVars(CallAnswers(k))

PageSpec == PageInit /\ [][PageNext]_pageVars

-----------------------------------------------------------------------------
\* Type invariant of the page; polls are under way only while it shows a
\* switch.
PageTypeOK ==
  /\ serverRow \in ServerRow
  /\ page \in [row : ServerRow \cup {"none", "left"}, lock : BOOLEAN,
               toast : {"none", "loading", "success", "info", "error"}]
  /\ action \in [at : {"idle", "sent", "recover", "waiting"},
                 kind : PageAction \cup {"none", "recovered"}, tries : 0 .. MaxWait]
  /\ pageCall \in [PagePoll \cup PagePatch -> ServerRow \cup {"none"}]
  /\ (\E k \in PagePoll : pageCall[k] # "none") => Polling

\* Once no zero-downtime redeploy is in progress on the server for good, the page
\* stops showing one, late answers notwithstanding.
SwitchDisappears == <>[](serverRow # "zd") => <>[](page.row # "zd")

=============================================================================
