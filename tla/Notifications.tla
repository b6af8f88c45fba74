--------------------------- MODULE Notifications ---------------------------
(***************************************************************************)
(* ClickUp and Discord beside one preview: the comment when it becomes     *)
(* active, the links set by hand or from the branch, the refresh when it   *)
(* is looked at, the lookup of a task in the workspaces a token can access *)
(* (each request a step) and the Discord message of a status change.  Each *)
(* flow saves the row it read before its requests.  Answers and saves may  *)
(* fail, and the API may stop, at any step of a flow.                      *)
(***************************************************************************)
EXTENDS Naturals, FiniteSets

CONSTANTS Task,          \* ClickUp tasks with a custom id
          NoTask,
          BranchTask,    \* the one whose id the branch name holds, or NoTask
          Announced,     \* discord_notify_statuses
          Team,          \* workspaces
          NoTeam,
          Flow,          \* requests at work at once
          Overlapping,   \* whether a request, pause or wake may begin beside another
          MaxComments    \* bound on the comments counted

ASSUME NotifyAssumption ==
  /\ NoTask \notin Task /\ BranchTask \in Task \cup {NoTask} /\ NoTeam \notin Team
  /\ IsFiniteSet(Team) /\ IsFiniteSet(Flow) /\ Overlapping \in BOOLEAN /\ MaxComments \in Nat

VARIABLES
  preview,      \* the row: status, task, manual link, clickupCommentedAt
  home,         \* home[t]: the workspace of a task, NoTeam if it was deleted
  authorized,   \* the workspaces of the token
  configured,   \* clickup_team_id
  flow,         \* flow[f]: a request at work and the row it read
  comments,     \* comments ClickUp has accepted
  lost,         \* history: how many of them the API never learned of or could not
                \* note; no action's guard reads it
  untold,       \* status changes whose Discord message is not sent yet
  told          \* the statuses Discord was told of

notifyVars == <<preview, home, authorized, configured, flow, comments, lost, untold, told>>
workspaceVars == <<home, authorized, configured>>

-----------------------------------------------------------------------------
PreviewRow == [status : {"active", "paused", "gone"}, task : Task \cup {NoTask},
               manual : BOOLEAN, commented : BOOLEAN]
FlowOp == {"none", "comment", "link", "branchLink", "refresh"}
IdlePreview == [status |-> "paused", task |-> NoTask, manual |-> FALSE, commented |-> FALSE]
IdleFlow == [op |-> "none", pc |-> "idle", ref |-> NoTask, tried |-> {},
             row |-> IdlePreview]

\* Whether something may begin that saves the row.
RowIsFree == Overlapping \/ \A f \in Flow : flow[f].op = "none"
MayBegin(f) == flow[f].op = "none" /\ RowIsFree
Lookup(f, op, ref, read) ==
  flow' = [flow EXCEPT ![f] = [op |-> op, pc |-> "lookup", ref |-> ref,
                               tried |-> {}, row |-> read]]
EndFlow(f) == flow' = [flow EXCEPT ![f] = IdleFlow]

\* appendEvent: each change of status is told to Discord, and to ClickUp when
\* the preview becomes active; nobody waits for either.
Changes(status) ==
  /\ preview' = [preview EXCEPT !.status = status]
  /\ untold' = untold \cup ({status} \cap Announced)

\* notifyPreviewReady, up to its request.
WantsComment(row) ==
  row.status = "active" /\ ~row.manual /\ ~row.commented /\ BranchTask # NoTask

\* The end of a deploy or a wake and, with it, of the time it held its row.
BecomeActive(f) ==
  /\ preview.status = "paused" /\ MayBegin(f) /\ Changes("active")
  /\ IF WantsComment(preview') THEN Lookup(f, "comment", BranchTask, preview')
     ELSE UNCHANGED flow
  /\ UNCHANGED <<workspaceVars, comments, lost, told>>

\* pauseInstance saves the row it read before its script, here in one step: it is a
\* flow of the row like the others.
PausePreview ==
  /\ preview.status = "active" /\ RowIsFree /\ Changes("paused")
  /\ UNCHANGED <<workspaceVars, flow, comments, lost, told>>

\* destroyInstanceById records the event, then deletes the row.
RemovePreview ==
  /\ preview.status # "gone" /\ Changes("gone")
  /\ UNCHANGED <<workspaceVars, flow, comments, lost, told>>

\* The branch is deployed again: another row.
Recreate ==
  /\ preview.status = "gone" /\ untold = {} /\ \A f \in Flow : flow[f].op = "none"
  /\ preview' = IdlePreview /\ comments' = 0 /\ lost' = 0 /\ told' = {}
  /\ UNCHANGED <<workspaceVars, flow, untold>>

\* linkInstanceTask
Link(f, t) ==
  /\ preview.status # "gone" /\ MayBegin(f)
  /\ Lookup(f, "link", t, preview)
  /\ UNCHANGED <<preview, workspaceVars, comments, lost, untold, told>>

ClearLink ==
  /\ preview.status # "gone" /\ RowIsFree
  /\ preview' = [preview EXCEPT !.task = NoTask, !.manual = FALSE]
  /\ UNCHANGED <<workspaceVars, flow, comments, lost, untold, told>>

\* linkInstanceTaskFromBranch; of a whole project, only without a manual link.
LinkFromBranch(f) ==
  /\ preview.status # "gone" /\ MayBegin(f) /\ BranchTask # NoTask
  /\ Lookup(f, "branchLink", BranchTask, preview)
  /\ UNCHANGED <<preview, workspaceVars, comments, lost, untold, told>>

\* Mutant of RefreshTarget: the name of the branch comes before the link.
RefreshBranchFirst == IF BranchTask # NoTask THEN BranchTask ELSE preview.task

RefreshTarget ==
  IF preview.task # NoTask THEN preview.task
  ELSE IF preview.manual THEN NoTask ELSE BranchTask

\* refreshInstanceTaskInfo
Refresh(f) ==
  /\ preview.status # "gone" /\ MayBegin(f) /\ RefreshTarget # NoTask
  /\ Lookup(f, "refresh", RefreshTarget, preview)
  /\ UNCHANGED <<preview, workspaceVars, comments, lost, untold, told>>

-----------------------------------------------------------------------------
(* fetchTask *)

\* The workspaces to ask next: the configured one, then those of the token.
Candidates(f) ==
  IF configured # NoTeam /\ configured \notin flow[f].tried THEN {configured}
  ELSE authorized \ flow[f].tried

Answers(f, w) == w \in authorized /\ home[flow[f].ref] = w

AskTeam(f, w) ==
  /\ flow[f].pc = "lookup" /\ w \in Candidates(f)
  /\ flow' = [flow EXCEPT ![f].tried = @ \cup {w},
       ![f].pc = IF ~Answers(f, w) THEN "lookup"
                 ELSE IF flow[f].op = "comment" THEN "post" ELSE "save"]
  /\ UNCHANGED <<preview, workspaceVars, comments, lost, untold, told>>

\* Every workspace was asked: the error, which a refresh and a comment swallow.
TaskNotFound(f) ==
  /\ flow[f].pc = "lookup" /\ Candidates(f) = {}
  /\ EndFlow(f)
  /\ UNCHANGED <<preview, workspaceVars, comments, lost, untold, told>>

\* createComment: ClickUp takes the comment and says so; it takes it and its answer
\* is lost; or it refuses.
Post(f) ==
  /\ flow[f].pc = "post" /\ comments < MaxComments
  /\ \/ comments' = comments + 1 /\ flow' = [flow EXCEPT ![f].pc = "save"] /\ UNCHANGED lost
     \/ comments' = comments + 1 /\ lost' = lost + 1 /\ EndFlow(f)
     \/ UNCHANGED <<comments, lost>> /\ EndFlow(f)
  /\ UNCHANGED <<preview, workspaceVars, untold, told>>

\* Mutant of Applied: a comment on the task that is linked already is not noted.
AppliedUnnoted(f) ==
  LET op == flow[f].op IN
  [flow[f].row EXCEPT !.task = flow[f].ref,
     !.manual = op = "link" \/ (@ /\ op # "branchLink"),
     !.commented = @ \/ (op = "comment" /\ flow[f].row.task # flow[f].ref)]

\* applyTaskSnapshot, and the flags of each caller, on the row that was read.
Applied(f) ==
  LET op == flow[f].op IN
  [flow[f].row EXCEPT !.task = flow[f].ref,
                      !.manual = op = "link" \/ (@ /\ op # "branchLink"),
                      !.commented = @ \/ op = "comment"]
SaveFlow(f) ==
  /\ flow[f].pc = "save"
  /\ preview' = Applied(f)
  /\ EndFlow(f)
  /\ UNCHANGED <<workspaceVars, comments, lost, untold, told>>

\* Flows between a comment and its note.
Unnoted == {f \in Flow : flow[f].op = "comment" /\ flow[f].pc = "save"}

\* The database refuses the save: the row stays, a comment is not taken back.
SaveFails(f) ==
  /\ flow[f].pc = "save"
  /\ lost' = IF f \in Unnoted THEN lost + 1 ELSE lost
  /\ EndFlow(f)
  /\ UNCHANGED <<preview, workspaceVars, comments, untold, told>>

\* The API stops: nothing of its flows and messages is kept.
ApiStops ==
  /\ flow' = [f \in Flow |-> IdleFlow] /\ untold' = {}
  /\ lost' = lost + Cardinality(Unnoted)
  /\ UNCHANGED <<preview, workspaceVars, comments, told>>

\* notifyStatusChange reads the row after its settings: one that was deleted
\* meanwhile is not told of; and Discord may refuse.
Tell(status) ==
  /\ status \in untold
  /\ untold' = untold \ {status}
  /\ \/ UNCHANGED told
     \/ preview.status # "gone" /\ told' = told \cup {status}
  /\ UNCHANGED <<preview, workspaceVars, flow, comments, lost>>

-----------------------------------------------------------------------------
NotifyInit ==
  /\ preview = IdlePreview
  /\ home \in [Task -> Team \cup {NoTeam}] /\ authorized \in SUBSET Team
  /\ configured \in Team \cup {NoTeam}
  /\ flow = [f \in Flow |-> IdleFlow]
  /\ comments = 0 /\ lost = 0 /\ untold = {} /\ told = {}

NotifyNext ==
  \/ PausePreview \/ RemovePreview \/ Recreate \/ ClearLink \/ ApiStops
  \/ \E s \in {"active", "paused", "gone"} : Tell(s)
  \/ \E f \in Flow :
       \/ BecomeActive(f) \/ LinkFromBranch(f) \/ Refresh(f)
       \/ \E t \in Task : Link(f, t)
       \/ \E w \in Team : AskTeam(f, w)
       \/ TaskNotFound(f) \/ Post(f) \/ SaveFlow(f) \/ SaveFails(f)

NotifySpec == NotifyInit /\ [][NotifyNext]_notifyVars

-----------------------------------------------------------------------------
\* Type invariant: rows, workspaces and requests have the shapes their steps need.
NotifyTypeOK ==
  /\ preview \in PreviewRow
  /\ home \in [Task -> Team \cup {NoTeam}] /\ authorized \subseteq Team
  /\ configured \in Team \cup {NoTeam} /\ comments \in 0..MaxComments /\ lost \in Nat
  /\ untold \subseteq {"active", "paused", "gone"} /\ told \subseteq {"active", "paused", "gone"}
  /\ flow \in [Flow -> [op : FlowOp, pc : {"idle", "lookup", "post", "save"},
                        ref : Task \cup {NoTask}, tried : SUBSET Team, row : PreviewRow]]

\* The task of a branch is commented on again only for each comment whose answer or
\* note was lost, however often the preview sleeps and wakes and is linked, cleared
\* and refreshed meanwhile: the entity says of clickupCommentedAt that it avoids spam
\* on a wake.  Asked of requests that do not overlap; those that do write back the row
\* they read before the comment.
CommentedOnce == ~Overlapping => comments <= 1 + lost

\* A link set by hand stands until somebody clears or replaces it: no comment
\* and no refresh moves it to the task the branch is named after.
ManualLinkStands ==
  [][preview.manual /\ ~Overlapping
       => \/ preview'.manual /\ preview'.task = preview.task
          \/ ~preview'.manual
               /\ (preview'.task = NoTask \/ \E f \in Flow : flow[f].op = "branchLink")
          \/ \E f \in Flow : flow[f].op = "link"]_notifyVars

=============================================================================
