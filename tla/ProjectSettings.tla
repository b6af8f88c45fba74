--------------------------- MODULE ProjectSettings ---------------------------
(***************************************************************************)
(* The settings of a project and of one of its previews, changed by        *)
(* requests that read the row, check it, read it again to save it and then *)
(* write the columns that differ, and the deploys that read them at their  *)
(* beginning, before the build, before the health check, and save the      *)
(* preview's row themselves after it.                                      *)
(***************************************************************************)
EXTENDS Naturals

CONSTANTS Patcher,      \* requests that may be at work at once
          EnvVersion    \* versions of an environment

VARIABLES
  project,    \* its row: health check path and zero downtime; no guard reads the rest
  branchRow,  \* the preview's row: status, zero downtime, environment
  patch,      \* patch[c]: the row request c read and changed, the row its save found
  rollout,    \* the deploy at work
  served,     \* the environment of the version nginx leads to
  crossed     \* history: an UPDATE met another row than the SELECT of its save;
              \* no action reads it

settingsVars == <<project, branchRow, patch, rollout, served, crossed>>

-----------------------------------------------------------------------------
NoPath == ""
Paths == {NoPath, "/health"}
NoVersion == "nothing"
NoRollout == [at |-> "idle"]
NoPatch == [at |-> "idle"]

\* A field that a request does not name.
Same == "same"

\* The settings page sends its whole form; other clients, and the page's
\* environment tab, name one field.
FormDto == [path : Paths, zd : {"on", "off"}]
FieldDto == [path : Paths, zd : {Same}] \cup [path : {Same}, zd : {Same, "on", "off"}]

Or(field, value) == IF field = Same THEN value ELSE field

\* update: neither may a path be cleared under zero downtime, nor zero downtime
\* be set without a path.
Allowed(row, dto) ==
  /\ dto.path = NoPath => Or(dto.zd, row.zd) = "off"
  /\ dto.zd = "on" => Or(dto.path, row.path) # NoPath
Patched(row, dto) == [path |-> Or(dto.path, row.path), zd |-> Or(dto.zd, row.zd)]

\* updateZeroDowntimeEnabled
MayToggle(z) == project.zd = "off" /\ (z = "on" => project.path # NoPath)

-----------------------------------------------------------------------------
(* Requests *)

ReadProject(c, dto) ==
  /\ patch[c].at = "idle" /\ Allowed(project, dto)
  /\ patch' = [patch EXCEPT ![c] = [at |-> "project", row |-> Patched(project, dto), dto |-> dto]]
  /\ UNCHANGED <<project, branchRow, rollout, served, crossed>>

\* repo.save begins with a query of its own for the row as it is now; nothing is
\* written when no column differs.
SelectProject(c) ==
  /\ patch[c].at = "project"
  /\ patch' = [patch EXCEPT ![c] =
       IF patch[c].row = project THEN NoPatch
       ELSE [at |-> "update", row |-> patch[c].row, dto |-> patch[c].dto, seen |-> project]]
  /\ UNCHANGED <<project, branchRow, rollout, served, crossed>>

\* Mutant of Updated: the columns the body names are written, as by repo.update.
UpdatedNamed(p) == Patched(project, p.dto)

\* The columns in which the request's row differs from what that query found.
Updated(p) ==
  [path |-> IF p.row.path # p.seen.path THEN p.row.path ELSE project.path,
   zd |-> IF p.row.zd # p.seen.zd THEN p.row.zd ELSE project.zd]

UpdateProject(c) ==
  /\ patch[c].at = "update"
  /\ project' = Updated(patch[c])
  /\ crossed' = (crossed \/ patch[c].seen # project)
  /\ patch' = [patch EXCEPT ![c] = NoPatch]
  /\ UNCHANGED <<branchRow, rollout, served>>

\* updateEnvVars
SaveOverrides(e) ==
  /\ branchRow' = [branchRow EXCEPT !.env = e]
  /\ UNCHANGED <<project, patch, rollout, served, crossed>>

ToggleBranch(z) ==
  /\ MayToggle(z) /\ branchRow' = [branchRow EXCEPT !.zd = z]
  /\ UNCHANGED <<project, patch, rollout, served, crossed>>

-----------------------------------------------------------------------------
(* A deploy *)

EffectiveZeroDowntime == project.zd = "on" \/ branchRow.zd = "on"

\* reserveDeployOrQueue; a classic deploy stops what serves.
ReserveRollout ==
  /\ rollout.at = "idle"
  /\ LET zd == branchRow.status = "active" /\ EffectiveZeroDowntime /\ project.path # NoPath IN
     /\ rollout' = [at |-> "reserved", zd |-> zd]
     /\ branchRow' = IF zd THEN branchRow ELSE [branchRow EXCEPT !.status = "deploying"]
  /\ UNCHANGED <<project, patch, served, crossed>>

\* resolveDeployAppEnv, before deploy.sh
ReadDeployEnv ==
  /\ rollout.at = "reserved"
  /\ rollout' = [at |-> "building", zd |-> rollout.zd, env |-> branchRow.env]
  /\ served' = IF rollout.zd THEN served ELSE NoVersion
  /\ UNCHANGED <<project, branchRow, patch, crossed>>

\* Mutant of Built: without a path there is nothing to wait for.
BuiltUnchecked ==
  /\ rollout.at = "building"
  /\ IF project.path # NoPath
     THEN /\ rollout' = [at |-> "checking", zd |-> rollout.zd, env |-> rollout.env, row |-> branchRow]
          /\ served' = IF rollout.zd THEN served ELSE rollout.env
          /\ UNCHANGED branchRow
     ELSE /\ rollout' = NoRollout /\ served' = rollout.env
          /\ branchRow' = [branchRow EXCEPT !.status = "active"]
  /\ UNCHANGED <<project, patch, crossed>>

\* awaitHealthCheckAndFinalize, up to its first request: the path is read again.
Built ==
  /\ rollout.at = "building"
  /\ \/ /\ project.path # NoPath
        /\ rollout' = [at |-> "checking", zd |-> rollout.zd, env |-> rollout.env, row |-> branchRow]
        /\ served' = IF rollout.zd THEN served ELSE rollout.env
        /\ UNCHANGED branchRow
     \/ /\ project.path = NoPath /\ ~rollout.zd
        /\ rollout' = NoRollout /\ served' = rollout.env
        /\ branchRow' = [branchRow EXCEPT !.status = "active"]
     \/ /\ project.path = NoPath /\ rollout.zd
        /\ rollout' = NoRollout /\ UNCHANGED <<served, branchRow>>
  /\ UNCHANGED <<project, patch, crossed>>

\* Mutant of BuildBreaks: a status the entity does not know.
BuildBreaksUnknown ==
  /\ rollout.at = "building" /\ rollout' = NoRollout
  /\ branchRow' = [branchRow EXCEPT !.status = "failed"]
  /\ UNCHANGED <<project, patch, served, crossed>>

BuildBreaks ==
  /\ rollout.at = "building" /\ rollout' = NoRollout
  /\ branchRow' = IF rollout.zd THEN branchRow ELSE [branchRow EXCEPT !.status = "error"]
  /\ UNCHANGED <<project, patch, served, crossed>>

\* The check answers: nginx is switched, and the row read before the wait is saved.
CheckPasses ==
  /\ rollout.at = "checking" /\ rollout' = NoRollout
  /\ branchRow' = [rollout.row EXCEPT !.status = "active"]
  /\ served' = rollout.env
  /\ UNCHANGED <<project, patch, crossed>>

\* Its time is over: the row is read again.
CheckTimesOut ==
  /\ rollout.at = "checking" /\ rollout' = NoRollout
  /\ branchRow' = IF rollout.zd THEN branchRow ELSE [branchRow EXCEPT !.status = "error"]
  /\ served' = IF rollout.zd THEN served ELSE NoVersion
  /\ UNCHANGED <<project, patch, crossed>>

-----------------------------------------------------------------------------
\* create, and a preview that is deployed for the first time.
SettingsInit ==
  /\ project = [path |-> NoPath, zd |-> "off"]
  /\ \E e \in EnvVersion :
       branchRow = [status |-> "waiting", zd |-> "off", env |-> e]
  /\ patch = [c \in Patcher |-> NoPatch]
  /\ rollout = NoRollout /\ served = NoVersion /\ crossed = FALSE

SettingsNext ==
  \/ \E c \in Patcher :
       \/ \E dto \in FormDto \cup FieldDto : ReadProject(c, dto)
       \/ SelectProject(c) \/ UpdateProject(c)
  \/ \E e \in EnvVersion : SaveOverrides(e)
  \/ \E z \in {"on", "off"} : ToggleBranch(z)
  \/ ReserveRollout \/ ReadDeployEnv \/ Built \/ BuildBreaks \/ CheckPasses \/ CheckTimesOut

SettingsSpec == SettingsInit /\ [][SettingsNext]_settingsVars

-----------------------------------------------------------------------------
ProjectRow == [path : Paths, zd : {"on", "off"}]
BranchRow == [status : {"waiting", "deploying", "active", "error"}, zd : {"on", "off"},
              env : EnvVersion]

\* Type invariant: rows, the rows requests hold, and what is served.
SettingsTypeOK ==
  /\ project \in ProjectRow /\ branchRow \in BranchRow
  /\ \A c \in Patcher : /\ patch[c].at \in {"idle", "project", "update"}
                        /\ patch[c].at # "idle" => patch[c].row \in ProjectRow
                        /\ patch[c].at = "update" => patch[c].seen \in ProjectRow
  /\ rollout.at \in {"idle", "reserved", "building", "checking"}
  /\ served \in {NoVersion} \cup EnvVersion /\ crossed \in BOOLEAN

\* docs/instances.md:29 says that a health check path is required to enable
\* zero-downtime deploys: no project has the one without the other.  The code does
\* not keep this when two saves cross between the SELECT and the UPDATE of one
\* (README, section 3).
ZeroDowntimeNeedsHealth == project.zd = "on" => project.path # NoPath

\* That crossing is the only way: however old the row a request read is when it
\* saves, it saves a combination somebody checked, since the save compares and
\* writes the whole row and not the fields the request names.
OnlyCrossingBreaksRule == ~crossed => ZeroDowntimeNeedsHealth

\* docs/instances.md:9 says of a zero-downtime deploy that nginx is switched only
\* after the health check, and that a failure keeps the previous version: also
\* when the path is cleared or the flags are changed while it builds or waits.
SwitchIsChecked ==
  [][rollout.at # "idle" /\ rollout.zd /\ served' # served => rollout.at = "checking"]_settingsVars

=============================================================================
