---------------------------- MODULE Services_proofs ----------------------------
(***************************************************************************)
(* Theorems about the services beside the deploys, in the order of the     *)
(* file: settings of projects and branches, nodes of a cluster, comments   *)
(* and links of ClickUp, hosting on Amplify, users and their roles, the    *)
(* timers of the demo, merged views of a cluster, the listing of Amplify,  *)
(* and the types of all of them.  The last section shows that a behaviour  *)
(* of MCServices is a behaviour of each service, so that what holds of     *)
(* one holds of all.                                                       *)
(***************************************************************************)
EXTENDS MCServices, Resources_proofs, Environment_proofs, FiniteSetTheorems, TLAPS

-----------------------------------------------------------------------------
(* Settings of projects and branches (ProjectSettings)                     *)

\* A row that update accepts: its columns are of their types, and zero downtime has a
\* path to check.
Acceptable(row) == row \in ProjectRow /\ (row.zd = "on" => row.path # NoPath)

\* While no two saves have crossed, the project's row is acceptable, and so is each row
\* a request has changed and not saved yet: OnlyCrossingBreaksRule alone says nothing
\* of these.
RowsAcceptable ==
  /\ crossed \in BOOLEAN
  /\ ~crossed => Acceptable(project)
  /\ \A c \in Patcher : ~crossed /\ patch[c].at # "idle" => Acceptable(patch[c].row)
  /\ DOMAIN patch = Patcher

\* What update makes of an acceptable row and a body it does not refuse.
LEMMA PatchedIsAcceptable ==
  ASSUME NEW row, Acceptable(row), NEW dto \in FormDto \cup FieldDto, Allowed(row, dto)
  PROVE  Acceptable(Patched(row, dto))
<1>1. dto.path \in Paths \cup {Same} /\ dto.zd \in {"on", "off", Same}
  BY DEF FormDto, FieldDto
<1>2. Same # NoPath /\ Same \notin Paths
  BY DEF Same, NoPath, Paths
<1>3. Or(dto.path, row.path) \in Paths /\ Or(dto.zd, row.zd) \in {"on", "off"}
  BY <1>1 DEF Or, Acceptable, ProjectRow
<1>4. ASSUME Or(dto.zd, row.zd) = "on"
      PROVE  Or(dto.path, row.path) # NoPath
  <2>1. dto.path # NoPath
    BY <1>4 DEF Allowed
  <2>2. CASE dto.path # Same
    BY <2>1, <2>2 DEF Or
  <2>3. CASE dto.path = Same /\ dto.zd = "on"
    BY <2>3 DEF Allowed
  <2>4. CASE dto.path = Same /\ dto.zd # "on"
    BY <1>4, <2>4 DEF Or, Acceptable, Same
  <2> QED BY <2>2, <2>3, <2>4
<1> QED BY <1>3, <1>4 DEF Acceptable, Patched, ProjectRow

\* Reading a row and checking it leaves an acceptable row with the request.
LEMMA ReadKeepsRows ==
  ASSUME RowsAcceptable, NEW c \in Patcher, NEW dto \in FormDto \cup FieldDto,
         ReadProject(c, dto)
  PROVE  RowsAcceptable'
<1>1. ~crossed => Acceptable(Patched(project, dto))
  BY PatchedIsAcceptable DEF ReadProject, RowsAcceptable
<1>2. UNCHANGED <<project, crossed>>
  BY DEF ReadProject
<1>3. \A d \in Patcher : d # c => patch'[d] = patch[d]
  BY DEF ReadProject, RowsAcceptable
<1>4. patch'[c].row = Patched(project, dto) /\ DOMAIN patch' = Patcher
  BY DEF ReadProject, RowsAcceptable
<1> QED BY <1>1, <1>2, <1>3, <1>4 DEF RowsAcceptable, Acceptable

\* The query of a save leaves the request its row, or ends it.
LEMMA SelectKeepsRows ==
  ASSUME RowsAcceptable, NEW c \in Patcher, SelectProject(c)
  PROVE  RowsAcceptable'
<1>1. UNCHANGED <<project, crossed>> /\ DOMAIN patch' = Patcher
  BY DEF SelectProject, RowsAcceptable
<1>2. \A d \in Patcher : d # c => patch'[d] = patch[d]
  BY DEF SelectProject, RowsAcceptable
<1>3. patch'[c].at = "idle" \/ patch'[c].row = patch[c].row
  BY DEF SelectProject, RowsAcceptable, NoPatch
<1>4. patch[c].at # "idle"
  BY DEF SelectProject
<1> QED BY <1>1, <1>2, <1>3, <1>4 DEF RowsAcceptable, Acceptable

\* An update of the row its save found writes the row of the request.
LEMMA UpdateKeepsRows ==
  ASSUME RowsAcceptable, NEW c \in Patcher, UpdateProject(c)
  PROVE  RowsAcceptable'
<1>1. /\ crossed' = (crossed \/ patch[c].seen # project) /\ project' = Updated(patch[c])
      /\ patch[c].at # "idle" /\ DOMAIN patch' = Patcher
  BY DEF UpdateProject, RowsAcceptable
<1>2. \A d \in Patcher : patch'[d] = patch[d] \/ patch'[d].at = "idle"
  BY DEF UpdateProject, RowsAcceptable, NoPatch
<1>3. ASSUME ~crossed' PROVE Acceptable(project')
  <2>1. patch[c].seen = project /\ Acceptable(patch[c].row) /\ ~crossed
    BY <1>1, <1>3 DEF RowsAcceptable
  <2>2. project'.path = patch[c].row.path /\ project'.zd = patch[c].row.zd
    BY <1>1, <2>1 DEF Updated
  <2>3. project' = [path |-> project'.path, zd |-> project'.zd]
    BY <1>1 DEF Updated
  <2>4. patch[c].row.path \in Paths /\ patch[c].row.zd \in {"on", "off"}
    BY <2>1 DEF Acceptable, ProjectRow
  <2>5. patch[c].row.zd = "on" => patch[c].row.path # NoPath
    BY <2>1 DEF Acceptable
  <2> QED BY <2>2, <2>3, <2>4, <2>5 DEF Acceptable, ProjectRow
<1>4. crossed' \in BOOLEAN /\ (~crossed' => ~crossed)
  BY <1>1
<1> QED BY <1>1, <1>2, <1>3, <1>4 DEF RowsAcceptable, Acceptable

LEMMA SettingsInitRows == SettingsInit => RowsAcceptable
<1> SUFFICES ASSUME SettingsInit PROVE RowsAcceptable
  OBVIOUS
<1>1. Acceptable(project) /\ crossed = FALSE
  BY DEF SettingsInit, Acceptable, ProjectRow, Paths
<1>2. NoPatch.at = "idle"
  BY DEF NoPatch
<1>3. DOMAIN patch = Patcher /\ \A c \in Patcher : patch[c] = NoPatch
  BY DEF SettingsInit
<1> QED BY <1>1, <1>2, <1>3 DEF RowsAcceptable

LEMMA SettingsStepRows == RowsAcceptable /\ [SettingsNext]_settingsVars => RowsAcceptable'
<1> SUFFICES ASSUME RowsAcceptable, [SettingsNext]_settingsVars
             PROVE  RowsAcceptable'
  OBVIOUS
<1>1. ASSUME NEW c \in Patcher, NEW dto \in FormDto \cup FieldDto, ReadProject(c, dto)
      PROVE  RowsAcceptable'
  BY <1>1, ReadKeepsRows
<1>2. ASSUME NEW c \in Patcher, SelectProject(c) \/ UpdateProject(c)
      PROVE  RowsAcceptable'
  BY <1>2, SelectKeepsRows, UpdateKeepsRows
<1>3. ASSUME \/ \E e \in EnvVersion : SaveOverrides(e)
             \/ \E z \in {"on", "off"} : ToggleBranch(z)
             \/ ReserveRollout \/ ReadDeployEnv \/ Built \/ BuildBreaks
             \/ CheckPasses \/ CheckTimesOut \/ UNCHANGED settingsVars
      PROVE  RowsAcceptable'
  <2>1. UNCHANGED <<project, patch, crossed>>
    BY <1>3 DEF SaveOverrides, ToggleBranch, ReserveRollout, ReadDeployEnv, Built,
                BuildBreaks, CheckPasses, CheckTimesOut, settingsVars
  <2> QED BY <2>1 DEF RowsAcceptable, Acceptable
<1> QED BY <1>1, <1>2, <1>3 DEF SettingsNext

\* However many requests read, check and save the row of a project across each other,
\* and however old the row that each of them read, zero downtime comes without a health
\* check path only after an UPDATE has met another row than the SELECT of its own save
\* (projects.service.ts:125-151).
THEOREM OnlyCrossingsBreakRule == SettingsSpec => []OnlyCrossingBreaksRule
<1>1. RowsAcceptable => OnlyCrossingBreaksRule
  BY DEF RowsAcceptable, Acceptable, ZeroDowntimeNeedsHealth, OnlyCrossingBreaksRule
<1> QED BY SettingsInitRows, SettingsStepRows, <1>1, PTL DEF SettingsSpec

-----------------------------------------------------------------------------
\* A zero-downtime deploy changes what nginx serves in no step but the one after its
\* health check, whatever requests change the settings it began with
\* (awaitZeroDowntimeHealthCheckAndFinalize).
THEOREM SwitchesAreChecked == SettingsSpec => SwitchIsChecked
<1>1. ASSUME SettingsNext, rollout.at # "idle", rollout.zd, served' # served
      PROVE  rollout.at = "checking"
  <2>1. \/ ReserveRollout \/ ReadDeployEnv \/ Built \/ CheckPasses \/ CheckTimesOut
    BY <1>1 DEF SettingsNext, ReadProject, SelectProject, UpdateProject, SaveOverrides, ToggleBranch,
                BuildBreaks
  <2>2. ~ReserveRollout /\ ~ReadDeployEnv /\ ~Built
    BY <1>1 DEF ReserveRollout, ReadDeployEnv, Built
  <2> QED BY <2>1, <2>2 DEF CheckPasses, CheckTimesOut
<1>2. ASSUME UNCHANGED settingsVars PROVE served' = served
  BY <1>2 DEF settingsVars
<1>3. [SettingsNext]_settingsVars
      => [rollout.at # "idle" /\ rollout.zd /\ served' # served => rollout.at = "checking"]_settingsVars
  BY <1>1, <1>2
<1> QED BY <1>3, PTL DEF SettingsSpec, SwitchIsChecked

-----------------------------------------------------------------------------
(* Nodes of a cluster (ClusterCalls)                                       *)

\* A row that says the truth of node n: sealed once at most, and a scope that its key
\* covers.
Good(n, row) ==
  /\ row \in Row /\ row.sealed \in {0, 1}
  /\ row.scope = "write" => nodeKey[n] = "write"

\* What a request holds of a node is true of it too; a request under way keeps its node
\* from being registered anew with another key.
CallIsGood(c) ==
  /\ hubCall[c].at # "idle" => hubCall[c].node \in RemoteNode
  /\ hubCall[c].at \in {"loaded", "saving"} => Good(hubCall[c].node, hubCall[c].row)

RowsAndCallsAreGood ==
  /\ nodeRow \in [RemoteNode -> Row \cup {Fresh, Gone}]
  /\ nodeKey \in [RemoteNode -> Scope]
  /\ DOMAIN hubCall = HubCaller
  /\ \A n \in RemoteNode : Registered(n) => Good(n, nodeRow[n])
  /\ \A c \in HubCaller : CallIsGood(c)

-----------------------------------------------------------------------------
\* A row of a node is none of the two that stand for no row.
LEMMA RowsAreRegistered ==
  ASSUME NEW row \in Row
  PROVE  row # Fresh /\ row # Gone
<1>1. row.scope \in {"read", "write"}
  BY DEF Row, Scope
<1> QED BY <1>1 DEF Fresh, Gone

\* Good looks at nothing but the key of its node.
LEMMA GoodStays ==
  ASSUME NEW n, NEW row, Good(n, row), nodeKey'[n] = nodeKey[n]
  PROVE  Good(n, row)'
BY DEF Good

\* One request moves: the others keep what they hold.
LEMMA OneCallMoves ==
  ASSUME RowsAndCallsAreGood, NEW c \in HubCaller, NEW r, Set(c, r),
         UNCHANGED nodeKey,
         r.at # "idle" => r.node \in RemoteNode,
         r.at \in {"loaded", "saving"} => Good(r.node, r.row)
  PROVE  DOMAIN hubCall' = HubCaller /\ \A d \in HubCaller : CallIsGood(d)'
<1>1. DOMAIN hubCall' = HubCaller /\ hubCall'[c] = r
  BY DEF Set, RowsAndCallsAreGood
<1>2. \A d \in HubCaller : d # c => hubCall'[d] = hubCall[d]
  BY DEF Set, RowsAndCallsAreGood
<1>3. CallIsGood(c)'
  BY <1>1, GoodStays DEF CallIsGood, Good
<1>4. ASSUME NEW d \in HubCaller, d # c PROVE CallIsGood(d)'
  BY <1>4, <1>2 DEF CallIsGood, Good, RowsAndCallsAreGood
<1> QED BY <1>1, <1>3, <1>4

\* One row is written, with the truth.
LEMMA OneRowIsWritten ==
  ASSUME RowsAndCallsAreGood, NEW n \in RemoteNode, NEW row, Good(n, row),
         nodeRow' = [nodeRow EXCEPT ![n] = row], UNCHANGED nodeKey
  PROVE  /\ nodeRow' \in [RemoteNode -> Row \cup {Fresh, Gone}]
         /\ \A m \in RemoteNode : Registered(m)' => Good(m, nodeRow[m])'
<1>1. row \in Row
  BY DEF Good
<1>2. nodeRow' \in [RemoteNode -> Row \cup {Fresh, Gone}]
  BY <1>1 DEF RowsAndCallsAreGood
<1>3. \A m \in RemoteNode : m # n => nodeRow'[m] = nodeRow[m]
  BY DEF RowsAndCallsAreGood
<1>4. nodeRow'[n] = row
  BY DEF RowsAndCallsAreGood
<1> QED BY <1>2, <1>3, <1>4 DEF RowsAndCallsAreGood, Registered, Good

\* No row is written.
LEMMA RowsStay ==
  ASSUME RowsAndCallsAreGood, UNCHANGED <<nodeRow, nodeKey>>
  PROVE  /\ nodeRow' \in [RemoteNode -> Row \cup {Fresh, Gone}]
         /\ \A m \in RemoteNode : Registered(m)' => Good(m, nodeRow[m])'
BY DEF RowsAndCallsAreGood, Registered, Good

-----------------------------------------------------------------------------
LEMMA ClusterInitGood == ClusterInit => RowsAndCallsAreGood
<1> SUFFICES ASSUME ClusterInit PROVE RowsAndCallsAreGood
  OBVIOUS
<1>1. [sealed |-> 0, scope |-> "read"] \in Row
  BY DEF Row, Scope
<1>2. nodeRow \in [RemoteNode -> Row \cup {Fresh, Gone}] /\ nodeKey \in [RemoteNode -> Scope]
  BY <1>1 DEF ClusterInit
<1>3. \A n \in RemoteNode : Registered(n) => Good(n, nodeRow[n])
  BY <1>1 DEF ClusterInit, Registered, Good
<1>4. NoCall.at = "idle"
  BY DEF NoCall
<1>5. DOMAIN hubCall = HubCaller /\ \A c \in HubCaller : CallIsGood(c)
  BY <1>4 DEF ClusterInit, CallIsGood
<1> QED BY <1>2, <1>3, <1>5 DEF RowsAndCallsAreGood

\* Registering a host: no request refers to the node whose key is replaced.
LEMMA CreateKeepsGood ==
  ASSUME RowsAndCallsAreGood, NEW c \in HubCaller, NEW n \in RemoteNode, CreateNode(c, n)
  PROVE  RowsAndCallsAreGood'
<1> DEFINE row == [sealed |-> 1, scope |-> "read"]
           call == LoadedCall(n, "test", row)
<1>1. row \in Row /\ row.sealed = 1 /\ row.scope = "read"
  BY DEF Row, Scope
<1>2. Good(n, row)'
  BY <1>1 DEF Good
<1> HIDE DEF row
<1>3. nodeRow' = [nodeRow EXCEPT ![n] = row] /\ hubCall' = [hubCall EXCEPT ![c] = call]
  BY DEF CreateNode, Set, row
<1>4. nodeRow' \in [RemoteNode -> Row \cup {Fresh, Gone}] /\ nodeKey' \in [RemoteNode -> Scope]
  BY <1>1, <1>3 DEF CreateNode, RowsAndCallsAreGood
<1>5. \A m \in RemoteNode : m # n => nodeRow'[m] = nodeRow[m] /\ nodeKey'[m] = nodeKey[m]
  BY <1>3 DEF CreateNode, RowsAndCallsAreGood
<1>6. ASSUME NEW m \in RemoteNode, Registered(m)' PROVE Good(m, nodeRow[m])'
  <2>1. CASE m = n
    BY <2>1, <1>2, <1>3 DEF RowsAndCallsAreGood, Good
  <2>2. CASE m # n
    BY <2>2, <1>5, <1>6 DEF RowsAndCallsAreGood, Registered, Good
  <2> QED BY <2>1, <2>2
<1>7. ASSUME NEW d \in HubCaller PROVE CallIsGood(d)'
  <2>1. CASE d = c
    <3>1. hubCall'[d] = call
      BY <2>1, <1>3 DEF RowsAndCallsAreGood
    <3>2. call.at = "loaded" /\ call.node = n /\ call.row = row
      BY DEF LoadedCall
    <3> HIDE DEF call
    <3> QED BY <3>1, <3>2, <1>2 DEF CallIsGood, Good
  <2>2. CASE d # c
    <3>1. hubCall'[d] = hubCall[d]
      BY <2>2, <1>3 DEF RowsAndCallsAreGood
    <3>2. hubCall[d].at # "idle" => hubCall[d].node # n
      BY DEF CreateNode, Unused
    <3> QED BY <3>1, <3>2, <1>5 DEF RowsAndCallsAreGood, CallIsGood, Good
  <2> QED BY <2>1, <2>2
<1>8. DOMAIN hubCall' = HubCaller
  BY <1>3 DEF RowsAndCallsAreGood
<1> QED BY <1>4, <1>6, <1>7, <1>8 DEF RowsAndCallsAreGood

LEMMA LoadKeepsGood ==
  ASSUME RowsAndCallsAreGood, NEW c \in HubCaller, NEW n \in RemoteNode, NEW op, Load(c, n, op)
  PROVE  RowsAndCallsAreGood'
<1> DEFINE call == LoadedCall(n, op, nodeRow[n])
<1>1. call.at = "loaded" /\ call.node = n /\ call.row = nodeRow[n]
  BY DEF LoadedCall
<1>2. Good(n, nodeRow[n]) /\ Set(c, call) /\ UNCHANGED <<nodeRow, nodeKey>>
  BY DEF Load, RowsAndCallsAreGood
<1> HIDE DEF call
<1>3. DOMAIN hubCall' = HubCaller /\ \A d \in HubCaller : CallIsGood(d)'
  BY <1>1, <1>2, OneCallMoves
<1> QED BY <1>2, <1>3, RowsStay DEF RowsAndCallsAreGood

\* A request that finds a credential in the clear writes the row it read, sealed.
LEMMA KeyKeepsGood ==
  ASSUME RowsAndCallsAreGood, NEW c \in HubCaller, GetPlainApiKey(c)
  PROVE  RowsAndCallsAreGood'
<1> DEFINE call == [at |-> "waiting", node |-> hubCall[c].node, op |-> hubCall[c].op,
                    remote |-> "asked"]
           n == hubCall[c].node
           sealed == [hubCall[c].row EXCEPT !.sealed = 1]
<1>1. n \in RemoteNode /\ Good(n, hubCall[c].row)
  BY DEF GetPlainApiKey, RowsAndCallsAreGood, CallIsGood
<1>2. call.at = "waiting" /\ call.node = n
  OBVIOUS
<1>3. Set(c, call) /\ UNCHANGED nodeKey
  BY DEF GetPlainApiKey, Send
<1> HIDE DEF call
<1>4. DOMAIN hubCall' = HubCaller /\ \A d \in HubCaller : CallIsGood(d)'
  BY <1>1, <1>2, <1>3, OneCallMoves
<1>5. Good(n, sealed)
  BY <1>1 DEF Good, Row
<1>6. CASE hubCall[c].row.sealed = 0
  <2>1. nodeRow' = [nodeRow EXCEPT ![n] = sealed]
    BY <1>6 DEF GetPlainApiKey
  <2> HIDE DEF sealed, n
  <2> QED BY <1>1, <1>3, <1>4, <1>5, <2>1, OneRowIsWritten DEF RowsAndCallsAreGood
<1>7. CASE hubCall[c].row.sealed # 0
  BY <1>7, <1>3, <1>4, RowsStay DEF GetPlainApiKey, RowsAndCallsAreGood
<1> QED BY <1>6, <1>7

\* A test that is answered takes the scope of the answer into a row it reads anew ...
LEMMA TestKeepsGood ==
  ASSUME RowsAndCallsAreGood, NEW c \in HubCaller, TestAnswered(c)
  PROVE  RowsAndCallsAreGood'
<1> DEFINE n == hubCall[c].node
<1>1. n \in RemoteNode /\ UNCHANGED <<nodeRow, nodeKey>>
  BY DEF TestAnswered, RowsAndCallsAreGood, CallIsGood
<1>2. CASE hubCall[c].remote = "done" /\ Registered(n)
  <2>1. PICK s \in ReportedScope(n) :
          Set(c, [at |-> "saving", node |-> n, op |-> "test",
                  row |-> [nodeRow[n] EXCEPT !.scope = s]])
    BY <1>2 DEF TestAnswered
  <2> DEFINE row == [nodeRow[n] EXCEPT !.scope = s]
             call == [at |-> "saving", node |-> n, op |-> "test", row |-> row]
  <2>2. Good(n, nodeRow[n]) /\ nodeKey[n] \in Scope
    BY <1>1, <1>2 DEF RowsAndCallsAreGood
  <2>3. s = nodeKey[n] \/ s = "read"
    BY <2>1 DEF ReportedScope
  <2>4. s \in Scope
    BY <2>2, <2>3 DEF Scope
  <2>5. Good(n, row)
    <3>1. row \in Row /\ row.sealed = nodeRow[n].sealed /\ row.scope = s
      BY <2>2, <2>4 DEF Good, Row
    <3> QED BY <3>1, <2>2, <2>3 DEF Good
  <2>6. call.at = "saving" /\ call.node = n /\ call.row = row /\ Set(c, call)
    BY <2>1
  <2> HIDE DEF row, call, n
  <2>7. DOMAIN hubCall' = HubCaller /\ \A d \in HubCaller : CallIsGood(d)'
    BY <1>1, <2>5, <2>6, OneCallMoves
  <2> QED BY <1>1, <2>7, RowsStay DEF RowsAndCallsAreGood
<1>3. CASE ~(hubCall[c].remote = "done" /\ Registered(n))
  <2> DEFINE call == [at |-> "told", node |-> n, op |-> hubCall[c].op,
                      remote |-> hubCall[c].remote, answer |-> "error"]
  <2>1. Set(c, call)
    BY <1>3 DEF TestAnswered, Told
  <2>2. call.at = "told" /\ call.node = n
    OBVIOUS
  <2> HIDE DEF call, n
  <2>3. DOMAIN hubCall' = HubCaller /\ \A d \in HubCaller : CallIsGood(d)'
    BY <1>1, <2>1, <2>2, OneCallMoves
  <2> QED BY <1>1, <2>3, RowsStay DEF RowsAndCallsAreGood
<1> QED BY <1>2, <1>3

\* ... and setScope saves that row.
LEMMA SetScopeKeepsGood ==
  ASSUME RowsAndCallsAreGood, NEW c \in HubCaller, SetScope(c)
  PROVE  RowsAndCallsAreGood'
<1>1. hubCall[c].node \in RemoteNode /\ Good(hubCall[c].node, hubCall[c].row)
  BY DEF SetScope, RowsAndCallsAreGood, CallIsGood
<1>2. Set(c, NoCall) /\ NoCall.at = "idle" /\ UNCHANGED nodeKey
  BY DEF SetScope, NoCall
<1>3. DOMAIN hubCall' = HubCaller /\ \A d \in HubCaller : CallIsGood(d)'
  BY <1>2, OneCallMoves
<1>4. nodeRow' = [nodeRow EXCEPT ![hubCall[c].node] = hubCall[c].row]
  BY DEF SetScope
<1> QED BY <1>1, <1>2, <1>3, <1>4, OneRowIsWritten DEF RowsAndCallsAreGood

\* The steps in which a request holds no row afterwards, or the one it held.
LEMMA AnswerKeepsGood ==
  ASSUME RowsAndCallsAreGood, NEW c \in HubCaller,
         ClusterKeyGuard(c) \/ RemoteActs(c) \/ CommandAnswered(c) \/ FetchTimesOut(c) \/ EndCall(c)
  PROVE  RowsAndCallsAreGood'
<1>1. UNCHANGED <<nodeRow, nodeKey>> /\ DOMAIN hubCall' = HubCaller
  BY DEF ClusterKeyGuard, RemoteActs, CommandAnswered, FetchTimesOut, EndCall, Remote, Told,
         Set, RowsAndCallsAreGood
<1>2. \A d \in HubCaller : d # c => hubCall'[d] = hubCall[d]
  BY DEF ClusterKeyGuard, RemoteActs, CommandAnswered, FetchTimesOut, EndCall, Remote, Told,
         Set, RowsAndCallsAreGood
<1>3. CallIsGood(c)'
  <2>1. CASE ClusterKeyGuard(c) \/ RemoteActs(c)
    <3>1. PICK step : hubCall' = [hubCall EXCEPT ![c].remote = step]
      BY <2>1 DEF ClusterKeyGuard, RemoteActs, Remote
    <3>2. hubCall[c].at \in {"waiting", "told"} /\ hubCall[c].node \in RemoteNode
      BY <2>1 DEF ClusterKeyGuard, RemoteActs, Asked, RowsAndCallsAreGood, CallIsGood
    <3>3. hubCall'[c].at = hubCall[c].at /\ hubCall'[c].node = hubCall[c].node
      BY <3>1 DEF RowsAndCallsAreGood
    <3> QED BY <3>2, <3>3 DEF CallIsGood
  <2>2. CASE CommandAnswered(c) \/ FetchTimesOut(c)
    <3>1. hubCall[c].at = "waiting" /\ hubCall[c].node \in RemoteNode
      BY <2>2 DEF CommandAnswered, FetchTimesOut, RowsAndCallsAreGood, CallIsGood
    <3>2. hubCall'[c].at = "told" /\ hubCall'[c].node = hubCall[c].node
      BY <2>2 DEF CommandAnswered, FetchTimesOut, Told, Set, RowsAndCallsAreGood
    <3> QED BY <3>1, <3>2 DEF CallIsGood
  <2>3. CASE EndCall(c)
    BY <2>3 DEF EndCall, Set, NoCall, CallIsGood, RowsAndCallsAreGood
  <2> QED BY <2>1, <2>2, <2>3
<1>4. \A d \in HubCaller : CallIsGood(d)'
  BY <1>1, <1>2, <1>3 DEF CallIsGood, Good, RowsAndCallsAreGood
<1> QED BY <1>1, <1>4, RowsStay DEF RowsAndCallsAreGood

LEMMA RemoveKeepsGood ==
  ASSUME RowsAndCallsAreGood, NEW n \in RemoteNode, RemoveNode(n) \/ RemoveKey(n)
  PROVE  RowsAndCallsAreGood'
<1>1. UNCHANGED <<nodeKey, hubCall>>
  BY DEF RemoveNode, RemoveKey
<1>2. nodeRow' \in [RemoteNode -> Row \cup {Fresh, Gone}]
  BY DEF RemoveNode, RemoveKey, RowsAndCallsAreGood
<1>3. \A m \in RemoteNode : nodeRow'[m] = nodeRow[m] \/ nodeRow'[m] = Gone
  BY DEF RemoveNode, RemoveKey, RowsAndCallsAreGood
<1> QED BY <1>1, <1>2, <1>3 DEF RowsAndCallsAreGood, CallIsGood, Good, Registered

LEMMA ClusterStepGood ==
  RowsAndCallsAreGood /\ [ClusterNext]_clusterVars => RowsAndCallsAreGood'
<1> SUFFICES ASSUME RowsAndCallsAreGood, [ClusterNext]_clusterVars
             PROVE  RowsAndCallsAreGood'
  OBVIOUS
<1>1. ASSUME NEW n \in RemoteNode, RemoveNode(n) \/ RemoveKey(n) PROVE RowsAndCallsAreGood'
  BY <1>1, RemoveKeepsGood
<1>2. ASSUME NEW c \in HubCaller, NEW n \in RemoteNode, CreateNode(c, n) PROVE RowsAndCallsAreGood'
  BY <1>2, CreateKeepsGood
<1>3. ASSUME NEW c \in HubCaller, NEW n \in RemoteNode, NEW op \in Command \cup {"test"}, Load(c, n, op)
      PROVE  RowsAndCallsAreGood'
  BY <1>3, LoadKeepsGood
<1>4. ASSUME NEW c \in HubCaller, GetPlainApiKey(c) \/ TestAnswered(c) \/ SetScope(c)
      PROVE  RowsAndCallsAreGood'
  BY <1>4, KeyKeepsGood, TestKeepsGood, SetScopeKeepsGood
<1>5. ASSUME NEW c \in HubCaller, ClusterKeyGuard(c) \/ RemoteActs(c) \/ CommandAnswered(c)
                                    \/ FetchTimesOut(c) \/ EndCall(c)
      PROVE  RowsAndCallsAreGood'
  BY <1>5, AnswerKeepsGood
<1>6. ASSUME UNCHANGED clusterVars PROVE RowsAndCallsAreGood'
  BY <1>6 DEF clusterVars, RowsAndCallsAreGood, CallIsGood, Good, Registered
<1> QED BY <1>1, <1>2, <1>3, <1>4, <1>5, <1>6 DEF ClusterNext

\* The row of every registered node decrypts to the key it was registered with and grants
\* no more than that key, whatever saves of rows read before a request to another host
\* cross each other (getPlainApiKey, testRemoteNode and setScope).
THEOREM RowsAreTrue == ClusterSpec => []NodeRowsAreTrue
<1>1. RowsAndCallsAreGood => NodeRowsAreTrue
  BY DEF RowsAndCallsAreGood, Good, NodeRowsAreTrue, CredentialIsUsable, ScopeIsTheKeys
<1> QED BY ClusterInitGood, ClusterStepGood, <1>1, PTL DEF ClusterSpec

-----------------------------------------------------------------------------
(* The comment and the links of ClickUp (Notifications)                    *)

FlowState == [op : FlowOp, pc : {"idle", "lookup", "post", "save"},
              ref : Task \cup {NoTask}, tried : SUBSET Team, row : PreviewRow]

\* What a request at work knows of the row: nobody has changed link or comment
\* since it read them; a comment is asked for of a preview without one and
\* without a manual link, and a refresh keeps to the linked task.
FlowFits(f) ==
  /\ flow[f].op = "none" <=> flow[f].pc = "idle"
  /\ flow[f].pc = "post" => flow[f].op = "comment"
  /\ flow[f].op # "none" =>
       /\ flow[f].row.manual = preview.manual /\ flow[f].row.task = preview.task
       /\ flow[f].row.commented = preview.commented
  /\ flow[f].op = "comment" => flow[f].row.manual = FALSE /\ flow[f].row.commented = FALSE
  /\ flow[f].op = "refresh" /\ flow[f].row.manual = TRUE => flow[f].ref = flow[f].row.task

\* Requests that do not overlap: one at most is at work, and there is one comment
\* more than were lost exactly when one is noted or about to be.  CommentedOnce alone
\* is not inductive: it does not say that a request about to comment follows no
\* comment but lost ones.
OneFlowAtWork ==
  \A f, g \in Flow : flow[f].op # "none" /\ flow[g].op # "none" => f = g
CommentNoted ==
  /\ comments \in Nat /\ lost \in Nat /\ comments \in {lost, lost + 1}
  /\ comments = lost + 1 <=>
       \/ preview.commented = TRUE
       \/ \E f \in Flow : flow[f].op = "comment" /\ flow[f].pc = "save"

NotifyInv ==
  /\ preview \in PreviewRow /\ flow \in [Flow -> FlowState]
  /\ OneFlowAtWork /\ CommentNoted
  /\ \A f \in Flow : FlowFits(f)

LEMMA NotifyShapes == IdleFlow \in FlowState /\ IdlePreview \in PreviewRow
BY DEF IdleFlow, FlowState, IdlePreview, PreviewRow, FlowOp

LEMMA NotifyInitInv == NotifyInit => NotifyInv
<1> SUFFICES ASSUME NotifyInit PROVE NotifyInv
  OBVIOUS
<1>1. /\ preview \in PreviewRow /\ flow \in [Flow -> FlowState] /\ comments = 0 /\ lost = 0
      /\ preview.commented = FALSE
      /\ \A f \in Flow : flow[f].op = "none" /\ flow[f].pc = "idle"
  BY NotifyShapes DEF NotifyInit, IdleFlow, IdlePreview
<1> QED BY <1>1 DEF NotifyInv, OneFlowAtWork, CommentNoted, FlowFits

\* A request that begins, alone, with the row as it is.
LEMMA LookupInv ==
  ASSUME NotifyInv, ~Overlapping, NEW f \in Flow, MayBegin(f),
         NEW op \in FlowOp \ {"none"}, NEW ref \in Task \cup {NoTask},
         preview' \in PreviewRow, preview'.task = preview.task,
         preview'.manual = preview.manual, preview'.commented = preview.commented,
         comments' = comments, lost' = lost, Lookup(f, op, ref, preview'),
         op = "comment" => preview'.manual = FALSE /\ preview'.commented = FALSE,
         op = "refresh" /\ preview'.manual = TRUE => ref = preview'.task
  PROVE  NotifyInv'
<1>0. flow \in [Flow -> FlowState] /\ \A g \in Flow : flow[g].op = "none" /\ FlowFits(g)
  BY DEF NotifyInv, MayBegin, RowIsFree
<1>1. /\ flow' \in [Flow -> FlowState]
      /\ \A g \in Flow \ {f} : flow'[g] = flow[g]
      /\ flow'[f].op = op /\ flow'[f].pc = "lookup" /\ flow'[f].ref = ref
      /\ flow'[f].row = preview'
  BY <1>0 DEF Lookup, FlowState
<1>2. OneFlowAtWork'
  BY <1>0, <1>1 DEF OneFlowAtWork
<1>3. CommentNoted'
  BY <1>0, <1>1 DEF NotifyInv, CommentNoted
<1>4. ASSUME NEW g \in Flow PROVE FlowFits(g)'
  BY <1>0, <1>1 DEF FlowFits
<1> QED BY <1>1, <1>2, <1>3, <1>4 DEF NotifyInv

\* Changes of the row that leave link and comment alone, or come while no request
\* is at work.
LEMMA RowChangeInv ==
  ASSUME NotifyInv, preview' \in PreviewRow, flow' = flow,
         \/ /\ preview'.task = preview.task /\ preview'.manual = preview.manual
            /\ preview'.commented = preview.commented
            /\ comments' = comments /\ lost' = lost
         \/ /\ \A f \in Flow : flow[f].op = "none"
            /\ \/ comments' = comments /\ lost' = lost /\ preview'.commented = preview.commented
               \/ comments' = 0 /\ lost' = 0 /\ preview'.commented = FALSE
  PROVE  NotifyInv'
<1>1. ASSUME NEW f \in Flow PROVE FlowFits(f)'
  BY DEF NotifyInv, FlowFits
<1>2. CommentNoted'
  BY DEF NotifyInv, CommentNoted
<1> QED BY <1>1, <1>2 DEF NotifyInv, OneFlowAtWork

LEMMA NextOrSame ==
  ASSUME NEW n \in Nat, NEW m \in {n, n + 1}
  PROVE  m \in Nat
OBVIOUS

\* A request that moves on, or ends without a save; a comment it leaves behind is lost.
LEMMA FlowMoveInv ==
  ASSUME NotifyInv, NEW f \in Flow, flow[f].op # "none", preview' = preview,
         NEW new \in FlowState, flow' = [flow EXCEPT ![f] = new],
         \/ new = IdleFlow
         \/ /\ new.op = flow[f].op /\ new.ref = flow[f].ref /\ new.row = flow[f].row
            /\ new.pc \in {"lookup", "post", "save"}
            /\ new.pc = "post" => new.op = "comment",
         \/ /\ flow[f].pc # "save" /\ (new.op = "comment" => new.pc # "save")
            /\ comments' = comments /\ lost' = lost
         \/ flow[f].pc = "post" /\ new.pc = "save" /\ comments' = comments + 1 /\ lost' = lost
         \/ /\ flow[f].pc = "post" /\ new = IdleFlow
            /\ comments' = comments + 1 /\ lost' = lost + 1
         \/ /\ flow[f].pc = "save" /\ new = IdleFlow /\ comments' = comments
            /\ lost' = IF flow[f].op = "comment" THEN lost + 1 ELSE lost
  PROVE  NotifyInv'
<1>0. /\ flow \in [Flow -> FlowState] /\ FlowFits(f)
      /\ \A g \in Flow \ {f} : flow[g].op = "none" /\ FlowFits(g)
      /\ comments \in Nat /\ lost \in Nat /\ comments \in {lost, lost + 1} /\ preview \in PreviewRow
  BY DEF NotifyInv, OneFlowAtWork, CommentNoted
<1>1. /\ flow' \in [Flow -> FlowState] /\ flow'[f] = new
      /\ \A g \in Flow \ {f} : flow'[g] = flow[g]
  BY <1>0
<1>2. OneFlowAtWork'
  BY <1>0, <1>1 DEF OneFlowAtWork
<1>3. ASSUME NEW g \in Flow PROVE FlowFits(g)'
  BY <1>0, <1>1 DEF FlowFits, IdleFlow
<1>4. CommentNoted'
  <2> DEFINE Noted == preview.commented = TRUE
             Pending == flow[f].op = "comment" /\ flow[f].pc = "save"
  <2>0. comments = lost + 1 <=> Noted \/ Pending
    BY <1>0 DEF NotifyInv, CommentNoted
  <2>1. flow[f].op = "comment" => ~Noted
    BY <1>0 DEF FlowFits
  <2>2. (\E g \in Flow : flow'[g].op = "comment" /\ flow'[g].pc = "save")
          <=> (new.op = "comment" /\ new.pc = "save")
    BY <1>0, <1>1
  <2>3. SUFFICES /\ comments' \in {lost', lost' + 1} /\ lost' \in Nat
                 /\ comments' = lost' + 1 <=> Noted \/ (new.op = "comment" /\ new.pc = "save")
    <3>1. ASSUME comments' \in {lost', lost' + 1}, lost' \in Nat PROVE comments' \in Nat
      BY <3>1, NextOrSame
    <3>2. (preview.commented = TRUE)' <=> Noted
      OBVIOUS
    <3> QED BY <2>2, <3>1, <3>2 DEF CommentNoted
  <2>4. IdleFlow.op = "none"
    BY DEF IdleFlow
  <2>5. CASE /\ flow[f].pc # "save" /\ (new.op = "comment" => new.pc # "save")
             /\ comments' = comments /\ lost' = lost
    BY <1>0, <2>0, <2>5
  <2>6. CASE flow[f].pc = "post"
    <3>1. flow[f].op = "comment" /\ ~Noted /\ ~Pending
      BY <1>0, <2>1, <2>6 DEF FlowFits
    <3>2. comments = lost
      BY <1>0, <2>0, <3>1
    <3>3. CASE new.pc = "save" /\ comments' = comments + 1 /\ lost' = lost
      <4>1. new.op = "comment"
        BY <3>1, <3>3 DEF IdleFlow
      <4> QED BY <1>0, <3>2, <3>3, <4>1
    <3>4. CASE new = IdleFlow /\ comments' = comments + 1 /\ lost' = lost + 1
      BY <1>0, <2>4, <3>1, <3>2, <3>4
    <3> QED BY <2>5, <2>6, <3>3, <3>4
  <2>7. CASE /\ flow[f].pc = "save" /\ new = IdleFlow /\ comments' = comments
             /\ lost' = IF flow[f].op = "comment" THEN lost + 1 ELSE lost
    <3>1. CASE flow[f].op = "comment"
      <4>1. comments = lost + 1 /\ lost' = lost + 1 /\ ~Noted
        BY <2>0, <2>1, <2>7, <3>1
      <4> QED BY <1>0, <2>4, <2>7, <4>1
    <3>2. CASE flow[f].op # "comment"
      BY <1>0, <2>0, <2>4, <2>7, <3>2
    <3> QED BY <3>1, <3>2
  <2> QED BY <2>5, <2>6, <2>7
<1> QED BY <1>0, <1>1, <1>2, <1>3, <1>4 DEF NotifyInv

\* The save of a request: the row it read, with its link and its comment.
LEMMA SaveFlowInv ==
  ASSUME NotifyInv, NEW f \in Flow, SaveFlow(f)
  PROVE  NotifyInv'
<1>0. /\ flow \in [Flow -> FlowState] /\ FlowFits(f) /\ flow[f] \in FlowState
      /\ flow[f].pc = "save" /\ flow[f].op # "none"
      /\ comments' = comments /\ lost' = lost
      /\ flow[f].row \in PreviewRow /\ flow[f].ref \in Task \cup {NoTask}
      /\ preview' = Applied(f) /\ flow' = [flow EXCEPT ![f] = IdleFlow]
  BY DEF NotifyInv, FlowState, FlowFits, SaveFlow, EndFlow
<1>1. \A g \in Flow \ {f} : flow[g].op = "none" /\ flow[g].pc = "idle" /\ FlowFits(g)
  BY <1>0 DEF NotifyInv, OneFlowAtWork, FlowFits
<1>2. \A g \in Flow : flow'[g].op = "none" /\ flow'[g].pc = "idle"
  BY <1>0, <1>1 DEF IdleFlow
<1>3. flow' \in [Flow -> FlowState]
  BY <1>0, NotifyShapes
<1>4. /\ preview' \in PreviewRow
      /\ preview'.commented = (flow[f].row.commented \/ flow[f].op = "comment")
  BY <1>0 DEF Applied, PreviewRow
<1>5. CommentNoted'
  <2>1. flow[f].row.commented = preview.commented
    BY <1>0 DEF FlowFits
  <2>2. comments = lost + 1 <=> preview.commented = TRUE \/ flow[f].op = "comment"
    BY <1>0, <1>1 DEF NotifyInv, CommentNoted
  <2>3. preview.commented \in BOOLEAN
    BY DEF NotifyInv, PreviewRow
  <2>4. comments = lost + 1 <=> preview'.commented = TRUE
    BY <1>4, <2>1, <2>2, <2>3
  <2> QED BY <1>0, <1>2, <2>4 DEF NotifyInv, CommentNoted
<1>6. OneFlowAtWork' /\ \A g \in Flow : FlowFits(g)'
  BY <1>2 DEF OneFlowAtWork, FlowFits
<1> QED BY <1>3, <1>4, <1>5, <1>6 DEF NotifyInv

\* A stop of the API loses the comment of the flow that was about to note it.
LEMMA ApiStopsInv ==
  ASSUME NotifyInv, ApiStops
  PROVE  NotifyInv'
<1>0. /\ flow' = [f \in Flow |-> IdleFlow] /\ preview' = preview /\ comments' = comments
      /\ lost' = lost + Cardinality(Unnoted) /\ preview \in PreviewRow
      /\ lost \in Nat /\ comments \in Nat
  BY DEF ApiStops, NotifyInv, CommentNoted
<1>1. flow' \in [Flow -> FlowState] /\ \A f \in Flow : flow'[f].op = "none" /\ flow'[f].pc = "idle"
  BY <1>0, NotifyShapes DEF IdleFlow
<1>2. OneFlowAtWork' /\ \A f \in Flow : FlowFits(f)'
  BY <1>1 DEF OneFlowAtWork, FlowFits
<1>3. CommentNoted'
  <2>1. CASE Unnoted = {}
    <3>1. Cardinality(Unnoted) = 0
      BY <2>1, FS_EmptySet
    <3>2. comments = lost + 1 <=> preview.commented = TRUE
      BY <2>1 DEF NotifyInv, CommentNoted, Unnoted
    <3>3. comments \in {lost, lost + 1} /\ lost' = lost
      BY <1>0, <3>1 DEF NotifyInv, CommentNoted
    <3> QED BY <1>0, <1>1, <3>2, <3>3 DEF CommentNoted
  <2>2. CASE Unnoted # {}
    <3>1. PICK f \in Unnoted : TRUE
      BY <2>2
    <3>2. f \in Flow /\ flow[f].op = "comment" /\ flow[f].pc = "save" /\ FlowFits(f)
      BY <3>1 DEF Unnoted, NotifyInv
    <3>3. Unnoted = {f}
      BY <3>1, <3>2 DEF Unnoted, NotifyInv, OneFlowAtWork
    <3>4. Cardinality(Unnoted) = 1
      BY <3>3, FS_Singleton
    <3>5. comments = lost + 1
      BY <3>2 DEF NotifyInv, CommentNoted
    <3>6. preview.commented # TRUE
      BY <3>2 DEF FlowFits
    <3>7. comments' = lost' /\ comments' # lost' + 1
      BY <1>0, <3>4, <3>5
    <3> QED BY <1>0, <1>1, <3>6, <3>7 DEF CommentNoted
  <2> QED BY <2>1, <2>2
<1> QED BY <1>0, <1>1, <1>2, <1>3 DEF NotifyInv

\* Every step of previews, requests and messages keeps the invariant.
LEMMA NotifyStepInv ==
  ASSUME NotifyInv, ~Overlapping, NotifyNext
  PROVE  NotifyInv'
<1>0. preview \in PreviewRow /\ flow \in [Flow -> FlowState]
  BY DEF NotifyInv
<1>c. \A to \in {"active", "paused", "gone"} : Changes(to) =>
        /\ preview' \in PreviewRow /\ preview'.task = preview.task
        /\ preview'.manual = preview.manual /\ preview'.commented = preview.commented
  BY <1>0 DEF Changes, PreviewRow
<1>1. CASE PausePreview \/ RemovePreview
  BY <1>1, <1>c, RowChangeInv DEF PausePreview, RemovePreview
<1>2. CASE Recreate
  BY <1>2, NotifyShapes, RowChangeInv DEF Recreate, IdlePreview
<1>3. CASE ClearLink
  <2>1. preview' \in PreviewRow /\ preview'.commented = preview.commented
    BY <1>0, <1>3 DEF ClearLink, PreviewRow
  <2> QED BY <1>3, <2>1, RowChangeInv DEF ClearLink, RowIsFree
<1>4. ASSUME NEW s, Tell(s) PROVE NotifyInv'
  BY <1>0, <1>4, RowChangeInv DEF Tell
<1>5. ASSUME NEW f \in Flow, BecomeActive(f) PROVE NotifyInv'
  <2>1. CASE WantsComment(preview')
    <3>1. BranchTask \in Task \cup {NoTask} /\ "comment" \in FlowOp \ {"none"}
      BY NotifyAssumption DEF FlowOp
    <3>2. preview'.manual = FALSE /\ preview'.commented = FALSE
      BY <1>5, <1>c, <2>1 DEF WantsComment, BecomeActive, PreviewRow
    <3> QED BY <1>5, <1>c, <2>1, <3>1, <3>2, LookupInv DEF BecomeActive
  <2>2. CASE ~WantsComment(preview')
    BY <1>5, <1>c, <2>2, RowChangeInv DEF BecomeActive
  <2> QED BY <2>1, <2>2
<1>6. ASSUME NEW f \in Flow,
             LinkFromBranch(f) \/ Refresh(f) \/ \E t \in Task : Link(f, t)
      PROVE  NotifyInv'
  <2>1. {"branchLink", "refresh", "link"} \subseteq FlowOp \ {"none"}
    BY DEF FlowOp
  <2>2. CASE LinkFromBranch(f)
    BY <1>0, <2>1, <2>2, NotifyAssumption, LookupInv DEF LinkFromBranch
  <2>3. ASSUME NEW t \in Task, Link(f, t) PROVE NotifyInv'
    BY <1>0, <2>1, <2>3, LookupInv DEF Link
  <2>4. CASE Refresh(f)
    <3>1. /\ RefreshTarget \in Task \cup {NoTask} /\ RefreshTarget # NoTask
          /\ preview.manual = TRUE => RefreshTarget = preview.task
      BY <1>0, <2>4, NotifyAssumption DEF Refresh, RefreshTarget, PreviewRow
    <3> QED BY <1>0, <2>1, <2>4, <3>1, LookupInv DEF Refresh
  <2> QED BY <1>6, <2>2, <2>3, <2>4
<1>7. ASSUME NEW f \in Flow, NEW w \in Team, AskTeam(f, w) PROVE NotifyInv'
  <2> DEFINE new == [flow[f] EXCEPT !.tried = @ \cup {w},
                       !.pc = IF ~Answers(f, w) THEN "lookup"
                              ELSE IF flow[f].op = "comment" THEN "post" ELSE "save"]
  <2>1. flow[f] \in FlowState /\ FlowFits(f) /\ flow[f].pc = "lookup"
    BY <1>0, <1>7 DEF NotifyInv, AskTeam
  <2>2. /\ new \in FlowState /\ new.op = flow[f].op /\ new.ref = flow[f].ref
        /\ new.row = flow[f].row /\ new.pc \in {"lookup", "post", "save"}
        /\ new.pc = "post" => new.op = "comment"
    BY <2>1 DEF FlowState
  <2>3. flow[f].op # "none"
    BY <2>1 DEF FlowFits
  <2>4. flow' = [flow EXCEPT ![f] = new] /\ preview' = preview
        /\ comments' = comments /\ lost' = lost
    BY <1>0, <1>7 DEF AskTeam
  <2>5. new.op = "comment" => new.pc # "save"
    BY <2>1 DEF FlowState
  <2> HIDE DEF new
  <2> QED BY <2>1, <2>2, <2>3, <2>4, <2>5, FlowMoveInv
<1>8. ASSUME NEW f \in Flow, TaskNotFound(f) PROVE NotifyInv'
  <2>1. flow[f].pc = "lookup" /\ FlowFits(f)
    BY <1>8 DEF TaskNotFound, NotifyInv
  <2> QED BY <1>8, <2>1, NotifyShapes, FlowMoveInv DEF TaskNotFound, EndFlow, FlowFits, IdleFlow
<1>9. ASSUME NEW f \in Flow, Post(f) PROVE NotifyInv'
  <2>1. /\ flow[f] \in FlowState /\ flow[f].pc = "post" /\ FlowFits(f)
        /\ flow[f].op = "comment" /\ preview' = preview
    BY <1>0, <1>9 DEF Post, NotifyInv, FlowFits
  <2>2. CASE comments' = comments + 1 /\ lost' = lost /\ flow' = [flow EXCEPT ![f].pc = "save"]
    <3> DEFINE new == [flow[f] EXCEPT !.pc = "save"]
    <3>1. /\ new \in FlowState /\ new.op = flow[f].op /\ new.ref = flow[f].ref
          /\ new.row = flow[f].row /\ new.pc = "save"
      BY <2>1 DEF FlowState
    <3>2. flow' = [flow EXCEPT ![f] = new]
      BY <1>0, <2>2
    <3> HIDE DEF new
    <3> QED BY <2>1, <2>2, <3>1, <3>2, FlowMoveInv
  <2>3. CASE EndFlow(f) /\ comments' = comments + 1 /\ lost' = lost + 1
    BY <2>1, <2>3, NotifyShapes, FlowMoveInv DEF EndFlow
  <2>4. CASE EndFlow(f) /\ comments' = comments /\ lost' = lost
    BY <2>1, <2>4, NotifyShapes, FlowMoveInv DEF EndFlow, IdleFlow
  <2> QED BY <1>9, <2>2, <2>3, <2>4 DEF Post
<1>10. ASSUME NEW f \in Flow, SaveFails(f) PROVE NotifyInv'
  <2>1. /\ flow[f].pc = "save" /\ FlowFits(f) /\ preview' = preview /\ comments' = comments
        /\ lost' = IF flow[f].op = "comment" THEN lost + 1 ELSE lost
        /\ flow' = [flow EXCEPT ![f] = IdleFlow]
    BY <1>10 DEF SaveFails, Unnoted, EndFlow, NotifyInv
  <2>2. flow[f].op # "none"
    BY <2>1 DEF FlowFits
  <2> QED BY <2>1, <2>2, NotifyShapes, FlowMoveInv
<1>11. CASE ApiStops
  BY <1>11, ApiStopsInv
<1> QED BY <1>1, <1>2, <1>3, <1>4, <1>5, <1>6, <1>7, <1>8, <1>9, <1>10, <1>11, SaveFlowInv DEF NotifyNext

\* NotifyInv holds of every state where requests do not overlap.
LEMMA NotifyInvariant ==
  ASSUME ~Overlapping
  PROVE  NotifySpec => []NotifyInv
<1>1. NotifyInv /\ [NotifyNext]_notifyVars => NotifyInv'
  <2>1. NotifyInv /\ UNCHANGED notifyVars => NotifyInv'
    BY DEF NotifyInv, notifyVars, OneFlowAtWork, CommentNoted, FlowFits
  <2> QED BY <2>1, NotifyStepInv
<1> QED BY <1>1, NotifyInitInv, PTL DEF NotifySpec

\* The task of a branch is commented on again only for each comment whose answer or
\* note was lost, to a network, a database or a stop of the API, however often the
\* preview sleeps and wakes and is linked, cleared, refreshed and removed
\* (clickupCommentedAt), as the property says of requests that do not overlap.
THEOREM CommentsOnce == NotifySpec => []CommentedOnce
<1>1. CASE Overlapping
  <2>1. CommentedOnce
    BY <1>1 DEF CommentedOnce
  <2> QED BY <2>1, PTL
<1>2. CASE ~Overlapping
  <2>1. NotifyInv => CommentedOnce
    BY DEF NotifyInv, CommentNoted, CommentedOnce
  <2>2. NotifySpec => []NotifyInv
    BY <1>2, NotifyInvariant
  <2> QED BY <2>1, <2>2, PTL
<1> QED BY <1>1, <1>2

\* A link set by hand stands until somebody clears or replaces it: what a comment
\* and a refresh save is the row with the link it has.
THEOREM ManualLinksStand == NotifySpec => ManualLinkStands
<1>1. NotifyInv /\ [NotifyNext]_notifyVars =>
        [preview.manual /\ ~Overlapping
           => \/ preview'.manual /\ preview'.task = preview.task
              \/ ~preview'.manual
                   /\ (preview'.task = NoTask \/ \E f \in Flow : flow[f].op = "branchLink")
              \/ \E f \in Flow : flow[f].op = "link"]_notifyVars
  <2> SUFFICES ASSUME NotifyInv, NotifyNext, preview.manual, ~Overlapping
               PROVE  \/ preview'.manual /\ preview'.task = preview.task
                      \/ ~preview'.manual
                           /\ (preview'.task = NoTask \/ \E f \in Flow : flow[f].op = "branchLink")
                      \/ \E f \in Flow : flow[f].op = "link"
    OBVIOUS
  <2>0. preview \in PreviewRow /\ flow \in [Flow -> FlowState]
    BY DEF NotifyInv
  <2>1. CASE preview'.manual = preview.manual /\ preview'.task = preview.task
    BY <2>1
  <2>2. CASE Recreate \/ ClearLink
    <3>1. preview'.manual = FALSE /\ preview'.task = NoTask
      <4>1. CASE Recreate
        BY <4>1 DEF Recreate, IdlePreview
      <4>2. CASE ClearLink
        <5>1. preview' = [preview EXCEPT !.task = NoTask, !.manual = FALSE]
          BY <4>2 DEF ClearLink
        <5> QED BY <2>0, <5>1 DEF PreviewRow
      <4> QED BY <2>2, <4>1, <4>2
    <3> QED BY <3>1
  <2>3. ASSUME NEW f \in Flow, SaveFlow(f)
        PROVE  \/ preview'.manual /\ preview'.task = preview.task
               \/ ~preview'.manual
                    /\ (preview'.task = NoTask \/ \E g \in Flow : flow[g].op = "branchLink")
               \/ \E g \in Flow : flow[g].op = "link"
    <3>1. /\ FlowFits(f) /\ flow[f].op \in FlowOp /\ flow[f].row \in PreviewRow
          /\ flow[f].pc = "save" /\ preview' = Applied(f)
      BY <2>0, <2>3 DEF NotifyInv, SaveFlow, FlowState
    <3>2. flow[f].op # "none" /\ flow[f].row.manual = TRUE /\ flow[f].row.task = preview.task
      BY <2>0, <3>1 DEF FlowFits, PreviewRow
    <3>3. flow[f].op # "comment"
      BY <3>1, <3>2 DEF FlowFits
    <3>4. CASE flow[f].op = "refresh"
      <4>1. preview'.manual = TRUE /\ preview'.task = flow[f].ref
        BY <3>1, <3>2, <3>4 DEF Applied, PreviewRow
      <4> QED BY <3>1, <3>2, <3>4, <4>1 DEF FlowFits
    <3>5. CASE flow[f].op = "branchLink"
      <4>1. preview'.manual = FALSE
        BY <3>1, <3>5 DEF Applied, PreviewRow
      <4> QED BY <3>5, <4>1
    <3> QED BY <3>1, <3>2, <3>3, <3>4, <3>5 DEF FlowOp
  <2>4. CASE PausePreview \/ RemovePreview \/ \E f \in Flow : BecomeActive(f)
    BY <2>0, <2>1, <2>4 DEF PausePreview, RemovePreview, BecomeActive, Changes, PreviewRow
  <2>5. CASE \/ \E s \in {"active", "paused", "gone"} : Tell(s)
             \/ \E f \in Flow : \/ LinkFromBranch(f) \/ Refresh(f)
                                \/ \E t \in Task : Link(f, t)
                                \/ \E w \in Team : AskTeam(f, w)
                                \/ TaskNotFound(f) \/ Post(f)
             \/ ApiStops \/ \E f \in Flow : SaveFails(f)
    BY <2>1, <2>5 DEF Tell, LinkFromBranch, Refresh, Link, AskTeam, TaskNotFound, Post, ApiStops,
                      SaveFails
  <2> QED BY <2>2, <2>3, <2>4, <2>5 DEF NotifyNext
<1>2. CASE Overlapping
  <2>1. [NotifyNext]_notifyVars =>
          [preview.manual /\ ~Overlapping
             => \/ preview'.manual /\ preview'.task = preview.task
                \/ ~preview'.manual
                     /\ (preview'.task = NoTask \/ \E f \in Flow : flow[f].op = "branchLink")
                \/ \E f \in Flow : flow[f].op = "link"]_notifyVars
    BY <1>2
  <2> QED BY <2>1, PTL DEF NotifySpec, ManualLinkStands
<1>3. CASE ~Overlapping
  <2>1. NotifySpec => []NotifyInv
    BY <1>3, NotifyInvariant
  <2> QED BY <1>1, <2>1, PTL DEF NotifySpec, ManualLinkStands
<1> QED BY <1>2, <1>3

-----------------------------------------------------------------------------
(* The limit of branches hosted on Amplify (Amplify)                       *)

\* A finite set of numbers has a least and a greatest one.
LEMMA Extremes ==
  ASSUME NEW S, IsFiniteSet(S), S \subseteq Nat, S # {}
  PROVE  \E lo, hi \in S : \A x \in S : lo <= x /\ x <= hi
<1> DEFINE Has(U) == \E lo, hi \in U : \A x \in U : lo <= x /\ x <= hi
           Without1 == {U \in SUBSET S : U # {} /\ ~Has(U)}
<1>1. IsWellFoundedOn(StrictSubsetOrdering(S), SUBSET S)
  BY FS_StrictSubsetOrderingWellFounded, FS_FiniteSubsetsOfFinite
<1>2. SUFFICES ASSUME Without1 # {} PROVE FALSE
  OBVIOUS
<1>3. PICK U \in Without1 : \A V \in Without1 : <<V, U>> \notin StrictSubsetOrdering(S)
  <2>1. Without1 \subseteq SUBSET S
    OBVIOUS
  <2> HIDE DEF Without1
  <2> QED BY <1>1, <1>2, <2>1, WFMin
<1>4. PICK x \in U : TRUE
  OBVIOUS
<1>5. CASE U \ {x} = {}
  <2>1. \A y \in U : x <= y /\ y <= x
    BY <1>5
  <2> QED BY <1>4, <2>1
<1>6. CASE U \ {x} # {}
  <2>1. <<U \ {x}, U>> \in StrictSubsetOrdering(S)
    BY <1>4 DEF StrictSubsetOrdering
  <2>2. U \ {x} \notin Without1
    BY <1>3, <2>1
  <2>3. PICK lo, hi \in U \ {x} : \A y \in U \ {x} : lo <= y /\ y <= hi
    BY <1>6, <2>2
  <2>4. \E l, h \in U : \A y \in U : l <= y /\ y <= h
    <3>1. x \in Nat /\ lo \in Nat /\ hi \in Nat /\ U \subseteq Nat
      OBVIOUS
    <3>2. PICK l \in U : l <= x /\ l <= lo
      BY <1>4, <2>3, <3>1
    <3>3. PICK h \in U : h >= x /\ h >= hi
      BY <1>4, <2>3, <3>1
    <3>4. ASSUME NEW y \in U PROVE l <= y /\ y <= h
      <4>1. l \in Nat /\ h \in Nat /\ y \in Nat
        BY <3>1
      <4>2. CASE y = x
        BY <3>2, <3>3, <4>2
      <4>3. CASE y # x
        <5>1. lo <= y /\ y <= hi
          BY <2>3, <4>3
        <5> HIDE DEF Without1
        <5>2. /\ lo \in Nat /\ hi \in Nat /\ l <= lo /\ h >= hi
          BY <3>1, <3>2, <3>3
        <5> QED BY <4>1, <5>1, <5>2
      <4> QED BY <4>2, <4>3
    <3> QED BY <3>2, <3>3, <3>4
  <2> QED BY <2>4
<1> QED BY <1>5, <1>6

\* The branches a count has not come to yet, and what it comes to if nothing
\* changes meanwhile.
Ahead(last) == {b \in hosted : b > last}
Counted(c) == hosting[c].used + Cardinality(Ahead(hosting[c].last))

HostingState ==
  [at : {"idle", "find", "count", "create", "release", "start"},
   branch : AppBranch, last : Nat, used : Nat]

\* Branches of the app, and requests that begin to count at the first of them.
HostingShapes ==
  /\ hosted \subseteq AppBranch
  /\ hosting \in [HostCaller -> HostingState \cup {NoHosting}]
  /\ \A c \in HostCaller : hosting[c].at = "find" => hosting[c].last = 0 /\ hosting[c].used = 0

\* The requests about to create, and those that will if they count m at most.
Below(m) ==
  {c \in HostCaller : hosting[c].at = "create" \/ (hosting[c].at = "count" /\ Counted(c) <= m)}

\* The argument of the limit: whatever number m, below the limit or not, requests
\* count up to, the branches there are and the requests that may still create
\* them exceed m by the number of all requests at most.  (With m = AppSlots - 1
\* alone this is not inductive: branches removed ahead of a count bring it down.)
RoomInv ==
  \A m \in Nat : m + 1 >= AppSlots /\ Below(m) # {} =>
    Cardinality(hosted) + Cardinality(Below(m)) <= m + Cardinality(HostCaller)

LEMMA HostedFinite ==
  ASSUME HostingShapes
  PROVE  /\ hosted \subseteq Nat /\ IsFiniteSet(hosted) /\ Cardinality(hosted) \in Nat
         /\ \A last \in Nat : IsFiniteSet(Ahead(last)) /\ Cardinality(Ahead(last)) \in Nat
         /\ IsFiniteSet(HostCaller) /\ Cardinality(HostCaller) \in Nat
         /\ AppSlots \in Nat /\ AppSlots # 0
<1>1. IsFiniteSet(hosted) /\ hosted \subseteq Nat
  BY AmplifyAssumption, FS_Subset DEF HostingShapes
<1>2. \A last \in Nat : IsFiniteSet(Ahead(last))
  BY <1>1, FS_Subset DEF Ahead
<1> QED BY <1>1, <1>2, AmplifyAssumption, FS_CardinalityType

LEMMA BelowFinite ==
  ASSUME HostingShapes, NEW m
  PROVE  /\ Below(m) \subseteq HostCaller /\ IsFiniteSet(Below(m))
         /\ Cardinality(Below(m)) \in Nat
         /\ Cardinality(Below(m)) <= Cardinality(HostCaller)
BY AmplifyAssumption, FS_Subset, FS_CardinalityType DEF Below

\* The first branch ahead of a position is on the next page; and what is ahead,
\* up to a branch of that page, is on it.
LEMMA PageIsNext ==
  ASSUME HostingShapes, NEW last \in Nat
  PROVE  /\ NextPage(last) \subseteq Ahead(last)
         /\ Ahead(last) # {} => NextPage(last) # {}
         /\ \A b \in NextPage(last) : \A a \in Ahead(last) : a <= b => a \in NextPage(last)
<1>0. hosted \subseteq Nat /\ IsFiniteSet(hosted) /\ IsFiniteSet(Ahead(last))
  BY HostedFinite
<1>p. ListPage \in Nat /\ ListPage # 0
  BY AmplifyAssumption
<1>1. NextPage(last) \subseteq Ahead(last)
  BY DEF NextPage, Ahead
<1>2. ASSUME Ahead(last) # {} PROVE NextPage(last) # {}
  <2>1. Ahead(last) \subseteq Nat
    BY <1>0 DEF Ahead
  <2>2. PICK lo \in Ahead(last) : \A x \in Ahead(last) : lo <= x
    BY <1>0, <1>2, <2>1, Extremes
  <2>3. {a \in hosted : last < a /\ a <= lo} = {lo}
    BY <1>0, <2>1, <2>2 DEF Ahead
  <2>4. Cardinality({a \in hosted : last < a /\ a <= lo}) <= ListPage
    BY <1>p, <2>3, FS_Singleton
  <2>5. lo \in NextPage(last)
    BY <2>2, <2>4 DEF NextPage, Ahead
  <2> QED BY <2>5
<1>3. ASSUME NEW b \in NextPage(last), NEW a \in Ahead(last), a <= b
      PROVE  a \in NextPage(last)
  <2>1. b \in hosted /\ Cardinality({x \in hosted : last < x /\ x <= b}) <= ListPage
    BY DEF NextPage
  <2>2. a \in hosted /\ a > last /\ a \in Nat /\ b \in Nat
    BY <1>0, <2>1 DEF Ahead
  <2>3. {x \in hosted : last < x /\ x <= a} \subseteq {x \in hosted : last < x /\ x <= b}
    <3> SUFFICES ASSUME NEW x \in hosted, x <= a PROVE x <= b
      OBVIOUS
    <3>1. x \in Nat
      BY <1>0
    <3> QED BY <1>3, <2>2, <3>1
  <2>4. IsFiniteSet({x \in hosted : last < x /\ x <= b})
    BY <1>0, FS_Subset
  <2>5. /\ Cardinality({x \in hosted : last < x /\ x <= a}) <= Cardinality({x \in hosted : last < x /\ x <= b})
        /\ Cardinality({x \in hosted : last < x /\ x <= a}) \in Nat
        /\ Cardinality({x \in hosted : last < x /\ x <= b}) \in Nat
    BY <2>3, <2>4, FS_Subset, FS_CardinalityType
  <2>6. Cardinality({x \in hosted : last < x /\ x <= a}) <= ListPage
    BY <1>p, <2>1, <2>5
  <2> QED BY <2>2, <2>6 DEF NextPage
<1> QED BY <1>1, <1>2, <1>3

\* A count goes on by a page without a change of what it comes to: on to the
\* greatest branch of a page that is followed by another one, or to the end.
LEMMA PageCounts ==
  ASSUME HostingShapes, NEW last \in Nat
  PROVE  /\ Cardinality(NextPage(last)) \in Nat
         /\ ~HasMore(NextPage(last)) =>
              Cardinality(NextPage(last)) = Cardinality(Ahead(last))
         /\ HasMore(NextPage(last)) =>
              /\ Greatest(NextPage(last)) \in Nat
              /\ Cardinality(NextPage(last)) + Cardinality(Ahead(Greatest(NextPage(last))))
                   = Cardinality(Ahead(last))
<1> DEFINE page == NextPage(last)
<1>0. /\ hosted \subseteq Nat /\ IsFiniteSet(hosted) /\ IsFiniteSet(Ahead(last))
      /\ Ahead(last) \subseteq hosted
  BY HostedFinite DEF Ahead
<1>1. /\ page \subseteq Ahead(last) /\ (Ahead(last) # {} => page # {})
      /\ \A b \in page : \A a \in Ahead(last) : a <= b => a \in page
  BY PageIsNext
<1>2. IsFiniteSet(page) /\ page \subseteq Nat /\ Cardinality(page) \in Nat
  BY <1>0, <1>1, FS_Subset, FS_CardinalityType
<1>3. page # {} => Greatest(page) \in page /\ \A a \in page : a <= Greatest(page)
  <2> HIDE DEF page
  <2>1. page # {} => \E b \in page : \A a \in page : a <= b
    BY <1>2, Extremes
  <2> QED BY <2>1 DEF Greatest
<1>4. ASSUME ~HasMore(page) PROVE page = Ahead(last)
  <2>1. CASE page = {}
    BY <1>1, <2>1
  <2>2. CASE page # {}
    <3>1. \A a \in Ahead(last) : a <= Greatest(page)
      <4>1. \A a \in hosted : ~(a > Greatest(page))
        BY <1>4, <2>2 DEF HasMore
      <4>2. Greatest(page) \in Nat
        BY <1>2, <1>3, <2>2
      <4> TAKE a \in Ahead(last)
      <4>3. a \in hosted /\ a \in Nat
        BY <1>0
      <4> HIDE DEF page
      <4> QED BY <4>1, <4>2, <4>3
    <3> QED BY <1>1, <1>3, <2>2, <3>1
  <2> QED BY <2>1, <2>2
<1>5. ASSUME HasMore(page)
      PROVE  /\ Greatest(page) \in Nat
             /\ Cardinality(page) + Cardinality(Ahead(Greatest(page))) = Cardinality(Ahead(last))
  <2>0. page # {} /\ Greatest(page) \in page /\ Greatest(page) \in Nat
    BY <1>2, <1>3, <1>5 DEF HasMore
  <2>1. Greatest(page) > last
    BY <1>1, <2>0 DEF Ahead
  <2>2. page \cup Ahead(Greatest(page)) = Ahead(last)
    <3>1. Ahead(Greatest(page)) \subseteq Ahead(last)
      <4> SUFFICES ASSUME NEW a \in hosted, a > Greatest(page) PROVE a > last
        BY DEF Ahead
      <4>1. a \in Nat
        BY <1>0
      <4> HIDE DEF page
      <4> QED BY <2>0, <2>1, <4>1
    <3>2. \A a \in Ahead(last) : a \in page \/ a \in Ahead(Greatest(page))
      <4> SUFFICES ASSUME NEW a \in Ahead(last) PROVE a \in page \/ a > Greatest(page)
        BY DEF Ahead
      <4>1. a \in Nat /\ Greatest(page) \in Nat
        BY <1>0, <2>0
      <4> QED BY <1>1, <2>0, <4>1
    <3> QED BY <1>1, <3>1, <3>2
  <2>3. page \cap Ahead(Greatest(page)) = {}
    <3>1. \A a \in page : ~(a > Greatest(page))
      BY <1>2, <1>3, <2>0
    <3> QED BY <3>1 DEF Ahead
  <2>4. IsFiniteSet(Ahead(Greatest(page))) /\ Cardinality(Ahead(Greatest(page))) \in Nat
    BY <2>0, HostedFinite
  <2> HIDE DEF page
  <2> QED BY <1>2, <2>0, <2>2, <2>3, <2>4, FS_Union, FS_EmptySet
<1> QED BY <1>2, <1>4, <1>5


\* A step of one request, after which it has the state new.
LEMMA HostingMoves ==
  ASSUME HostingShapes, NEW c \in HostCaller, NEW new \in HostingState,
         hosting' = [hosting EXCEPT ![c] = new], hosted' \subseteq AppBranch,
         new.at = "find" => new.last = 0 /\ new.used = 0
  PROVE  /\ HostingShapes' /\ hosting'[c] = new
         /\ \A d \in HostCaller \ {c} : hosting'[d] = hosting[d]
BY DEF HostingShapes

LEMMA AtStep ==
  ASSUME HostingShapes, NEW c \in HostCaller, hosting[c].at # "idle"
  PROVE  /\ hosting[c] \in HostingState /\ hosting[c].branch \in AppBranch
         /\ hosting[c].last \in Nat /\ hosting[c].used \in Nat
         /\ \A at \in {"idle", "find", "count", "create", "release", "start"} :
              /\ [hosting[c] EXCEPT !.at = at] \in HostingState
              /\ Hosting(c, at) => hosting' = [hosting EXCEPT ![c] = [hosting[c] EXCEPT !.at = at]]
BY DEF HostingShapes, HostingState, NoHosting, Hosting

\* A request that goes on to the step at.
LEMMA GoesOn ==
  ASSUME HostingShapes, NEW c \in HostCaller, hosting[c].at # "idle",
         NEW at \in {"idle", "find", "count", "create", "release", "start"}, Hosting(c, at)
  PROVE  \E new \in HostingState :
           /\ hosting' = [hosting EXCEPT ![c] = new]
           /\ new.at = at /\ new.last = hosting[c].last /\ new.used = hosting[c].used
<1> DEFINE new == [hosting[c] EXCEPT !.at = at]
<1>1. hosting[c] \in HostingState
  BY AtStep
<1>2. new \in HostingState /\ hosting' = [hosting EXCEPT ![c] = new]
  BY AtStep
<1>3. new.at = at /\ new.last = hosting[c].last /\ new.used = hosting[c].used
  BY <1>1 DEF HostingState
<1> HIDE DEF new
<1> QED BY <1>2, <1>3

\* What one element makes to the size of a set.
LEMMA OneElement ==
  ASSUME NEW S, IsFiniteSet(S), NEW x
  PROVE  /\ IsFiniteSet(S \cup {x}) /\ IsFiniteSet(S \ {x})
         /\ Cardinality(S) \in Nat /\ Cardinality(S \cup {x}) \in Nat /\ Cardinality(S \ {x}) \in Nat
         /\ Cardinality(S \cup {x}) <= Cardinality(S) + 1
         /\ Cardinality(S) <= Cardinality(S \ {x}) + 1
         /\ x \in S => Cardinality(S \ {x}) = Cardinality(S) - 1
<1>1. IsFiniteSet(S \cup {x}) /\ IsFiniteSet(S \ {x})
  BY FS_AddElement, FS_RemoveElement
<1>2. /\ Cardinality(S) \in Nat /\ Cardinality(S \cup {x}) \in Nat /\ Cardinality(S \ {x}) \in Nat
  BY <1>1, FS_CardinalityType
<1>3. Cardinality(S \cup {x}) = IF x \in S THEN Cardinality(S) ELSE Cardinality(S) + 1
  BY FS_AddElement
<1>4. Cardinality(S \ {x}) = IF x \in S THEN Cardinality(S) - 1 ELSE Cardinality(S)
  BY FS_RemoveElement
<1> QED BY <1>1, <1>2, <1>3, <1>4

\* A step that removes or adds no branch, and lets no request count less than
\* there are.
LEMMA RoomKept ==
  ASSUME HostingShapes, RoomInv, hosted' = hosted,
         \A m \in Nat : m + 1 >= AppSlots =>
           Below(m)' \subseteq Below(m) \/ Cardinality(hosted) <= m
  PROVE  RoomInv'
<1> SUFFICES ASSUME NEW m \in Nat, m + 1 >= AppSlots, Below(m)' # {}
             PROVE  Cardinality(hosted) + Cardinality(Below(m)') <= m + Cardinality(HostCaller)
  BY DEF RoomInv
<1>1. /\ Cardinality(hosted) \in Nat /\ IsFiniteSet(HostCaller) /\ Cardinality(HostCaller) \in Nat
      /\ IsFiniteSet(Below(m)) /\ Cardinality(Below(m)) \in Nat
  BY HostedFinite, BelowFinite
<1>2. Below(m)' \subseteq HostCaller
  BY DEF Below
<1>3. Cardinality(Below(m)') \in Nat /\ Cardinality(Below(m)') <= Cardinality(HostCaller)
  BY <1>1, <1>2, FS_Subset, FS_CardinalityType
<1>4. CASE Below(m)' \subseteq Below(m)
  <2>1. Cardinality(Below(m)') <= Cardinality(Below(m))
    BY <1>1, <1>4, FS_Subset
  <2>2. Cardinality(hosted) + Cardinality(Below(m)) <= m + Cardinality(HostCaller)
    BY <1>4 DEF RoomInv
  <2> QED BY <1>1, <1>3, <2>1, <2>2
<1>5. CASE Cardinality(hosted) <= m
  BY <1>1, <1>3, <1>5
<1> QED BY <1>4, <1>5

\* A branch removed lowers what a count comes to by one at most.
LEMMA DeleteKeepsRoom ==
  ASSUME HostingShapes, RoomInv, NEW b \in AppBranch, DeleteBranch(b)
  PROVE  HostingShapes' /\ RoomInv'
<1>0. b \in hosted /\ hosted' = hosted \ {b} /\ hosting' = hosting
  BY DEF DeleteBranch
<1>1. HostingShapes'
  BY <1>0 DEF HostingShapes
<1>2. SUFFICES ASSUME NEW m \in Nat, m + 1 >= AppSlots, Below(m)' # {}
               PROVE  Cardinality(hosted') + Cardinality(Below(m)') <= m + Cardinality(HostCaller)
  BY <1>1 DEF RoomInv
<1>3. /\ hosted \subseteq Nat /\ IsFiniteSet(hosted) /\ Cardinality(hosted) \in Nat
      /\ Cardinality(HostCaller) \in Nat /\ AppSlots \in Nat
      /\ \A last \in Nat : IsFiniteSet(Ahead(last)) /\ Cardinality(Ahead(last)) \in Nat
  BY HostedFinite
<1>4. Cardinality(hosted') = Cardinality(hosted) - 1 /\ Cardinality(hosted') \in Nat
  BY <1>0, <1>3, OneElement
<1>5. ASSUME NEW c \in Below(m)' PROVE c \in Below(m + 1)
  <2>0. c \in HostCaller /\ hosting'[c] = hosting[c]
    BY <1>0 DEF Below
  <2>1. CASE hosting[c].at = "create"
    BY <2>0, <2>1 DEF Below
  <2>2. CASE hosting[c].at = "count" /\ Counted(c)' <= m
    <3>1. hosting[c].used \in Nat /\ hosting[c].last \in Nat
      BY <2>0, <2>2, AtStep
    <3>2. Ahead(hosting[c].last)' = Ahead(hosting[c].last) \ {b}
      BY <1>0, <2>0 DEF Ahead
    <3>3. /\ Cardinality(Ahead(hosting[c].last)') \in Nat
          /\ Cardinality(Ahead(hosting[c].last)) <= Cardinality(Ahead(hosting[c].last)') + 1
      BY <1>3, <3>1, <3>2, OneElement
    <3>4. Counted(c)' = hosting[c].used + Cardinality(Ahead(hosting[c].last)')
      BY <1>0 DEF Counted
    <3>5. Counted(c) <= m + 1
      BY <1>3, <2>2, <3>1, <3>3, <3>4 DEF Counted
    <3> QED BY <2>0, <2>2, <3>5 DEF Below
  <2> QED BY <2>0, <2>1, <2>2 DEF Below
<1>6. Below(m)' \subseteq Below(m + 1) /\ Below(m + 1) # {}
  BY <1>2, <1>5
<1>7. /\ Cardinality(Below(m)') \in Nat /\ Cardinality(Below(m + 1)) \in Nat
      /\ Cardinality(Below(m)') <= Cardinality(Below(m + 1))
  BY <1>6, BelowFinite, FS_Subset, FS_CardinalityType
<1>8. Cardinality(hosted) + Cardinality(Below(m + 1)) <= (m + 1) + Cardinality(HostCaller)
  <2>1. m + 1 \in Nat /\ (m + 1) + 1 >= AppSlots
    BY <1>2, <1>3
  <2> QED BY <1>6, <2>1 DEF RoomInv
<1> QED BY <1>3, <1>4, <1>7, <1>8

\* A branch created takes the room of the request that created it.
LEMMA CreateKeepsRoom ==
  ASSUME HostingShapes, RoomInv, NEW c \in HostCaller, CreateBranch(c)
  PROVE  HostingShapes' /\ RoomInv'
<1>0. /\ hosting[c].at = "create" /\ hosted' = hosted \cup {hosting[c].branch}
      /\ \E at \in {"idle", "start"} : Hosting(c, at)
  BY DEF CreateBranch
<1>a. hosting[c] \in HostingState /\ hosting[c].branch \in AppBranch
  BY <1>0, AtStep
<1>1. HostingShapes' /\ hosting'[c].at \in {"idle", "start"}
      /\ \A d \in HostCaller \ {c} : hosting'[d] = hosting[d]
  <2>1. PICK at \in {"idle", "start"} : Hosting(c, at)
    BY <1>0
  <2>2. PICK new \in HostingState : hosting' = [hosting EXCEPT ![c] = new] /\ new.at = at
    BY <1>0, <2>1, GoesOn
  <2>3. hosted' \subseteq AppBranch
    BY <1>0, <1>a DEF HostingShapes
  <2> QED BY <2>2, <2>3, HostingMoves
<1>2. SUFFICES ASSUME NEW m \in Nat, m + 1 >= AppSlots, Below(m)' # {}
               PROVE  Cardinality(hosted') + Cardinality(Below(m)') <= m + Cardinality(HostCaller)
  BY <1>1 DEF RoomInv
<1>3. /\ hosted \subseteq Nat /\ IsFiniteSet(hosted) /\ Cardinality(hosted) \in Nat
      /\ Cardinality(HostCaller) \in Nat
      /\ \A last \in Nat : IsFiniteSet(Ahead(last)) /\ Cardinality(Ahead(last)) \in Nat
      /\ IsFiniteSet(Below(m)) /\ Cardinality(Below(m)) \in Nat
  BY HostedFinite, BelowFinite
<1>4. Cardinality(hosted') \in Nat /\ Cardinality(hosted') <= Cardinality(hosted) + 1
  BY <1>0, <1>3, OneElement
<1>5. c \in Below(m)
  BY <1>0 DEF Below
<1>6. ASSUME NEW d \in Below(m)' PROVE d \in Below(m) \ {c}
  <2>0. d \in HostCaller \ {c} /\ hosting'[d] = hosting[d]
    BY <1>1 DEF Below
  <2>1. CASE hosting[d].at = "create"
    BY <2>0, <2>1 DEF Below
  <2>2. CASE hosting[d].at = "count" /\ Counted(d)' <= m
    <3>1. hosting[d].used \in Nat /\ hosting[d].last \in Nat
      BY <2>0, <2>2, AtStep
    <3>2. Ahead(hosting[d].last) \subseteq Ahead(hosting[d].last)'
          /\ Ahead(hosting[d].last)' \subseteq hosted'
      BY <1>0, <2>0 DEF Ahead
    <3>3. IsFiniteSet(hosted')
      BY <1>0, <1>3, FS_AddElement
    <3>4. /\ Cardinality(Ahead(hosting[d].last)') \in Nat
          /\ Cardinality(Ahead(hosting[d].last)) <= Cardinality(Ahead(hosting[d].last)')
      BY <3>2, <3>3, FS_Subset, FS_CardinalityType
    <3>5. Counted(d)' = hosting[d].used + Cardinality(Ahead(hosting[d].last)')
      BY <2>0 DEF Counted
    <3>6. Counted(d) <= m
      BY <1>3, <2>2, <3>1, <3>4, <3>5 DEF Counted
    <3> QED BY <2>0, <2>2, <3>6 DEF Below
  <2> QED BY <2>0, <2>1, <2>2 DEF Below
<1>7. /\ Cardinality(Below(m)') \in Nat
      /\ Cardinality(Below(m)') <= Cardinality(Below(m)) - 1
  <2>1. IsFiniteSet(Below(m) \ {c}) /\ Cardinality(Below(m) \ {c}) = Cardinality(Below(m)) - 1
    BY <1>3, <1>5, FS_RemoveElement
  <2> QED BY <1>6, <2>1, FS_Subset, FS_CardinalityType
<1>8. Cardinality(hosted) + Cardinality(Below(m)) <= m + Cardinality(HostCaller)
  BY <1>2, <1>5 DEF RoomInv
<1> QED BY <1>3, <1>4, <1>7, <1>8

\* Requests that begin, end or fail, and a count that begins at the whole of the
\* branches.
LEMMA MoveKeepsRoom ==
  ASSUME HostingShapes, RoomInv, NEW c \in HostCaller,
         \/ \E b \in AppBranch : BeginHosting(c, b)
         \/ FindBranch(c) \/ StartReleaseJob(c) \/ HostingFails(c)
  PROVE  HostingShapes' /\ RoomInv'
<1>0. /\ hosted' = hosted /\ hosted' \subseteq AppBranch /\ hosted \subseteq Nat
      /\ Cardinality(hosted) \in Nat
  BY HostedFinite DEF BeginHosting, FindBranch, StartReleaseJob, HostingFails, HostingShapes
<1>1. CASE /\ HostingShapes' /\ hosting'[c].at \notin {"count", "create"}
           /\ \A d \in HostCaller \ {c} : hosting'[d] = hosting[d]
  <2>1. ASSUME NEW m \in Nat, NEW d \in Below(m)' PROVE d \in Below(m)
    <3>1. d \in HostCaller /\ hosting'[d] = hosting[d]
      BY <1>1 DEF Below
    <3>2. Counted(d)' = Counted(d)
      BY <1>0, <3>1 DEF Counted, Ahead
    <3> QED BY <3>1, <3>2 DEF Below
  <2> QED BY <1>0, <1>1, <2>1, RoomKept
<1>2. ASSUME NEW b \in AppBranch, BeginHosting(c, b) PROVE HostingShapes' /\ RoomInv'
  <2> DEFINE new == [at |-> "find", branch |-> b, last |-> 0, used |-> 0]
  <2>1. new \in HostingState /\ new.at = "find" /\ new.last = 0 /\ new.used = 0
    BY DEF HostingState
  <2>2. hosting' = [hosting EXCEPT ![c] = new]
    BY <1>2 DEF BeginHosting
  <2> HIDE DEF new
  <2> QED BY <1>0, <1>1, <2>1, <2>2, HostingMoves
<1>3. ASSUME NEW at \in {"idle", "release", "count"}, Hosting(c, at),
             hosting[c].at # "idle",
             at = "count" => hosting[c].at = "find"
      PROVE  HostingShapes' /\ RoomInv'
  <2>1. PICK new \in HostingState :
          /\ new.at = at /\ hosting' = [hosting EXCEPT ![c] = new]
          /\ new.last = hosting[c].last /\ new.used = hosting[c].used
    BY <1>3, GoesOn
  <2>2. /\ HostingShapes' /\ hosting'[c] = new
        /\ \A d \in HostCaller \ {c} : hosting'[d] = hosting[d]
    BY <1>0, <1>3, <2>1, HostingMoves
  <2>3. CASE at # "count"
    BY <1>1, <1>3, <2>1, <2>2, <2>3
  <2>4. CASE at = "count"
    <3>1. hosting'[c].last = 0 /\ hosting'[c].used = 0
      BY <1>3, <2>1, <2>2, <2>4 DEF HostingShapes
    <3>2. Ahead(0) = hosted
      <4>1. ASSUME NEW b \in hosted PROVE b > 0
        <5>1. b \in Nat /\ b # 0
          BY AmplifyAssumption DEF HostingShapes
        <5> QED BY <5>1
      <4> QED BY <4>1 DEF Ahead
    <3>3. Counted(c)' = Cardinality(hosted)
      <4>1. Ahead(0)' = Ahead(0)
        BY <1>0 DEF Ahead
      <4>2. Counted(c)' = 0 + Cardinality(Ahead(0)')
        BY <3>1 DEF Counted
      <4> QED BY <1>0, <3>2, <4>1, <4>2
    <3>4. ASSUME NEW m \in Nat, NEW d \in Below(m)', ~(Cardinality(hosted) <= m)
          PROVE  d \in Below(m)
      <4>1. d # c
        BY <2>1, <2>2, <2>4, <3>3, <3>4 DEF Below
      <4>2. d \in HostCaller /\ hosting'[d] = hosting[d]
        BY <2>2, <4>1 DEF Below
      <4>3. Counted(d)' = Counted(d)
        BY <1>0, <4>2 DEF Counted, Ahead
      <4> QED BY <4>2, <4>3 DEF Below
    <3> QED BY <1>0, <2>2, <3>4, RoomKept
  <2> QED BY <2>3, <2>4
<1>4. CASE FindBranch(c)
  BY <1>3, <1>4 DEF FindBranch
<1>5. CASE StartReleaseJob(c) \/ HostingFails(c)
  BY <1>3, <1>5 DEF StartReleaseJob, HostingFails
<1> QED BY <1>2, <1>4, <1>5

\* A count goes on to the next page, or decides by what it has come to.
LEMMA CountKeepsRoom ==
  ASSUME HostingShapes, RoomInv, NEW c \in HostCaller, CountSlots(c)
  PROVE  HostingShapes' /\ RoomInv'
<1> DEFINE page == NextPage(hosting[c].last)
<1>0. /\ hosting[c].at = "count" /\ hosted' = hosted /\ hosted' \subseteq AppBranch
      /\ hosting[c] \in HostingState /\ hosting[c].last \in Nat /\ hosting[c].used \in Nat
  BY AtStep DEF CountSlots, HostingShapes
<1>1. /\ Cardinality(page) \in Nat
      /\ ~HasMore(page) => Cardinality(page) = Cardinality(Ahead(hosting[c].last))
      /\ HasMore(page) =>
           /\ Greatest(page) \in Nat
           /\ Cardinality(page) + Cardinality(Ahead(Greatest(page)))
                = Cardinality(Ahead(hosting[c].last))
  BY <1>0, PageCounts
<1>2. /\ AppSlots \in Nat
      /\ \A last \in Nat : Cardinality(Ahead(last)) \in Nat
  BY HostedFinite
<1>3. ASSUME NEW new \in HostingState, hosting' = [hosting EXCEPT ![c] = new],
             new.at # "find",
             \A m \in Nat : m + 1 >= AppSlots =>
               (new.at = "create"
                \/ (new.at = "count" /\ new.used + Cardinality(Ahead(new.last)) <= m)
                => Counted(c) <= m)
      PROVE  HostingShapes' /\ RoomInv'
  <2>1. /\ HostingShapes' /\ hosting'[c] = new
        /\ \A d \in HostCaller \ {c} : hosting'[d] = hosting[d]
    BY <1>0, <1>3, HostingMoves
  <2>2. ASSUME NEW m \in Nat, m + 1 >= AppSlots, NEW d \in Below(m)' PROVE d \in Below(m)
    <3>1. CASE d = c
      <4>1. Counted(c)' = new.used + Cardinality(Ahead(new.last))
        BY <1>0, <2>1 DEF Counted, Ahead
      <4>2. Counted(c) <= m
        BY <1>3, <2>1, <2>2, <3>1, <4>1 DEF Below
      <4> QED BY <1>0, <3>1, <4>2 DEF Below
    <3>2. CASE d # c
      <4>1. d \in HostCaller /\ hosting'[d] = hosting[d]
        BY <2>1, <3>2 DEF Below
      <4>2. Counted(d)' = Counted(d)
        BY <1>0, <4>1 DEF Counted, Ahead
      <4> QED BY <4>1, <4>2 DEF Below
    <3> QED BY <3>1, <3>2
  <2> QED BY <1>0, <2>1, <2>2, RoomKept
<1>4. CASE HasMore(page)
  <2> DEFINE new == [hosting[c] EXCEPT !.last = Greatest(page),
                                       !.used = hosting[c].used + Cardinality(page)]
  <2>1. hosting' = [hosting EXCEPT ![c] = new]
    BY <1>0, <1>4 DEF CountSlots, HostingShapes
  <2>2. /\ new \in HostingState /\ new.at = "count" /\ new.last = Greatest(page)
        /\ new.used = hosting[c].used + Cardinality(page)
    <3>1. Greatest(page) \in Nat /\ hosting[c].used + Cardinality(page) \in Nat
      BY <1>0, <1>1, <1>4
    <3> HIDE DEF page
    <3> QED BY <1>0, <3>1 DEF HostingState
  <2> HIDE DEF new, page
  <2>3. new.used + Cardinality(Ahead(new.last)) = Counted(c)
    BY <1>0, <1>1, <1>2, <1>4, <2>2 DEF Counted
  <2> QED BY <1>3, <2>1, <2>2, <2>3
<1>5. CASE ~HasMore(page)
  <2>1. PICK at \in {"create", "idle"} :
          /\ Hosting(c, at)
          /\ at = "create" => hosting[c].used + Cardinality(page) < AppSlots
    BY <1>5 DEF CountSlots
  <2>2. PICK new \in HostingState : new.at = at /\ hosting' = [hosting EXCEPT ![c] = new]
    BY <1>0, <2>1, GoesOn
  <2> HIDE DEF page
  <2>3. Counted(c) = hosting[c].used + Cardinality(page) /\ Counted(c) \in Nat
    BY <1>0, <1>1, <1>5 DEF Counted
  <2>4. ASSUME NEW m \in Nat, m + 1 >= AppSlots, new.at = "create" PROVE Counted(c) <= m
    BY <1>2, <2>1, <2>2, <2>3, <2>4
  <2> QED BY <1>3, <2>1, <2>2, <2>4
<1> QED BY <1>4, <1>5

LEMMA AmplifyStepRoom ==
  HostingShapes /\ RoomInv /\ [AmplifyNext]_amplifyVars => HostingShapes' /\ RoomInv'
<1> SUFFICES ASSUME HostingShapes, RoomInv, [AmplifyNext]_amplifyVars
             PROVE  HostingShapes' /\ RoomInv'
  OBVIOUS
<1>1. CASE UNCHANGED <<hosted, hosting>>
  <2>1. \A m \in Nat : Below(m)' = Below(m)
    BY <1>1 DEF Below, Counted, Ahead
  <2> QED BY <1>1, <2>1, RoomKept DEF HostingShapes
<1>2. CASE \/ BeginListing \/ ListPageOf \/ (\E w \in PoolWorker : JobsListed(w))
           \/ EndListing \/ LeaveListing \/ UNCHANGED amplifyVars
  BY <1>1, <1>2 DEF BeginListing, ListPageOf, JobsListed, EndListing, LeaveListing, amplifyVars
<1> QED BY <1>2, DeleteKeepsRoom, CreateKeepsRoom, MoveKeepsRoom, CountKeepsRoom DEF AmplifyNext

\* Requests to host exceed amplify_max_branches by less than the number of them
\* that overlap, in whatever order they count pages, create, fail and begin
\* again, and whoever removes branches meanwhile (hostBranch, amplifySlotUsage).
THEOREM HostingStaysInRoom == AmplifySpec => HostingKeepsLimit
<1>1. AmplifyInit => HostingShapes /\ RoomInv
  <2> SUFFICES ASSUME AmplifyInit PROVE HostingShapes /\ RoomInv
    OBVIOUS
  <2>1. \A c \in HostCaller : hosting[c].at = "idle"
    BY DEF AmplifyInit, NoHosting
  <2>2. HostingShapes
    BY <2>1 DEF AmplifyInit, HostingShapes
  <2>3. \A m \in Nat : Below(m) = {}
    BY <2>1 DEF Below
  <2> QED BY <2>2, <2>3 DEF RoomInv
<1>2. HostingShapes /\ RoomInv /\ [AmplifyNext]_amplifyVars =>
        [hosted' \subseteq hosted
         \/ Cardinality(hosted') < AppSlots + Cardinality(HostCaller)]_amplifyVars
  <2> SUFFICES ASSUME HostingShapes, RoomInv, AmplifyNext, ~(hosted' \subseteq hosted)
               PROVE  Cardinality(hosted') < AppSlots + Cardinality(HostCaller)
    OBVIOUS
  <2>1. PICK c \in HostCaller : CreateBranch(c)
    BY DEF AmplifyNext, BeginHosting, FindBranch, CountSlots, StartReleaseJob, HostingFails,
           DeleteBranch, BeginListing, ListPageOf, JobsListed, EndListing, LeaveListing
  <2>2. /\ IsFiniteSet(hosted) /\ Cardinality(hosted) \in Nat /\ AppSlots \in Nat
        /\ AppSlots # 0 /\ Cardinality(HostCaller) \in Nat
    BY HostedFinite
  <2>3. PICK m \in Nat : m + 1 = AppSlots
    <3>1. AppSlots - 1 \in Nat /\ (AppSlots - 1) + 1 = AppSlots
      BY <2>2
    <3> QED BY <3>1
  <2>4. c \in Below(m) /\ IsFiniteSet(Below(m)) /\ Cardinality(Below(m)) \in Nat
    BY <2>1, BelowFinite DEF CreateBranch, Below
  <2>5. Cardinality(Below(m)) # 0
    BY <2>4, FS_EmptySet
  <2>6. Cardinality(hosted) + Cardinality(Below(m)) <= m + Cardinality(HostCaller)
    BY <2>2, <2>3, <2>4 DEF RoomInv
  <2>7. Cardinality(hosted') <= Cardinality(hosted) + 1 /\ Cardinality(hosted') \in Nat
    BY <2>1, <2>2, OneElement DEF CreateBranch
  <2> QED BY <2>2, <2>3, <2>4, <2>5, <2>6, <2>7
<1> QED BY <1>1, <1>2, AmplifyStepRoom, PTL DEF AmplifySpec, HostingKeepsLimit


-----------------------------------------------------------------------------
(* Users and administrators (Accounts)                                     *)

UserCallState ==
  [at : {"count", "demote", "removeAdmin", "delete", "save"}, user : 0 .. MaxAccounts,
   row : [email : Email, role : UserRole \cup {"none"}], by : 0 .. MaxAccounts]

\* A request that is past its first read has a role to save, unless it is still to
\* be counted; and what is demoted or removed is a user.
CallsFit ==
  /\ userCall \in [UserCaller -> UserCallState \cup {NoUserCall}]
  /\ \A c \in UserCaller :
       /\ userCall[c].at \in {"demote", "save"} => userCall[c].row.role \in UserRole
       /\ userCall[c].at \in {"demote", "removeAdmin", "delete"} => userCall[c].user # 0

AccountsFit == AccountsTypeOK /\ CallsFit

LEMMA NoUserIsNoRow ==
  /\ NoUser.role = "none" /\ NoUser \notin AccountRow
  /\ "none" \notin UserRole /\ UserId \subseteq Nat /\ 0 \notin UserId
BY AccountsAssumption DEF NoUser, AccountRow, UserRole, UserId

\* A row that is in the table.
LEMMA UserHasRow ==
  ASSUME AccountsFit, NEW u \in Users
  PROVE  u \in UserId /\ accounts[u] \in AccountRow
BY DEF AccountsFit, AccountsTypeOK, Users

\* A request at one of its steps.
LEMMA CallAtStep ==
  ASSUME AccountsFit, NEW c \in UserCaller, userCall[c].at # "idle"
  PROVE  userCall[c] \in UserCallState
BY DEF AccountsFit, CallsFit, NoUserCall

\* A step of one request that changes the request only.
LEMMA OneUserCallMoves ==
  ASSUME AccountsFit, NEW c \in UserCaller, NEW new \in UserCallState \cup {NoUserCall},
         userCall' = [userCall EXCEPT ![c] = new],
         new.at \in {"demote", "save"} => new.row.role \in UserRole,
         new.at \in {"demote", "removeAdmin", "delete"} => new.user # 0
  PROVE  /\ CallsFit' /\ userCall'[c] = new
         /\ \A d \in UserCaller \ {c} : userCall'[d] = userCall[d]
BY DEF AccountsFit, CallsFit

\* The table stays, or a user's row is saved, with its address and a role, as no
\* other user's.
LEMMA RowIsSaved ==
  ASSUME AccountsFit, NEW u \in UserId, NEW row \in AccountRow, Savable(u, row), PutAccount(u, row)
  PROVE  /\ accounts' \in [UserId -> AccountRow \cup {NoUser}]
         /\ Users' = Users \cup {u} /\ accounts'[u] = row
         /\ \A v \in Users \ {u} : accounts'[v] = accounts[v]
         /\ (\A v, w \in Users : accounts[v].email = accounts[w].email => v = w)'
<1>1. /\ accounts' \in [UserId -> AccountRow \cup {NoUser}] /\ accounts'[u] = row
      /\ \A v \in UserId \ {u} : accounts'[v] = accounts[v]
  BY DEF AccountsFit, AccountsTypeOK, PutAccount
<1>2. Users' = Users \cup {u}
  BY <1>1, NoUserIsNoRow DEF Users
<1>3. ASSUME NEW v \in Users', NEW w \in Users', accounts'[v].email = accounts'[w].email
      PROVE  v = w
  <2>1. CASE v = u \/ w = u
    BY <1>1, <1>2, <1>3, <2>1 DEF Savable, Users
  <2>2. CASE v # u /\ w # u
    BY <1>1, <1>2, <1>3, <2>2 DEF AccountsFit, AccountsTypeOK, Users
  <2> QED BY <2>1, <2>2
<1> QED BY <1>1, <1>2, <1>3 DEF Users

LEMMA AccountsInitFit == AccountsInit => AccountsFit
<1> SUFFICES ASSUME AccountsInit PROVE AccountsFit
  OBVIOUS
<1>1. Users = {}
  BY DEF AccountsInit, Users
<1> QED BY <1>1, AccountsAssumption DEF AccountsInit, AccountsFit, AccountsTypeOK, CallsFit, NoUserCall, UserId

\* What a request reads and checks.
LEMMA ReadKeepsFit ==
  ASSUME AccountsFit, NEW c \in UserCaller,
         \/ \E e \in Email : BeginRegister(c, e)
         \/ CountAdmins(c) \/ CheckLastAdmin(c)
         \/ \E t \in sessions, e \in Email, role \in UserRole : BeginCreateUser(c, t, e, role)
         \/ \E t \in sessions, u \in Users, role \in UserRole : BeginUpdateUser(c, t, u, role)
         \/ \E t \in sessions, u \in Users : BeginRemoveUser(c, t, u)
  PROVE  /\ AccountsFit' /\ UNCHANGED <<accounts, lastUser, sessions, deployKeys>>
<1>0. /\ UNCHANGED <<accounts, lastUser, sessions, deployKeys>>
      /\ AccountsTypeOK' <=> \A d \in UserCaller : userCall'[d].at \in
           {"idle", "count", "demote", "removeAdmin", "delete", "save"}
  BY DEF BeginRegister, CountAdmins, CheckLastAdmin, BeginCreateUser, BeginUpdateUser,
         BeginRemoveUser, AccountsFit, AccountsTypeOK, Users
<1>1. ASSUME NEW new \in UserCallState \cup {NoUserCall}, userCall' = [userCall EXCEPT ![c] = new],
             new.at \in {"demote", "save"} => new.row.role \in UserRole,
             new.at \in {"demote", "removeAdmin", "delete"} => new.user # 0
      PROVE  AccountsFit'
  <2>1. CallsFit'
    BY <1>1, OneUserCallMoves
  <2>2. \A d \in UserCaller : userCall'[d].at \in
           {"idle", "count", "demote", "removeAdmin", "delete", "save"}
    BY <2>1 DEF CallsFit, UserCallState, NoUserCall
  <2> QED BY <1>0, <2>1, <2>2 DEF AccountsFit
<1>2. ASSUME NEW e \in Email, BeginRegister(c, e) PROVE AccountsFit'
  <2>1. CASE ByEmail(e) # {}
    <3>1. PICK u \in Users : userCall' = [userCall EXCEPT ![c] =
            [at |-> "save", user |-> u, row |-> accounts[u], by |-> 0]]
      BY <1>2, <2>1 DEF BeginRegister, ByEmail
    <3>2. u \in 0 .. MaxAccounts /\ accounts[u] \in AccountRow
          /\ accounts[u] \in [email : Email, role : UserRole \cup {"none"}]
      BY UserHasRow, AccountsAssumption DEF UserId, AccountRow
    <3>3. accounts[u].role \in UserRole /\ 0 \in 0 .. MaxAccounts
      BY <3>2, AccountsAssumption DEF AccountRow
    <3> DEFINE new == [at |-> "save", user |-> u, row |-> accounts[u], by |-> 0]
    <3>4. new \in UserCallState /\ new.at = "save" /\ new.row.role \in UserRole
      BY <3>2, <3>3 DEF UserCallState
    <3>5. userCall' = [userCall EXCEPT ![c] = new]
      BY <3>1
    <3> HIDE DEF new
    <3> QED BY <1>1, <3>4, <3>5
  <2>2. CASE ByEmail(e) = {}
    <3> DEFINE new == [at |-> "count", user |-> 0, row |-> [email |-> e, role |-> "none"], by |-> 0]
    <3>1. new \in UserCallState /\ new.at = "count"
      BY AccountsAssumption DEF UserCallState
    <3>2. userCall' = [userCall EXCEPT ![c] = new]
      BY <1>2, <2>2 DEF BeginRegister
    <3> HIDE DEF new
    <3> QED BY <1>1, <3>1, <3>2
  <2> QED BY <2>1, <2>2
<1>3. ASSUME CountAdmins(c) PROVE AccountsFit'
  <2>1. PICK role \in UserRole :
          userCall' = [userCall EXCEPT ![c].at = "save", ![c].row.role = role]
    BY <1>3 DEF CountAdmins, UserRole
  <2>2. userCall[c] \in UserCallState /\ userCall \in [UserCaller -> UserCallState \cup {NoUserCall}]
    BY <1>3, CallAtStep DEF CountAdmins, AccountsFit, CallsFit
  <2> DEFINE new == [userCall[c] EXCEPT !.at = "save", !.row.role = role]
  <2>3. new \in UserCallState /\ new.at = "save" /\ new.row.role = role
    BY <2>2 DEF UserCallState
  <2>4. userCall' = [userCall EXCEPT ![c] = new]
    BY <2>1, <2>2
  <2> HIDE DEF new
  <2> QED BY <1>1, <2>3, <2>4
<1>4. ASSUME CheckLastAdmin(c) PROVE AccountsFit'
  <2>1. userCall[c].at \in {"demote", "removeAdmin"} /\ userCall[c] \in UserCallState
        /\ userCall \in [UserCaller -> UserCallState \cup {NoUserCall}]
    BY <1>4, CallAtStep DEF CheckLastAdmin, AccountsFit, CallsFit
  <2>2. /\ userCall[c].user # 0
        /\ userCall[c].at = "demote" => userCall[c].row.role \in UserRole
    BY <2>1 DEF AccountsFit, CallsFit
  <2>3. CASE ~NotLastAdmin(c)
    <3>1. userCall' = [userCall EXCEPT ![c] = NoUserCall]
      BY <1>4, <2>3 DEF CheckLastAdmin, Finish
    <3> QED BY <1>1, <3>1 DEF NoUserCall
  <2>4. CASE NotLastAdmin(c)
    <3> DEFINE at == IF userCall[c].at = "demote" THEN "save" ELSE "delete"
               new == [userCall[c] EXCEPT !.at = at]
    <3>1. at \in {"save", "delete"} /\ (at = "save" => userCall[c].at = "demote")
      OBVIOUS
    <3>2. userCall' = [userCall EXCEPT ![c] = new]
      BY <1>4, <2>1, <2>4 DEF CheckLastAdmin, Continue
    <3> HIDE DEF at
    <3>3. new \in UserCallState /\ new.at = at /\ new.row = userCall[c].row
          /\ new.user = userCall[c].user
      BY <2>1, <3>1 DEF UserCallState
    <3> HIDE DEF new
    <3> QED BY <1>1, <2>2, <3>1, <3>2, <3>3
  <2> QED BY <2>3, <2>4
<1>5. ASSUME NEW t \in sessions, NEW e \in Email, NEW role \in UserRole, BeginCreateUser(c, t, e, role)
      PROVE  AccountsFit'
  <2> DEFINE new == [at |-> "save", user |-> 0, row |-> [email |-> e, role |-> role], by |-> t.user]
  <2>1. t.user \in 0 .. MaxAccounts
    BY AccountsAssumption DEF AccountsFit, AccountsTypeOK, UserId
  <2>2. new \in UserCallState /\ new.at = "save" /\ new.row.role = role
    BY <2>1, AccountsAssumption DEF UserCallState
  <2>3. userCall' = [userCall EXCEPT ![c] = new]
    BY <1>5 DEF BeginCreateUser
  <2> HIDE DEF new
  <2> QED BY <1>1, <2>2, <2>3
<1>6. ASSUME NEW t \in sessions, NEW u \in Users, NEW role \in UserRole,
             BeginUpdateUser(c, t, u, role)
      PROVE  AccountsFit'
  <2>0. t.user \in 0 .. MaxAccounts /\ u \in 0 .. MaxAccounts /\ u # 0 /\ accounts[u] \in AccountRow
    BY UserHasRow, AccountsAssumption DEF AccountsFit, AccountsTypeOK, UserId
  <2>1. PICK at \in {"demote", "save"} : userCall' = [userCall EXCEPT ![c] =
          [at |-> at, user |-> u, row |-> [accounts[u] EXCEPT !.role = role], by |-> t.user]]
    BY <1>6 DEF BeginUpdateUser
  <2> DEFINE row == [accounts[u] EXCEPT !.role = role]
             new == [at |-> at, user |-> u, row |-> row, by |-> t.user]
  <2>2. row \in [email : Email, role : UserRole \cup {"none"}] /\ row.role = role
    BY <2>0 DEF AccountRow
  <2>3. userCall' = [userCall EXCEPT ![c] = new]
    BY <2>1
  <2> HIDE DEF row
  <2>4. new \in UserCallState /\ new.row.role = role /\ new.user # 0
    BY <2>0, <2>2 DEF UserCallState
  <2> HIDE DEF new
  <2> QED BY <1>1, <2>3, <2>4
<1>7. ASSUME NEW t \in sessions, NEW u \in Users, BeginRemoveUser(c, t, u)
      PROVE  AccountsFit'
  <2>0. t.user \in 0 .. MaxAccounts /\ u \in 0 .. MaxAccounts /\ u # 0
        /\ accounts[u] \in [email : Email, role : UserRole \cup {"none"}]
    BY UserHasRow, AccountsAssumption DEF AccountsFit, AccountsTypeOK, UserId, AccountRow
  <2>1. PICK at \in {"removeAdmin", "delete"} : userCall' = [userCall EXCEPT ![c] =
          [at |-> at, user |-> u, row |-> accounts[u], by |-> t.user]]
    BY <1>7 DEF BeginRemoveUser
  <2> DEFINE new == [at |-> at, user |-> u, row |-> accounts[u], by |-> t.user]
  <2>2. userCall' = [userCall EXCEPT ![c] = new]
    BY <2>1
  <2>3. new \in UserCallState /\ new.at = at /\ new.user # 0
    BY <2>0 DEF UserCallState
  <2> HIDE DEF new
  <2> QED BY <1>1, <2>2, <2>3
<1> QED BY <1>0, <1>2, <1>3, <1>4, <1>5, <1>6, <1>7

\* What a request does to the table.
LEMMA DeleteKeepsFit ==
  ASSUME AccountsFit, NEW c \in UserCaller, DeleteUser(c)
  PROVE  /\ AccountsFit' /\ Users' = Users \ {userCall[c].user}
         /\ \A v \in Users' : accounts'[v] = accounts[v]
<1>1. /\ accounts' = [accounts EXCEPT ![userCall[c].user] = NoUser]
      /\ userCall' = [userCall EXCEPT ![c] = NoUserCall]
      /\ deployKeys' = deployKeys \ {userCall[c].user} /\ UNCHANGED <<lastUser, sessions>>
  BY DEF DeleteUser, PutAccount, Finish
<1>2. CallsFit'
  BY <1>1, OneUserCallMoves DEF NoUserCall
<1>3. /\ accounts' \in [UserId -> AccountRow \cup {NoUser}]
      /\ \A v \in UserId \ {userCall[c].user} : accounts'[v] = accounts[v]
      /\ userCall[c].user \in UserId => accounts'[userCall[c].user] = NoUser
  BY <1>1 DEF AccountsFit, AccountsTypeOK
<1>4. Users' = Users \ {userCall[c].user} /\ \A v \in Users' : accounts'[v] = accounts[v]
  BY <1>3 DEF Users
<1>5. \A d \in UserCaller : userCall'[d].at \in
           {"idle", "count", "demote", "removeAdmin", "delete", "save"}
  BY <1>2 DEF CallsFit, UserCallState, NoUserCall
<1>6. deployKeys' \subseteq Users'
  BY <1>1, <1>4 DEF AccountsFit, AccountsTypeOK
<1>7. (\A u, v \in Users : accounts[u].email = accounts[v].email => u = v)'
  BY <1>4 DEF AccountsFit, AccountsTypeOK
<1> QED BY <1>1, <1>2, <1>3, <1>4, <1>5, <1>6, <1>7 DEF AccountsFit, AccountsTypeOK

LEMMA SaveKeepsFit ==
  ASSUME AccountsFit, NEW c \in UserCaller, SaveUser(c)
  PROVE  AccountsFit'
<1> DEFINE u == IF userCall[c].user = 0 THEN lastUser + 1 ELSE userCall[c].user
           row == userCall[c].row
<1>0. userCall[c] \in UserCallState /\ userCall[c].at = "save" /\ lastUser \in 0 .. MaxAccounts
  BY CallAtStep DEF SaveUser, AccountsFit, AccountsTypeOK
<1>1. u \in UserId /\ (userCall[c].user = 0 => u = lastUser + 1)
  BY <1>0, AccountsAssumption DEF SaveUser, UserCallState, UserId
<1>2. row \in AccountRow
  <2>1. row \in [email : Email, role : UserRole \cup {"none"}]
    BY <1>0 DEF UserCallState
  <2>2. row.role \in UserRole
    BY <1>0 DEF AccountsFit, CallsFit
  <2> QED BY <2>1, <2>2 DEF AccountRow
<1>3. userCall' = [userCall EXCEPT ![c] = NoUserCall] /\ UNCHANGED deployKeys
  BY DEF SaveUser, Finish
<1>4. CallsFit'
  BY <1>3, OneUserCallMoves DEF NoUserCall
<1>5. \A d \in UserCaller : userCall'[d].at \in
           {"idle", "count", "demote", "removeAdmin", "delete", "save"}
  BY <1>4 DEF CallsFit, UserCallState, NoUserCall
<1>6. CASE ~Savable(u, row)
  <2>1. UNCHANGED <<accounts, lastUser, sessions>>
    BY <1>6 DEF SaveUser
  <2> QED BY <1>3, <1>4, <1>5, <2>1 DEF AccountsFit, AccountsTypeOK, Users
<1>7. CASE Savable(u, row)
  <2>1. /\ PutAccount(u, row)
        /\ lastUser' = IF userCall[c].user = 0 THEN u ELSE lastUser
        /\ sessions' = IF Registering(c) THEN sessions \cup {Token(u, row.role)} ELSE sessions
    BY <1>7 DEF SaveUser
  <2> HIDE DEF u, row
  <2>2. /\ accounts' \in [UserId -> AccountRow \cup {NoUser}] /\ Users' = Users \cup {u}
        /\ (\A v, w \in Users : accounts[v].email = accounts[w].email => v = w)'
    BY <1>1, <1>2, <1>7, <2>1, RowIsSaved
  <2>3. lastUser' \in 0 .. MaxAccounts
    BY <1>0, <1>1, <2>1, AccountsAssumption DEF UserId
  <2>4. sessions' \subseteq [user : UserId, role : UserRole]
    <3>1. Token(u, row.role) \in [user : UserId, role : UserRole]
      BY <1>1, <1>2 DEF Token, AccountRow
    <3> QED BY <2>1, <3>1 DEF AccountsFit, AccountsTypeOK
  <2>5. deployKeys' \subseteq Users'
    BY <1>3, <2>2 DEF AccountsFit, AccountsTypeOK
  <2> QED BY <1>4, <1>5, <2>2, <2>3, <2>4, <2>5 DEF AccountsFit, AccountsTypeOK
<1> QED BY <1>6, <1>7

\* Sessions that come and go, and the API that restarts.
LEMMA SessionsKeepFit ==
  ASSUME AccountsFit,
         \/ \E u \in Users : Login(u)
         \/ \E t \in sessions : CreateDeployKey(t) \/ Expired(t)
         \/ UNCHANGED accountVars
  PROVE  AccountsFit' /\ UNCHANGED <<accounts, lastUser, userCall>>
<1>0. UNCHANGED <<accounts, lastUser, userCall>> /\ Users' = Users
  BY DEF Login, CreateDeployKey, Expired, accountVars, Users
<1>1. sessions' \subseteq [user : UserId, role : UserRole] /\ deployKeys' \subseteq Users
  <2>1. CASE \E u \in Users : Login(u)
    <3>1. PICK u \in Users : Login(u)
      BY <2>1
    <3>2. Token(u, accounts[u].role) \in [user : UserId, role : UserRole]
      BY UserHasRow DEF Token, AccountRow
    <3> QED BY <3>1, <3>2 DEF Login, AccountsFit, AccountsTypeOK
  <2>2. CASE \E t \in sessions : CreateDeployKey(t) \/ Expired(t)
    BY <2>2 DEF CreateDeployKey, Expired, AccountsFit, AccountsTypeOK
  <2>3. CASE UNCHANGED accountVars
    BY <2>3 DEF accountVars, AccountsFit, AccountsTypeOK
  <2> QED BY <2>1, <2>2, <2>3
<1> QED BY <1>0, <1>1 DEF AccountsFit, AccountsTypeOK, CallsFit

LEMMA RestartKeepsFit ==
  ASSUME AccountsFit, RestartApi
  PROVE  AccountsFit'
<1>1. /\ userCall' = [c \in UserCaller |-> NoUserCall] /\ UNCHANGED <<lastUser, sessions, deployKeys>>
  BY DEF RestartApi
<1>2. CallsFit' /\ \A c \in UserCaller : userCall'[c].at = "idle"
  BY <1>1 DEF CallsFit, NoUserCall
<1>3. CASE Admins # {} \/ Users = {}
  BY <1>1, <1>2, <1>3 DEF RestartApi, AccountsFit, AccountsTypeOK, Users
<1>4. CASE ~(Admins # {} \/ Users = {})
  <2>1. Users \subseteq Nat /\ IsFiniteSet(Users)
    <3>1. IsFiniteSet(1 .. MaxAccounts)
      BY AccountsAssumption, FS_Interval
    <3>2. Users \subseteq 1 .. MaxAccounts
      BY DEF Users, UserId
    <3>3. IsFiniteSet(Users)
      BY <3>1, <3>2, FS_Subset
    <3> QED BY <3>3, NoUserIsNoRow DEF Users
  <2>2. \E u \in Users : \A v \in Users : u <= v
    BY <1>4, <2>1, Extremes
  <2>3. PICK u \in Users : accounts' = [accounts EXCEPT ![u].role = "admin"]
    BY <1>4, <2>2 DEF RestartApi
  <2> DEFINE row == [accounts[u] EXCEPT !.role = "admin"]
  <2>4. u \in UserId /\ accounts[u] \in AccountRow
    BY UserHasRow
  <2>5. row \in AccountRow /\ row.email = accounts[u].email
    BY <2>4 DEF AccountRow, UserRole
  <2>6. PutAccount(u, row)
    BY <2>3, <2>4 DEF PutAccount, AccountsFit, AccountsTypeOK
  <2> HIDE DEF row
  <2>7. Savable(u, row)
    BY <2>5 DEF Savable, AccountsFit, AccountsTypeOK
  <2>8. /\ accounts' \in [UserId -> AccountRow \cup {NoUser}] /\ Users' = Users
        /\ (\A v, w \in Users : accounts[v].email = accounts[w].email => v = w)'
    BY <2>4, <2>5, <2>6, <2>7, RowIsSaved
  <2> QED BY <1>1, <1>2, <2>8 DEF AccountsFit, AccountsTypeOK
<1> QED BY <1>3, <1>4

LEMMA AccountsStepFit == AccountsFit /\ [AccountsNext]_accountVars => AccountsFit'
BY ReadKeepsFit, DeleteKeepsFit, SaveKeepsFit, SessionsKeepFit, RestartKeepsFit
   DEF AccountsNext, UserRequest

\* The table of users keeps one row an address, and keys only of users that are
\* there, for any number of requests that read, hash and save beside one another
\* (users.service.ts, auth.service.ts).
THEOREM AccountsKeepTypes == AccountsSpec => []AccountsTypeOK
<1>1. AccountsFit => AccountsTypeOK
  BY DEF AccountsFit
<1> QED BY <1>1, AccountsInitFit, AccountsStepFit, PTL DEF AccountsSpec

\* The argument for the last administrator, when requests come one at a time: what a
\* request is about to save or to delete leaves one, be it another one or the row
\* that is saved; and the users that are there have ids given out already.
RequestKeepsAdmin(c) ==
  /\ userCall[c].at = "count" => userCall[c].user = 0
  /\ userCall[c].at # "idle" /\ userCall[c].user # 0 => userCall[c].user \in Users
  /\ userCall[c].at \in {"save", "delete"} =>
       \/ userCall[c].at = "save" /\ userCall[c].row.role = "admin"
       \/ Admins \ {userCall[c].user} # {}

AdminInv ==
  /\ \A u \in Users : u <= lastUser
  /\ Users # {} \/ sessions # {} => Admins # {}
  /\ \A c \in UserCaller : RequestKeepsAdmin(c)

\* The administrators do not depend on requests and sessions.
LEMMA SameAdmins ==
  ASSUME accounts' = accounts
  PROVE  Users' = Users /\ Admins' = Admins
BY DEF Users, Admins

LEMMA ReadKeepsAdmin ==
  ASSUME AccountsFit, AdminInv, \A c, d \in UserCaller : c = d, NEW c \in UserCaller,
         \/ \E e \in Email : BeginRegister(c, e)
         \/ CountAdmins(c) \/ CheckLastAdmin(c)
         \/ \E t \in sessions, e \in Email, role \in UserRole : BeginCreateUser(c, t, e, role)
         \/ \E t \in sessions, u \in Users, role \in UserRole : BeginUpdateUser(c, t, u, role)
         \/ \E t \in sessions, u \in Users : BeginRemoveUser(c, t, u)
  PROVE  AdminInv'
<1>0. UNCHANGED <<accounts, lastUser, sessions>> /\ Users' = Users /\ Admins' = Admins
  BY ReadKeepsFit, SameAdmins
<1>a. userCall \in [UserCaller -> UserCallState \cup {NoUserCall}]
  BY DEF AccountsFit, CallsFit
<1>b. Admins \subseteq Users /\ Users \subseteq UserId /\ 0 \notin Users
  BY NoUserIsNoRow DEF Admins, Users
<1>1. SUFFICES RequestKeepsAdmin(c)'
  BY <1>0 DEF AdminInv
<1>2. ASSUME NEW e \in Email, BeginRegister(c, e) PROVE RequestKeepsAdmin(c)'
  <2>1. CASE ByEmail(e) # {}
    <3>1. PICK u \in Users : userCall' = [userCall EXCEPT ![c] =
            [at |-> "save", user |-> u, row |-> accounts[u], by |-> 0]]
      BY <1>2, <2>1 DEF BeginRegister, ByEmail
    <3>2. userCall'[c].at = "save" /\ userCall'[c].user = u /\ userCall'[c].row = accounts[u]
      BY <1>a, <3>1
    <3>3. accounts[u].role = "admin" \/ u \notin Admins
      BY DEF Admins
    <3>4. Admins # {}
      BY DEF AdminInv
    <3> QED BY <1>0, <3>2, <3>3, <3>4 DEF RequestKeepsAdmin
  <2>2. CASE ByEmail(e) = {}
    <3>1. userCall'[c].at = "count" /\ userCall'[c].user = 0
      BY <1>2, <1>a, <2>2 DEF BeginRegister
    <3> QED BY <3>1 DEF RequestKeepsAdmin
  <2> QED BY <2>1, <2>2
<1>3. ASSUME CountAdmins(c) PROVE RequestKeepsAdmin(c)'
  <2>1. userCall[c].at = "count" /\ userCall[c].user = 0 /\ userCall[c] \in UserCallState
    BY <1>3, CallAtStep DEF CountAdmins, AdminInv, RequestKeepsAdmin
  <2> DEFINE role == IF Admins = {} THEN "admin" ELSE "operator"
             new == [userCall[c] EXCEPT !.at = "save", !.row.role = role]
  <2>2. userCall' = [userCall EXCEPT ![c] = new]
    BY <1>3, <1>a DEF CountAdmins
  <2>3. role = "admin" \/ Admins # {}
    OBVIOUS
  <2> HIDE DEF role
  <2>4. new.at = "save" /\ new.user = 0 /\ new.row.role = role
    BY <2>1 DEF UserCallState
  <2> HIDE DEF new
  <2>5. userCall'[c] = new
    BY <1>a, <2>2
  <2>6. Admins \ {0} = Admins
    BY <1>b
  <2> QED BY <1>0, <2>3, <2>4, <2>5, <2>6 DEF RequestKeepsAdmin
<1>4. ASSUME CheckLastAdmin(c) PROVE RequestKeepsAdmin(c)'
  <2>1. /\ userCall[c].at \in {"demote", "removeAdmin"} /\ userCall[c] \in UserCallState
        /\ userCall[c].user # 0 /\ userCall[c].user \in Users
    BY <1>4, CallAtStep DEF CheckLastAdmin, AccountsFit, CallsFit, AdminInv, RequestKeepsAdmin
  <2>2. CASE ~NotLastAdmin(c)
    <3>1. userCall'[c] = NoUserCall
      BY <1>4, <1>a, <2>2 DEF CheckLastAdmin, Finish
    <3>2. userCall'[c].at = "idle"
      BY <3>1 DEF NoUserCall
    <3> QED BY <3>2 DEF RequestKeepsAdmin
  <2>3. CASE NotLastAdmin(c)
    <3> DEFINE new == [userCall[c] EXCEPT !.at = IF userCall[c].at = "demote" THEN "save" ELSE "delete"]
    <3>1. userCall' = [userCall EXCEPT ![c] = new]
      BY <1>4, <1>a, <2>3 DEF CheckLastAdmin, Continue
    <3>2. new.user = userCall[c].user /\ new.at # "count"
      BY <2>1 DEF UserCallState
    <3> HIDE DEF new
    <3>3. userCall'[c].user = userCall[c].user /\ userCall'[c].at # "count"
      BY <1>a, <3>1, <3>2
    <3>4. Admins \ {userCall[c].user} # {}
      <4>1. CASE userCall[c].user \notin Admins
        BY <2>1, <4>1 DEF AdminInv
      <4>2. CASE ~(Cardinality(Admins) <= 1)
        <5>1. SUFFICES ASSUME Admins \ {userCall[c].user} = {} PROVE FALSE
          OBVIOUS
        <5>2. Admins \subseteq {userCall[c].user}
          BY <5>1
        <5>3. IsFiniteSet({userCall[c].user}) /\ Cardinality({userCall[c].user}) = 1
          BY FS_Singleton
        <5>4. Cardinality(Admins) <= 1
          BY <5>2, <5>3, FS_Subset
        <5> QED BY <4>2, <5>4
      <4> QED BY <2>3, <4>1, <4>2 DEF NotLastAdmin, IsLastAdmin
    <3> QED BY <1>0, <2>1, <3>3, <3>4 DEF RequestKeepsAdmin
  <2> QED BY <2>2, <2>3
<1>5. ASSUME NEW t \in sessions, NEW e \in Email, NEW role \in UserRole, BeginCreateUser(c, t, e, role)
      PROVE  RequestKeepsAdmin(c)'
  <2>1. userCall'[c].at = "save" /\ userCall'[c].user = 0
    BY <1>5, <1>a DEF BeginCreateUser
  <2>2. Admins \ {0} # {}
    BY <1>b DEF AdminInv
  <2> QED BY <1>0, <2>1, <2>2 DEF RequestKeepsAdmin
<1>6. ASSUME NEW t \in sessions, NEW u \in Users, NEW role \in UserRole,
             BeginUpdateUser(c, t, u, role)
      PROVE  RequestKeepsAdmin(c)'
  <2>0. accounts[u] \in AccountRow /\ u # 0 /\ Admins # {}
    BY <1>b, UserHasRow DEF AdminInv
  <2>1. /\ userCall'[c].at = IF accounts[u].role = "admin" /\ role = "operator" THEN "demote" ELSE "save"
        /\ userCall'[c].user = u /\ userCall'[c].row = [accounts[u] EXCEPT !.role = role]
    BY <1>6, <1>a DEF BeginUpdateUser
  <2>2. userCall'[c].row.role = role
    BY <2>0, <2>1 DEF AccountRow
  <2>3. CASE accounts[u].role = "admin" /\ role = "operator"
    BY <1>0, <2>1, <2>3 DEF RequestKeepsAdmin
  <2>4. CASE ~(accounts[u].role = "admin" /\ role = "operator")
    <3>1. userCall'[c].at = "save"
      BY <2>1, <2>4
    <3>2. role = "admin" \/ u \notin Admins
      BY <2>4 DEF UserRole, Admins
    <3> QED BY <1>0, <2>0, <2>1, <2>2, <3>1, <3>2 DEF RequestKeepsAdmin
  <2> QED BY <2>3, <2>4
<1>7. ASSUME NEW t \in sessions, NEW u \in Users, BeginRemoveUser(c, t, u)
      PROVE  RequestKeepsAdmin(c)'
  <2>1. /\ userCall'[c].at = IF accounts[u].role = "admin" THEN "removeAdmin" ELSE "delete"
        /\ userCall'[c].user = u
    BY <1>7, <1>a DEF BeginRemoveUser
  <2>2. accounts[u].role = "admin" \/ Admins \ {u} # {}
    BY DEF AdminInv, Admins
  <2> QED BY <1>0, <2>1, <2>2 DEF RequestKeepsAdmin
<1> QED BY <1>2, <1>3, <1>4, <1>5, <1>6, <1>7

LEMMA DeleteKeepsAdmin ==
  ASSUME AccountsFit, AdminInv, \A c, d \in UserCaller : c = d, NEW c \in UserCaller, DeleteUser(c)
  PROVE  AdminInv'
<1>1. /\ Users' = Users \ {userCall[c].user} /\ \A v \in Users' : accounts'[v] = accounts[v]
      /\ UNCHANGED <<lastUser, sessions>>
  BY DeleteKeepsFit DEF DeleteUser
<1>2. userCall'[c].at = "idle"
  BY DEF DeleteUser, Finish, NoUserCall, AccountsFit, CallsFit
<1>3. Admins' = Admins \ {userCall[c].user}
  BY <1>1 DEF Admins
<1>4. Admins' # {}
  BY <1>3 DEF DeleteUser, AdminInv, RequestKeepsAdmin
<1>5. \A d \in UserCaller : RequestKeepsAdmin(d)'
  BY <1>2 DEF RequestKeepsAdmin
<1> QED BY <1>1, <1>4, <1>5 DEF AdminInv

LEMMA SaveKeepsAdmin ==
  ASSUME AccountsFit, AdminInv, \A c, d \in UserCaller : c = d, NEW c \in UserCaller, SaveUser(c)
  PROVE  AdminInv'
<1> DEFINE u == IF userCall[c].user = 0 THEN lastUser + 1 ELSE userCall[c].user
           row == userCall[c].row
<1>0. userCall[c] \in UserCallState /\ userCall[c].at = "save" /\ lastUser \in Nat
  BY CallAtStep, AccountsAssumption DEF SaveUser, AccountsFit, AccountsTypeOK
<1>1. u \in UserId /\ (userCall[c].user = 0 => u = lastUser + 1)
  BY <1>0, AccountsAssumption DEF SaveUser, UserCallState, UserId
<1>2. row \in AccountRow
  <2>1. row \in [email : Email, role : UserRole \cup {"none"}]
    BY <1>0 DEF UserCallState
  <2>2. row.role \in UserRole
    BY <1>0 DEF AccountsFit, CallsFit
  <2> QED BY <2>1, <2>2 DEF AccountRow
<1>3. userCall'[c].at = "idle"
  BY DEF SaveUser, Finish, NoUserCall, AccountsFit, CallsFit
<1>4. \A d \in UserCaller : RequestKeepsAdmin(d)'
  BY <1>3 DEF RequestKeepsAdmin
<1>5. CASE ~Savable(u, row)
  <2>1. UNCHANGED <<accounts, lastUser, sessions>>
    BY <1>5 DEF SaveUser
  <2> QED BY <1>4, <2>1, SameAdmins DEF AdminInv
<1>6. CASE Savable(u, row)
  <2>1. /\ PutAccount(u, row)
        /\ lastUser' = IF userCall[c].user = 0 THEN u ELSE lastUser
    BY <1>6 DEF SaveUser
  <2>2. userCall[c].user # 0 => u \in Users /\ u = userCall[c].user
    BY <1>0 DEF AdminInv, RequestKeepsAdmin
  <2>3. userCall[c].user = 0 => u \notin Users
    BY <1>0, <1>1 DEF AdminInv, Users, UserId
  <2>4. row.role = "admin" \/ Admins \ {u} # {}
    <3>1. row.role = "admin" \/ Admins \ {userCall[c].user} # {}
      BY <1>0 DEF AdminInv, RequestKeepsAdmin
    <3>2. userCall[c].user = 0 => Admins \ {u} = Admins
      BY <2>3 DEF Admins
    <3> QED BY <2>2, <3>1, <3>2
  <2> HIDE DEF u, row
  <2>5. /\ Users' = Users \cup {u} /\ accounts'[u] = row
        /\ \A v \in Users \ {u} : accounts'[v] = accounts[v]
    BY <1>1, <1>2, <1>6, <2>1, RowIsSaved
  <2>6. Admins' # {}
    BY <2>4, <2>5 DEF Admins
  <2>7. \A v \in Users' : v <= lastUser'
    <3>1. CASE userCall[c].user = 0
      <4>1. lastUser' = lastUser + 1 /\ u = lastUser + 1
        BY <1>1, <2>1, <3>1
      <4> TAKE v \in Users'
      <4>2. CASE v = u
        BY <1>0, <4>1, <4>2
      <4>3. CASE v \in Users
        <5>1. v <= lastUser /\ v \in Nat
          BY <4>3, NoUserIsNoRow DEF AdminInv, Users
        <5> QED BY <1>0, <4>1, <5>1
      <4> QED BY <2>5, <4>2, <4>3
    <3>2. CASE userCall[c].user # 0
      BY <2>1, <2>2, <2>5, <3>2 DEF AdminInv
    <3> QED BY <3>1, <3>2
  <2> QED BY <1>4, <2>6, <2>7 DEF AdminInv
<1> QED BY <1>5, <1>6

LEMMA AdminStepInv ==
  ASSUME \A c, d \in UserCaller : c = d
  PROVE  AccountsFit /\ AdminInv /\ [AccountsNext]_accountVars => AdminInv'
<1> SUFFICES ASSUME AccountsFit, AdminInv, [AccountsNext]_accountVars PROVE AdminInv'
  OBVIOUS
<1>1. CASE \/ \E u \in Users : Login(u)
           \/ \E t \in sessions : CreateDeployKey(t) \/ Expired(t)
           \/ UNCHANGED accountVars
  <2>1. UNCHANGED <<accounts, lastUser, userCall>>
    BY <1>1, SessionsKeepFit
  <2>2. Users' = Users /\ Admins' = Admins
    BY <2>1, SameAdmins
  <2>3. sessions' # {} => Users # {} \/ sessions # {}
    BY <1>1 DEF Login, CreateDeployKey, Expired, accountVars
  <2> QED BY <2>1, <2>2, <2>3 DEF AdminInv, RequestKeepsAdmin
<1>2. CASE RestartApi
  <2>1. accounts' = accounts /\ UNCHANGED <<lastUser, sessions>>
        /\ \A c \in UserCaller : userCall'[c].at = "idle"
    BY <1>2 DEF RestartApi, AdminInv, NoUserCall
  <2> QED BY <2>1, SameAdmins DEF AdminInv, RequestKeepsAdmin
<1> QED BY <1>1, <1>2, ReadKeepsAdmin, DeleteKeepsAdmin, SaveKeepsAdmin DEF AccountsNext, UserRequest

\* While requests come one at a time, assertNotLastAdmin is enough: the panel never
\* loses its last administrator, by sessions out of date or of users long removed,
\* by registrations over an address that is taken, and across restarts.
THEOREM AdminStays ==
  ASSUME \A c, d \in UserCaller : c = d
  PROVE  AccountsSpec => []AdminRemains
<1>1. AccountsInit => AccountsFit /\ AdminInv
  <2>1. AccountsInit => AdminInv
    BY DEF AccountsInit, AdminInv, RequestKeepsAdmin, NoUserCall, Users
  <2> QED BY <2>1, AccountsInitFit
<1>2. AccountsFit /\ AdminInv /\ [AccountsNext]_accountVars => (AccountsFit /\ AdminInv)'
  BY AccountsStepFit, AdminStepInv
<1>3. AdminInv => AdminRemains
  BY DEF AdminInv, AdminRemains
<1> QED BY <1>1, <1>2, <1>3, PTL DEF AccountsSpec


-----------------------------------------------------------------------------
(* The timers of the demo backend (DemoBackend)                            *)

DemoRow == [status : {"active", "paused", "deploying", "waiting", "error", "gone"},
            idle : BOOLEAN, by : {"fixture", "user"}]

\* Rows and timers of the instances; a row that some user set deploying has one.
DemoInv ==
  /\ demoRow \in [DemoInstance -> DemoRow] /\ demoTimer \in [DemoInstance -> Nat]
  /\ DemoDeployHasTimer

\* One row changes, to one that does not deploy unless it did, and no timer.
LEMMA DemoRowSettles ==
  ASSUME DemoInv, NEW i \in DemoInstance, NEW row \in DemoRow, Touch(i, row), demoTimer' = demoTimer,
         row.status = "deploying" => row = demoRow[i]
  PROVE  DemoInv'
BY DEF DemoInv, DemoDeployHasTimer, Touch

\* Rows that deploy, and a timer for each that is new.
LEMMA DemoRowsBuild ==
  ASSUME DemoInv, NEW S \in SUBSET DemoInstance, ScheduleAll(S),
         demoRow' \in [DemoInstance -> DemoRow],
         \A i \in DemoInstance \ S : demoRow'[i] = demoRow[i]
  PROVE  DemoInv'
<1>1. /\ demoTimer' \in [DemoInstance -> Nat]
      /\ \A i \in DemoInstance : demoTimer'[i] = demoTimer[i] + IF i \in S THEN 1 ELSE 0
  BY DEF DemoInv, ScheduleAll
<1>2. ASSUME NEW i \in DemoInstance, demoRow'[i].status = "deploying", demoRow'[i].by = "user"
      PROVE  demoTimer'[i] > 0
  <2>1. demoTimer[i] \in Nat
    BY DEF DemoInv
  <2>2. CASE i \in S
    BY <1>1, <2>1, <2>2
  <2>3. CASE i \notin S
    <3>1. demoTimer[i] > 0
      BY <1>2, <2>3 DEF DemoInv, DemoDeployHasTimer
    <3> QED BY <1>1, <2>1, <2>3, <3>1
  <2> QED BY <2>2, <2>3
<1> QED BY <1>1, <1>2 DEF DemoInv, DemoDeployHasTimer

\* A row that is there, and what handlers make of it.
LEMMA DemoRowForms ==
  ASSUME DemoInv, NEW i \in DemoInstance
  PROVE  /\ demoRow[i] \in DemoRow /\ DemoGone \in DemoRow
         /\ \A to \in {"active", "paused", "error"}, idle \in BOOLEAN :
              /\ [demoRow[i] EXCEPT !.status = to] \in DemoRow
              /\ [demoRow[i] EXCEPT !.status = to].status = to
              /\ [demoRow[i] EXCEPT !.status = to, !.idle = idle] \in DemoRow
              /\ [demoRow[i] EXCEPT !.status = to, !.idle = idle].status = to
         /\ Building(i) \in DemoRow
         /\ \A idle \in BOOLEAN : [Building(i) EXCEPT !.idle = idle] \in DemoRow
BY DEF DemoInv, DemoRow, DemoGone, Building

LEMMA FixturesRest ==
  \A row \in DemoFixtures : row \in DemoRow /\ row.by = "fixture"
<1>1. ASSUME NEW to \in {"active", "paused", "deploying", "waiting", "error"}, NEW idle \in BOOLEAN
      PROVE  Fixture(to, idle) \in DemoRow /\ Fixture(to, idle).by = "fixture"
  BY DEF Fixture, DemoRow
<1> QED BY <1>1 DEF DemoFixtures

LEMMA DemoInitInv == DemoInit => DemoInv
<1> SUFFICES ASSUME DemoInit PROVE DemoInv
  OBVIOUS
<1>1. demoRow \in [DemoInstance -> DemoFixtures] /\ demoTimer \in [DemoInstance -> Nat]
  BY DEF DemoInit, FreshStore
<1> QED BY <1>1, FixturesRest DEF DemoInv, DemoDeployHasTimer

\* Handlers of one instance.
LEMMA InstanceHandlers ==
  ASSUME DemoInv, NEW i \in DemoInstance,
         \/ DemoPause(i) \/ DemoCancel(i) \/ DemoForce(i) \/ DemoActivate(i) \/ DemoAwake(i)
         \/ \E e \in DemoEmail : DemoRemove(e, i)
  PROVE  DemoInv'
<1>1. ASSUME NEW row \in DemoRow, Touch(i, row), ScheduleAll({i}) PROVE DemoInv'
  <2>1. /\ demoRow' \in [DemoInstance -> DemoRow]
        /\ \A j \in DemoInstance \ {i} : demoRow'[j] = demoRow[j]
    BY <1>1 DEF Touch, DemoInv
  <2> QED BY <1>1, <2>1, DemoRowsBuild
<1>2. CASE DemoForce(i) \/ DemoActivate(i)
  BY <1>1, <1>2, DemoRowForms DEF DemoForce, DemoActivate
<1>3. CASE DemoCancel(i)
  BY <1>3, DemoRowForms, DemoRowSettles DEF DemoCancel, OnlyRows
<1>4. CASE DemoPause(i) \/ DemoAwake(i)
  BY <1>4, DemoRowForms, DemoRowSettles DEF DemoPause, DemoAwake, OnlyRows
<1>5. CASE \E e \in DemoEmail : DemoRemove(e, i)
  <2>1. DemoGone.status = "gone"
    BY DEF DemoGone
  <2> QED BY <1>5, <2>1, DemoRowForms, DemoRowSettles DEF DemoRemove, OnlyRows
<1> QED BY <1>2, <1>3, <1>4, <1>5

\* Handlers of the project.
LEMMA ProjectHandlers ==
  ASSUME DemoInv, NEW e \in DemoEmail,
         DemoTeardown(e) \/ DemoRestartAll(e) \/ DemoDeleteProject(e)
  PROVE  DemoInv'
<1>1. CASE DemoTeardown(e)
  <2>1. demoTimer' = demoTimer /\ demoRow' \in [DemoInstance -> DemoRow]
    BY <1>1, DemoRowForms DEF DemoTeardown, OnlyRows
  <2>2. \A i \in DemoInstance : demoRow'[i].status = "deploying" => demoRow'[i] = demoRow[i]
    BY <1>1, DemoRowForms DEF DemoTeardown
  <2> QED BY <2>1, <2>2 DEF DemoInv, DemoDeployHasTimer
<1>2. CASE DemoDeleteProject(e)
  BY <1>2, DemoRowForms DEF DemoDeleteProject, OnlyRows, DemoInv, DemoDeployHasTimer, DemoGone, DemoRow
<1>3. CASE DemoRestartAll(e)
  <2> DEFINE here == {i \in DemoInstance : Present(i)}
  <2>1. /\ demoRow' = [i \in DemoInstance |-> IF i \in here THEN Building(i) ELSE demoRow[i]]
        /\ ScheduleAll(here)
    BY <1>3 DEF DemoRestartAll
  <2> HIDE DEF here
  <2>2. demoRow' \in [DemoInstance -> DemoRow]
    BY <2>1, DemoRowForms
  <2> QED BY <2>1, <2>2, DemoRowsBuild DEF here
<1> QED BY <1>1, <1>2, <1>3

\* A timer fires: the row it is for does not deploy any more, or is gone.
LEMMA TimerKeepsInv ==
  ASSUME DemoInv, NEW i \in DemoInstance, DemoTimerFires(i)
  PROVE  DemoInv'
<1>1. /\ demoTimer[i] \in Nat /\ demoTimer[i] > 0
      /\ demoTimer' = [demoTimer EXCEPT ![i] = demoTimer[i] - 1]
  BY DEF DemoTimerFires, DemoInv
<1>2. /\ demoTimer' \in [DemoInstance -> Nat]
      /\ \A j \in DemoInstance \ {i} : demoTimer'[j] = demoTimer[j]
  BY <1>1 DEF DemoInv
<1>3. /\ demoRow' \in [DemoInstance -> DemoRow] /\ demoRow'[i].status # "deploying"
      /\ \A j \in DemoInstance \ {i} : demoRow'[j] = demoRow[j]
  <2>1. CASE Present(i)
    <3>1. demoRow' = [demoRow EXCEPT ![i] = [demoRow[i] EXCEPT !.status = "active"]]
      BY <2>1 DEF DemoTimerFires
    <3> QED BY <3>1, DemoRowForms DEF DemoInv
  <2>2. CASE ~Present(i)
    BY <2>2 DEF Present, DemoTimerFires, DemoInv
  <2> QED BY <2>1, <2>2
<1> QED BY <1>2, <1>3 DEF DemoInv, DemoDeployHasTimer

\* A handler that waited while the store was reset.
LEMMA LateKeepsInv ==
  ASSUME DemoInv, NEW i \in DemoInstance, DemoLate(i)
  PROVE  DemoInv'
<1>0. demoRow[i].idle \in BOOLEAN
  BY DEF DemoInv, DemoRow
<1>1. CASE demoTimer' = demoTimer
           /\ \E to \in {"paused", "error", "active"} :
                Touch(i, [demoRow[i] EXCEPT !.status = to, !.idle = @ /\ to = "error"])
  <2>1. PICK to \in {"paused", "error", "active"}, idle \in BOOLEAN :
          Touch(i, [demoRow[i] EXCEPT !.status = to, !.idle = idle])
    BY <1>0, <1>1
  <2> QED BY <1>1, <2>1, DemoRowForms, DemoRowSettles
<1>2. CASE ScheduleAll({i}) /\ \E idle \in {FALSE, demoRow[i].idle} : Touch(i, [Building(i) EXCEPT !.idle = idle])
  <2>1. PICK row \in DemoRow : Touch(i, row)
    BY <1>0, <1>2, DemoRowForms
  <2>2. /\ demoRow' \in [DemoInstance -> DemoRow]
        /\ \A j \in DemoInstance \ {i} : demoRow'[j] = demoRow[j]
    BY <2>1 DEF Touch, DemoInv
  <2> QED BY <1>2, <2>2, DemoRowsBuild
<1> QED BY <1>1, <1>2 DEF DemoLate

LEMMA DemoStepInv == DemoInv /\ [DemoNext]_demoVars => DemoInv'
<1> SUFFICES ASSUME DemoInv, [DemoNext]_demoVars PROVE DemoInv'
  OBVIOUS
<1>1. CASE UNCHANGED <<demoRow, demoTimer>>
  BY <1>1 DEF DemoInv, DemoDeployHasTimer
<1>2. CASE DemoReset
  <2>1. demoRow' \in [DemoInstance -> DemoFixtures] /\ demoTimer' = demoTimer
    BY <1>2 DEF DemoReset, FreshStore
  <2> QED BY <2>1, FixturesRest DEF DemoInv, DemoDeployHasTimer
<1>3. CASE DemoHandler
  <2>1. CASE \/ \E e, u \in DemoEmail, role \in {"admin", "operator", "none"} : DemoSetUser(e, u, role)
             \/ \E e \in DemoEmail, b \in DemoBranch : DemoDeleteBranch(e, b)
             \/ \E e \in DemoEmail, n \in 1 .. Cardinality(DemoBranch) : DemoSetLimit(e, n)
             \/ \E b \in DemoBranch : DemoHost(b)
    BY <1>1, <2>1 DEF DemoSetUser, DemoDeleteBranch, DemoSetLimit, DemoHost
  <2> QED BY <1>3, <2>1, InstanceHandlers, ProjectHandlers, TimerKeepsInv DEF DemoHandler
<1> QED BY <1>1, <1>2, <1>3, LateKeepsInv DEF DemoNext, demoVars

\* Whatever handlers are called, timers fire and stores are reset while handlers wait,
\* a deploy that some user asked for in demo mode has a timer that ends it
\* (scheduleDemoDeploy, touchInstance of src/web/src/demo).
THEOREM DemoDeploysEnd == DemoSpec => []DemoDeployHasTimer
<1>1. DemoInv => DemoDeployHasTimer
  BY DEF DemoInv
<1> QED BY <1>1, DemoInitInv, DemoStepInv, PTL DEF DemoSpec


-----------------------------------------------------------------------------
(* The merged views of a cluster (ClusterViews)                            *)

\* The places of rows among the rows of a finite set.
LEMMA RowsHavePlaces ==
  ASSUME NEW S, S \subseteq Nat, IsFiniteSet(S)
  PROVE  /\ Cardinality(S) \in Nat
         /\ \A t \in S : /\ IsFiniteSet(NewerIn(S, t)) /\ Cardinality(NewerIn(S, t)) \in Nat
                         /\ Cardinality(NewerIn(S, t)) + 1 \in 1..Cardinality(S)
         /\ \A t, u \in S : t < u => /\ NewerIn(S, u) \subseteq NewerIn(S, t)
                                     /\ Cardinality(NewerIn(S, u)) < Cardinality(NewerIn(S, t))
         /\ \A i \in 1..Cardinality(S) : \E t \in S : Cardinality(NewerIn(S, t)) = i - 1
<1>0. Cardinality(S) \in Nat
  BY FS_CardinalityType
<1>1. ASSUME NEW t \in S
      PROVE  /\ IsFiniteSet(NewerIn(S, t)) /\ Cardinality(NewerIn(S, t)) \in Nat
             /\ Cardinality(NewerIn(S, t)) + 1 \in 1..Cardinality(S)
  <2>1. NewerIn(S, t) \subseteq S \ {t}
    <3>1. t \in Nat
      OBVIOUS
    <3> QED BY <3>1 DEF NewerIn
  <2>2. IsFiniteSet(S \ {t}) /\ Cardinality(S \ {t}) = Cardinality(S) - 1
        /\ Cardinality(S \ {t}) \in Nat
    BY OneElement
  <2>3. IsFiniteSet(NewerIn(S, t)) /\ Cardinality(NewerIn(S, t)) <= Cardinality(S \ {t})
    BY <2>1, <2>2, FS_Subset
  <2>4. Cardinality(NewerIn(S, t)) \in Nat
    BY <2>3, FS_CardinalityType
  <2> QED BY <1>0, <2>2, <2>3, <2>4
<1>2. ASSUME NEW t \in S, NEW u \in S, t < u
      PROVE  /\ NewerIn(S, u) \subseteq NewerIn(S, t)
             /\ Cardinality(NewerIn(S, u)) < Cardinality(NewerIn(S, t))
  <2>1. NewerIn(S, u) \subseteq NewerIn(S, t)
    <3> SUFFICES ASSUME NEW x \in S, x > u PROVE x > t
      BY DEF NewerIn
    <3>1. x \in Nat /\ t \in Nat /\ u \in Nat
      OBVIOUS
    <3> QED BY <1>2, <3>1
  <2>2. u \in NewerIn(S, t) /\ u \notin NewerIn(S, u)
    <3>1. t \in Nat /\ u \in Nat
      OBVIOUS
    <3> QED BY <1>2, <3>1 DEF NewerIn
  <2>3. Cardinality(NewerIn(S, u)) <= Cardinality(NewerIn(S, t))
    BY <1>1, <2>1, FS_Subset
  <2>4. Cardinality(NewerIn(S, u)) # Cardinality(NewerIn(S, t))
    BY <1>1, <2>1, <2>2, FS_Subset
  <2> QED BY <1>1, <2>1, <2>3, <2>4
<1>3. ASSUME NEW i \in 1..Cardinality(S) PROVE \E t \in S : Cardinality(NewerIn(S, t)) = i - 1
  <2> DEFINE f == [t \in S |-> Cardinality(NewerIn(S, t)) + 1]
  <2>1. f \in [S -> 1..Cardinality(S)]
    BY <1>1
  <2>2. \A t, u \in S : f[t] = f[u] => t = u
    <3>1. \A t, u \in S : t # u => t < u \/ u < t
      <4> TAKE t, u \in S
      <4>1. t \in Nat /\ u \in Nat
        OBVIOUS
      <4> QED BY <4>1
    <3> QED BY <1>1, <1>2, <3>1
  <2>3. \A t \in S : f[t] = Cardinality(NewerIn(S, t)) + 1
    OBVIOUS
  <2> HIDE DEF f
  <2>4. f \in Injection(S, 1..Cardinality(S))
    BY <2>1, <2>2 DEF Injection, IsInjective
  <2>5. IsFiniteSet(1..Cardinality(S)) /\ Cardinality(1..Cardinality(S)) = Cardinality(S)
    <3>1. 1 \in Int /\ Cardinality(S) \in Int
      BY <1>0
    <3>2. /\ IsFiniteSet(1..Cardinality(S))
          /\ Cardinality(1..Cardinality(S)) = IF 1 > Cardinality(S) THEN 0 ELSE Cardinality(S) - 1 + 1
      BY <3>1, FS_Interval
    <3> QED BY <1>0, <3>2
  <2>6. f \in Surjection(S, 1..Cardinality(S))
    BY <2>4, <2>5, FS_Injection
  <2>7. PICK t \in S : f[t] = i
    BY <2>6 DEF Surjection
  <2> QED BY <1>0, <1>1, <2>3, <2>7
<1> QED BY <1>0, <1>1, <1>2, <1>3

\* Sorted, newest first, each row stands at its place.
LEMMA SortedByPlace ==
  ASSUME NEW S, S \subseteq Nat, IsFiniteSet(S)
  PROVE  /\ NewestFirst(S) \in Seq(S) /\ Len(NewestFirst(S)) = Cardinality(S)
         /\ Cardinality(S) \in Nat
         /\ \A i \in 1..Cardinality(S) :
              NewestFirst(S)[i] \in S /\ Cardinality(NewerIn(S, NewestFirst(S)[i])) = i - 1
         /\ \A t \in S : NewestFirst(S)[Cardinality(NewerIn(S, t)) + 1] = t
         /\ ToSet(NewestFirst(S)) = S
<1> DEFINE s == NewestFirst(S)
<1>0. Cardinality(S) \in Nat
  BY RowsHavePlaces
<1>1. \A i \in 1..Cardinality(S) : s[i] \in S /\ Cardinality(NewerIn(S, s[i])) = i - 1
  <2> TAKE i \in 1..Cardinality(S)
  <2>1. \E t \in S : Cardinality(NewerIn(S, t)) = i - 1
    BY RowsHavePlaces
  <2>2. s[i] = CHOOSE t \in S : Cardinality(NewerIn(S, t)) = i - 1
    BY DEF NewestFirst
  <2> QED BY <2>1, <2>2
<1>2. s \in Seq(S) /\ Len(s) = Cardinality(S) /\ DOMAIN s = 1..Cardinality(S)
  <2>1. s = [i \in 1..Cardinality(S) |-> s[i]]
    BY DEF NewestFirst
  <2> HIDE DEF s
  <2> QED BY <1>0, <1>1, <2>1
<1>3. \A t \in S : s[Cardinality(NewerIn(S, t)) + 1] = t
  <2> TAKE t \in S
  <2> DEFINE i == Cardinality(NewerIn(S, t)) + 1
  <2>1. i \in 1..Cardinality(S) /\ Cardinality(NewerIn(S, t)) \in Nat /\ i - 1 = Cardinality(NewerIn(S, t))
    <3>1. Cardinality(NewerIn(S, t)) + 1 \in 1..Cardinality(S) /\ Cardinality(NewerIn(S, t)) \in Nat
      BY RowsHavePlaces
    <3> QED BY <3>1
  <2>2. s[i] \in S /\ Cardinality(NewerIn(S, s[i])) = Cardinality(NewerIn(S, t))
    BY <1>1, <2>1
  <2> HIDE DEF i, s
  <2>3. ~(s[i] < t) /\ ~(t < s[i])
    <3>1. Cardinality(NewerIn(S, s[i])) \in Nat
      BY <2>1, <2>2
    <3>2. \A x, y \in S : x < y => Cardinality(NewerIn(S, y)) < Cardinality(NewerIn(S, x))
      BY RowsHavePlaces
    <3>3. ASSUME s[i] < t PROVE FALSE
      <4>1. Cardinality(NewerIn(S, t)) < Cardinality(NewerIn(S, s[i]))
        BY <2>2, <3>2, <3>3
      <4> QED BY <2>1, <2>2, <3>1, <4>1
    <3>4. ASSUME t < s[i] PROVE FALSE
      <4>1. Cardinality(NewerIn(S, s[i])) < Cardinality(NewerIn(S, t))
        BY <2>2, <3>2, <3>4
      <4> QED BY <2>1, <2>2, <3>1, <4>1
    <3> QED BY <3>3, <3>4
  <2>4. s[i] \in Nat /\ t \in Nat
    BY <2>2
  <2>5. s[i] = t
    BY <2>3, <2>4
  <2> QED BY <2>5 DEF i
<1>4. ToSet(s) = S
  <2>1. \A t \in S : Cardinality(NewerIn(S, t)) + 1 \in 1..Cardinality(S)
    BY RowsHavePlaces
  <2>2. ToSet(s) = {s[i] : i \in DOMAIN s}
    BY DEF ToSet
  <2> HIDE DEF s
  <2> QED BY <1>1, <1>2, <1>3, <2>1, <2>2
<1> QED BY <1>0, <1>1, <1>2, <1>3, <1>4

\* What is cut out of two sorted sets agrees when the smaller one has the newest rows
\* of the other.
LEMMA CutsAgree ==
  ASSUME NEW S, S \subseteq Nat, IsFiniteSet(S), NEW T \in SUBSET S,
         NEW k \in Nat, Newest(S, k) \subseteq T, NEW a \in Nat \ {0}
  PROVE  Slice(NewestFirst(T), a, k) = Slice(NewestFirst(S), a, k)
<1> DEFINE s == NewestFirst(S)
           r == NewestFirst(T)
<1>0. IsFiniteSet(T) /\ T \subseteq Nat /\ Cardinality(S) \in Nat /\ Cardinality(T) \in Nat
  BY FS_Subset, FS_CardinalityType
<1>1. /\ s \in Seq(S) /\ Len(s) = Cardinality(S)
      /\ \A i \in 1..Cardinality(S) : s[i] \in S /\ Cardinality(NewerIn(S, s[i])) = i - 1
  BY SortedByPlace
<1>2. /\ r \in Seq(T) /\ Len(r) = Cardinality(T)
      /\ \A t \in T : r[Cardinality(NewerIn(T, t)) + 1] = t
  BY <1>0, SortedByPlace
<1>3. CASE Cardinality(S) <= k
  <2>1. S \subseteq Newest(S, k)
    <3> SUFFICES ASSUME NEW t \in S PROVE Cardinality(NewerIn(S, t)) < k
      BY DEF Newest
    <3>1. Cardinality(NewerIn(S, t)) \in Nat /\ Cardinality(NewerIn(S, t)) + 1 \in 1..Cardinality(S)
      BY RowsHavePlaces
    <3> QED BY <1>0, <1>3, <3>1
  <2>2. S = T
    BY <2>1
  <2> QED BY <2>2
<1>4. CASE Cardinality(S) > k
  <2>1. ASSUME NEW i \in 1..k PROVE i \in 1..Cardinality(T) /\ r[i] = s[i]
    <3>1. i \in 1..Cardinality(S) /\ i - 1 < k /\ i \in Nat
      BY <1>0, <1>4
    <3>2. s[i] \in S /\ Cardinality(NewerIn(S, s[i])) = i - 1
      BY <1>1, <3>1
    <3>3. s[i] \in T
      BY <3>1, <3>2 DEF Newest
    <3> DEFINE t == s[i]
    <3>4. t \in S /\ t \in T /\ Cardinality(NewerIn(S, t)) = i - 1 /\ t \in Nat
      BY <3>2, <3>3
    <3> HIDE DEF s, r, t
    <3>5. NewerIn(S, t) \subseteq T
      <4> SUFFICES ASSUME NEW u \in S, u > t PROVE u \in T
        BY DEF NewerIn
      <4>1. t < u
        <5>1. u \in Nat
          OBVIOUS
        <5> QED BY <3>4, <5>1
      <4>2. Cardinality(NewerIn(S, u)) < Cardinality(NewerIn(S, t)) /\ Cardinality(NewerIn(S, u)) \in Nat
        BY <3>4, <4>1, RowsHavePlaces
      <4>3. Cardinality(NewerIn(S, u)) < k
        BY <3>1, <3>4, <4>2
      <4> QED BY <4>3 DEF Newest
    <3>6. NewerIn(T, t) = NewerIn(S, t)
      BY <3>5 DEF NewerIn
    <3>7. Cardinality(NewerIn(T, t)) + 1 = i
      BY <3>1, <3>4, <3>6
    <3>8. i \in 1..Cardinality(T) /\ r[i] = t
      BY <1>0, <1>2, <3>4, <3>7, RowsHavePlaces
    <3> QED BY <3>8 DEF t
  <2>2. k <= Cardinality(T)
    <3>1. CASE k = 0
      BY <1>0, <3>1
    <3>2. CASE k # 0
      <4>1. k \in 1..k
        BY <3>2
      <4> QED BY <1>0, <2>1, <4>1
    <3> QED BY <3>1, <3>2
  <2> HIDE DEF s, r
  <2>3. Slice(r, a, k) = SubSeq(r, a, k) /\ Slice(s, a, k) = SubSeq(s, a, k)
    BY <1>0, <1>1, <1>2, <1>4, <2>2 DEF Slice
  <2>4. SubSeq(r, a, k) = SubSeq(s, a, k)
    BY <1>0, <1>1, <1>2, <1>4, <2>1, <2>2
  <2>5. Slice(r, a, k) = Slice(s, a, k)
    BY <2>3, <2>4
  <2> QED BY <2>5 DEF r, s
<1> QED BY <1>0, <1>3, <1>4

\* What a smaller cut leaves of a greater one.
LEMMA CutOfCut ==
  ASSUME NEW X, NEW s \in Seq(X), NEW n \in Nat, NEW m \in Nat, n <= m
  PROVE  Slice(Slice(s, 1, m), 1, n) = Slice(s, 1, n)
<1>1. CASE Len(s) <= m
  <2>1. Slice(s, 1, m) = s
    BY <1>1 DEF Slice
  <2> QED BY <2>1
<1>2. CASE Len(s) > m
  <2> DEFINE c == SubSeq(s, 1, m)
  <2>1. Slice(s, 1, m) = c
    BY <1>2 DEF Slice
  <2>2. c \in Seq(X) /\ Len(c) = m /\ \A i \in 1..m : c[i] = s[i]
    BY <1>2
  <2> HIDE DEF c
  <2>3. Slice(c, 1, n) = SubSeq(c, 1, n)
    BY <2>2 DEF Slice
  <2>4. Slice(s, 1, n) = SubSeq(s, 1, n)
    BY <1>2 DEF Slice
  <2>5. SubSeq(c, 1, n) = SubSeq(s, 1, n)
    BY <1>2, <2>2
  <2> QED BY <2>1, <2>3, <2>4, <2>5
<1> QED BY <1>1, <1>2

\* The newest rows of a union are among the newest of its parts.
LEMMA NewestOfUnion ==
  ASSUME NEW S, S \subseteq Nat, IsFiniteSet(S), NEW R, R \subseteq Nat, IsFiniteSet(R), NEW k \in Nat
  PROVE  Newest(S \cup R, k) \subseteq Newest(S, k) \cup Newest(R, k)
<1> DEFINE U == S \cup R
<1>0. U \subseteq Nat /\ IsFiniteSet(U)
  BY FS_Union
<1>1. ASSUME NEW P \in {S, R}, NEW t \in P, Cardinality(NewerIn(U, t)) < k
      PROVE  t \in Newest(P, k)
  <2>1. NewerIn(P, t) \subseteq NewerIn(U, t)
    BY DEF NewerIn
  <2>2. IsFiniteSet(NewerIn(U, t)) /\ Cardinality(NewerIn(U, t)) \in Nat
    <3> HIDE DEF U
    <3>1. t \in U
      BY DEF U
    <3> QED BY <1>0, <3>1, RowsHavePlaces
  <2>3. Cardinality(NewerIn(P, t)) <= Cardinality(NewerIn(U, t)) /\ IsFiniteSet(NewerIn(P, t))
    BY <2>1, <2>2, FS_Subset
  <2>4. Cardinality(NewerIn(P, t)) \in Nat
    BY <2>3, FS_CardinalityType
  <2> QED BY <1>1, <2>2, <2>3, <2>4 DEF Newest
<1> QED BY <1>1 DEF Newest

\* The rows of the nodes, numbered as they are written, are apart.
RowsApart ==
  /\ rowsOf \in [Nodes -> SUBSET (1..MaxTime)]
  /\ \A m, n \in Nodes : m # n => rowsOf[m] \cap rowsOf[n] = {}
  /\ \A t \in AllRows : t <= Cardinality(AllRows)

AskingState ==
  [at : {"asking"}, kind : Kind, page : Nat, size : Nat, todo : SUBSET Nodes, asked : SUBSET Nodes,
   merged : SUBSET Nat, total : Nat, named : Seq([node : Nodes, online : BOOLEAN]), seen : SUBSET Nat]

\* A node sends its newest rows only, to a dashboard and to a page of more than one node.
Cutting(v) == v.kind = "dashboard" \/ (v.kind = "network" /\ v.asked # {})
CutSize(v) == IF v.kind = "dashboard" THEN NodeRecent ELSE FetchSize(v.page, v.size)
Answered(v) == ({LocalNode} \cup v.asked) \ v.todo

\* The argument of the merges: while the nodes are asked, the newest rows of all that was
\* seen, as many as one node sends, are merged already (a silent node and rows written
\* later change neither); each node that answered is seen once and named once.
MergeInv(v) ==
  /\ v \in AskingState /\ LocalNode \notin v.asked /\ v.todo \subseteq v.asked
  /\ v.kind = "network" => v.page \in Pages /\ v.size \in PageSizes
  /\ v.seen \subseteq UNION {rowsOf[n] : n \in Answered(v)}
  /\ v.merged \subseteq v.seen /\ v.total = Cardinality(v.seen)
  /\ IF Cutting(v) THEN Newest(v.seen, CutSize(v)) \subseteq v.merged ELSE v.merged = v.seen
  /\ NamesNodes(v.kind) => /\ {v.named[i].node : i \in DOMAIN v.named} = Answered(v)
                           /\ Len(v.named) = Cardinality(Answered(v))

ViewsInv ==
  /\ RowsApart /\ MergesAreGlobal
  /\ view.at \in {"idle", "asking", "shown"}
  /\ view.at = "asking" => MergeInv(view)

LEMMA RowsAreFinite ==
  ASSUME RowsApart
  PROVE  /\ AllRows \subseteq 1..MaxTime /\ AllRows \subseteq Nat
         /\ IsFiniteSet(AllRows) /\ Cardinality(AllRows) \in Nat
         /\ \A S \in SUBSET AllRows : IsFiniteSet(S) /\ Cardinality(S) \in Nat /\ S \subseteq Nat
         /\ \A n \in Nodes : rowsOf[n] \subseteq AllRows
<1>1. IsFiniteSet(1..MaxTime) /\ 1..MaxTime \subseteq Nat
  BY ViewsAssumption, FS_Interval
<1>2. AllRows \subseteq 1..MaxTime /\ \A n \in Nodes : rowsOf[n] \subseteq AllRows
  BY DEF AllRows, RowsApart
<1> QED BY <1>1, <1>2, FS_Subset, FS_CardinalityType

LEMMA NodesAreFinite ==
  /\ IsFiniteSet(Nodes) /\ Nodes \subseteq Nat /\ LocalNode \in Nodes
  /\ \A S \in SUBSET Nodes : IsFiniteSet(S) /\ Cardinality(S) \in Nat
<1>1. IsFiniteSet(Nodes) /\ Nodes \subseteq Nat /\ LocalNode \in Nodes
  BY ViewsAssumption, FS_Interval DEF Nodes, LocalNode
<1> QED BY <1>1, FS_Subset, FS_CardinalityType

LEMMA CutSizeType ==
  ASSUME NEW v, v.kind = "network" => v.page \in Pages /\ v.size \in PageSizes, Cutting(v)
  PROVE  CutSize(v) \in Nat
<1>1. CASE v.kind = "dashboard"
  BY <1>1, ViewsAssumption DEF CutSize
<1>2. CASE v.kind # "dashboard"
  <2>1. v.page \in Nat /\ v.size \in Nat /\ MaxFetch \in Nat
    BY <1>2, ViewsAssumption DEF Cutting
  <2>2. v.page * v.size \in Nat
    BY <2>1
  <2> QED BY <1>2, <2>1, <2>2 DEF CutSize, FetchSize
<1> QED BY <1>1, <1>2

\* What a node sends.
LEMMA PartOfNode ==
  ASSUME NEW v, NEW n
  PROVE  NodePart(v, n) = IF Cutting(v) THEN Newest(rowsOf[n], CutSize(v)) ELSE rowsOf[n]
BY DEF NodePart, Cutting, CutSize, SummaryRows

LEMMA ViewsInitInv == ViewsInit => ViewsInv
<1> SUFFICES ASSUME ViewsInit PROVE ViewsInv
  OBVIOUS
<1>1. PICK now \in 0..MaxTime : \E owner \in [1..now -> Nodes] :
          rowsOf = [n \in Nodes |-> {t \in 1..now : owner[t] = n}]
  BY DEF ViewsInit
<1>2. PICK owner \in [1..now -> Nodes] : rowsOf = [n \in Nodes |-> {t \in 1..now : owner[t] = n}]
  BY <1>1
<1>3. now \in Nat /\ now <= MaxTime /\ 1..now \subseteq 1..MaxTime
  BY ViewsAssumption
<1>4. rowsOf \in [Nodes -> SUBSET (1..MaxTime)]
      /\ \A m, n \in Nodes : m # n => rowsOf[m] \cap rowsOf[n] = {}
  BY <1>2, <1>3
<1>5. AllRows = 1..now
  <2>1. \A n \in Nodes : rowsOf[n] \subseteq 1..now
    BY <1>2
  <2>2. \A t \in 1..now : owner[t] \in Nodes /\ t \in rowsOf[owner[t]]
    BY <1>2
  <2> QED BY <2>1, <2>2 DEF AllRows
<1>6. Cardinality(AllRows) = now
  <2>1. Cardinality(1..now) = IF 1 > now THEN 0 ELSE now - 1 + 1
    BY <1>3, FS_Interval
  <2> QED BY <1>3, <1>5, <2>1
<1>7. RowsApart
  BY <1>3, <1>4, <1>5, <1>6 DEF RowsApart
<1>8. view.at = "idle"
  BY DEF ViewsInit, NoView
<1>9. MergesAreGlobal
  BY <1>8 DEF MergesAreGlobal, PageIsGlobal, RecentIsGlobal, NodesAccounted
<1> QED BY <1>7, <1>8, <1>9 DEF ViewsInv

\* While a view is asked for nothing is shown.
LEMMA NothingShown ==
  ASSUME view.at # "shown"
  PROVE  MergesAreGlobal
BY DEF MergesAreGlobal, PageIsGlobal, RecentIsGlobal, NodesAccounted

LEMMA NothingShownNext ==
  ASSUME view'.at # "shown"
  PROVE  MergesAreGlobal'
BY DEF MergesAreGlobal, PageIsGlobal, RecentIsGlobal, NodesAccounted

\* A view begins with the panel's own part.
LEMMA BeginKeepsMerge ==
  ASSUME ViewsInv, NEW kind \in Kind, NEW page \in Nat, NEW size \in Nat,
         NEW enabled \in SUBSET (Nodes \ {LocalNode}),
         kind = "network" => page \in Pages /\ size \in PageSizes,
         BeginView(kind, page, size, enabled)
  PROVE  ViewsInv'
<1> DEFINE v == [at |-> "asking", kind |-> kind, page |-> page, size |-> size, todo |-> enabled,
                 asked |-> enabled, merged |-> {}, total |-> 0, named |-> <<>>, seen |-> {}]
           sent == NodePart(v, LocalNode)
           names == <<[node |-> LocalNode, online |-> TRUE]>>
           own == rowsOf[LocalNode]
           w == [at |-> "asking", kind |-> kind, page |-> page, size |-> size, todo |-> enabled,
                 asked |-> enabled, merged |-> sent, total |-> Cardinality(own), named |-> names,
                 seen |-> own]
<1>1. view' = w /\ rowsOf' = rowsOf
  BY DEF BeginView
<1>2. sent = IF Cutting(w) THEN Newest(own, CutSize(w)) ELSE own
  <2>1. Cutting(v) <=> Cutting(w)
    BY DEF Cutting
  <2>2. CutSize(v) = CutSize(w)
    BY DEF CutSize
  <2> HIDE DEF v, w
  <2> QED BY <2>1, <2>2, PartOfNode
<1>3. own \subseteq AllRows /\ own \subseteq Nat /\ Cardinality(own) \in Nat /\ sent \subseteq own
  <2>1. sent \subseteq own
    <3> HIDE DEF own, w, sent
    <3> QED BY <1>2 DEF Newest
  <2>2. own \subseteq AllRows
    BY RowsAreFinite, NodesAreFinite DEF ViewsInv
  <2> QED BY <2>1, <2>2, RowsAreFinite DEF ViewsInv
<1>4. names \in Seq([node : Nodes, online : BOOLEAN]) /\ Len(names) = 1
      /\ {names[i].node : i \in DOMAIN names} = {LocalNode}
  BY NodesAreFinite
<1>5. Answered(w) = {LocalNode} /\ Cardinality(Answered(w)) = 1
  <2>1. w.asked = enabled /\ w.todo = enabled
    OBVIOUS
  <2> HIDE DEF w
  <2>2. Answered(w) = {LocalNode}
    BY <2>1, NodesAreFinite DEF Answered
  <2>3. Cardinality({LocalNode}) = 1
    BY FS_Singleton
  <2> QED BY <2>2, <2>3
<1> HIDE DEF sent, names, own
<1>6. w \in AskingState
  <2>1. sent \in SUBSET Nat /\ own \in SUBSET Nat /\ enabled \in SUBSET Nodes
    BY <1>3
  <2> QED BY <1>3, <1>4, <2>1 DEF AskingState
<1>7. MergeInv(w)
  <2>1. /\ LocalNode \notin w.asked /\ w.todo \subseteq w.asked
        /\ w.kind = "network" => w.page \in Pages /\ w.size \in PageSizes
        /\ w.total = Cardinality(w.seen) /\ w.merged \subseteq w.seen
    BY <1>3
  <2>2. w.seen = own /\ w.merged = sent /\ w.named = names
    OBVIOUS
  <2> HIDE DEF w
  <2>3. w.seen \subseteq UNION {rowsOf[n] : n \in Answered(w)}
    BY <1>5, <2>2 DEF own
  <2>4. /\ {w.named[i].node : i \in DOMAIN w.named} = Answered(w)
        /\ Len(w.named) = Cardinality(Answered(w))
    BY <1>4, <1>5, <2>2
  <2>5. IF Cutting(w) THEN Newest(w.seen, CutSize(w)) \subseteq w.merged ELSE w.merged = w.seen
    BY <1>2, <2>2
  <2> QED BY <1>6, <2>1, <2>3, <2>4, <2>5 DEF MergeInv
<1>8. MergeInv(view)'
  <2>1. MergeInv(view)' = MergeInv(w)
    <3> HIDE DEF w
    <3> QED BY <1>1 DEF MergeInv
  <2> QED BY <1>7, <2>1
<1>9. view'.at = "asking"
  BY <1>1
<1>10. RowsApart'
  BY <1>1 DEF ViewsInv, RowsApart, AllRows
<1> QED BY <1>8, <1>9, <1>10, NothingShownNext DEF ViewsInv

\* The node that is asked next is one, and one that has not answered.
LEMMA NextIsAsked ==
  ASSUME ViewsInv, view.at = "asking", view.todo # {}
  PROVE  /\ MergeInv(view) /\ NextNode \in view.todo /\ NextNode \in view.asked
         /\ NextNode \in Nodes /\ NextNode # LocalNode /\ NextNode \notin Answered(view)
<1>1. MergeInv(view) /\ view.todo \subseteq Nodes
  BY DEF ViewsInv, MergeInv, AskingState
<1>2. IsFiniteSet(view.todo) /\ view.todo \subseteq Nat
  BY <1>1, NodesAreFinite
<1>3. \E n \in view.todo : \A m \in view.todo : n <= m
  BY <1>2, Extremes
<1>4. NextNode \in view.todo
  BY <1>3 DEF NextNode
<1> QED BY <1>1, <1>4 DEF MergeInv, Answered

\* The nodes named so far, when one more is.
LEMMA OneMoreNamed ==
  ASSUME ViewsInv, view.at = "asking", view.todo # {}, NEW online \in BOOLEAN,
         NEW new, new.todo = view.todo \ {NextNode}, new.asked = view.asked, new.kind = view.kind,
         new.named = Append(view.named, [node |-> NextNode, online |-> online])
  PROVE  /\ new.named \in Seq([node : Nodes, online : BOOLEAN])
         /\ Answered(new) = Answered(view) \cup {NextNode}
         /\ NamesNodes(new.kind) => /\ {new.named[i].node : i \in DOMAIN new.named} = Answered(new)
                                    /\ Len(new.named) = Cardinality(Answered(new))
<1> DEFINE e == [node |-> NextNode, online |-> online]
<1>0. /\ MergeInv(view) /\ NextNode \in Nodes /\ NextNode \in view.asked /\ NextNode \notin Answered(view)
      /\ view.named \in Seq([node : Nodes, online : BOOLEAN]) /\ view.asked \subseteq Nodes
  BY NextIsAsked DEF MergeInv, AskingState
<1>1. e \in [node : Nodes, online : BOOLEAN] /\ e.node = NextNode
  BY <1>0
<1> HIDE DEF e
<1>2. /\ new.named \in Seq([node : Nodes, online : BOOLEAN])
      /\ Len(new.named) = Len(view.named) + 1 /\ new.named[Len(view.named) + 1] = e
      /\ \A i \in 1..Len(view.named) : new.named[i] = view.named[i]
      /\ Len(view.named) \in Nat
  BY <1>0, <1>1 DEF e
<1>3. Answered(new) = Answered(view) \cup {NextNode}
  BY <1>0 DEF Answered
<1>4. Cardinality(Answered(new)) = Cardinality(Answered(view)) + 1
  <2>1. IsFiniteSet(Answered(view))
    BY <1>0, NodesAreFinite DEF Answered
  <2>2. Cardinality(Answered(view) \cup {NextNode}) = Cardinality(Answered(view)) + 1
    BY <1>0, <2>1, FS_AddElement
  <2> QED BY <1>3, <2>2
<1>5. {new.named[i].node : i \in DOMAIN new.named} = {view.named[i].node : i \in DOMAIN view.named} \cup {NextNode}
  <2>1. DOMAIN new.named = 1..(Len(view.named) + 1) /\ DOMAIN view.named = 1..Len(view.named)
    BY <1>0, <1>2
  <2>2. ASSUME NEW i \in DOMAIN new.named
        PROVE  new.named[i].node \in {view.named[j].node : j \in DOMAIN view.named} \cup {NextNode}
    <3>1. CASE i \in 1..Len(view.named)
      BY <1>2, <2>1, <3>1
    <3>2. CASE i = Len(view.named) + 1
      BY <1>1, <1>2, <3>2
    <3>3. Len(view.named) \in Nat /\ i \in 1..(Len(view.named) + 1)
      BY <1>2, <2>1
    <3>4. i \in 1..Len(view.named) \/ i = Len(view.named) + 1
      BY <3>3
    <3> QED BY <3>1, <3>2, <3>4
  <2>3. ASSUME NEW i \in DOMAIN view.named
        PROVE  view.named[i].node \in {new.named[j].node : j \in DOMAIN new.named}
    <3>1. i \in DOMAIN new.named /\ new.named[i] = view.named[i]
      BY <1>2, <2>1
    <3> QED BY <3>1
  <2>4. NextNode \in {new.named[j].node : j \in DOMAIN new.named}
    <3>1. Len(view.named) + 1 \in DOMAIN new.named /\ new.named[Len(view.named) + 1].node = NextNode
      BY <1>1, <1>2, <2>1
    <3> QED BY <3>1
  <2> QED BY <2>2, <2>3, <2>4
<1>6. NamesNodes(view.kind) => /\ {view.named[i].node : i \in DOMAIN view.named} = Answered(view)
                               /\ Len(view.named) = Cardinality(Answered(view))
  BY <1>0 DEF MergeInv
<1> QED BY <1>2, <1>3, <1>4, <1>5, <1>6

\* A view stays about the same question while nodes are asked.
LEMMA SameCut ==
  ASSUME NEW v, NEW w, w.kind = v.kind, w.page = v.page, w.size = v.size, w.asked = v.asked
  PROVE  (Cutting(w) <=> Cutting(v)) /\ CutSize(w) = CutSize(v)
BY DEF Cutting, CutSize

LEMMA AnswerKeepsMerge ==
  ASSUME ViewsInv, NodeAnswers
  PROVE  ViewsInv'
<1> DEFINE n == NextNode
           sent == NodePart(view, n)
           own == rowsOf[n]
           w == [view EXCEPT !.todo = view.todo \ {n}, !.merged = view.merged \cup sent,
                             !.total = view.total + Cardinality(own),
                             !.named = Append(view.named, [node |-> n, online |-> TRUE]),
                             !.seen = view.seen \cup own]
<1>0. /\ view.at = "asking" /\ view.todo # {} /\ rowsOf' = rowsOf /\ view' = w
  BY DEF NodeAnswers
<1>1. MergeInv(view) /\ view \in AskingState /\ n \in view.todo /\ n \in Nodes /\ n \notin Answered(view)
  BY <1>0, NextIsAsked DEF MergeInv
<1>2. /\ w.at = "asking" /\ w.kind = view.kind /\ w.page = view.page /\ w.size = view.size
      /\ w.asked = view.asked /\ w.todo = view.todo \ {n} /\ w.merged = view.merged \cup sent
      /\ w.total = view.total + Cardinality(own) /\ w.seen = view.seen \cup own
      /\ w.named = Append(view.named, [node |-> n, online |-> TRUE])
  <2> HIDE DEF sent, own, n
  <2> QED BY <1>1 DEF AskingState
<1>3. /\ own \subseteq AllRows /\ own \subseteq Nat /\ IsFiniteSet(own) /\ Cardinality(own) \in Nat
      /\ view.seen \subseteq AllRows /\ view.seen \subseteq Nat /\ IsFiniteSet(view.seen)
  <2>1. Answered(view) \subseteq Nodes
    BY <1>1, NodesAreFinite DEF Answered, AskingState
  <2>2. own \subseteq AllRows /\ view.seen \subseteq AllRows
    BY <1>1, <2>1, RowsAreFinite DEF ViewsInv, MergeInv, AllRows
  <2> QED BY <2>2, RowsAreFinite DEF ViewsInv
<1>4. sent = IF Cutting(view) THEN Newest(own, CutSize(view)) ELSE own
  BY PartOfNode
<1>5. sent \subseteq own
  <2> HIDE DEF sent, own
  <2> QED BY <1>4 DEF Newest
<1>6. own \cap view.seen = {}
  <2>1. \A m \in Answered(view) : m \in Nodes /\ m # n
    BY <1>1, NodesAreFinite DEF Answered, AskingState
  <2>2. \A m \in Answered(view) : rowsOf[m] \cap own = {}
    BY <1>1, <2>1 DEF ViewsInv, RowsApart
  <2> HIDE DEF own
  <2> QED BY <1>1, <2>2 DEF MergeInv
<1>7. /\ w.named \in Seq([node : Nodes, online : BOOLEAN])
      /\ Answered(w) = Answered(view) \cup {n}
      /\ NamesNodes(w.kind) => /\ {w.named[i].node : i \in DOMAIN w.named} = Answered(w)
                               /\ Len(w.named) = Cardinality(Answered(w))
  <2> HIDE DEF w
  <2> QED BY <1>0, <1>2, OneMoreNamed
<1>8. w.seen \subseteq UNION {rowsOf[m] : m \in Answered(w)}
  <2> HIDE DEF w
  <2>1. view.seen \subseteq UNION {rowsOf[m] : m \in Answered(view)}
    BY <1>1 DEF MergeInv
  <2> QED BY <1>2, <1>7, <2>1
<1> HIDE DEF w, sent, own, n
<1>9. w.total = Cardinality(w.seen) /\ w.total \in Nat
  <2>1. Cardinality(own \cap view.seen) = 0
    BY <1>6, FS_EmptySet
  <2>2. /\ Cardinality(view.seen \cup own)
             = Cardinality(view.seen) + Cardinality(own) - Cardinality(view.seen \cap own)
    BY <1>3, FS_Union
  <2>3. view.seen \cap own = own \cap view.seen
    OBVIOUS
  <2>4. Cardinality(view.seen) = view.total /\ view.total \in Nat
    BY <1>1 DEF MergeInv, AskingState
  <2>5. Cardinality(view.seen \cup own) = view.total + Cardinality(own)
    <3>1. Cardinality(view.seen \cap own) = 0
      BY <2>1, <2>3
    <3>2. Cardinality(own) \in Nat
      BY <1>3
    <3>3. Cardinality(view.seen \cup own) = view.total + Cardinality(own) - 0
      BY <2>2, <2>4, <3>1
    <3> QED BY <2>4, <3>2, <3>3
  <2>6. view.total + Cardinality(own) \in Nat
    BY <1>3, <2>4
  <2> QED BY <1>2, <2>5, <2>6
<1>10. w.merged \subseteq w.seen
  BY <1>1, <1>2, <1>5 DEF MergeInv
<1>11. IF Cutting(w) THEN Newest(w.seen, CutSize(w)) \subseteq w.merged ELSE w.merged = w.seen
  <2>1. (Cutting(w) <=> Cutting(view)) /\ CutSize(w) = CutSize(view)
    BY <1>2, SameCut
  <2>2. CASE Cutting(view)
    <3>1. CutSize(view) \in Nat
      BY <1>1, <2>2, CutSizeType DEF MergeInv
    <3>2. Newest(view.seen \cup own, CutSize(view))
            \subseteq Newest(view.seen, CutSize(view)) \cup Newest(own, CutSize(view))
      BY <1>3, <3>1, NewestOfUnion
    <3> QED BY <1>1, <1>2, <1>4, <2>1, <2>2, <3>2 DEF MergeInv
  <2>3. CASE ~Cutting(view)
    BY <1>1, <1>2, <1>4, <2>1, <2>3 DEF MergeInv
  <2> QED BY <2>2, <2>3
<1>12. w \in AskingState
  <2>1. w.merged \in SUBSET Nat /\ w.seen \in SUBSET Nat /\ w.todo \in SUBSET Nodes
    BY <1>1, <1>2, <1>3, <1>10 DEF AskingState
  <2>2. /\ view.todo \ {n} \in SUBSET Nodes /\ view.merged \cup sent \in SUBSET Nat
        /\ view.seen \cup own \in SUBSET Nat /\ view.total + Cardinality(own) \in Nat
        /\ Append(view.named, [node |-> n, online |-> TRUE]) \in Seq([node : Nodes, online : BOOLEAN])
    BY <1>2, <1>7, <1>9, <2>1
  <2> QED BY <1>1, <2>2 DEF w, AskingState
<1>13. MergeInv(w)
  BY <1>1, <1>2, <1>7, <1>8, <1>9, <1>10, <1>11, <1>12 DEF MergeInv
<1>14. MergeInv(view)'
  BY <1>0, <1>13 DEF MergeInv
<1>15. RowsApart' /\ view'.at = "asking"
  BY <1>0, <1>2 DEF ViewsInv, RowsApart, AllRows
<1> QED BY <1>14, <1>15, NothingShownNext DEF ViewsInv

\* A silent node leaves what is merged as it is.
LEMMA SilenceKeepsMerge ==
  ASSUME ViewsInv, NodeSilent
  PROVE  ViewsInv'
<1> DEFINE n == NextNode
           names == IF NamesNodes(view.kind)
                    THEN Append(view.named, [node |-> n, online |-> FALSE]) ELSE view.named
           w == [view EXCEPT !.todo = view.todo \ {n}, !.named = names]
<1>0. view.at = "asking" /\ view.todo # {} /\ rowsOf' = rowsOf /\ view' = w
  BY DEF NodeSilent
<1>1. MergeInv(view) /\ view \in AskingState /\ n \in view.todo /\ n \in Nodes /\ n \in view.asked
  BY <1>0, NextIsAsked DEF MergeInv
<1>2. /\ w.at = "asking" /\ w.kind = view.kind /\ w.page = view.page /\ w.size = view.size
      /\ w.asked = view.asked /\ w.todo = view.todo \ {n} /\ w.merged = view.merged
      /\ w.total = view.total /\ w.seen = view.seen /\ w.named = names
  <2> HIDE DEF names, n
  <2> QED BY <1>1 DEF AskingState
<1> HIDE DEF w
<1>3. /\ w.named \in Seq([node : Nodes, online : BOOLEAN])
      /\ Answered(w) = Answered(view) \cup {n}
      /\ NamesNodes(w.kind) => /\ {w.named[i].node : i \in DOMAIN w.named} = Answered(w)
                               /\ Len(w.named) = Cardinality(Answered(w))
  <2>1. CASE NamesNodes(view.kind)
    <3>1. w.named = Append(view.named, [node |-> NextNode, online |-> FALSE])
      BY <1>2, <2>1
    <3>2. w.todo = view.todo \ {NextNode} /\ w.asked = view.asked /\ w.kind = view.kind
      BY <1>2
    <3> QED BY <1>0, <3>1, <3>2, OneMoreNamed
  <2>2. CASE ~NamesNodes(view.kind)
    BY <1>1, <1>2, <2>2 DEF AskingState, Answered
  <2> QED BY <2>1, <2>2
<1>4. w \in AskingState
  <2>1. names \in Seq([node : Nodes, online : BOOLEAN]) /\ view.todo \ {n} \in SUBSET Nodes
    BY <1>1, <1>2, <1>3 DEF AskingState
  <2> HIDE DEF names, n
  <2> QED BY <1>1, <2>1 DEF w, AskingState
<1>5. w.seen \subseteq UNION {rowsOf[m] : m \in Answered(w)}
  <2>1. view.seen \subseteq UNION {rowsOf[m] : m \in Answered(view)}
    BY <1>1 DEF MergeInv
  <2> QED BY <1>2, <1>3, <2>1
<1>6. (Cutting(w) <=> Cutting(view)) /\ CutSize(w) = CutSize(view)
  BY <1>2, SameCut
<1>7. MergeInv(w)
  BY <1>1, <1>2, <1>3, <1>4, <1>5, <1>6 DEF MergeInv
<1>8. MergeInv(view)'
  BY <1>0, <1>7 DEF MergeInv
<1>9. RowsApart' /\ view'.at = "asking"
  BY <1>0, <1>2 DEF ViewsInv, RowsApart, AllRows
<1> QED BY <1>8, <1>9, NothingShownNext DEF ViewsInv

\* What is shown in the end is cut out of rows that agree with all that was seen.
LEMMA EndKeepsMerge ==
  ASSUME ViewsInv, EndView, NodeRecent <= PanelRecent
  PROVE  ViewsInv'
<1> DEFINE w == [at |-> "shown", kind |-> view.kind, page |-> view.page, size |-> view.size,
                 items |-> ShownOf(view), total |-> view.total, named |-> view.named,
                 asked |-> view.asked, seen |-> view.seen]
<1>0. view.at = "asking" /\ view.todo = {} /\ rowsOf' = rowsOf /\ view' = w
  BY DEF EndView
<1>1. MergeInv(view) /\ view \in AskingState
  BY <1>0 DEF ViewsInv, MergeInv
<1>2. /\ view'.at = "shown" /\ view'.kind = view.kind /\ view'.page = view.page
      /\ view'.size = view.size /\ view'.items = ShownOf(view) /\ view'.total = view.total
      /\ view'.named = view.named /\ view'.asked = view.asked /\ view'.seen = view.seen
  BY <1>0
<1> HIDE DEF w
<1>3. /\ view.seen \subseteq Nat /\ IsFiniteSet(view.seen) /\ view.merged \in SUBSET view.seen
      /\ view.merged \subseteq Nat /\ IsFiniteSet(view.merged)
  <2>1. Answered(view) \subseteq Nodes
    BY <1>1, NodesAreFinite DEF Answered, AskingState
  <2>2. view.seen \subseteq AllRows
    BY <1>1, <2>1 DEF MergeInv, AllRows
  <2>3. view.merged \subseteq view.seen
    BY <1>1 DEF MergeInv
  <2> QED BY <2>2, <2>3, RowsAreFinite DEF ViewsInv
<1>4. PageIsGlobal'
  <2> SUFFICES ASSUME view.kind = "network", view.page * view.size <= MaxFetch \/ view.asked = {}
               PROVE  /\ ShownOf(view) = PageOf(view.seen, view.page, view.size)
                      /\ view.total = Cardinality(view.seen)
    BY <1>2 DEF PageIsGlobal
  <2>1. ShownOf(view) = PageOf(view.merged, view.page, view.size)
    BY DEF ShownOf
  <2>2. CASE view.asked = {}
    <3>1. view.merged = view.seen
      BY <1>1, <2>2 DEF MergeInv, Cutting
    <3> QED BY <1>1, <2>1, <3>1 DEF MergeInv
  <2>3. CASE view.asked # {} /\ view.page * view.size <= MaxFetch
    <3> DEFINE k == view.page * view.size
               a == (view.page - 1) * view.size + 1
    <3>1. view.page \in Nat \ {0} /\ view.size \in Nat \ {0}
      BY <1>1, ViewsAssumption DEF MergeInv
    <3>2. k \in Nat /\ a \in Nat \ {0}
      <4>1. view.page - 1 \in Nat
        BY <3>1
      <4>2. (view.page - 1) * view.size \in Nat /\ view.page * view.size \in Nat
        BY <3>1, <4>1
      <4> QED BY <4>2
    <3>3. Newest(view.seen, k) \subseteq view.merged
      BY <1>1, <2>3 DEF MergeInv, Cutting, CutSize, FetchSize
    <3> HIDE DEF k, a
    <3>4. Slice(NewestFirst(view.merged), a, k) = Slice(NewestFirst(view.seen), a, k)
      BY <1>3, <3>2, <3>3, CutsAgree
    <3>5. ShownOf(view) = PageOf(view.seen, view.page, view.size)
      BY <2>1, <3>4 DEF PageOf, a, k
    <3> QED BY <1>1, <3>5 DEF MergeInv
  <2> QED BY <2>2, <2>3
<1>5. RecentIsGlobal'
  <2> SUFFICES ASSUME view.kind = "dashboard"
               PROVE  Slice(ShownOf(view), 1, NodeRecent) = Slice(NewestFirst(view.seen), 1, NodeRecent)
    BY <1>2 DEF RecentIsGlobal
  <2>1. ShownOf(view) = Slice(NewestFirst(view.merged), 1, PanelRecent)
    BY DEF ShownOf
  <2>2. NodeRecent \in Nat /\ PanelRecent \in Nat /\ 1 \in Nat \ {0}
    BY ViewsAssumption
  <2>3. NewestFirst(view.merged) \in Seq(view.merged)
    BY <1>3, SortedByPlace
  <2>4. Slice(ShownOf(view), 1, NodeRecent) = Slice(NewestFirst(view.merged), 1, NodeRecent)
    BY <2>1, <2>2, <2>3, CutOfCut
  <2>5. Newest(view.seen, NodeRecent) \subseteq view.merged
    BY <1>1 DEF MergeInv, Cutting, CutSize
  <2>6. Slice(NewestFirst(view.merged), 1, NodeRecent) = Slice(NewestFirst(view.seen), 1, NodeRecent)
    BY <1>3, <2>2, <2>5, CutsAgree
  <2> QED BY <2>4, <2>6
<1>6. NodesAccounted'
  <2>1. Answered(view) = {LocalNode} \cup view.asked
    BY <1>0 DEF Answered
  <2>2. Cardinality({LocalNode} \cup view.asked) = 1 + Cardinality(view.asked)
    <3>1. IsFiniteSet(view.asked) /\ Cardinality(view.asked) \in Nat /\ LocalNode \notin view.asked
      BY <1>1, NodesAreFinite DEF MergeInv, AskingState
    <3>2. Cardinality(view.asked \cup {LocalNode}) = Cardinality(view.asked) + 1
      BY <3>1, FS_AddElement
    <3>3. view.asked \cup {LocalNode} = {LocalNode} \cup view.asked
      OBVIOUS
    <3>4. Cardinality({LocalNode} \cup view.asked) = Cardinality(view.asked) + 1
      BY <3>2, <3>3
    <3>5. Cardinality(view.asked) + 1 = 1 + Cardinality(view.asked)
      BY <3>1
    <3> QED BY <3>4, <3>5
  <2>3. NamesNodes(view.kind) =>
          /\ {view.named[i].node : i \in DOMAIN view.named} = {LocalNode} \cup view.asked
          /\ Len(view.named) = 1 + Cardinality(view.asked)
    BY <1>1, <2>1, <2>2 DEF MergeInv
  <2>4. view.kind \in ListKind => ToSet(ShownOf(view)) = view.seen
    <3> SUFFICES ASSUME view.kind \in ListKind PROVE ToSet(ShownOf(view)) = view.seen
      OBVIOUS
    <3>1. view.kind # "network" /\ view.kind # "dashboard"
      BY DEF ListKind
    <3>2. view.merged = view.seen
      BY <1>1, <3>1 DEF MergeInv, Cutting
    <3>3. ShownOf(view) = NewestFirst(view.seen)
      BY <3>1, <3>2 DEF ShownOf
    <3> QED BY <1>3, <3>3, SortedByPlace
  <2> QED BY <1>2, <2>3, <2>4 DEF NodesAccounted
<1>7. RowsApart'
  BY <1>0 DEF ViewsInv, RowsApart, AllRows
<1> QED BY <1>2, <1>4, <1>5, <1>6, <1>7 DEF ViewsInv, MergesAreGlobal

\* A row that is written has a time of its own, and changes no view.
LEMMA WriteKeepsMerge ==
  ASSUME ViewsInv, NEW n \in Nodes, RowWritten(n)
  PROVE  ViewsInv'
<1> DEFINE t == Cardinality(AllRows) + 1
<1>0. /\ view.at = "asking" /\ view' = view /\ Cardinality(AllRows) < MaxTime
      /\ rowsOf' = [rowsOf EXCEPT ![n] = rowsOf[n] \cup {t}]
  BY DEF RowWritten
<1>1. Cardinality(AllRows) \in Nat /\ AllRows \subseteq Nat /\ IsFiniteSet(AllRows)
      /\ \A m \in Nodes : rowsOf[m] \subseteq AllRows
  BY RowsAreFinite DEF ViewsInv
<1>2. t \in 1..MaxTime /\ t \notin AllRows
  <2>1. \A u \in AllRows : u <= Cardinality(AllRows)
    BY DEF ViewsInv, RowsApart
  <2>2. t \notin AllRows
    <3> SUFFICES ASSUME t \in AllRows PROVE FALSE
      OBVIOUS
    <3>1. t <= Cardinality(AllRows)
      BY <2>1
    <3> QED BY <1>1, <3>1
  <2> QED BY <1>0, <1>1, <2>2, ViewsAssumption
<1> HIDE DEF t
<1>3. /\ rowsOf' \in [Nodes -> SUBSET (1..MaxTime)] /\ rowsOf'[n] = rowsOf[n] \cup {t}
      /\ \A m \in Nodes \ {n} : rowsOf'[m] = rowsOf[m]
  BY <1>0, <1>2 DEF ViewsInv, RowsApart
<1>4. \A m, k \in Nodes : m # k => rowsOf'[m] \cap rowsOf'[k] = {}
  <2> TAKE m, k \in Nodes
  <2>1. m # k => rowsOf[m] \cap rowsOf[k] = {}
    BY DEF ViewsInv, RowsApart
  <2>2. t \notin rowsOf[m] /\ t \notin rowsOf[k]
    BY <1>1, <1>2
  <2> QED BY <1>3, <2>1, <2>2
<1>5. AllRows' = AllRows \cup {t}
  BY <1>3 DEF AllRows
<1>6. Cardinality(AllRows') = Cardinality(AllRows) + 1
  BY <1>1, <1>2, <1>5, FS_AddElement
<1>7. \A u \in AllRows' : u <= Cardinality(AllRows')
  <2> TAKE u \in AllRows'
  <2>1. CASE u \in AllRows
    <3>1. u <= Cardinality(AllRows) /\ u \in Nat
      BY <1>1, <2>1 DEF ViewsInv, RowsApart
    <3> QED BY <1>1, <1>6, <3>1
  <2>2. CASE u = t
    BY <1>1, <1>6, <2>2 DEF t
  <2> QED BY <1>5, <2>1, <2>2
<1>8. RowsApart'
  BY <1>3, <1>4, <1>7 DEF RowsApart
<1>9. MergeInv(view)'
  <2>1. MergeInv(view) /\ Answered(view) \subseteq Nodes
    BY <1>0, NodesAreFinite DEF ViewsInv, MergeInv, Answered, AskingState
  <2>2. UNION {rowsOf[m] : m \in Answered(view)} \subseteq UNION {rowsOf'[m] : m \in Answered(view)}
    BY <1>3, <2>1
  <2> QED BY <1>0, <2>1, <2>2 DEF MergeInv
<1> QED BY <1>0, <1>8, <1>9, NothingShownNext DEF ViewsInv

LEMMA ViewsStepInv ==
  ASSUME NodeRecent <= PanelRecent
  PROVE  ViewsInv /\ [ViewsNext]_viewVars => ViewsInv'
<1> SUFFICES ASSUME ViewsInv, [ViewsNext]_viewVars PROVE ViewsInv'
  OBVIOUS
<1>1. ASSUME NEW enabled \in SUBSET (Nodes \ {LocalNode}),
             \/ AggregateProjects(enabled) \/ AggregateInstances(enabled)
             \/ AggregateResources(enabled) \/ AggregateDashboard(enabled)
             \/ AggregateHostMetrics(enabled) \/ AggregateNetworkRequests(enabled)
      PROVE  ViewsInv'
  <2>1. PICK kind \in Kind, page \in Nat, size \in Nat :
          /\ kind = "network" => page \in Pages /\ size \in PageSizes
          /\ BeginView(kind, page, size, enabled)
    BY <1>1, ViewsAssumption
       DEF AggregateProjects, AggregateInstances, AggregateResources, AggregateDashboard,
           AggregateHostMetrics, AggregateNetworkRequests, Kind, ListKind
  <2> QED BY <2>1, BeginKeepsMerge
<1>2. CASE CloseView
  <2>1. view'.at = "idle" /\ rowsOf' = rowsOf
    BY <1>2 DEF CloseView, NoView
  <2>2. RowsApart'
    BY <2>1 DEF ViewsInv, RowsApart, AllRows
  <2> QED BY <2>1, <2>2, NothingShownNext DEF ViewsInv
<1>3. CASE UNCHANGED viewVars
  BY <1>3 DEF viewVars, ViewsInv, RowsApart, AllRows, MergeInv, MergesAreGlobal, PageIsGlobal,
              RecentIsGlobal, NodesAccounted
<1> QED BY <1>1, <1>2, <1>3, AnswerKeepsMerge, SilenceKeepsMerge, EndKeepsMerge, WriteKeepsMerge
        DEF ViewsNext

\* A panel shows of a cluster, page by page and in its dashboard, what one panel with the
\* rows of all the nodes that answered would show, for any nodes, pages and sizes, silent
\* nodes and rows written meanwhile; a dashboard does as long as the panel keeps as many
\* status changes of the merge (20) as a node sends (15): cluster-aggregator.service.ts.
THEOREM MergesStayGlobal ==
  ASSUME NodeRecent <= PanelRecent
  PROVE  ViewsSpec => []MergesAreGlobal
<1>1. ViewsInv => MergesAreGlobal
  BY DEF ViewsInv
<1>2. ViewsInv /\ [ViewsNext]_viewVars => ViewsInv'
  BY ViewsStepInv
<1> QED BY <1>1, <1>2, ViewsInitInv, PTL DEF ViewsSpec


-----------------------------------------------------------------------------
(* The rows of the branches of an app (Amplify, listBranches)              *)

\* Each element of s stands there once.
Once(s) == \A m, n \in DOMAIN s : s[m] = s[n] => m = n

\* The argument of the pool: a worker that rests does so because every target has been
\* taken, and what was answered stands at the place of its target.
PoolInv(l) ==
  /\ l.targets \in Seq(AppBranch \ HiddenBranch) /\ Once(l.targets)
  /\ l.next \in 1..(Len(l.targets) + 1)
  /\ l.at \in [PoolWorker -> 0..Len(l.targets)]
  /\ (\E w \in PoolWorker : l.at[w] = Idle0) => l.next = Len(l.targets) + 1
  /\ DOMAIN l.out = 1..Len(l.targets)
  /\ \A n \in 1..Len(l.targets) : l.out[n] \in {<<>>, <<l.targets[n]>>}

ListingInv ==
  /\ listing.at \in {"idle", "pages", "jobs", "listed"}
  /\ listing.at = "pages" => listing \in [at : {"pages"}, seen : SUBSET AppBranch]
  /\ listing.at = "jobs" => /\ PoolInv(listing.pool)
                            /\ listing = [at |-> "jobs", pool |-> listing.pool]
                            /\ listing.pool = [at |-> listing.pool.at, next |-> listing.pool.next,
                                               targets |-> listing.pool.targets, out |-> listing.pool.out]
  /\ RowsMatchBranches

\* A list of branches in the order of AWS has each of them once.
LEMMA InOrderIsOnce ==
  ASSUME NEW S \in SUBSET AppBranch
  PROVE  InOrder(S) \in Seq(S) /\ Once(InOrder(S))
<1> DEFINE s == InOrder(S)
<1>0. S \subseteq Nat /\ IsFiniteSet(S) /\ Cardinality(S) \in Nat
  BY AmplifyAssumption, FS_Subset, FS_CardinalityType
<1>1. ASSUME NEW n \in 1..Cardinality(S)
      PROVE  s[n] \in S /\ Cardinality(ListedAfter(S, s[n])) = Cardinality(S) - n
  <2>1. Cardinality(S) - n + 1 \in 1..Cardinality(S) /\ (Cardinality(S) - n + 1) - 1 = Cardinality(S) - n
    BY <1>0
  <2>2. PICK t \in S : Cardinality(NewerIn(S, t)) = (Cardinality(S) - n + 1) - 1
    BY <1>0, <2>1, RowsHavePlaces
  <2>3. \E b \in S : Cardinality(ListedAfter(S, b)) = Cardinality(S) - n
    BY <2>1, <2>2 DEF NewerIn, ListedAfter
  <2>4. s[n] = CHOOSE b \in S : Cardinality(ListedAfter(S, b)) = Cardinality(S) - n
    BY DEF InOrder
  <2> QED BY <2>3, <2>4
<1>2. s = [n \in 1..Cardinality(S) |-> s[n]]
  BY DEF InOrder
<1> HIDE DEF s
<1>3. s \in Seq(S) /\ DOMAIN s = 1..Cardinality(S)
  <2>1. \A n \in 1..Cardinality(S) : s[n] \in S
    BY <1>1
  <2> QED BY <1>0, <1>2, <2>1
<1>4. ASSUME NEW m \in 1..Cardinality(S), NEW n \in 1..Cardinality(S), s[m] = s[n] PROVE m = n
  <2>1. Cardinality(S) - m = Cardinality(S) - n
    BY <1>1, <1>4
  <2> QED BY <1>0, <2>1
<1> QED BY <1>3, <1>4 DEF Once, s

\* The workers in some order, all of them.
LEMMA WorkersInOrder ==
  /\ SetToSeq(PoolWorker) \in [1..Cardinality(PoolWorker) -> PoolWorker]
  /\ Len(SetToSeq(PoolWorker)) = Cardinality(PoolWorker) /\ Cardinality(PoolWorker) \in Nat
  /\ \A w \in PoolWorker : \E n \in 1..Cardinality(PoolWorker) : SetToSeq(PoolWorker)[n] = w
<1> DEFINE k == Cardinality(PoolWorker)
           s == SetToSeq(PoolWorker)
<1>1. k \in Nat /\ IsFiniteSet(PoolWorker) /\ ExistsBijection(1..k, PoolWorker)
  BY AmplifyAssumption, FS_CardinalityType
<1>2. \E f \in [1..k -> PoolWorker] : IsInjective(f)
  BY <1>1 DEF ExistsBijection, Bijection, Injection, IsInjective
<1>3. s \in [1..k -> PoolWorker] /\ IsInjective(s)
  BY <1>2 DEF SetToSeq
<1> HIDE DEF s, k
<1>4. s \in Injection(1..k, PoolWorker)
  BY <1>3 DEF Injection
<1>5. Cardinality(1..k) = k
  <2>1. 1 \in Int /\ k \in Int
    BY <1>1
  <2>2. Cardinality(1..k) = IF 1 > k THEN 0 ELSE k - 1 + 1
    BY <2>1, FS_Interval
  <2> QED BY <1>1, <2>2
<1>6. s \in Surjection(1..k, PoolWorker)
  BY <1>1, <1>4, <1>5, FS_Injection DEF k
<1>7. Len(s) = k
  BY <1>1, <1>3
<1> QED BY <1>1, <1>3, <1>6, <1>7 DEF Surjection, s, k

\* The pool as it starts: fewer workers than targets all begin, or every target is taken.
LEMMA PoolStarts ==
  ASSUME NEW targets \in Seq(AppBranch \ HiddenBranch), Once(targets)
  PROVE  /\ PoolInv(Started(targets))
         /\ Started(targets) = [at |-> Started(targets).at, next |-> Started(targets).next,
                                targets |-> Started(targets).targets, out |-> Started(targets).out]
<1> DEFINE workers == SetToSeq(PoolWorker)
           k == Cardinality(PoolWorker)
           many == IF k < Len(targets) THEN k ELSE Len(targets)
           at == [w \in PoolWorker |-> IF \E n \in 1..many : workers[n] = w
                                       THEN CHOOSE n \in 1..many : workers[n] = w ELSE Idle0]
           out == [n \in 1..Len(targets) |-> <<>>]
<1>1. /\ workers \in [1..k -> PoolWorker] /\ Len(workers) = k /\ k \in Nat /\ Len(targets) \in Nat
      /\ \A w \in PoolWorker : \E n \in 1..k : workers[n] = w
  BY WorkersInOrder
<1>2. Started(targets) = [at |-> at, next |-> many + 1, targets |-> targets, out |-> out]
  BY <1>1 DEF Started
<1>3. many \in Nat /\ many <= Len(targets) /\ (many = Len(targets) \/ many = k)
  BY <1>1
<1> HIDE DEF workers, k, many
<1>4. ASSUME NEW w \in PoolWorker
      PROVE  /\ at[w] \in 0..Len(targets)
             /\ at[w] = Idle0 => many = Len(targets)
  <2>1. CASE \E n \in 1..many : workers[n] = w
    <3>1. at[w] = CHOOSE n \in 1..many : workers[n] = w
      BY <2>1
    <3>2. at[w] \in 1..many
      BY <2>1, <3>1
    <3> HIDE DEF at
    <3> QED BY <1>1, <1>3, <3>2 DEF Idle0
  <2>2. CASE ~\E n \in 1..many : workers[n] = w
    <3>1. at[w] = 0
      BY <2>2 DEF Idle0
    <3>2. many # k
      BY <1>1, <2>2
    <3>3. many = Len(targets)
      BY <1>3, <3>2
    <3>4. 0 \in 0..Len(targets)
      BY <1>1
    <3> HIDE DEF at
    <3> QED BY <3>1, <3>3, <3>4
  <2> QED BY <2>1, <2>2
<1>5. at \in [PoolWorker -> 0..Len(targets)]
  <2>1. at = [w \in PoolWorker |-> at[w]]
    OBVIOUS
  <2> HIDE DEF at
  <2> QED BY <1>4, <2>1
<1>6. DOMAIN out = 1..Len(targets) /\ \A n \in 1..Len(targets) : out[n] = <<>>
  OBVIOUS
<1>7. many + 1 \in 1..(Len(targets) + 1)
  BY <1>1, <1>3
<1> HIDE DEF at, out
<1>8. /\ Started(targets).at = at /\ Started(targets).next = many + 1
      /\ Started(targets).targets = targets /\ Started(targets).out = out
  BY <1>2
<1> QED BY <1>2, <1>4, <1>5, <1>6, <1>7, <1>8 DEF PoolInv

\* A worker takes the next target, or rests when there is none.
LEMMA WorkerTakes ==
  ASSUME NEW l, PoolInv(l), NEW w \in PoolWorker,
         l = [at |-> l.at, next |-> l.next, targets |-> l.targets, out |-> l.out]
  PROVE  LET t == Taking(l, w) IN
         PoolInv(t) /\ t = [at |-> t.at, next |-> t.next, targets |-> t.targets, out |-> t.out]
<1> DEFINE t == Taking(l, w)
<1>0. Len(l.targets) \in Nat /\ l.next \in 1..(Len(l.targets) + 1)
  BY DEF PoolInv
<1>1. CASE l.next > Len(l.targets)
  <2>1. t = [at |-> [l.at EXCEPT ![w] = 0], next |-> l.next, targets |-> l.targets, out |-> l.out]
    BY <1>1 DEF Taking, Idle0
  <2>2. [l.at EXCEPT ![w] = 0] \in [PoolWorker -> 0..Len(l.targets)]
    BY <1>0 DEF PoolInv
  <2>3. l.next = Len(l.targets) + 1
    BY <1>0, <1>1
  <2> HIDE DEF t
  <2> QED BY <2>1, <2>2, <2>3 DEF PoolInv, t
<1>2. CASE ~(l.next > Len(l.targets))
  <2>1. t = [at |-> [l.at EXCEPT ![w] = l.next], next |-> l.next + 1, targets |-> l.targets, out |-> l.out]
    BY <1>2 DEF Taking
  <2>2. l.next \in 1..Len(l.targets) /\ l.next + 1 \in 1..(Len(l.targets) + 1) /\ l.next # 0
    BY <1>0, <1>2
  <2> DEFINE at == [l.at EXCEPT ![w] = l.next]
  <2>3. at \in [PoolWorker -> 0..Len(l.targets)] /\ at[w] # 0 /\ \A v \in PoolWorker \ {w} : at[v] = l.at[v]
    BY <1>0, <2>2 DEF PoolInv
  <2>4. ~\E v \in PoolWorker : at[v] = Idle0
    <3>1. \A v \in PoolWorker : l.at[v] # Idle0
      BY <1>0, <2>2 DEF PoolInv
    <3> QED BY <2>3, <3>1 DEF Idle0
  <2> HIDE DEF t, at
  <2>5. t.at = at /\ t.next = l.next + 1 /\ t.targets = l.targets /\ t.out = l.out
    BY <2>1 DEF at
  <2> QED BY <2>1, <2>2, <2>3, <2>4, <2>5 DEF PoolInv, t
<1> QED BY <1>1, <1>2

LEMMA ListPageKeepsRows ==
  ASSUME HostingShapes, ListingInv, ListPageOf
  PROVE  ListingInv'
<1>0. /\ listing.at = "pages" /\ listing \in [at : {"pages"}, seen : SUBSET AppBranch]
      /\ hosted' = hosted /\ hosted \subseteq AppBranch
  BY DEF ListPageOf, ListingInv, HostingShapes
<1>1. PICK page \in SUBSET hosted :
        \/ listing' = [listing EXCEPT !.seen = listing.seen \cup page]
        \/ listing' = [at |-> "jobs", pool |-> Started(InOrder((listing.seen \cup page) \ HiddenBranch))]
  BY DEF ListPageOf, NextPage
<1>2. CASE listing' = [listing EXCEPT !.seen = listing.seen \cup page]
  <2>1. listing' \in [at : {"pages"}, seen : SUBSET AppBranch] /\ listing'.at = "pages"
    BY <1>0, <1>2
  <2> QED BY <1>0, <2>1 DEF ListingInv, RowsMatchBranches
<1>3. CASE listing' = [at |-> "jobs", pool |-> Started(InOrder((listing.seen \cup page) \ HiddenBranch))]
  <2> DEFINE S == (listing.seen \cup page) \ HiddenBranch
             targets == InOrder(S)
  <2>1. S \in SUBSET AppBranch /\ S \subseteq AppBranch \ HiddenBranch
    BY <1>0
  <2> HIDE DEF S
  <2>2. targets \in Seq(S) /\ Once(targets)
    BY <2>1, InOrderIsOnce
  <2>3. targets \in Seq(AppBranch \ HiddenBranch)
    BY <2>1, <2>2
  <2> HIDE DEF targets
  <2> DEFINE pool == Started(targets)
  <2>4. /\ PoolInv(pool)
        /\ pool = [at |-> pool.at, next |-> pool.next, targets |-> pool.targets, out |-> pool.out]
    BY <2>2, <2>3, PoolStarts
  <2>5. listing' = [at |-> "jobs", pool |-> pool]
    BY <1>3 DEF targets, S
  <2> HIDE DEF pool
  <2>6. listing'.at = "jobs" /\ listing'.pool = pool
    BY <2>5
  <2>7. PoolInv(listing.pool)'
    BY <2>4, <2>6 DEF PoolInv
  <2> QED BY <1>0, <2>4, <2>5, <2>6, <2>7 DEF ListingInv, RowsMatchBranches
<1> QED BY <1>1, <1>2, <1>3

LEMMA JobKeepsRows ==
  ASSUME ListingInv, NEW w \in PoolWorker, JobsListed(w)
  PROVE  ListingInv'
<1> DEFINE l == listing.pool
           n == l.at[w]
<1>0. /\ listing.at = "jobs" /\ PoolInv(l) /\ n # Idle0 /\ hosted' = hosted
      /\ listing = [at |-> "jobs", pool |-> l]
      /\ l = [at |-> l.at, next |-> l.next, targets |-> l.targets, out |-> l.out]
  BY DEF JobsListed, ListingInv
<1>1. n \in 1..Len(l.targets) /\ Len(l.targets) \in Nat
  BY <1>0 DEF PoolInv, Idle0
<1>2. PICK job \in Job(l.targets[n]) :
        listing' = [listing EXCEPT !.pool = Taking([l EXCEPT !.out[n] = job], w)]
  BY DEF JobsListed
<1> DEFINE m == [at |-> l.at, next |-> l.next, targets |-> l.targets, out |-> [l.out EXCEPT ![n] = job]]
           t == Taking(m, w)
<1>3. [l EXCEPT !.out[n] = job] = m
  <2> HIDE DEF l, n
  <2> QED BY <1>0
<1>4. m.at = l.at /\ m.next = l.next /\ m.targets = l.targets /\ m.out = [l.out EXCEPT ![n] = job]
  OBVIOUS
<1>5. m = [at |-> m.at, next |-> m.next, targets |-> m.targets, out |-> m.out]
  BY <1>4
<1> HIDE DEF l, n, m
<1>6. PoolInv(m)
  <2>1. job \in {<<>>, <<l.targets[n]>>}
    BY DEF Job
  <2>2. DOMAIN m.out = 1..Len(l.targets)
        /\ \A i \in 1..Len(l.targets) : m.out[i] \in {<<>>, <<l.targets[i]>>}
    BY <1>0, <1>1, <1>4, <2>1 DEF PoolInv
  <2> QED BY <1>0, <1>4, <2>2 DEF PoolInv
<1>7. PoolInv(t) /\ t = [at |-> t.at, next |-> t.next, targets |-> t.targets, out |-> t.out]
  BY <1>5, <1>6, WorkerTakes
<1>8. listing' = [at |-> "jobs", pool |-> t]
  BY <1>0, <1>2, <1>3
<1> HIDE DEF t
<1>9. listing'.at = "jobs" /\ listing'.pool = t
  BY <1>8
<1>10. PoolInv(listing.pool)'
  BY <1>7, <1>9 DEF PoolInv
<1> QED BY <1>0, <1>7, <1>8, <1>9, <1>10 DEF ListingInv, RowsMatchBranches

LEMMA EndKeepsRows ==
  ASSUME ListingInv, EndListing
  PROVE  ListingInv'
<1> DEFINE l == listing.pool
           row(n) == [branch |-> l.targets[n], job |-> l.out[n]]
           rows0 == {row(n) : n \in DOMAIN l.targets}
<1>0. /\ PoolInv(l) /\ hosted' = hosted /\ \A w \in PoolWorker : l.at[w] = Idle0
      /\ listing' = [at |-> "listed", rows |-> rows0, asked |-> l.next - 1]
  BY DEF EndListing, ListingInv
<1> HIDE DEF l
<1>1. l.next - 1 = Len(l.targets) /\ Len(l.targets) \in Nat /\ DOMAIN l.targets = 1..Len(l.targets)
  BY <1>0, AmplifyAssumption DEF PoolInv
<1>2. \A n \in 1..Len(l.targets) : /\ l.targets[n] \in AppBranch \ HiddenBranch
                                   /\ l.out[n] \in {<<>>, <<l.targets[n]>>}
  BY <1>0 DEF PoolInv
<1>3. IsFiniteSet(1..Len(l.targets)) /\ Cardinality(1..Len(l.targets)) = Len(l.targets)
  <2>1. 1 \in Int /\ Len(l.targets) \in Int
    BY <1>1
  <2>2. /\ IsFiniteSet(1..Len(l.targets))
        /\ Cardinality(1..Len(l.targets)) = IF 1 > Len(l.targets) THEN 0 ELSE Len(l.targets) - 1 + 1
    BY <2>1, FS_Interval
  <2> QED BY <1>1, <2>2
<1>4. ASSUME NEW f, DOMAIN f = 1..Len(l.targets),
             \A m, n \in 1..Len(l.targets) : f[m] = f[n] => m = n
      PROVE  Cardinality({f[n] : n \in 1..Len(l.targets)}) = Len(l.targets)
  <2> DEFINE D == 1..Len(l.targets)
             T == {f[n] : n \in D}
             g == [n \in D |-> f[n]]
  <2>1. g \in Surjection(D, T)
    BY DEF Surjection
  <2>2. g \in Injection(D, T)
    BY <1>4 DEF Injection, IsInjective
  <2> HIDE DEF g, T
  <2>3. Cardinality(T) = Cardinality(D)
    BY <1>3, <2>1, <2>2, FS_Surjection
  <2> QED BY <1>3, <2>3 DEF T
<1>5. \A m, n \in 1..Len(l.targets) : l.targets[m] = l.targets[n] => m = n
  BY <1>0, <1>1 DEF PoolInv, Once
<1>6. Cardinality(rows0) = Len(l.targets)
  <2> DEFINE f == [n \in 1..Len(l.targets) |-> row(n)]
  <2>1. \A m, n \in 1..Len(l.targets) : row(m) = row(n) => l.targets[m] = l.targets[n]
    OBVIOUS
  <2>2. DOMAIN f = 1..Len(l.targets) /\ \A n \in 1..Len(l.targets) : f[n] = row(n)
    OBVIOUS
  <2>3. rows0 = {f[n] : n \in 1..Len(l.targets)}
    BY <1>1, <2>2
  <2> HIDE DEF f
  <2>4. ASSUME NEW m \in 1..Len(l.targets), NEW n \in 1..Len(l.targets), f[m] = f[n] PROVE m = n
    <3>1. row(m) = row(n)
      BY <2>2, <2>4
    <3>2. l.targets[m] = l.targets[n]
      BY <2>1, <3>1
    <3> QED BY <1>5, <3>2
  <2> HIDE DEF rows0
  <2> QED BY <1>4, <2>2, <2>3, <2>4
<1>7. Cardinality({r.branch : r \in rows0}) = Len(l.targets)
  <2>1. {r.branch : r \in rows0} = {l.targets[n] : n \in 1..Len(l.targets)}
    <3>1. \A n \in 1..Len(l.targets) : row(n).branch = l.targets[n]
      OBVIOUS
    <3>2. rows0 = {row(n) : n \in 1..Len(l.targets)}
      BY <1>1
    <3> HIDE DEF rows0, row
    <3> QED BY <3>1, <3>2
  <2> HIDE DEF rows0
  <2> QED BY <1>1, <1>4, <1>5, <2>1
<1>8. \A r \in rows0 : r.job \in {<<>>, <<r.branch>>} /\ r.branch \notin HiddenBranch
  BY <1>1, <1>2
<1> HIDE DEF rows0
<1>9. listing'.at = "listed" /\ listing'.rows = rows0 /\ listing'.asked = Len(l.targets)
  BY <1>0, <1>1
<1>10. RowsMatchBranches'
  BY <1>6, <1>7, <1>8, <1>9 DEF RowsMatchBranches
<1> QED BY <1>0, <1>9, <1>10 DEF ListingInv

LEMMA ListingStepInv ==
  HostingShapes /\ ListingInv /\ [AmplifyNext]_amplifyVars => ListingInv'
<1> SUFFICES ASSUME HostingShapes, ListingInv, [AmplifyNext]_amplifyVars PROVE ListingInv'
  OBVIOUS
<1>1. CASE listing' = listing
  BY <1>1 DEF ListingInv, RowsMatchBranches, PoolInv
<1>2. CASE BeginListing
  <2>1. listing'.at = "pages" /\ listing' \in [at : {"pages"}, seen : SUBSET AppBranch]
    BY <1>2 DEF BeginListing
  <2> QED BY <2>1 DEF ListingInv, RowsMatchBranches
<1>3. CASE LeaveListing
  <2>1. listing'.at = "idle"
    BY <1>3 DEF LeaveListing, NoListing
  <2> QED BY <2>1 DEF ListingInv, RowsMatchBranches
<1>4. CASE \/ \E b \in AppBranch : DeleteBranch(b) \/ \E c \in HostCaller : BeginHosting(c, b)
           \/ \E c \in HostCaller : \/ FindBranch(c) \/ CountSlots(c) \/ CreateBranch(c)
                                    \/ StartReleaseJob(c) \/ HostingFails(c)
           \/ UNCHANGED amplifyVars
  <2>1. listing' = listing
    BY <1>4 DEF DeleteBranch, BeginHosting, FindBranch, CountSlots, CreateBranch,
                StartReleaseJob, HostingFails, amplifyVars
  <2> QED BY <1>1, <2>1
<1> QED BY <1>2, <1>3, <1>4, ListPageKeepsRows, JobKeepsRows, EndKeepsRows
        DEF AmplifyNext

\* Each branch of a list has its own row, with a job of its own or none, in whatever
\* order the workers of the pool take the branches and AWS answers them or fails, while
\* branches come and go, for any number of branches, workers and pages (listBranches,
\* listAllBranches, mapPool, enrichLatestJobs).
THEOREM RowsMatch == AmplifySpec => []RowsMatchBranches
<1>1. AmplifyInit => HostingShapes /\ RoomInv /\ ListingInv
  <2> SUFFICES ASSUME AmplifyInit PROVE HostingShapes /\ RoomInv /\ ListingInv
    OBVIOUS
  <2>1. \A c \in HostCaller : hosting[c].at = "idle"
    BY DEF AmplifyInit, NoHosting
  <2>2. HostingShapes
    BY <2>1 DEF AmplifyInit, HostingShapes
  <2>3. \A m \in Nat : Below(m) = {}
    BY <2>1 DEF Below
  <2>4. listing.at = "idle"
    BY DEF AmplifyInit, NoListing
  <2> QED BY <2>2, <2>3, <2>4 DEF RoomInv, ListingInv, RowsMatchBranches
<1>2. HostingShapes /\ RoomInv /\ ListingInv /\ [AmplifyNext]_amplifyVars =>
        (HostingShapes /\ RoomInv /\ ListingInv)'
  BY AmplifyStepRoom, ListingStepInv
<1>3. ListingInv => RowsMatchBranches
  BY DEF ListingInv
<1> QED BY <1>1, <1>2, <1>3, PTL DEF AmplifySpec


-----------------------------------------------------------------------------
(* Types of every service, and of all of them together (MCServices)        *)

LEMMA NotifyInitType == NotifyInit => NotifyTypeOK
BY NotifyAssumption DEF NotifyInit, NotifyTypeOK, IdleFlow, IdlePreview, PreviewRow, FlowOp

LEMMA LookupType ==
  ASSUME flow \in [Flow -> FlowState], NEW f \in Flow, NEW op \in FlowOp, NEW ref \in Task \cup {NoTask},
         NEW row \in PreviewRow, Lookup(f, op, ref, row)
  PROVE  flow' \in [Flow -> FlowState]
BY DEF Lookup, FlowState

LEMMA NotifyStepType == NotifyTypeOK /\ [NotifyNext]_notifyVars => NotifyTypeOK'
<1> SUFFICES ASSUME NotifyTypeOK, [NotifyNext]_notifyVars PROVE NotifyTypeOK'
  OBVIOUS
<1>0. /\ preview \in PreviewRow /\ flow \in [Flow -> FlowState]
      /\ home \in [Task -> Team \cup {NoTeam}] /\ authorized \subseteq Team
      /\ configured \in Team \cup {NoTeam} /\ comments \in 0..MaxComments /\ MaxComments \in Nat
      /\ lost \in Nat
      /\ untold \subseteq {"active", "paused", "gone"} /\ told \subseteq {"active", "paused", "gone"}
  BY NotifyAssumption DEF NotifyTypeOK, FlowState
<1>1. IdleFlow \in FlowState /\ IdlePreview \in PreviewRow
  BY DEF IdleFlow, FlowState, IdlePreview, PreviewRow, FlowOp
<1>2. \A s \in {"active", "paused", "gone"} : Changes(s) =>
        preview' \in PreviewRow /\ untold' \subseteq {"active", "paused", "gone"}
  BY <1>0 DEF Changes, PreviewRow
<1>3. ASSUME preview' \in PreviewRow, flow' \in [Flow -> FlowState], UNCHANGED workspaceVars,
             comments' \in 0..MaxComments, lost' \in Nat, untold' \subseteq {"active", "paused", "gone"},
             told' \subseteq {"active", "paused", "gone"}
      PROVE  NotifyTypeOK'
  BY <1>0, <1>3 DEF workspaceVars, NotifyTypeOK, FlowState
<1>4. CASE UNCHANGED notifyVars
  BY <1>0, <1>3, <1>4 DEF notifyVars, workspaceVars
<1>5. CASE PausePreview \/ RemovePreview
  BY <1>0, <1>2, <1>3, <1>5 DEF PausePreview, RemovePreview
<1>6. CASE Recreate
  BY <1>0, <1>1, <1>3, <1>6 DEF Recreate
<1>7. CASE ClearLink
  BY <1>0, <1>3, <1>7 DEF ClearLink, PreviewRow
<1>8. ASSUME NEW s \in {"active", "paused", "gone"}, Tell(s) PROVE NotifyTypeOK'
  BY <1>0, <1>3, <1>8 DEF Tell
<1>9. ASSUME NEW f \in Flow, BecomeActive(f) PROVE NotifyTypeOK'
  <2>1. preview' \in PreviewRow /\ untold' \subseteq {"active", "paused", "gone"}
    BY <1>2, <1>9 DEF BecomeActive
  <2>2. flow' \in [Flow -> FlowState]
    <3>1. "comment" \in FlowOp /\ BranchTask \in Task \cup {NoTask}
      BY NotifyAssumption DEF FlowOp
    <3> QED BY <1>0, <1>9, <2>1, <3>1, LookupType DEF BecomeActive
  <2> QED BY <1>0, <1>3, <1>9, <2>1, <2>2 DEF BecomeActive
<1>10. ASSUME NEW f \in Flow, \/ LinkFromBranch(f) \/ Refresh(f) \/ \E t \in Task : Link(f, t)
       PROVE  NotifyTypeOK'
  <2>1. {"branchLink", "refresh", "link"} \subseteq FlowOp /\ BranchTask \in Task \cup {NoTask}
    BY NotifyAssumption DEF FlowOp
  <2>2. RefreshTarget \in Task \cup {NoTask}
    BY <1>0, <2>1 DEF RefreshTarget, PreviewRow
  <2>3. flow' \in [Flow -> FlowState]
    <3>1. CASE LinkFromBranch(f)
      BY <1>0, <2>1, <3>1, LookupType DEF LinkFromBranch
    <3>2. CASE Refresh(f)
      BY <1>0, <2>1, <2>2, <3>2, LookupType DEF Refresh
    <3>3. ASSUME NEW t \in Task, Link(f, t) PROVE flow' \in [Flow -> FlowState]
      BY <1>0, <2>1, <3>3, LookupType DEF Link
    <3> QED BY <1>10, <3>1, <3>2, <3>3
  <2>4. preview' = preview /\ UNCHANGED workspaceVars /\ comments' = comments /\ lost' = lost /\ untold' = untold /\ told' = told
    BY <1>10 DEF LinkFromBranch, Refresh, Link
  <2> QED BY <1>0, <1>3, <2>3, <2>4
<1>11. ASSUME NEW f \in Flow, NEW w \in Team, AskTeam(f, w) PROVE NotifyTypeOK'
  <2> DEFINE new == [flow[f] EXCEPT !.tried = @ \cup {w},
                       !.pc = IF ~Answers(f, w) THEN "lookup"
                              ELSE IF flow[f].op = "comment" THEN "post" ELSE "save"]
  <2>1. flow' \in [Flow -> FlowState]
    <3>1. flow[f] \in FlowState
      BY <1>0
    <3>2. new \in FlowState
      BY <3>1 DEF FlowState
    <3>3. flow' = [flow EXCEPT ![f] = new]
      BY <1>0, <1>11 DEF AskTeam
    <3> HIDE DEF new
    <3> QED BY <1>0, <3>2, <3>3
  <2> QED BY <1>0, <1>3, <1>11, <2>1 DEF AskTeam
<1>12. ASSUME NEW f \in Flow, TaskNotFound(f) PROVE NotifyTypeOK'
  BY <1>0, <1>1, <1>3, <1>12 DEF TaskNotFound, EndFlow
<1>13. ASSUME NEW f \in Flow, Post(f) PROVE NotifyTypeOK'
  <2>1. flow' \in [Flow -> FlowState]
    BY <1>0, <1>1, <1>13 DEF Post, EndFlow, FlowState
  <2>2. comments' \in 0..MaxComments /\ lost' \in Nat
    BY <1>0, <1>13 DEF Post
  <2> QED BY <1>0, <1>3, <1>13, <2>1, <2>2 DEF Post
<1>14. ASSUME NEW f \in Flow, SaveFlow(f) PROVE NotifyTypeOK'
  <2>1. flow[f] \in FlowState
    BY <1>0
  <2>2. preview' \in PreviewRow
    BY <1>14, <2>1 DEF SaveFlow, Applied, FlowState, PreviewRow
  <2> QED BY <1>0, <1>1, <1>3, <1>14, <2>2 DEF SaveFlow, EndFlow
<1>15. ASSUME NEW f \in Flow, SaveFails(f) PROVE NotifyTypeOK'
  BY <1>0, <1>1, <1>3, <1>15 DEF SaveFails, EndFlow
<1>16. CASE ApiStops
  <2>1. Cardinality(Unnoted) \in Nat
    BY NotifyAssumption, FS_Subset, FS_CardinalityType DEF Unnoted
  <2>2. lost' \in Nat /\ flow' \in [Flow -> FlowState] /\ untold' = {}
    BY <1>0, <1>1, <1>16, <2>1 DEF ApiStops
  <2> QED BY <1>0, <1>3, <1>16, <2>2 DEF ApiStops
<1> QED BY <1>4, <1>5, <1>6, <1>7, <1>8, <1>9, <1>10, <1>11, <1>12, <1>13, <1>14, <1>15, <1>16
        DEF NotifyNext

LEMMA NotifyTypes == NotifySpec => []NotifyTypeOK
BY NotifyInitType, NotifyStepType, PTL DEF NotifySpec

-----------------------------------------------------------------------------
\* A deploy under way has what its next step reads.
RolloutFits ==
  /\ rollout.at \in {"idle", "reserved", "building", "checking"}
  /\ rollout.at \in {"building", "checking"} => rollout.env \in EnvVersion
  /\ rollout.at = "checking" => rollout.row \in BranchRow
PatchesFit ==
  /\ DOMAIN patch = Patcher
  /\ \A c \in Patcher : /\ patch[c].at \in {"idle", "project", "update"}
                        /\ patch[c].at # "idle" => patch[c].row \in ProjectRow
                        /\ patch[c].at = "update" => patch[c].seen \in ProjectRow
SettingsFit ==
  /\ project \in ProjectRow /\ branchRow \in BranchRow
  /\ PatchesFit /\ RolloutFits /\ served \in {NoVersion} \cup EnvVersion /\ crossed \in BOOLEAN

LEMMA SettingsInitType == SettingsInit => SettingsFit
<1> SUFFICES ASSUME SettingsInit PROVE SettingsFit
  OBVIOUS
<1>1. project \in ProjectRow /\ branchRow \in BranchRow
  BY DEF SettingsInit, ProjectRow, BranchRow, Paths
<1>2. PatchesFit
  BY DEF SettingsInit, PatchesFit, NoPatch
<1>3. RolloutFits
  BY DEF SettingsInit, RolloutFits, NoRollout
<1> QED BY <1>1, <1>2, <1>3 DEF SettingsInit, SettingsFit

LEMMA SettingsStepType == SettingsFit /\ [SettingsNext]_settingsVars => SettingsFit'
<1> SUFFICES ASSUME SettingsFit, [SettingsNext]_settingsVars PROVE SettingsFit'
  OBVIOUS
<1>0. /\ project \in ProjectRow /\ branchRow \in BranchRow
      /\ PatchesFit /\ RolloutFits /\ served \in {NoVersion} \cup EnvVersion /\ crossed \in BOOLEAN
  BY DEF SettingsFit
<1>1. CASE UNCHANGED settingsVars
  BY <1>0, <1>1 DEF settingsVars, SettingsFit, PatchesFit, RolloutFits
<1>2. ASSUME NEW c \in Patcher, NEW dto \in FormDto \cup FieldDto, ReadProject(c, dto) PROVE SettingsFit'
  <2>1. Patched(project, dto) \in ProjectRow
    BY <1>0 DEF Patched, Or, ProjectRow, FormDto, FieldDto, Paths, Same
  <2> DEFINE new == [at |-> "project", row |-> Patched(project, dto), dto |-> dto]
  <2>2. new.at = "project" /\ new.row \in ProjectRow
    BY <2>1
  <2>3. patch' = [patch EXCEPT ![c] = new]
    BY <1>2 DEF ReadProject
  <2> HIDE DEF new
  <2>4. PatchesFit'
    BY <1>0, <2>2, <2>3 DEF PatchesFit
  <2> QED BY <1>0, <1>2, <2>4 DEF ReadProject, SettingsFit, RolloutFits
<1>3. ASSUME NEW c \in Patcher, SelectProject(c) \/ UpdateProject(c) PROVE SettingsFit'
  <2>1. CASE SelectProject(c)
    <3> DEFINE new == [at |-> "update", row |-> patch[c].row, dto |-> patch[c].dto, seen |-> project]
    <3>1. new.at = "update" /\ new.row \in ProjectRow /\ new.seen \in ProjectRow
      BY <1>0, <2>1 DEF SelectProject, PatchesFit
    <3>2. patch' = [patch EXCEPT ![c] = IF patch[c].row = project THEN NoPatch ELSE new]
      BY <2>1 DEF SelectProject
    <3>3. NoPatch.at = "idle"
      BY DEF NoPatch
    <3> HIDE DEF new
    <3>4. PatchesFit'
      BY <1>0, <3>1, <3>2, <3>3 DEF PatchesFit
    <3> QED BY <1>0, <2>1, <3>4 DEF SelectProject, SettingsFit, RolloutFits
  <2>2. CASE UpdateProject(c)
    <3>1. patch[c].row \in ProjectRow /\ project \in ProjectRow
      BY <1>0, <2>2 DEF UpdateProject, PatchesFit
    <3>2. project' \in ProjectRow
      BY <2>2, <3>1 DEF UpdateProject, Updated, ProjectRow
    <3>3. PatchesFit'
      BY <1>0, <2>2 DEF UpdateProject, PatchesFit, NoPatch
    <3>4. crossed' \in BOOLEAN
      BY <1>0, <2>2 DEF UpdateProject
    <3> QED BY <1>0, <2>2, <3>2, <3>3, <3>4 DEF UpdateProject, SettingsFit, RolloutFits
  <2> QED BY <1>3, <2>1, <2>2
<1>4. ASSUME NEW e \in EnvVersion, SaveOverrides(e) PROVE SettingsFit'
  BY <1>0, <1>4 DEF SaveOverrides, SettingsFit, PatchesFit, RolloutFits, BranchRow
<1>5. ASSUME NEW z \in {"on", "off"}, ToggleBranch(z) PROVE SettingsFit'
  BY <1>0, <1>5 DEF ToggleBranch, SettingsFit, PatchesFit, RolloutFits, BranchRow
<1>6. ASSUME ReserveRollout \/ ReadDeployEnv \/ Built \/ BuildBreaks \/ CheckPasses \/ CheckTimesOut
      PROVE  SettingsFit'
  <2>1. project' = project /\ patch' = patch /\ crossed' = crossed
    BY <1>6 DEF ReserveRollout, ReadDeployEnv, Built, BuildBreaks, CheckPasses, CheckTimesOut
  <2>2. RolloutFits' /\ branchRow' \in BranchRow /\ served' \in {NoVersion} \cup EnvVersion
    <3>1. \A s \in {"deploying", "active", "error"} : [branchRow EXCEPT !.status = s] \in BranchRow
      BY <1>0 DEF BranchRow
    <3>2. CASE ReserveRollout
      BY <1>0, <3>1, <3>2 DEF ReserveRollout, RolloutFits
    <3>3. CASE ReadDeployEnv
      <4>1. branchRow.env \in EnvVersion
        BY <1>0 DEF BranchRow
      <4> QED BY <1>0, <3>3, <4>1 DEF ReadDeployEnv, RolloutFits
    <3>4. CASE Built
      BY <1>0, <3>1, <3>4 DEF Built, RolloutFits, NoRollout
    <3>5. CASE BuildBreaks
      BY <1>0, <3>1, <3>5 DEF BuildBreaks, RolloutFits, NoRollout
    <3>6. CASE CheckPasses
      <4>1. [rollout.row EXCEPT !.status = "active"] \in BranchRow /\ rollout.env \in EnvVersion
        BY <1>0, <3>6 DEF CheckPasses, RolloutFits, BranchRow
      <4> QED BY <3>6, <4>1 DEF CheckPasses, RolloutFits, NoRollout
    <3>7. CASE CheckTimesOut
      BY <1>0, <3>1, <3>7 DEF CheckTimesOut, RolloutFits, NoRollout
    <3> QED BY <1>6, <3>2, <3>3, <3>4, <3>5, <3>6, <3>7
  <2> QED BY <1>0, <2>1, <2>2 DEF SettingsFit, PatchesFit
<1> QED BY <1>1, <1>2, <1>3, <1>4, <1>5, <1>6 DEF SettingsNext

LEMMA SettingsTypes == SettingsSpec => []SettingsTypeOK
<1>1. SettingsFit => SettingsTypeOK
  BY DEF SettingsFit, PatchesFit, RolloutFits, SettingsTypeOK
<1> QED BY <1>1, SettingsInitType, SettingsStepType, PTL DEF SettingsSpec

-----------------------------------------------------------------------------
\* Beside RowsAndCallsAreGood, which gives rows and keys their types.
CallsKnown ==
  /\ keyLive \subseteq RemoteNode /\ DOMAIN hubCall = HubCaller
  /\ \A c \in HubCaller : hubCall[c].at \in {"idle", "loaded", "waiting", "saving", "told"}

LEMMA CallsKnownStep == CallsKnown /\ [ClusterNext]_clusterVars => CallsKnown'
<1> SUFFICES ASSUME CallsKnown, [ClusterNext]_clusterVars PROVE CallsKnown'
  OBVIOUS
<1>1. ASSUME NEW c \in HubCaller, NEW r, Set(c, r), keyLive' \subseteq RemoteNode,
             r.at \in {"idle", "loaded", "waiting", "saving", "told"}
      PROVE  CallsKnown'
  BY <1>1 DEF CallsKnown, Set
<1>2. CASE UNCHANGED clusterVars
  BY <1>2 DEF clusterVars, CallsKnown
<1>3. ASSUME NEW n \in RemoteNode, RemoveNode(n) \/ RemoveKey(n) PROVE CallsKnown'
  BY <1>3 DEF RemoveNode, RemoveKey, CallsKnown
<1>4. ASSUME NEW c \in HubCaller, NEW n \in RemoteNode, CreateNode(c, n) PROVE CallsKnown'
  <2> DEFINE r == LoadedCall(n, "test", [sealed |-> 1, scope |-> "read"])
  <2>1. Set(c, r) /\ r.at = "loaded" /\ keyLive' \subseteq RemoteNode
    BY <1>4 DEF CreateNode, LoadedCall, CallsKnown
  <2> HIDE DEF r
  <2> QED BY <1>1, <2>1
<1>5. ASSUME NEW c \in HubCaller, NEW n \in RemoteNode, NEW op \in Command \cup {"test"}, Load(c, n, op)
      PROVE  CallsKnown'
  <2> DEFINE r == LoadedCall(n, op, nodeRow[n])
  <2>1. Set(c, r) /\ r.at = "loaded" /\ keyLive' \subseteq RemoteNode
    BY <1>5 DEF Load, LoadedCall, CallsKnown
  <2> HIDE DEF r
  <2> QED BY <1>1, <2>1
<1>6. ASSUME NEW c \in HubCaller, GetPlainApiKey(c) PROVE CallsKnown'
  <2> DEFINE r == [at |-> "waiting", node |-> hubCall[c].node, op |-> hubCall[c].op, remote |-> "asked"]
  <2>1. Set(c, r) /\ r.at = "waiting" /\ keyLive' \subseteq RemoteNode
    BY <1>6 DEF GetPlainApiKey, Send, CallsKnown
  <2> HIDE DEF r
  <2> QED BY <1>1, <2>1
<1>7. ASSUME NEW c \in HubCaller, NEW step, Remote(c, step), keyLive' = keyLive,
             hubCall[c].at \in {"waiting", "told"}
      PROVE  CallsKnown'
  <2>1. hubCall' = [hubCall EXCEPT ![c] = [hubCall[c] EXCEPT !.remote = step]]
    BY <1>7 DEF Remote
  <2>2. [hubCall[c] EXCEPT !.remote = step].at = hubCall[c].at
    OBVIOUS
  <2> QED BY <1>1, <1>7, <2>1, <2>2 DEF Set, CallsKnown
<1>8. ASSUME NEW c \in HubCaller, ClusterKeyGuard(c) PROVE CallsKnown'
  BY <1>7, <1>8 DEF ClusterKeyGuard, Asked
<1>9. ASSUME NEW c \in HubCaller, RemoteActs(c) PROVE CallsKnown'
  BY <1>7, <1>9 DEF RemoteActs
<1>10. ASSUME NEW c \in HubCaller, NEW answer, Told(c, answer), keyLive' = keyLive PROVE CallsKnown'
  <2> DEFINE r == [at |-> "told", node |-> hubCall[c].node, op |-> hubCall[c].op,
                   remote |-> hubCall[c].remote, answer |-> answer]
  <2>1. Set(c, r) /\ r.at = "told" /\ keyLive' \subseteq RemoteNode
    BY <1>10 DEF Told, CallsKnown
  <2> HIDE DEF r
  <2> QED BY <1>1, <2>1
<1>11. ASSUME NEW c \in HubCaller, CommandAnswered(c) \/ FetchTimesOut(c) PROVE CallsKnown'
  BY <1>10, <1>11 DEF CommandAnswered, FetchTimesOut
<1>12. ASSUME NEW c \in HubCaller, TestAnswered(c) PROVE CallsKnown'
  <2>1. CASE Told(c, "error")
    BY <1>10, <1>12, <2>1 DEF TestAnswered
  <2>2. ASSUME NEW s, Set(c, [at |-> "saving", node |-> hubCall[c].node, op |-> "test",
                       row |-> [nodeRow[hubCall[c].node] EXCEPT !.scope = s]])
        PROVE  CallsKnown'
    <3> DEFINE r == [at |-> "saving", node |-> hubCall[c].node, op |-> "test",
                     row |-> [nodeRow[hubCall[c].node] EXCEPT !.scope = s]]
    <3>1. Set(c, r) /\ r.at = "saving" /\ keyLive' \subseteq RemoteNode
      BY <1>12, <2>2 DEF TestAnswered, CallsKnown
    <3> HIDE DEF r
    <3> QED BY <1>1, <3>1
  <2> QED BY <1>12, <2>1, <2>2 DEF TestAnswered
<1>13. ASSUME NEW c \in HubCaller, SetScope(c) \/ EndCall(c) PROVE CallsKnown'
  <2>1. NoCall.at = "idle"
    BY DEF NoCall
  <2> QED BY <1>1, <1>13, <2>1 DEF SetScope, EndCall, CallsKnown
<1> QED BY <1>2, <1>3, <1>4, <1>5, <1>6, <1>8, <1>9, <1>11, <1>12, <1>13 DEF ClusterNext

LEMMA CallsKnownInit == ClusterInit => CallsKnown
BY DEF ClusterInit, CallsKnown, NoCall

LEMMA ClusterTypes == ClusterSpec => []ClusterTypeOK
<1>1. RowsAndCallsAreGood /\ CallsKnown => ClusterTypeOK
  BY DEF RowsAndCallsAreGood, CallsKnown, ClusterTypeOK
<1> QED BY <1>1, ClusterInitGood, ClusterStepGood, CallsKnownInit, CallsKnownStep, PTL DEF ClusterSpec

-----------------------------------------------------------------------------
HostingKnown ==
  /\ hosted \subseteq AppBranch /\ DOMAIN hosting = HostCaller
  /\ \A c \in HostCaller :
       /\ hosting[c].at \in {"idle", "find", "count", "create", "release", "start"}
       /\ hosting[c].at # "idle" => hosting[c].branch \in AppBranch
  /\ listing.at \in {"idle", "pages", "jobs", "listed"}

LEMMA HostingInitKnown == AmplifyInit => HostingKnown
BY DEF AmplifyInit, HostingKnown, NoHosting, NoListing

LEMMA HostingStepKnown == HostingKnown /\ [AmplifyNext]_amplifyVars => HostingKnown'
<1> SUFFICES ASSUME HostingKnown, [AmplifyNext]_amplifyVars PROVE HostingKnown'
  OBVIOUS
<1>0. /\ hosted \subseteq AppBranch /\ DOMAIN hosting = HostCaller
      /\ listing.at \in {"idle", "pages", "jobs", "listed"}
  BY DEF HostingKnown
<1>1. ASSUME NEW c \in HostCaller, NEW r, hosting' = [hosting EXCEPT ![c] = r], hosted' \subseteq AppBranch,
             r.at \in {"idle", "find", "count", "create", "release", "start"},
             r.at # "idle" => r.branch \in AppBranch, listing' = listing
      PROVE  HostingKnown'
  BY <1>1 DEF HostingKnown
<1>2. ASSUME NEW c \in HostCaller, NEW at, Hosting(c, at), hosted' \subseteq AppBranch,
             at \in {"idle", "find", "count", "create", "release", "start"},
             hosting[c].at # "idle", listing' = listing
      PROVE  HostingKnown'
  <2>1. hosting' = [hosting EXCEPT ![c] = [hosting[c] EXCEPT !.at = at]]
    BY <1>2 DEF Hosting
  <2>2. \/ [hosting[c] EXCEPT !.at = at].at = at
        \/ [hosting[c] EXCEPT !.at = at] = hosting[c]
    OBVIOUS
  <2>3. [hosting[c] EXCEPT !.at = at].branch = hosting[c].branch /\ hosting[c].branch \in AppBranch
    BY <1>2 DEF HostingKnown
  <2>4. hosting[c].at \in {"idle", "find", "count", "create", "release", "start"}
    BY DEF HostingKnown
  <2> QED BY <1>1, <1>2, <2>1, <2>2, <2>3, <2>4
<1>3. CASE UNCHANGED amplifyVars
  BY <1>3 DEF amplifyVars, HostingKnown
<1>4. ASSUME NEW b \in AppBranch, DeleteBranch(b) PROVE HostingKnown'
  BY <1>0, <1>4 DEF DeleteBranch, HostingKnown
<1>5. ASSUME NEW b \in AppBranch, NEW c \in HostCaller, BeginHosting(c, b) PROVE HostingKnown'
  <2> DEFINE r == [at |-> "find", branch |-> b, last |-> 0, used |-> 0]
  <2>1. r.at = "find" /\ r.branch = b
    OBVIOUS
  <2>2. hosting' = [hosting EXCEPT ![c] = r] /\ hosted' = hosted /\ listing' = listing
    BY <1>5 DEF BeginHosting
  <2> HIDE DEF r
  <2> QED BY <1>0, <1>1, <2>1, <2>2
<1>6. ASSUME NEW c \in HostCaller, FindBranch(c) PROVE HostingKnown'
  BY <1>0, <1>2, <1>6 DEF FindBranch
<1>7. ASSUME NEW c \in HostCaller, CountSlots(c) PROVE HostingKnown'
  <2>1. hosting[c].at = "count" /\ hosted' = hosted /\ listing' = listing
    BY <1>7 DEF CountSlots
  <2>2. PICK last, used : \/ hosting' = [hosting EXCEPT ![c].last = last, ![c].used = used]
                          \/ Hosting(c, "create") \/ Hosting(c, "idle")
    BY <1>7 DEF CountSlots
  <2>3. CASE hosting' = [hosting EXCEPT ![c].last = last, ![c].used = used]
    <3> DEFINE r == [hosting[c] EXCEPT !.last = last, !.used = used]
    <3>1. hosting' = [hosting EXCEPT ![c] = r]
      BY <1>0, <2>3
    <3>2. r.at = hosting[c].at /\ r.branch = hosting[c].branch
      OBVIOUS
    <3>3. hosting[c].branch \in AppBranch
      BY <2>1 DEF HostingKnown
    <3> HIDE DEF r
    <3> QED BY <1>0, <1>1, <2>1, <3>1, <3>2, <3>3
  <2>4. CASE Hosting(c, "create") \/ Hosting(c, "idle")
    BY <1>0, <1>2, <2>1, <2>4
  <2> QED BY <2>2, <2>3, <2>4
<1>8. ASSUME NEW c \in HostCaller, CreateBranch(c) PROVE HostingKnown'
  <2>1. hosting[c].branch \in AppBranch /\ hosting[c].at = "create"
    BY <1>8 DEF CreateBranch, HostingKnown
  <2>2. hosted' \subseteq AppBranch
    BY <1>0, <1>8, <2>1 DEF CreateBranch
  <2> QED BY <1>2, <1>8, <2>1, <2>2 DEF CreateBranch
<1>9. ASSUME NEW c \in HostCaller, StartReleaseJob(c) \/ HostingFails(c) PROVE HostingKnown'
  <2>1. hosting[c].at # "idle" /\ Hosting(c, "idle") /\ hosted' = hosted /\ listing' = listing
    BY <1>9 DEF StartReleaseJob, HostingFails
  <2> QED BY <1>0, <1>2, <2>1
<1>10. ASSUME \/ BeginListing \/ ListPageOf \/ (\E w \in PoolWorker : JobsListed(w)) \/ EndListing \/ LeaveListing
       PROVE  HostingKnown'
  <2>1. hosted' = hosted /\ hosting' = hosting
    BY <1>10 DEF BeginListing, ListPageOf, JobsListed, EndListing, LeaveListing
  <2>2. listing'.at \in {"idle", "pages", "jobs", "listed"}
    <3>1. CASE BeginListing \/ EndListing \/ LeaveListing
      BY <3>1 DEF BeginListing, EndListing, LeaveListing, NoListing
    <3>2. CASE ListPageOf
      <4>1. PICK seen : \/ listing' = [listing EXCEPT !.seen = seen]
                        \/ listing' = [at |-> "jobs", pool |-> Started(InOrder(seen \ HiddenBranch))]
        BY <3>2 DEF ListPageOf
      <4>2. CASE listing' = [listing EXCEPT !.seen = seen]
        <5>1. listing'.at = listing.at
          BY <4>2
        <5> QED BY <1>0, <5>1
      <4>3. CASE listing' = [at |-> "jobs", pool |-> Started(InOrder(seen \ HiddenBranch))]
        <5>1. listing'.at = "jobs"
          BY <4>3
        <5> QED BY <5>1
      <4> QED BY <4>1, <4>2, <4>3
    <3>3. ASSUME NEW w \in PoolWorker, JobsListed(w) PROVE listing'.at = listing.at
      <4>1. PICK pool : listing' = [listing EXCEPT !.pool = pool]
        BY <3>3 DEF JobsListed
      <4> QED BY <4>1
    <3> QED BY <1>0, <1>10, <3>1, <3>2, <3>3
  <2> QED BY <2>1, <2>2 DEF HostingKnown
<1> QED BY <1>3, <1>4, <1>5, <1>6, <1>7, <1>8, <1>9, <1>10 DEF AmplifyNext

LEMMA AmplifyTypes == AmplifySpec => []AmplifyTypeOK
<1>1. HostingKnown => AmplifyTypeOK
  BY DEF HostingKnown, AmplifyTypeOK
<1> QED BY <1>1, HostingInitKnown, HostingStepKnown, PTL DEF AmplifySpec


-----------------------------------------------------------------------------
LEMMA DemoBranchesInit == DemoInit => DemoTypeOK
<1> SUFFICES ASSUME DemoInit PROVE DemoTypeOK
  OBVIOUS
<1>1. /\ demoRow \in [DemoInstance -> DemoFixtures] /\ demoTimer = [i \in DemoInstance |-> 0]
      /\ demoAmplify.branches = DemoHidden /\ demoLate = FALSE
      /\ demoUser = [e \in DemoEmail |-> IF e \in {"admin", "operator"} THEN e ELSE "none"]
  BY DEF DemoInit, FreshStore, FreshUsers
<1>2. DemoFixtures \subseteq DemoRow
  BY FixturesRest
<1>3. demoRow \in [DemoInstance -> DemoRow]
  BY <1>1, <1>2
<1>4. demoTimer \in [DemoInstance -> 0..MaxTimers]
  BY <1>1, DemoAssumption
<1>5. demoUser \in [DemoEmail -> {"admin", "operator", "none"}]
  BY <1>1
<1> QED BY <1>1, <1>3, <1>4, <1>5, DemoAssumption DEF DemoTypeOK, DemoRow

\* The parts of the store that are no rows, and what a handler may make of them.
StoreFits ==
  /\ demoTimer \in [DemoInstance -> 0..MaxTimers] /\ demoLate \in BOOLEAN
  /\ demoUser \in [DemoEmail -> {"admin", "operator", "none"}]
  /\ DemoHidden \subseteq demoAmplify.branches /\ demoAmplify.branches \subseteq DemoBranch

LEMMA TimersFit ==
  ASSUME StoreFits, NEW S \in SUBSET DemoInstance, ScheduleAll(S), \A i \in S : RoomForTimer(i)
  PROVE  demoTimer' \in [DemoInstance -> 0..MaxTimers]
<1>1. demoTimer' = [i \in DemoInstance |-> demoTimer[i] + IF i \in S THEN 1 ELSE 0] /\ MaxTimers \in Nat
  BY DemoAssumption DEF ScheduleAll
<1>2. ASSUME NEW i \in DemoInstance PROVE demoTimer[i] + (IF i \in S THEN 1 ELSE 0) \in 0..MaxTimers
  <2>1. demoTimer[i] \in 0..MaxTimers /\ (i \in S => demoTimer[i] < MaxTimers)
    BY DEF StoreFits, RoomForTimer
  <2> QED BY <1>1, <2>1
<1> QED BY <1>1, <1>2

LEMMA StoreStepFits == DemoInv /\ StoreFits /\ [DemoNext]_demoVars => StoreFits'
<1> SUFFICES ASSUME DemoInv, StoreFits, [DemoNext]_demoVars PROVE StoreFits'
  OBVIOUS
<1>0. /\ demoTimer \in [DemoInstance -> 0..MaxTimers] /\ demoLate \in BOOLEAN /\ MaxTimers \in Nat
      /\ demoUser \in [DemoEmail -> {"admin", "operator", "none"}]
      /\ DemoHidden \subseteq demoAmplify.branches /\ demoAmplify.branches \subseteq DemoBranch
      /\ DemoHidden \subseteq DemoBranch
  BY DemoAssumption DEF StoreFits
<1>1. ASSUME demoTimer' \in [DemoInstance -> 0..MaxTimers], demoLate' \in BOOLEAN,
             UNCHANGED <<demoUser, demoAmplify>>
      PROVE  StoreFits'
  BY <1>0, <1>1 DEF StoreFits
<1>2. CASE UNCHANGED demoVars
  BY <1>0, <1>1, <1>2 DEF demoVars
<1>3. CASE DemoReset
  BY <1>0, <1>3 DEF DemoReset, FreshStore, FreshUsers, StoreFits
<1>4. ASSUME NEW i \in DemoInstance, DemoLate(i) PROVE StoreFits'
  <2>1. demoLate' = FALSE /\ UNCHANGED <<demoUser, demoAmplify>>
        /\ (UNCHANGED demoTimer \/ (RoomForTimer(i) /\ ScheduleAll({i})))
    BY <1>4 DEF DemoLate
  <2>2. demoTimer' \in [DemoInstance -> 0..MaxTimers]
    BY <1>0, <2>1, TimersFit
  <2> QED BY <1>1, <2>1, <2>2
<1>5. CASE DemoHandler /\ UNCHANGED demoLate
  <2>0. demoLate' \in BOOLEAN
    BY <1>0, <1>5
  <2>1. ASSUME NEW i \in DemoInstance,
               \/ DemoPause(i) \/ DemoCancel(i) \/ DemoAwake(i) \/ \E e \in DemoEmail : DemoRemove(e, i)
        PROVE  StoreFits'
    BY <1>0, <1>1, <2>0, <2>1 DEF DemoPause, DemoCancel, DemoAwake, DemoRemove, OnlyRows
  <2>2. ASSUME NEW i \in DemoInstance, DemoForce(i) \/ DemoActivate(i) PROVE StoreFits'
    <3>1. RoomForTimer(i) /\ ScheduleAll({i}) /\ UNCHANGED <<demoUser, demoAmplify>>
      BY <2>2 DEF DemoForce, DemoActivate
    <3>2. demoTimer' \in [DemoInstance -> 0..MaxTimers]
      BY <3>1, TimersFit
    <3> QED BY <1>1, <2>0, <3>1, <3>2
  <2>3. ASSUME NEW i \in DemoInstance, DemoTimerFires(i) PROVE StoreFits'
    <3>1. demoTimer' \in [DemoInstance -> 0..MaxTimers]
      <4>1. demoTimer[i] - 1 \in 0..MaxTimers /\ demoTimer' = [demoTimer EXCEPT ![i] = demoTimer[i] - 1]
        BY <1>0, <2>3 DEF DemoTimerFires
      <4> QED BY <1>0, <4>1
    <3> QED BY <1>1, <2>0, <2>3, <3>1 DEF DemoTimerFires
  <2>4. ASSUME NEW e \in DemoEmail, DemoTeardown(e) \/ DemoDeleteProject(e) PROVE StoreFits'
    BY <1>0, <1>1, <2>0, <2>4 DEF DemoTeardown, DemoDeleteProject, OnlyRows
  <2>5. ASSUME NEW e \in DemoEmail, DemoRestartAll(e) PROVE StoreFits'
    <3> DEFINE here == {i \in DemoInstance : Present(i)}
    <3>1. (\A i \in here : RoomForTimer(i)) /\ ScheduleAll(here) /\ UNCHANGED <<demoUser, demoAmplify>>
      BY <2>5 DEF DemoRestartAll
    <3>2. here \in SUBSET DemoInstance
      OBVIOUS
    <3> HIDE DEF here
    <3>3. demoTimer' \in [DemoInstance -> 0..MaxTimers]
      BY <3>1, <3>2, TimersFit
    <3> QED BY <1>1, <2>0, <3>1, <3>3
  <2>6. ASSUME NEW e \in DemoEmail, NEW u \in DemoEmail, NEW role \in {"admin", "operator", "none"},
               DemoSetUser(e, u, role)
        PROVE  StoreFits'
    BY <1>0, <2>0, <2>6 DEF DemoSetUser, StoreFits
  <2>7. ASSUME \/ \E e \in DemoEmail : \/ \E b \in DemoBranch : DemoDeleteBranch(e, b)
                                       \/ \E n \in 1 .. Cardinality(DemoBranch) : DemoSetLimit(e, n)
               \/ \E b \in DemoBranch : DemoHost(b)
        PROVE  StoreFits'
    <3>1. demoTimer' = demoTimer /\ demoUser' = demoUser
      BY <2>7 DEF DemoDeleteBranch, DemoSetLimit, DemoHost
    <3>2. DemoHidden \subseteq demoAmplify'.branches /\ demoAmplify'.branches \subseteq DemoBranch
      <4>1. ASSUME NEW e \in DemoEmail, NEW b \in DemoBranch, DemoDeleteBranch(e, b)
            PROVE  \/ demoAmplify'.branches = demoAmplify.branches \ {b} /\ b \notin DemoHidden
                   \/ demoAmplify' = demoAmplify
        BY <4>1 DEF DemoDeleteBranch
      <4>2. ASSUME NEW b \in DemoBranch, DemoHost(b)
            PROVE  \/ demoAmplify'.branches = demoAmplify.branches \cup {b}
                   \/ demoAmplify' = demoAmplify
        BY <4>2 DEF DemoHost
      <4>3. ASSUME NEW e \in DemoEmail, NEW n, DemoSetLimit(e, n)
            PROVE  demoAmplify'.branches = demoAmplify.branches
        BY <4>3 DEF DemoSetLimit
      <4> QED BY <1>0, <2>7, <4>1, <4>2, <4>3
    <3> QED BY <1>0, <2>0, <3>1, <3>2 DEF StoreFits
  <2> QED BY <1>5, <2>1, <2>2, <2>3, <2>4, <2>5, <2>6, <2>7 DEF DemoHandler
<1> QED BY <1>2, <1>3, <1>4, <1>5 DEF DemoNext

LEMMA DemoTypes == DemoSpec => []DemoTypeOK
<1>1. DemoInit => DemoInv /\ StoreFits
  <2> SUFFICES ASSUME DemoInit PROVE StoreFits
    BY DemoInitInv
  <2>1. DemoTypeOK
    BY DemoBranchesInit
  <2> QED BY <2>1 DEF DemoTypeOK, StoreFits
<1>2. DemoInv /\ StoreFits /\ [DemoNext]_demoVars => DemoInv' /\ StoreFits'
  BY DemoStepInv, StoreStepFits
<1>3. DemoInv /\ StoreFits => DemoTypeOK
  BY DEF DemoInv, StoreFits, DemoTypeOK, DemoRow
<1> QED BY <1>1, <1>2, <1>3, PTL DEF DemoSpec


-----------------------------------------------------------------------------
ViewFields ==
  view = [at |-> "asking", kind |-> view.kind, page |-> view.page, size |-> view.size, todo |-> view.todo,
          asked |-> view.asked, merged |-> view.merged, total |-> view.total, named |-> view.named,
          seen |-> view.seen]
ViewFits ==
  /\ rowsOf \in [Nodes -> SUBSET (1..MaxTime)]
  /\ view.at \in {"idle", "asking", "shown"}
  /\ view.at # "idle" => view.kind \in Kind /\ view.asked \subseteq Nodes /\ view.seen \subseteq AllRows
  /\ view.at = "asking" => ViewFields /\ view.merged \subseteq view.seen /\ view.todo \subseteq view.asked

LEMMA PartIsHeld ==
  ASSUME NEW v, NEW n
  PROVE  NodePart(v, n) \subseteq rowsOf[n]
BY DEF NodePart, SummaryRows, Newest

LEMMA ViewsInitFits == ViewsInit => ViewFits
<1> SUFFICES ASSUME ViewsInit PROVE ViewFits
  OBVIOUS
<1>1. PICK now \in 0..MaxTime :
        \E owner \in [1..now -> Nodes] : rowsOf = [n \in Nodes |-> {t \in 1..now : owner[t] = n}]
  BY DEF ViewsInit
<1>2. PICK owner \in [1..now -> Nodes] : rowsOf = [n \in Nodes |-> {t \in 1..now : owner[t] = n}]
  BY <1>1
<1>3. 1..now \subseteq 1..MaxTime
  BY ViewsAssumption
<1>4. rowsOf \in [Nodes -> SUBSET (1..MaxTime)]
  BY <1>2, <1>3
<1>5. view.at = "idle"
  BY DEF ViewsInit, NoView
<1> QED BY <1>4, <1>5 DEF ViewFits

LEMMA ViewsStepFits == ViewFits /\ [ViewsNext]_viewVars => ViewFits'
<1> SUFFICES ASSUME ViewFits, [ViewsNext]_viewVars PROVE ViewFits'
  OBVIOUS
<1>0. /\ rowsOf \in [Nodes -> SUBSET (1..MaxTime)] /\ MaxTime \in Nat /\ LocalNode \in Nodes
      /\ \A n \in Nodes : rowsOf[n] \subseteq AllRows
  BY ViewsAssumption DEF ViewFits, Nodes, LocalNode, AllRows
<1>1. ASSUME NEW kind \in Kind, NEW page, NEW size, NEW enabled \in SUBSET (Nodes \ {LocalNode}),
             BeginView(kind, page, size, enabled)
      PROVE  ViewFits'
  <2>1. PICK v, total, named :
          /\ view' = [at |-> "asking", kind |-> kind, page |-> page, size |-> size, todo |-> enabled,
                      asked |-> enabled, merged |-> NodePart(v, LocalNode), total |-> total, named |-> named,
                      seen |-> rowsOf[LocalNode]]
          /\ rowsOf' = rowsOf
    BY <1>1 DEF BeginView
  <2>2. NodePart(v, LocalNode) \subseteq rowsOf[LocalNode]
    BY PartIsHeld
  <2>3. /\ view'.at = "asking" /\ view'.kind = kind /\ view'.asked = enabled /\ view'.todo = enabled
        /\ view'.merged = NodePart(v, LocalNode) /\ view'.seen = rowsOf[LocalNode] /\ ViewFields'
    BY <2>1 DEF ViewFields
  <2> QED BY <1>0, <2>1, <2>2, <2>3 DEF ViewFits, AllRows
<1>2. ASSUME NEW enabled \in SUBSET (Nodes \ {LocalNode}),
             \/ AggregateProjects(enabled) \/ AggregateInstances(enabled)
             \/ AggregateResources(enabled) \/ AggregateDashboard(enabled)
             \/ AggregateHostMetrics(enabled) \/ AggregateNetworkRequests(enabled)
      PROVE  ViewFits'
  <2>1. {"projects", "instances", "resources", "dashboard", "host", "network"} \subseteq Kind
    BY DEF Kind, ListKind
  <2> QED BY <1>1, <1>2, <2>1
          DEF AggregateProjects, AggregateInstances, AggregateResources, AggregateDashboard,
              AggregateHostMetrics, AggregateNetworkRequests
<1>3. CASE NodeAnswers \/ NodeSilent
  <2>1. /\ view.at = "asking" /\ view.todo # {} /\ rowsOf' = rowsOf /\ ViewFields
        /\ view.kind \in Kind /\ view.asked \subseteq Nodes /\ view.seen \subseteq AllRows
        /\ view.merged \subseteq view.seen /\ view.todo \subseteq view.asked
    BY <1>3 DEF NodeAnswers, NodeSilent, ViewFits
  <2>2. ASSUME NEW todo, NEW merged, NEW total, NEW named, NEW seen,
               view' = [at |-> "asking", kind |-> view.kind, page |-> view.page, size |-> view.size, todo |-> todo,
                        asked |-> view.asked, merged |-> merged, total |-> total, named |-> named, seen |-> seen],
               todo \subseteq view.todo, merged \subseteq seen, seen \subseteq AllRows
        PROVE  ViewFits'
    <3>1. /\ view'.at = "asking" /\ view'.kind = view.kind /\ view'.asked = view.asked /\ view'.todo = todo
          /\ view'.merged = merged /\ view'.seen = seen /\ ViewFields'
      BY <2>2 DEF ViewFields
    <3> QED BY <1>0, <2>1, <2>2, <3>1 DEF ViewFits, AllRows
  <2>3. CASE NodeSilent
    <3>1. PICK named : view' = [view EXCEPT !.todo = @ \ {NextNode}, !.named = named]
      BY <2>3 DEF NodeSilent
    <3>2. view' = [at |-> "asking", kind |-> view.kind, page |-> view.page, size |-> view.size,
                   todo |-> view.todo \ {NextNode}, asked |-> view.asked, merged |-> view.merged,
                   total |-> view.total, named |-> named, seen |-> view.seen]
      BY <2>1, <3>1 DEF ViewFields
    <3> QED BY <2>1, <2>2, <3>2
  <2>4. CASE NodeAnswers
    <3>1. PICK total, named :
            view' = [view EXCEPT !.todo = view.todo \ {NextNode},
                                 !.merged = view.merged \cup NodePart(view, NextNode), !.total = total,
                                 !.named = named, !.seen = view.seen \cup rowsOf[NextNode]]
      BY <2>4 DEF NodeAnswers
    <3>2. NextNode \in Nodes
      <4>1. view.todo \in SUBSET Nat
        BY <2>1, ViewsAssumption DEF Nodes
      <4>2. \E n \in view.todo : \A m \in view.todo : n <= m
        BY <2>1, <4>1, LeastOf
      <4> QED BY <2>1, <4>2 DEF NextNode
    <3>3. NodePart(view, NextNode) \subseteq rowsOf[NextNode] /\ rowsOf[NextNode] \subseteq AllRows
      BY <1>0, <3>2, PartIsHeld
    <3>4. view' = [at |-> "asking", kind |-> view.kind, page |-> view.page, size |-> view.size,
                   todo |-> view.todo \ {NextNode}, asked |-> view.asked,
                   merged |-> view.merged \cup NodePart(view, NextNode), total |-> total,
                   named |-> named, seen |-> view.seen \cup rowsOf[NextNode]]
      BY <2>1, <3>1 DEF ViewFields
    <3>5. view.merged \cup NodePart(view, NextNode) \subseteq view.seen \cup rowsOf[NextNode]
      BY <2>1, <3>3
    <3>6. view.seen \cup rowsOf[NextNode] \subseteq AllRows /\ view.todo \ {NextNode} \subseteq view.todo
      BY <2>1, <3>3
    <3> QED BY <2>2, <3>4, <3>5, <3>6
  <2> QED BY <1>3, <2>3, <2>4
<1>4. CASE EndView
  <2>1. /\ view'.at = "shown" /\ view'.kind = view.kind /\ view'.asked = view.asked /\ view'.seen = view.seen
        /\ rowsOf' = rowsOf /\ view.at = "asking"
    BY <1>4 DEF EndView
  <2> QED BY <1>0, <2>1 DEF ViewFits, AllRows
<1>5. CASE CloseView
  <2>1. view'.at = "idle" /\ rowsOf' = rowsOf
    BY <1>5 DEF CloseView, NoView
  <2> QED BY <1>0, <2>1 DEF ViewFits
<1>6. ASSUME NEW n \in Nodes, RowWritten(n) PROVE ViewFits'
  <2> DEFINE t == Cardinality(AllRows) + 1
  <2>1. t \in 1..MaxTime
    <3>1. AllRows \subseteq 1..MaxTime
      BY <1>0 DEF AllRows
    <3>2. IsFiniteSet(1..MaxTime)
      BY <1>0, FS_Interval
    <3>3. Cardinality(AllRows) \in Nat
      BY <3>1, <3>2, FS_Subset, FS_CardinalityType
    <3> QED BY <1>0, <1>6, <3>3 DEF RowWritten
  <2>2. rowsOf' = [rowsOf EXCEPT ![n] = @ \cup {t}] /\ view' = view
    BY <1>6 DEF RowWritten
  <2> HIDE DEF t
  <2>3. rowsOf' \in [Nodes -> SUBSET (1..MaxTime)] /\ \A m \in Nodes : rowsOf[m] \subseteq rowsOf'[m]
    BY <1>0, <2>1, <2>2
  <2>4. AllRows \subseteq AllRows'
    BY <2>3 DEF AllRows
  <2> QED BY <2>2, <2>3, <2>4 DEF ViewFits, ViewFields
<1>7. CASE UNCHANGED viewVars
  BY <1>0, <1>7 DEF viewVars, ViewFits, ViewFields, AllRows
<1> QED BY <1>2, <1>3, <1>4, <1>5, <1>6, <1>7 DEF ViewsNext

LEMMA ViewsTypes == ViewsSpec => []ViewsTypeOK
<1>1. ViewFits => ViewsTypeOK
  BY DEF ViewFits, ViewsTypeOK
<1> QED BY <1>1, ViewsInitFits, ViewsStepFits, PTL DEF ViewsSpec

-----------------------------------------------------------------------------
\* A behaviour of the services is, seen from each of them, a behaviour of its own.
LEMMA PartsBegin ==
  ServicesInit => /\ ResourcesInit /\ NotifyInit /\ ViewsInit /\ ClusterInit /\ SettingsInit
                  /\ AmplifyInit /\ AccountsInit /\ EnvironmentInit /\ DemoInit /\ part \in Part
BY DEF ServicesInit

LEMMA PartsStep ==
  [ServicesNext]_ServicesVars =>
    /\ [ResourcesNext]_resourceVars /\ [NotifyNext]_notifyVars /\ [ViewsNext]_viewVars
    /\ [ClusterNext]_clusterVars /\ [SettingsNext]_settingsVars /\ [AmplifyNext]_amplifyVars
    /\ [AccountsNext]_accountVars /\ [EnvironmentNext]_environmentVars /\ [DemoNext]_demoVars
    /\ part' = part
BY DEF ServicesNext, ServicesVars

LEMMA PartsRun ==
  ServicesSpec => /\ ResourcesSpec /\ NotifySpec /\ ViewsSpec /\ ClusterSpec /\ SettingsSpec
                  /\ AmplifySpec /\ AccountsSpec /\ EnvironmentSpec /\ DemoSpec
BY PartsBegin, PartsStep, PTL
   DEF ServicesSpec, ResourcesSpec, NotifySpec, ViewsSpec, ClusterSpec, SettingsSpec, AmplifySpec,
       AccountsSpec, EnvironmentSpec, DemoSpec

LEMMA PartStays == ServicesSpec => [](part \in Part)
<1>1. part \in Part /\ part' = part => (part \in Part)'
  OBVIOUS
<1> QED BY <1>1, PartsBegin, PartsStep, PTL DEF ServicesSpec

\* Whatever their handlers, requests and timers do, the services beside the deploys keep
\* their rows, requests, maps and forms in the shapes their code gives them: resource rows
\* and port files, the ClickUp link and its comment, the merged views, the node rows and
\* calls of the hub, settings and the deploy that reads them, the Amplify listing, users
\* and sessions, the environment editor and the demo's store.
THEOREM ServicesKeepTypes == ServicesSpec => []ServicesTypeOK
<1>1. ASSUME part \in Part, ResourcesTypeOK, NotifyTypeOK, ViewsTypeOK, ClusterTypeOK, SettingsTypeOK,
             AmplifyTypeOK, AccountsTypeOK, EnvironmentTypeOK, DemoTypeOK
      PROVE  ServicesTypeOK
  BY <1>1 DEF ServicesTypeOK
<1> QED BY <1>1, PartsRun, PartStays, ResourcesTypeCorrect, NotifyTypes, ViewsTypes, ClusterTypes,
           SettingsTypes, AmplifyTypes, AccountsKeepTypes, EditorKeepsTypes, DemoTypes, PTL

\* What was saved for a preview in the editor is what its process gets, over the layers
\* below it, for any keys, values and layers, however tables were switched, pasted into and
\* committed before: a PM2 process any value without a backslash (and its own PORT), a
\* container any value that env-file lines do not quote (EnvEditor.tsx, env-vars.ts,
\* deploy-exec.helper.ts, the env files of common.sh).
THEOREM SettingsReach == ServicesSpec => []SettingsReachProcess
<1>1. ProcessGetsSettings => SettingsReachProcess
  BY DEF SettingsReachProcess
<1> QED BY <1>1, PartsRun, SettingsArrive, PTL

=============================================================================
