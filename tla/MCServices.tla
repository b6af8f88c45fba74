----------------------------- MODULE MCServices -----------------------------
(* The services beside the deploys, for TLC.  They share no state and none  *)
(* waits for another, so that a product of them would show nothing more than*)
(* each of them: a behaviour picks one service, `part`, and the others stay *)
(* as they begin.                                                           *)
EXTENDS Resources, Notifications, ClusterViews, ClusterCalls,
        ProjectSettings, Amplify, Accounts, Environment, DemoBackend

VARIABLE part

\* Values of variables as they are typed, and as they may stand in a text.
TypedValue == {<<>>, <<"n">>, <<"nl">>, <<"bs", "n">>, <<"dq">>}
WrittenValue == {<<>>, <<"n">>, <<"dq", "n", "dq">>, <<"dq", "bs", "n", "dq">>}

\* Versions of an environment are interchangeable, and so are the requests that change
\* a project.
Symmetry == Permutations(Env) \cup Permutations(EnvVersion) \cup Permutations(Patcher)

Part == {"resources", "notifications", "views", "calls", "settings",
         "amplify", "accounts", "environment", "demo"}

\* Where a service may begin in several states, one is enough to rest in.
ServicesInit ==
  /\ part \in Part
  /\ ResourcesInit /\ AccountsInit /\ EnvironmentInit
  /\ NotifyInit
  /\ part # "notifications" => /\ home = [t \in Task |-> NoTeam] /\ authorized = {}
                               /\ configured = NoTeam
  /\ ViewsInit
  /\ part # "views" => AllRows = {}
  /\ ClusterInit
  /\ part # "calls" => nodeKey = [n \in RemoteNode |-> "read"] /\ nodeRow = [n \in RemoteNode |-> Fresh]
  /\ SettingsInit
  /\ AmplifyInit
  /\ part # "amplify" => hosted = {}
  /\ DemoInit
  /\ part # "demo" => demoRow = CHOOSE r \in [DemoInstance -> DemoFixtures] : TRUE

ServicesNext ==
  /\ UNCHANGED part
  /\ IF part = "resources" THEN ResourcesNext ELSE UNCHANGED resourceVars
  /\ IF part = "notifications" THEN NotifyNext ELSE UNCHANGED notifyVars
  /\ IF part = "views" THEN ViewsNext ELSE UNCHANGED viewVars
  /\ IF part = "calls" THEN ClusterNext ELSE UNCHANGED clusterVars
  /\ IF part = "settings" THEN SettingsNext ELSE UNCHANGED settingsVars
  /\ IF part = "amplify" THEN AmplifyNext ELSE UNCHANGED amplifyVars
  /\ IF part = "accounts" THEN AccountsNext ELSE UNCHANGED accountVars
  /\ IF part = "environment" THEN EnvironmentNext ELSE UNCHANGED environmentVars
  /\ IF part = "demo" THEN DemoNext ELSE UNCHANGED demoVars

ServicesVars ==
  <<part, resourceVars, notifyVars, viewVars, clusterVars, settingsVars,
    amplifyVars, accountVars, environmentVars, demoVars>>

ServicesSpec == ServicesInit /\ [][ServicesNext]_ServicesVars

\* Every service keeps its rows, requests and maps in the shapes its code gives
\* them (the type invariants of the modules).
ServicesTypeOK ==
  /\ part \in Part
  /\ ResourcesTypeOK /\ NotifyTypeOK /\ ViewsTypeOK /\ ClusterTypeOK
  /\ SettingsTypeOK /\ AmplifyTypeOK /\ AccountsTypeOK /\ EnvironmentTypeOK
  /\ DemoTypeOK

\* ProcessGetsSettings, asked where settings change: a process gets what was saved
\* for its preview, over the other layers (EnvEditor.tsx, deploy-exec.helper.ts).
SettingsReachProcess == part = "environment" => ProcessGetsSettings

=============================================================================
