SPECIFICATION ServicesSpec
CONSTANTS
  \* Resources
  Slug = {"a", "b"}
  Compose = {"b"}
  SameProject = {}
  Extends = {}
  HostPort = {1, 2}
  Env = {e1, e2}
  e1 = e1
  e2 = e2
  DockerFails = TRUE
  \* Notifications
  Task = {"t1", "t2"}
  NoTask = "none"
  BranchTask = "t1"
  Team = {"w1", "w2"}
  Announced = {"gone"}
  NoTeam = "noteam"
  Flow = {"f"}
  Overlapping = FALSE
  MaxComments = 3
  \* ClusterViews
  Remotes = 2
  PageSizes = {1, 2}
  Pages = {1, 2}
  MaxFetch = 3
  NodeRecent = 1
  PanelRecent = 2
  MaxTime = 3
  \* ClusterCalls
  RemoteNode = {"n1"}
  HubCaller = {"c1", "c2"}
  \* ProjectSettings
  Patcher = {c1, c2}
  c1 = c1
  c2 = c2
  EnvVersion = {v1, v2}
  v1 = v1
  v2 = v2
  \* Amplify
  AppBranch = {1, 2, 3}
  HiddenBranch = {1}
  AppSlots = 1
  ListPage = 2
  HostCaller = {"h1", "h2"}
  PoolWorker = {"w1", "w2"}
  \* Accounts
  Email = {"e1", "e2"}
  MaxAccounts = 3
  UserCaller = {"c1"}
  \* Environment
  EnvKey = {"A"}
  DraftKey = "1"
  EnvValue <- TypedValue
  Written <- WrittenValue
  RowLimit = 2
  \* DemoBackend
  DemoInstance = {"i1"}
  DemoEmail = {"admin", "operator"}
  DemoBranch = {"main", "b"}
  DemoHidden = {"main"}
  MaxTimers = 2
SYMMETRY Symmetry
INVARIANTS
  ServicesTypeOK
  ResourcePortsApart
  RunningIsReachable
  CommentedOnce
  MergesAreGlobal
  NodeRowsAreTrue
  OnlyCrossingBreaksRule
  RowsMatchBranches
  AdminRemains
  ShownIsCommitted
  SettingsReachProcess
  DemoDeployHasTimer
PROPERTIES
  ManualLinkStands
  SwitchIsChecked
  HostingKeepsLimit
