SPECIFICATION Spec
CONSTANTS
  p = p
  Instance = {p}
  Client = {"api"}
  Operations = {"webhook", "wake", "activate", "pause", "sleep", "destroy", "cancel", "restart", "clickup", "scriptFails", "stopFails", "promoteFails", "outlasts", "crash", "limit"}
  HealthChecked = {p}
  ZeroDowntime = {p}
  Concurrency = 1
  Limits = {1, 2}
  InitialLimit = 1
INVARIANTS
  TypeOK
  DeployKeepsItsId
  SuppressIsTemporary
