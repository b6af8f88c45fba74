SPECIFICATION FairSpec
CONSTANTS
  p = p
  q = q
  Instance = {p, q}
  Client = {"api"}
  Operations = {"webhook", "wake", "activate", "pause", "sleep", "destroy", "scriptFails"}
  HealthChecked = {p}
  ZeroDowntime = {p}
  Concurrency = 2
  Limits = {1}
  InitialLimit = 1
PROPERTIES
  DeployEnds
