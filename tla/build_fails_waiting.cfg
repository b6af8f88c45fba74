SPECIFICATION FairSpec
CONSTANTS
  p = p
  q = q
  Instance = {p, q}
  Client = {"api"}
  Operations = {"webhook", "scriptFails"}
  HealthChecked = {}
  ZeroDowntime = {}
  Concurrency = 1
  Limits = {1}
  InitialLimit = 1
PROPERTIES
  WaitingServed
