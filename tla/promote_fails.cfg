SPECIFICATION SerialSpec
CONSTANTS
  p = p
  Instance = {p}
  Client = {"api"}
  Operations = {"webhook", "promoteFails"}
  HealthChecked = {p}
  ZeroDowntime = {p}
  Concurrency = 1
  Limits = {1}
  InitialLimit = 1
PROPERTIES
  ActiveNeverError
