SPECIFICATION Spec
CONSTANTS
  p = p
  q = q
  Instance = {p, q}
  Client = {"api"}
  Operations = {"webhook", "pause"}
  HealthChecked = {}
  ZeroDowntime = {}
  Concurrency = 2
  Limits = {1}
  InitialLimit = 1
INVARIANTS
  SlotLimit
