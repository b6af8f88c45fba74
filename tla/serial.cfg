SPECIFICATION SerialSpec
CONSTANTS
  p = p
  q = q
  Instance = {p, q}
  Client = {"api"}
  Operations = {"webhook", "wake", "activate", "pause", "sleep", "destroy", "cancel", "restart", "scriptFails"}
  HealthChecked = {p}
  ZeroDowntime = {p}
  Concurrency = 2
  Limits = {1}
  InitialLimit = 1
INVARIANTS
  SlotLimit
  InProgressIsOwned
  ActiveServes
  PausedIsStopped
PROPERTIES
  KeepsSlotContract
  ReservationKeepsLimit
