SPECIFICATION ProgressSpec
CONSTANTS
  \* WakeQueue
  WakeKey = {"k1", "k2", "k3"}
  WakeCaller = {"c1", "c2", "c3"}
  WakeConcurrency = 1
  \* BulkOperations
  Held = {"p", "q"}
  Loop = {"c"}
  Cron = {"c"}
  BulkOps = {"lifetime", "destroyAll", "pauseAll", "awakeAll", "restartAll", "sleepAll"}
  SlotMax = 1
  \* Metrics
  MaxLine = 3
  MaxInode = 1
  MaxRestart = 1
  TailLines = 2
  InsertSize = 1
  RowCap = 2
  \* InstancePage
  ServerRow = {"active", "zd", "deploying", "error", "asleep"}
  MaxWait = 2
  PagePoll = {"p1"}
  PagePatch = {"reload"}
INVARIANTS
  ProgressTypeOK
  WakeQueueAgrees
  FreedSlotsAreOffered
  LineStoredOnce
PROPERTIES
  WakesAnswered
  ExpiredIsRemoved
  CollectorCatchesUp
  SwitchDisappears
CHECK_DEADLOCK FALSE
