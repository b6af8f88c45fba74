SPECIFICATION MetricsSpec
CONSTANTS
  MaxLine = 4
  MaxInode = 0
  MaxRestart = 0
  TailLines = 2
  InsertSize = 2
  RowCap = 4
PROPERTIES
  LinesAreStored
CHECK_DEADLOCK FALSE
