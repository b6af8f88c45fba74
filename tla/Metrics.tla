------------------------------- MODULE Metrics -------------------------------
(***************************************************************************)
(* The metrics collector: a tick each minute samples the host, tails an    *)
(* access log from the cursor it keeps in memory, and prunes what is old   *)
(* or too much.  The log is a sequence of lines, numbered as nginx writes  *)
(* them; it is rotated and truncated by others.                            *)
(***************************************************************************)
EXTENDS Naturals, Sequences, FiniteSets

CONSTANTS MaxLine,      \* bound on the lines written
          MaxInode,     \* bound on rotations; 0 for a log nobody rotates or truncates
          MaxRestart,   \* bound on restarts of the API
          TailLines,    \* the lines a first read goes back, 2 MB
          InsertSize,   \* the lines of one INSERT, 200
          RowCap        \* NETWORK_ROW_CAP

ASSUME MetricsAssumption ==
  /\ {MaxLine, MaxInode, MaxRestart, TailLines, RowCap} \subseteq Nat
  /\ InsertSize \in Nat \ {0}

VARIABLES
  log,       \* the lines of the file
  inode,
  written,   \* lines written so far, to any file
  expired,   \* the lines 1..expired are older than seven days
  cursor,    \* logCursors: {} or {[size, inode]}
  collecting,
  tick,      \* where the tick is
  batch,     \* lines parsed and not inserted yet, in the order they were written
  upTo,      \* st: size and inode of the file at the beginning of its read
  stored,    \* stored[l]: the rows of line l
  restarts

logVars == <<log, inode, written, expired>>
tickVars == <<cursor, collecting, tick, batch, upTo, stored>>
metricsVars == <<logVars, tickVars, restarts>>

-----------------------------------------------------------------------------
Line == 1..MaxLine
Rows == {l \in Line : stored[l] > 0}
TickPC == {"idle", "host", "ingest", "insert", "prune"}

\* nginx and logrotate
WriteLine ==
  /\ written < MaxLine
  /\ written' = written + 1 /\ log' = Append(log, written + 1)
  /\ UNCHANGED <<inode, expired, tickVars, restarts>>
Rotate ==
  /\ log # <<>> /\ log' = <<>>
  /\ \/ inode < MaxInode /\ inode' = inode + 1
     \/ MaxInode > 0 /\ UNCHANGED inode
  /\ UNCHANGED <<written, expired, tickVars, restarts>>
Expire ==
  /\ expired < written /\ expired' = expired + 1
  /\ UNCHANGED <<log, inode, written, tickVars, restarts>>

-----------------------------------------------------------------------------
\* collectTick
BeginTick ==
  /\ ~collecting /\ tick = "idle"
  /\ collecting' = TRUE /\ tick' = "host"
  /\ UNCHANGED <<logVars, cursor, batch, upTo, stored, restarts>>

SampleHost ==
  /\ tick = "host" /\ tick' = "ingest"
  /\ UNCHANGED <<logVars, cursor, collecting, batch, upTo, stored, restarts>>

\* Mutant of Aborts: the flag is cleared at the end of a whole tick only.
AbortsStuck ==
  /\ tick \in {"host", "prune"} /\ tick' = "idle"
  /\ UNCHANGED <<logVars, collecting, cursor, batch, upTo, stored, restarts>>

\* The database refuses the sample, or the prune: the tick ends there.
Aborts ==
  /\ tick \in {"host", "prune"} /\ tick' = "idle" /\ collecting' = FALSE
  /\ UNCHANGED <<logVars, cursor, batch, upTo, stored, restarts>>

\* The file as it is, and as it is before any.
FileNow == [size |-> Len(log), inode |-> inode]
NoFile == [size |-> 0, inode |-> 0]

\* Where ingestLogFile begins to read: at the cursor, at the beginning of a file
\* that was truncated or replaced, or near the end of one it does not know.
ReadFrom ==
  IF cursor = {} THEN IF Len(log) > TailLines THEN Len(log) - TailLines ELSE 0
  ELSE LET c == CHOOSE c \in cursor : TRUE IN
       IF c.inode = inode /\ c.size <= Len(log) THEN c.size ELSE 0

\* The text up to the first line end is dropped when the read does not begin at
\* the beginning, as if the cursor were always in the middle of a line.
Parsed(start) ==
  LET first == (IF start > 0 THEN start + 1 ELSE start) + 1 IN
  {log[n] : n \in first..Len(log)} \ 1..expired

IngestLog ==
  /\ tick = "ingest"
  /\ upTo' = FileNow
  /\ IF ReadFrom >= Len(log)
     THEN /\ cursor' = {FileNow}
          /\ tick' = "prune" /\ UNCHANGED batch
     ELSE /\ batch' = Parsed(ReadFrom) /\ tick' = "insert" /\ UNCHANGED cursor
  /\ UNCHANGED <<logVars, collecting, stored, restarts>>

\* The first lines of the batch.
Inserting == {l \in batch : Cardinality({m \in batch : m <= l}) <= InsertSize}

\* Mutant of Ingested: a row for each line, whether there is one or not.
IngestedTwice == [l \in Line |-> IF l \in Inserting THEN stored[l] + 1 ELSE stored[l]]
\* orIgnore, under the unique line_hash.
Ingested == [l \in Line |-> IF l \in Inserting /\ stored[l] = 0 THEN 1 ELSE stored[l]]

\* insertNetworkBatch; after the last one the cursor moves to what the tick saw, also
\* when the file was rotated meanwhile.
InsertBatch ==
  /\ tick = "insert" /\ stored' = Ingested
  /\ batch' = batch \ Inserting
  /\ IF batch' = {}
     THEN tick' = "prune" /\ cursor' = {upTo}
     ELSE UNCHANGED <<tick, cursor>>
  /\ UNCHANGED <<logVars, collecting, upTo, restarts>>

\* An insert fails: the file is read again from the same place the next time.
InsertFails ==
  /\ tick = "insert" /\ tick' = "prune" /\ batch' = {}
  /\ UNCHANGED <<logVars, cursor, collecting, upTo, stored, restarts>>

\* pruneOldData: what is old, then the oldest beyond the cap.
Prune ==
  /\ tick = "prune" /\ tick' = "idle" /\ collecting' = FALSE
  /\ LET young == {l \in Rows : l > expired} IN
     stored' = [l \in Line |->
       IF l \in young /\ Cardinality({m \in young : m >= l}) <= RowCap THEN stored[l] ELSE 0]
  /\ UNCHANGED <<logVars, cursor, batch, upTo, restarts>>

\* The API restarts: cursors are lost.
CollectorRestarts ==
  /\ restarts < MaxRestart /\ restarts' = restarts + 1
  /\ cursor' = {} /\ collecting' = FALSE /\ tick' = "idle" /\ batch' = {} /\ upTo' = NoFile
  /\ UNCHANGED <<logVars, stored>>

-----------------------------------------------------------------------------
MetricsInit ==
  /\ log = <<>> /\ inode = 0 /\ written = 0 /\ expired = 0
  /\ cursor = {} /\ collecting = FALSE /\ tick = "idle" /\ batch = {} /\ upTo = NoFile
  /\ stored = [l \in Line |-> 0] /\ restarts = 0

TickSucceeds == BeginTick \/ SampleHost \/ IngestLog \/ InsertBatch \/ Prune
MetricsNext ==
  \/ WriteLine \/ Rotate \/ Expire \/ CollectorRestarts
  \/ TickSucceeds \/ Aborts \/ InsertFails

MetricsSpec == MetricsInit /\ [][MetricsNext]_metricsVars

-----------------------------------------------------------------------------
\* Type invariant: files, cursor, batch and table hold lines written so far.
MetricsTypeOK ==
  /\ log \in Seq(Line) /\ inode \in 0..MaxInode /\ written \in 0..MaxLine
  /\ expired \in 0..MaxLine /\ collecting \in BOOLEAN /\ tick \in TickPC
  /\ cursor \subseteq [size : 0..MaxLine, inode : 0..MaxInode] /\ Cardinality(cursor) <= 1
  /\ batch \subseteq Line /\ upTo \in [size : 0..MaxLine, inode : 0..MaxInode]
  /\ stored \in [Line -> Nat] /\ restarts \in 0..MaxRestart

\* A request is one row, through inserts that fail halfway and are repeated and
\* restarts that read the end of the log again.
LineStoredOnce == \A l \in Line : stored[l] <= 1

\* The collector catches up with the log once nginx rests, whatever fails.
IngestionCatchesUp == <>[](cursor = {FileNow})

\* docs/metrics.md:13 says that the collector tails the files and stores parsed
\* lines: a line between two positions of the cursor is stored when the second
\* is reached.
LinesAreStored ==
  [][\A c \in cursor, d \in cursor' :
       d.inode = c.inode /\ d.size > c.size =>
         \A n \in (c.size + 1)..d.size :
           n <= Len(log) /\ log[n] > expired => stored'[log[n]] = 1]_metricsVars

=============================================================================
