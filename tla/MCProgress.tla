----------------------------- MODULE MCProgress -----------------------------
(* The loops of the API and of the page, for TLC: what they owe somebody in *)
(* the end.  They share no state, so that a behaviour picks one of them,    *)
(* `part`, and the others stay as they begin.                               *)
EXTENDS WakeQueue, BulkOperations, Metrics, InstancePage

VARIABLE part

Part == {"wakes", "bulk", "metrics", "page"}

\* The others rest: a log that was read, and no page.
ProgressInit ==
  /\ part \in Part
  /\ WakeInit /\ BulkInit
  /\ MetricsInit
  /\ PageInit
  /\ part # "page" => serverRow = CHOOSE r \in ServerRow : TRUE

ProgressNext ==
  /\ UNCHANGED part
  /\ IF part = "wakes" THEN WakeNext ELSE UNCHANGED wakeVars
  /\ IF part = "bulk" THEN BulkNext ELSE UNCHANGED bulkVars
  /\ IF part = "metrics" THEN MetricsNext ELSE UNCHANGED metricsVars
  /\ IF part = "page" THEN PageNext ELSE UNCHANGED pageVars

ProgressVars == <<part, wakeVars, bulkVars, metricsVars, pageVars>>

\* An operation goes on to its end; the scheduler runs each minute, whatever
\* operators ask for; and from some time on no script fails.
BulkFairness ==
  /\ \A l \in Loop : WF_bulkVars(BulkStep(l))
  /\ \A l \in Cron : SF_bulkVars(part = "bulk" /\ BeginBulk(l, "lifetime"))
  /\ <>[][~\E l \in Loop, i \in Held : VisitFails(l, i)]_bulkVars

\* The collector is called each minute and a tick goes on to its end; the
\* log can be read and the table written from some time on.
MetricsFairness ==
  /\ WF_metricsVars(part = "metrics" /\ (TickSucceeds \/ Aborts \/ InsertFails))
  /\ <>[][~(Aborts \/ InsertFails)]_metricsVars

ProgressSpec ==
  /\ ProgressInit /\ [][ProgressNext]_ProgressVars
  /\ WakeFairness /\ PageFairness /\ BulkFairness /\ MetricsFairness

\* The queue, the rows, the log and the page keep the shapes their code gives
\* them (the type invariants of the modules).
ProgressTypeOK ==
  part \in Part /\ WakeTypeOK /\ BulkTypeOK /\ MetricsTypeOK /\ PageTypeOK

\* IngestionCatchesUp, asked of the collector that runs: what nginx wrote is
\* read in the end (metrics.service.ts, ingestAccessLogs).
CollectorCatchesUp == part = "metrics" => IngestionCatchesUp

=============================================================================
