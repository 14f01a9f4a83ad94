--------------------------- MODULE DetectionCycle ---------------------------
(***************************************************************************)
(* Detection cycles, detection/runner.py --commit, running side by side    *)
(* on one PostgreSQL database: every statement that run_detection and the  *)
(* create_alerts and escalate_high_severity it calls send to the database  *)
(* is a step, and multi-row INSERTs are taken row by row.  Meanwhile logs  *)
(* arrive, analysts work on alerts, and runs die.                          *)
(*                                                                         *)
(* The isolation level is READ COMMITTED: a statement sees the rows that   *)
(* are committed when it starts and those of its own transaction.  An      *)
(* INSERT ... ON CONFLICT DO NOTHING that meets an uncommitted row with    *)
(* its unique key waits for the transaction holding it.  Rows are never    *)
(* deleted (the pipeline's role may not), so a row stands for its key.     *)
(*                                                                         *)
(* The rules are fixed; what they detect in a batch are the constants      *)
(* Detected and Evidence, for which module DetectionTables has the values. *)
(***************************************************************************)
EXTENDS DetectionRows

CONSTANTS
  Runners,         (* Processes that execute detection cycles.             *)
  Position,        (* Position[B][k]: place of key k in run_rules(B).      *)
  LogOrder,        (* Order of logs by (timestamp, log_id).                *)
  Limits,          (* Values of --limit that are used; 0: it is not given. *)
  ParamLimit,      (* Bound parameters a statement may have (65535).       *)
  MaxCrashes       (* Bounds the runs that die half-way.                   *)

ASSUME RunnerAssumption ==
  /\ Position \in [SUBSET LogIds -> [Keys -> Nat]]
  /\ LogOrder \in [LogIds -> Nat]
  /\ IsFiniteSet(Runners) /\ IsFiniteSet(LogIds) /\ IsFiniteSet(Keys)
  /\ Limits \subseteq Nat
  /\ ParamLimit \in Nat
  /\ MaxCrashes \in Nat

VARIABLES
  logs,            (* log_ids in logs_raw.                                 *)
  processed,       (* Those whose processed column is true.                *)
  rows,            (* Rows of alerts, alert_log_links and incidents.       *)
  status,          (* alerts.status of every key that has an alert.        *)
  totals,          (* Sums over the "detect" rows of detection_run_log.    *)
  pc,              (* Where each runner is in its cycle.                   *)
  batch,           (* The logs its cycle has loaded.                       *)
  pending,         (* Rows its current INSERT has yet to insert.           *)
  mine,            (* Rows its open transaction has inserted.              *)
  crashes,         (* Runs that died.                                      *)
  entered          (* History: the batches of the cycles that committed.   *)

cycleVars == <<pc, batch, pending, mine>>
tableVars == <<logs, processed, rows, status, totals, entered>>
vars == <<logs, processed, rows, status, totals, pc, batch, pending, mine,
          crashes, entered>>

AlertStatuses == {"New", "Acknowledged", "Dismissed"}

TypeOK ==
  /\ logs \subseteq LogIds
  /\ processed \subseteq logs
  /\ \A row \in rows : KeyOf(row) \in Keys
  /\ status \in [Keys -> AlertStatuses]
  /\ totals \in [logs_processed : Nat, alerts_generated : Nat]
  /\ pc \in [Runners -> {"idle", "scanned", "alerts", "links", "incidents", "marked"}]
  /\ batch \in [Runners -> SUBSET logs]
  /\ \A r \in Runners : pending[r] \cup mine[r] \subseteq RowsOf(batch[r])
  /\ crashes \in 0..MaxCrashes
  /\ entered \subseteq SUBSET logs

Init ==
  /\ logs = {}
  /\ processed = {}
  /\ rows = {}
  /\ status = [k \in Keys |-> "New"]
  /\ totals = [logs_processed |-> 0, alerts_generated |-> 0]
  /\ pc = [r \in Runners |-> "idle"]
  /\ batch = [r \in Runners |-> {}]
  /\ pending = [r \in Runners |-> {}]
  /\ mine = [r \in Runners |-> {}]
  /\ crashes = 0
  /\ entered = {}

----------------------------------------------------------------------------
(***************************************************************************)
(* Statements and transactions.                                            *)
(***************************************************************************)

(* What a statement of the runner sees.                                    *)
Visible(r) == rows \cup mine[r]

HasAlert(k) == AlertRow(k) \in rows

(* The VALUES of an INSERT are in the order of the detections; those of    *)
(* the incidents are in the order of alert_id, which is left open.         *)
ComesBefore(r, a, b) ==
  LET place(row) == Position[batch[r]][KeyOf(row)]
  IN  CASE pc[r] = "alerts" -> place(a) < place(b)
        [] pc[r] = "links"  -> \/ place(a) < place(b)
                               \/ place(a) = place(b) /\ a[2][2] < b[2][2]
        [] OTHER            -> FALSE

NextRows(r) == {a \in pending[r] : \A b \in pending[r] : ~ComesBefore(r, b, a)}

(* Another open transaction has inserted the row.                          *)
HeldByOther(r, row) == \E q \in Runners \ {r} : row \in mine[q]

(* Another open transaction has updated a log of the runner's batch.       *)
LogsHeldBy(q, r) == pc[q] = "marked" /\ batch[q] \cap batch[r] # {}

WaitsFor(r, q) ==
  /\ q # r
  /\ \/ NextRows(r) # {} /\ NextRows(r) \subseteq mine[q]
     \/ pc[r] = "incidents" /\ pending[r] = {} /\ LogsHeldBy(q, r)

(* Runs that wait for each other in a circle.                              *)
Deadlocked(r) ==
  \E S \in SUBSET Runners : /\ r \in S
                            /\ \A p \in S : \E q \in S : WaitsFor(p, q)

(* One row of the current INSERT: nothing is done if the row exists.       *)
InsertRow(r) ==
  /\ \E row \in NextRows(r) :
       /\ ~HeldByOther(r, row)
       /\ pending' = [pending EXCEPT ![r] = @ \ {row}]
       /\ mine' = [mine EXCEPT ![r] = IF row \in rows THEN @ ELSE @ \cup {row}]
  /\ UNCHANGED <<tableVars, pc, batch, crashes>>

(* The transaction is gone and with it all it did.                         *)
Rollback(r) ==
  /\ pc' = [pc EXCEPT ![r] = "idle"]
  /\ batch' = [batch EXCEPT ![r] = {}]
  /\ pending' = [pending EXCEPT ![r] = {}]
  /\ mine' = [mine EXCEPT ![r] = {}]
  /\ UNCHANGED tableVars

(* A statement that binds more values than the protocol allows raises.     *)
Fits(parameters) == parameters =< ParamLimit

(* The runner goes on to an INSERT of these rows, "width" columns each.    *)
StartInsert(r, stage, newRows, width) ==
  /\ Fits(width * Cardinality(newRows))
  /\ pc' = [pc EXCEPT ![r] = stage]
  /\ pending' = [pending EXCEPT ![r] = newRows]
  /\ UNCHANGED <<tableVars, batch, mine, crashes>>

----------------------------------------------------------------------------
(***************************************************************************)
(* One detection cycle, run_detection(commit=True).                        *)
(***************************************************************************)

(* ORDER BY timestamp, log_id with LIMIT when there is one.                *)
LoadUnprocessed(limit) ==
  LET waiting == logs \ processed
  IN  {l \in waiting :
         limit = 0 \/ Cardinality({m \in waiting : LogOrder[m] < LogOrder[l]}) < limit}

(* load_active_rules, load_unprocessed_logs, and run_rules on the result.  *)
Scan(r, limit) ==
  /\ pc[r] = "idle"
  /\ pc' = [pc EXCEPT ![r] = "scanned"]
  /\ batch' = [batch EXCEPT ![r] = LoadUnprocessed(limit)]
  /\ UNCHANGED <<tableVars, pending, mine, crashes>>

(* create_alerts: the alerts (with nothing detected, no statement at all;  *)
(* an INSERT of no rows stands for it) ...                                 *)
StartAlerts(r) ==
  /\ pc[r] = "scanned"
  /\ StartInsert(r, "alerts", AlertRowsOf(batch[r]), 7)

InsertAlert(r) == pc[r] = "alerts" /\ InsertRow(r)

(* Faulty variants, here and below, are never part of Spec: a run with one *)
(* in place of the definition it precedes shows what a property rules out. *)
(* This one has links only for the alerts the INSERT returned.             *)
LinksOfNewAlerts(r) ==
  {link \in LinkRowsOf(batch[r]) : AlertRow(KeyOf(link)) \in mine[r]}

(* ... then the alert_ids of all keys, new or found by a SELECT, and the   *)
(* links of those that have one.                                           *)
ResolvedLinks(r) ==
  {link \in LinkRowsOf(batch[r]) : AlertRow(KeyOf(link)) \in Visible(r)}

StartLinks(r) ==
  /\ pc[r] = "alerts"
  /\ pending[r] = {}
  /\ StartInsert(r, "links", ResolvedLinks(r), 2)

InsertLink(r) == pc[r] = "links" /\ InsertRow(r)

(* Faulty: escalation in a session of its own, before the commit.          *)
CommittedCandidates(r) ==
  {k \in HighKeys : /\ HasAlert(k)
                    /\ status[k] # "Dismissed"
                    /\ IncidentRow(k) \notin Visible(r)}

(* escalate_high_severity: high alerts that are not dismissed and have no  *)
(* incident.  An alert of this transaction is still New.                   *)
Candidates(r) ==
  {k \in HighKeys : /\ AlertRow(k) \in Visible(r)
                    /\ HasAlert(k) => status[k] # "Dismissed"
                    /\ IncidentRow(k) \notin Visible(r)}

StartIncidents(r) ==
  /\ pc[r] = "links"
  /\ pending[r] = {}
  /\ StartInsert(r, "incidents", {IncidentRow(k) : k \in Candidates(r)}, 2)

InsertIncident(r) == pc[r] = "incidents" /\ InsertRow(r)

(* Faulty: the flags are committed before the rest of the transaction.     *)
MarkAtOnce(r) ==
  /\ pc[r] = "incidents"
  /\ pending[r] = {}
  /\ Fits(Cardinality(batch[r]) + 1)
  /\ processed' = processed \cup batch[r]
  /\ pc' = [pc EXCEPT ![r] = "marked"]
  /\ UNCHANGED <<logs, rows, status, totals, entered, batch, pending, mine, crashes>>

(* UPDATE logs_raw SET processed = true WHERE log_id IN the batch.         *)
MarkProcessed(r) ==
  /\ pc[r] = "incidents"
  /\ pending[r] = {}
  /\ Fits(Cardinality(batch[r]) + 1)
  /\ \A q \in Runners \ {r} : ~LogsHeldBy(q, r)
  /\ pc' = [pc EXCEPT ![r] = "marked"]
  /\ UNCHANGED <<tableVars, batch, pending, mine, crashes>>

(* Faulty: the alerts found are counted with those created.                *)
DetectedAlerts(r) == AlertRowsOf(batch[r])

NewAlerts(r) == {row \in mine[r] : row[1] = "alert"}

(* The row of detection_run_log, and COMMIT.                               *)
LogAndCommit(r) ==
  /\ pc[r] = "marked"
  /\ rows' = rows \cup mine[r]
  /\ processed' = processed \cup batch[r]
  /\ totals' = [logs_processed   |-> totals.logs_processed + Cardinality(batch[r]),
                alerts_generated |-> totals.alerts_generated + Cardinality(NewAlerts(r))]
  /\ entered' = entered \cup {batch[r]}
  /\ pc' = [pc EXCEPT ![r] = "idle"]
  /\ batch' = [batch EXCEPT ![r] = {}]
  /\ mine' = [mine EXCEPT ![r] = {}]
  /\ UNCHANGED <<logs, status, pending, crashes>>

(* Parameters of the statement the runner is about to send.                *)
NextParameters(r) ==
  CASE pc[r] = "scanned"   -> 7 * Cardinality(AlertRowsOf(batch[r]))
    [] pc[r] = "alerts"    -> 2 * Cardinality(ResolvedLinks(r))
    [] pc[r] = "links"     -> 2 * Cardinality(Candidates(r))
    [] pc[r] = "incidents" -> Cardinality(batch[r]) + 1
    [] OTHER               -> 0

(* The driver refuses it: the exception leaves session_scope.              *)
Overflow(r) ==
  /\ pending[r] = {}
  /\ ~Fits(NextParameters(r))
  /\ Rollback(r)
  /\ UNCHANGED crashes

(* PostgreSQL ends a circle of waits by failing one of the statements.     *)
DeadlockVictim(r) ==
  /\ Deadlocked(r)
  /\ Rollback(r)
  /\ UNCHANGED crashes

(* The process or its connection dies anywhere before COMMIT.              *)
Crash(r) ==
  /\ pc[r] # "idle"
  /\ crashes < MaxCrashes
  /\ crashes' = crashes + 1
  /\ Rollback(r)

(* What a cycle does once it has scanned.                                  *)
Proceed(r) ==
  \/ StartAlerts(r) \/ InsertAlert(r) \/ StartLinks(r) \/ InsertLink(r)
  \/ StartIncidents(r) \/ InsertIncident(r) \/ MarkProcessed(r) \/ LogAndCommit(r)
  \/ Overflow(r) \/ DeadlockVictim(r)

Cycle(r) == Proceed(r) \/ \E limit \in Limits : Scan(r, limit)

----------------------------------------------------------------------------
(***************************************************************************)
(* The surroundings.                                                       *)
(***************************************************************************)

(* ingest_feed commits the new logs of a feed.                             *)
Ingest ==
  /\ \E new \in SUBSET (LogIds \ logs) :
       /\ new # {}
       /\ logs' = logs \cup new
  /\ UNCHANGED <<processed, rows, status, totals, cycleVars, crashes, entered>>

(* set_alert_status in a session of its own.                               *)
AlertTransitions ==
  {<<"New", "Acknowledged">>, <<"New", "Dismissed">>, <<"Acknowledged", "Dismissed">>}

SetAlertStatus ==
  /\ \E k \in Keys : \E new \in AlertStatuses :
       /\ HasAlert(k)
       /\ <<status[k], new>> \in AlertTransitions
       /\ status' = [status EXCEPT ![k] = new]
  /\ UNCHANGED <<logs, processed, rows, totals, cycleVars, crashes, entered>>

Next ==
  \/ Ingest
  \/ SetAlertStatus
  \/ \E r \in Runners : Cycle(r) \/ Crash(r)

(* Who starts cycles, and how often, is not said here but in Pipeline.     *)
Spec == Init /\ [][Next]_vars

----------------------------------------------------------------------------
(***************************************************************************)
(* Properties.                                                             *)
(***************************************************************************)

(* The tables hold exactly what the committed cycles' batches call for:    *)
(* no detection of a processed log is lost, whoever else was running, and  *)
(* no alert, link, incident or processed flag comes from anything else.    *)
BookMatchesRuns ==
  /\ rows = UNION {RowsOf(B) : B \in entered}
  /\ processed = UNION entered

(* Exactly the high-severity alerts have an incident, at every moment an   *)
(* analyst or the dashboard can look; dismissing cannot get in between.    *)
HighAlertsEscalated ==
  \A k \in Keys : IncidentRow(k) \in rows <=> k \in HighKeys /\ HasAlert(k)

(* No two open transactions hold the same unique key, none holds a key     *)
(* that is committed: every row of the book is some cycle's own.           *)
UniqueKeys ==
  /\ \A r \in Runners : mine[r] \cap rows = {}
  /\ \A q, r \in Runners : q # r => mine[q] \cap mine[r] = {}

(* detection_run_log adds up: every alert is counted by exactly one cycle, *)
(* every processed log by at least one, and overlapping cycles are the     *)
(* only way to count a log twice.                                          *)
CountsAddUp ==
  /\ totals.alerts_generated = Cardinality({k \in Keys : HasAlert(k)})
  /\ totals.logs_processed >= Cardinality(processed)
  /\ Cardinality(Runners) = 1 => totals.logs_processed = Cardinality(processed)

(* Statement by statement and run by run, the database behaves as if every *)
(* committed cycle had entered its batch in one step.                      *)
Book == INSTANCE AlertBook

ImplementsBook == Book!Spec
============================================================================
