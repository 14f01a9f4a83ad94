------------------------------ MODULE Readers ------------------------------
(***************************************************************************)
(* The two readers of what the pipeline and the analysts commit, in the    *)
(* read-only role and without a snapshot of their own: the weekly report   *)
(* (reports/weekly_report.py), whose statements run one after another in a *)
(* READ COMMITTED transaction, and the dashboard (dashboard/data.py,       *)
(* app.py), each query of which has a cache of its own, shared by all      *)
(* pages and viewers.  Reading changes nothing, so a behaviour has one of  *)
(* the two.  The filters of the feed, and its limit of 500 rows, leave all *)
(* alerts.                                                                 *)
(***************************************************************************)
EXTENDS Integers, Sequences, FiniteSets, FiniteSetsExt

CONSTANTS
  ReaderKinds,     (* The readers there are: "report", "dashboard".        *)
  Alerts,          (* By their dedup keys.                                 *)
  Severity,        (* Of each alert, ...                                   *)
  TriggeredAt,     (* ... when it was triggered, ...                       *)
  Technique,       (* ... and the technique of its rule.                   *)
  Recent,          (* Alerts triggered in the week of the report.          *)
  TopLimit,        (* Rows on the report's list: LIMIT 20.                 *)
  TTL,             (* _CACHE_TTL.                                          *)
  None,
  MaxChanges       (* Bounds the transactions that change the tables.      *)

AlertStatuses    == {"New", "Acknowledged", "Dismissed"}
IncidentStatuses == {"Open", "In Review", "Closed"}

Statements == <<"summary", "by_severity", "by_technique", "top_alerts", "open_incidents">>

(* The order of the report's list.                                         *)
SeverityRank == [critical |-> 1, high |-> 2, medium |-> 3, low |-> 4]

(* Cached are the figures at the top, the feed, the queue, a chart, and    *)
(* the log trace of each alert.                                            *)
Queries == {"kpis", "alerts", "incidents", "severities"} \cup Alerts

ASSUME ReadersAssumption ==
  /\ ReaderKinds \subseteq {"report", "dashboard"}
  /\ IsFiniteSet(Alerts)
  /\ Severity \in [Alerts -> DOMAIN SeverityRank]
  /\ TriggeredAt \in [Alerts -> Nat]
  /\ TopLimit \in Nat
  /\ MaxChanges \in Nat
  /\ TTL \in Nat \ {0}
  /\ Recent \subseteq Alerts
  /\ None \notin AlertStatuses \cup IncidentStatuses
  /\ Alerts \cap {"kpis", "alerts", "incidents", "severities"} = {}

VARIABLES
  reader,
  status,          (* alerts.status, None if there is no such alert.       *)
  incident,        (* incidents.status, None if there is none.             *)
  linked,          (* Alerts with rows in alert_log_links.                 *)
  changes,
  at,              (* The statement the report comes to,                   *)
  report,          (* the results of those before,                         *)
  disturbed,       (* and (history) whether a commit fell between them.    *)
  cache,           (* The cached answer to each query, or None,            *)
  age,             (* and for how long it has been there.                  *)
  listed,          (* Alerts on the feeds shown so far.                    *)
  quiet            (* History: time since the last change, up to TTL.      *)

tables == <<status, incident, linked, changes>>
reportVars == <<at, report, disturbed>>
dashboardVars == <<cache, age, listed, quiet>>
vars == <<reader, tables, reportVars, dashboardVars>>

High == {a \in Alerts : Severity[a] \in {"high", "critical"}}

Init ==
  /\ reader \in ReaderKinds
  /\ status = [a \in Alerts |-> None]
  /\ incident = [a \in Alerts |-> None]
  /\ linked = {}
  /\ changes = 0
  /\ at = 1
  /\ report = [s \in {} |-> None]
  /\ disturbed = FALSE
  /\ cache = [q \in Queries |-> None]
  /\ age = [q \in Queries |-> 0]
  /\ listed = {}
  /\ quiet = 0

----------------------------------------------------------------------------
(***************************************************************************)
(* What is committed meanwhile.                                            *)
(***************************************************************************)
Change ==
  /\ changes < MaxChanges
  /\ changes' = changes + 1
  /\ disturbed' = (disturbed \/ at \in 2..Len(Statements))
  /\ quiet' = 0
  /\ UNCHANGED <<reader, at, report, cache, age, listed>>

(* Faulty variants, here and below, are never part of Spec: a run with one *)
(* in place of the definition it precedes shows what a property rules out. *)
(* These commit alerts before their links, and before their incidents.     *)
CommitAlertsFirst(new) ==
  /\ Change
  /\ IF new # {}
     THEN /\ \A a \in new : status[a] = None
          /\ status' = [a \in Alerts |-> IF a \in new THEN "New" ELSE status[a]]
          /\ UNCHANGED <<incident, linked>>
     ELSE /\ incident' = [a \in Alerts |-> IF status[a] # None /\ a \in High /\ incident[a] = None
                                           THEN "Open" ELSE incident[a]]
          /\ linked' = {a \in Alerts : status[a] # None}
          /\ UNCHANGED status

(* A detection cycle: alerts, their links and the incidents of those that  *)
(* are severe, together.                                                   *)
CommitCycle(new) ==
  /\ new # {}
  /\ \A a \in new : status[a] = None
  /\ Change
  /\ status' = [a \in Alerts |-> IF a \in new THEN "New" ELSE status[a]]
  /\ linked' = linked \cup new
  /\ incident' =
       [a \in Alerts |-> IF /\ a \in High
                            /\ status'[a] \notin {None, "Dismissed"}
                            /\ incident[a] = None
                         THEN "Open" ELSE incident[a]]

(* The last of several sessions decides, whatever it had read (see         *)
(* AnalystWorkflow): any status that is set may follow any other.          *)
SetAlertStatus(a, new) ==
  /\ status[a] \notin {None, new}
  /\ Change
  /\ status' = [status EXCEPT ![a] = new]
  /\ UNCHANGED <<incident, linked>>

SetIncidentStatus(a, new) ==
  /\ incident[a] \notin {None, new}
  /\ Change
  /\ incident' = [incident EXCEPT ![a] = new]
  /\ UNCHANGED <<status, linked>>

Existing == {a \in Alerts : status[a] # None}

CountBy(S, Group) ==
  [g \in {Group[a] : a \in S} |-> Cardinality({a \in S : Group[a] = g})]

----------------------------------------------------------------------------
(***************************************************************************)
(* The report.                                                             *)
(***************************************************************************)

(* Alerts of the week, in the tables and in v_alert_enriched.              *)
InWindow == Existing \cap Recent

Summary ==
  [alerts_total       |-> Cardinality(InWindow),
   alerts_new         |-> Cardinality({a \in InWindow : status[a] = "New"}),
   alerts_high        |-> Cardinality(InWindow \cap High),
   incidents_open_now |-> Cardinality({a \in Alerts : incident[a] \notin {None, "Closed"}})]

(* Faulty: a chart of what is not dismissed ...                            *)
BySeverityActive == CountBy({a \in InWindow : status[a] # "Dismissed"}, Severity)

BySeverity == CountBy(InWindow, Severity)

ByTechnique == CountBy(InWindow, Technique)

(* ... and a list of the latest, whatever their severity.                  *)
LatestBefore(a, b) == TriggeredAt[a] > TriggeredAt[b]

ListedBefore(a, b) ==
  \/ SeverityRank[Severity[a]] < SeverityRank[Severity[b]]
  \/ Severity[a] = Severity[b] /\ TriggeredAt[a] > TriggeredAt[b]

(* As many alerts as the limit leaves, those that come first: of several   *)
(* that come equally early at the cut, any.                                *)
FirstAlerts ==
  {L \in SUBSET InWindow :
     /\ Cardinality(L) = Min({TopLimit, Cardinality(InWindow)})
     /\ \A a \in L, b \in InWindow \ L : ~ListedBefore(b, a)}

TopRow(a) == [alert |-> a, severity |-> Severity[a], alert_status |-> status[a]]

(* The lists that the statement may return, their rows without the order.  *)
TopAlerts == {{TopRow(a) : a \in L} : L \in FirstAlerts}

OpenIncidents == {a \in Alerts : incident[a] \notin {None, "Closed"}}

Results(statement) ==
  CASE statement = "summary"        -> {Summary}
    [] statement = "by_severity"    -> {BySeverity}
    [] statement = "by_technique"   -> {ByTechnique}
    [] statement = "top_alerts"     -> TopAlerts
    [] statement = "open_incidents" -> {OpenIncidents}

(* gather: the next statement sees what is committed when it begins.       *)
RunStatement ==
  /\ reader = "report"
  /\ at <= Len(Statements)
  /\ \E result \in Results(Statements[at]) :
       report' = [s \in DOMAIN report \cup {Statements[at]} |->
                    IF s \in DOMAIN report THEN report[s] ELSE result]
  /\ at' = at + 1
  /\ UNCHANGED <<reader, tables, disturbed, dashboardVars>>

(* render, and the report of another week.                                 *)
Render ==
  /\ at > Len(Statements)
  /\ at' = 1
  /\ report' = [s \in {} |-> None]
  /\ disturbed' = FALSE
  /\ UNCHANGED <<reader, tables, dashboardVars>>

----------------------------------------------------------------------------
(***************************************************************************)
(* The dashboard.                                                          *)
(***************************************************************************)
Kpis ==
  [total_alerts   |-> Cardinality(Existing),
   new_alerts     |-> Cardinality({a \in Alerts : status[a] = "New"}),
   high_alerts    |-> Cardinality(Existing \cap High),
   open_incidents |-> Cardinality({a \in Alerts : incident[a] \notin {None, "Closed"}})]

FeedRow(a) ==
  [alert_id |-> a, alert_status |-> status[a], incident_status |-> incident[a]]

LoadAlerts    == {FeedRow(a) : a \in Existing}
LoadIncidents == {FeedRow(a) : a \in {b \in Alerts : incident[b] # None}}

LoadAlertLogs(a) == [empty |-> a \notin linked]

Answer(q) ==
  CASE q = "kpis"       -> Kpis
    [] q = "alerts"     -> LoadAlerts
    [] q = "incidents"  -> LoadIncidents
    [] q = "severities" -> CountBy(Existing, Severity)
    [] OTHER            -> LoadAlertLogs(q)

(* Faulty: what is asked for again is kept longer.                         *)
FetchAndKeep(q) ==
  /\ reader = "dashboard"
  /\ cache' = [cache EXCEPT ![q] = IF @ = None THEN Answer(q) ELSE @]
  /\ age' = [age EXCEPT ![q] = 0]
  /\ UNCHANGED <<reader, tables, reportVars, quiet>>

(* st.cache_data: the cached answer, or else the one of the database.      *)
Fetch(q) ==
  /\ reader = "dashboard"
  /\ cache' = [cache EXCEPT ![q] = IF @ = None THEN Answer(q) ELSE @]
  /\ age' = [age EXCEPT ![q] = IF cache[q] = None THEN 0 ELSE @]
  /\ UNCHANGED <<reader, tables, reportVars, quiet>>

(* main, on every page.                                                    *)
ShowLedger == Fetch("kpis") /\ UNCHANGED listed

(* view_alert_feed: the feed, then the log trace of an alert on it.        *)
ShowAlerts ==
  /\ Fetch("alerts")
  /\ listed' = listed \cup {r.alert_id : r \in cache'["alerts"]}

ShowTrace(a) ==
  /\ a \in listed
  /\ Fetch(a)
  /\ UNCHANGED listed

(* view_incident_board.                                                    *)
ShowQueue == Fetch("incidents") /\ UNCHANGED listed

(* view_analytics.                                                         *)
ShowChart == Fetch("severities") /\ UNCHANGED listed

(* Faulty: answers stay until somebody clears the cache.                   *)
TickWithoutExpiry ==
  /\ reader = "dashboard"
  /\ age' = [q \in Queries |-> IF cache[q] = None THEN 0 ELSE age[q] + 1]
  /\ quiet' = IF quiet < TTL THEN quiet + 1 ELSE quiet
  /\ UNCHANGED <<reader, tables, reportVars, cache, listed>>

(* Time passes, and answers expire.                                        *)
Tick ==
  /\ reader = "dashboard"
  /\ cache' = [q \in Queries |-> IF age[q] + 1 = TTL THEN None ELSE cache[q]]
  /\ age' = [q \in Queries |-> IF cache'[q] = None THEN 0 ELSE age[q] + 1]
  /\ quiet' = IF quiet < TTL THEN quiet + 1 ELSE quiet
  /\ UNCHANGED <<reader, tables, reportVars, listed>>

Next ==
  \/ \E new \in SUBSET Alerts : CommitCycle(new)
  \/ \E a \in Alerts :
       \/ \E new \in AlertStatuses \ {"New"} : SetAlertStatus(a, new)
       \/ \E new \in IncidentStatuses : SetIncidentStatus(a, new)
       \/ ShowTrace(a)
  \/ RunStatement
  \/ Render
  \/ ShowLedger
  \/ ShowAlerts
  \/ ShowQueue
  \/ ShowChart
  \/ Tick

Spec == Init /\ [][Next]_vars

----------------------------------------------------------------------------
(***************************************************************************)
(* Properties.                                                             *)
(***************************************************************************)
TypeOK ==
  /\ reader \in ReaderKinds
  /\ status \in [Alerts -> AlertStatuses \cup {None}]
  /\ incident \in [Alerts -> IncidentStatuses \cup {None}]
  /\ linked \subseteq Alerts
  /\ changes \in 0..MaxChanges
  /\ at \in 1..(Len(Statements) + 1)
  /\ DOMAIN report = {Statements[n] : n \in 1..(at - 1)}
  /\ disturbed \in BOOLEAN
  /\ DOMAIN cache = Queries
  /\ age \in [Queries -> 0..(TTL - 1)]
  /\ listed \subseteq Alerts
  /\ quiet \in 0..TTL

(* The sum of the counts of some groups: so many are the pairs of a group  *)
(* and a number up to its count.                                           *)
TotalOf(groups, counts) == Cardinality(UNION {{g} \X (1..counts[g]) : g \in groups})

Total(counts) == TotalOf(DOMAIN counts, counts)

(* Whatever is committed between its statements, the alerts that the       *)
(* report has counted do not get lost on the way: each section has at      *)
(* least as many as the sections before it, the list as far as its limit   *)
(* lets it.                                                                *)
ReportTotalsGrow ==
  at > Len(Statements) =>
    /\ report.summary.alerts_total <= Total(report.by_severity)
    /\ Total(report.by_severity) <= Total(report.by_technique)
    /\ \/ Total(report.by_technique) <= Cardinality(report.top_alerts)
       \/ Cardinality(report.top_alerts) = TopLimit

(* With no commit in between, the figures of the summary are those of the  *)
(* sections: the list, which is cut at its limit, has all the severe       *)
(* alerts before any other, no more new ones than were counted, and all of *)
(* these unless it is full.                                                *)
UndisturbedReportAgrees ==
  at > Len(Statements) /\ ~disturbed =>
    /\ report.summary.alerts_total = Total(report.by_severity)
    /\ report.summary.alerts_high =
         TotalOf(DOMAIN report.by_severity \cap {"high", "critical"}, report.by_severity)
    /\ Min({TopLimit, report.summary.alerts_high}) =
         Cardinality({r \in report.top_alerts : r.severity \in {"high", "critical"}})
    /\ LET new == Cardinality({r \in report.top_alerts : r.alert_status = "New"})
       IN  IF Cardinality(report.top_alerts) < TopLimit
           THEN new = report.summary.alerts_new
           ELSE new <= report.summary.alerts_new
    /\ report.summary.incidents_open_now = Cardinality(report.open_incidents)

(* An alert on a feed, however old, has evidence whenever somebody looks,  *)
(* and the page never says "No linked log lines".                          *)
TracesNotEmpty ==
  \A a \in Alerts : cache[a] # None => ~cache[a].empty

(* One lifetime of the cache after the last change, all the pages show     *)
(* what is in the database, and so agree with one another, no matter when  *)
(* and how often they have been shown since.  (An answer is kept as soon   *)
(* as it is read; the time that a query takes in the code is on top.)      *)
CurrentWhenQuiet ==
  quiet = TTL => \A q \in Queries : cache[q] # None => cache[q] = Answer(q)
============================================================================
