----------------------------- MODULE MCPipeline -----------------------------
(***************************************************************************)
(* An instance of Pipeline: bursts of failed logins from one address on    *)
(* two days and a login at an off-hour.  What is detected is what          *)
(* RulesEngine detects in the events that FeedParser makes of the lines.   *)
(***************************************************************************)
EXTENDS Pipeline, TLC

CONSTANTS TicksPerHour, HoursPerDay

Parser == INSTANCE FeedParser

Message(grammar, date, timestamp, ip, user, granted) ==
  [grammar   |-> grammar,
   date      |-> date,
   timestamp |-> timestamp,
   ip        |-> ip,
   user      |-> user,
   granted   |-> granted,
   phrases   |-> {}]

Line(source, message) ==
  [blank         |-> FALSE,
   json          |-> "object",
   source_system |-> source,
   raw_message   |-> message]

Failure(t) == Line("auth", Message("sshd_password", "valid", t, "a", "root", FALSE))
Login(t)   == Line("auth", Message("sshd_password", "valid", t, "b", "eve", TRUE))
Cut        == [Login(1) EXCEPT !.json = "invalid"]

(* The good lines by their time, which serves as log_id.                   *)
Times == {1, 2, 5, 7, 8}

LineAt(t) == IF t = 5 THEN Login(t) ELSE Failure(t)

(* Tables, as in MCDetectionCycle.                                         *)
Table(f) == f @@ <<>>

Feeds ==
  Table([name \in FeedNames |->
           CASE name = 1 -> <<LineAt(1), LineAt(2)>>
             [] name = 2 -> <<LineAt(7), LineAt(8)>>
             [] OTHER    -> <<Cut, LineAt(5)>>])

MCRules ==
  {[rule_id |-> 1, rule_type |-> "brute_force", severity |-> "high",
    threshold_value |-> 2, time_window |-> 2],
   [rule_id |-> 2, rule_type |-> "off_hours_login", severity |-> "medium",
    start_hour |-> 4, end_hour |-> 1]}

Records == Table([id \in Times |-> Parser!Event(LineAt(id)) @@ [log_id |-> id]])

Engine == INSTANCE DetectionTables WITH
  LogIds <- Times, RecordOf <- Records, ActiveRules <- MCRules

ASSUME EngineAssumption == Engine!LogsAndRules

AllKeys     == Engine!AlertKeys
AllHighKeys == Engine!HighAlertKeys
KeysFor     == Table(Engine!KeysFor)
EvidenceIn  == Table([B \in SUBSET Times |-> Table(Engine!EvidenceIn[B])])
Subjects    == Table(Engine!SubjectFor)

(* Alerts of brute force come first; no two cycles block each other here.  *)
Places ==
  LET place == Table([k \in AllKeys |-> IF k[1] = "brute_force" THEN 0 ELSE 1])
  IN  Table([B \in SUBSET Times |-> place])

OrderOfLogs == Table([id \in Times |-> id])

MCFeedOf    == Feeds
MCLogIds    == Times
MCIdOf(row) == row.text.timestamp
MCKeys      == AllKeys
MCHighKeys  == AllHighKeys
MCDetected  == KeysFor
MCEvidence  == EvidenceIn
MCPosition  == Places
MCLogOrder  == OrderOfLogs
MCSubject   == Subjects
============================================================================
