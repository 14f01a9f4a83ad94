---------------------------- MODULE RulesEngine ----------------------------
(***************************************************************************)
(* The rule engine of detection/rules_engine.py as operators: what each    *)
(* detector returns for one rule and one batch of logs, and what run_rules *)
(* returns for all rules.  A batch is a set of log records with distinct   *)
(* log_ids; the engine sees it ordered by (timestamp, log_id).             *)
(*                                                                         *)
(* Time is counted in ticks.  A timestamp is a natural number of ticks     *)
(* since a midnight (UTC), so that the hour and the day of the code's      *)
(* datetimes are divisions.                                                *)
(***************************************************************************)
EXTENDS Integers, FiniteSets, Sequences

CONSTANTS
  TicksPerHour,    (* Resolution of timestamps.                            *)
  HoursPerDay,     (* 24 in the code; smaller in small instances.          *)
  None             (* Python's None in an optional column.                 *)

ASSUME CalendarAssumption ==
  /\ TicksPerHour \in Nat \ {0}
  /\ HoursPerDay \in Nat \ {0}

HourOf(timestamp) == (timestamp \div TicksPerHour) % HoursPerDay

DayOf(timestamp) == timestamp \div (TicksPerHour * HoursPerDay)

Latest(timestamps) == CHOOSE t \in timestamps : \A u \in timestamps : u =< t

----------------------------------------------------------------------------
(***************************************************************************)
(* brute_force: failed logins of one source_ip inside a sliding window.    *)
(* detect_brute_force computes it with two pointers over the failures of   *)
(* the IP; module BruteForceSweep models that loop.  Here is what the loop *)
(* is meant to return.                                                     *)
(***************************************************************************)
IsFailedLogin(log) ==
  /\ log.source_system = "auth"
  /\ log.event_type = "login"
  /\ log.status = "failure"
  /\ log.source_ip # None

FailuresOf(ip, records) == {l \in records : IsFailedLogin(l) /\ l.source_ip = ip}

FailingIps(records) == {l.source_ip : l \in {m \in records : IsFailedLogin(m)}}

(* The early return: a rule without threshold or window detects nothing.   *)
BruteForceEnabled(rule) == rule.threshold_value > 0 /\ rule.time_window > 0

(* The failures inside the closed window that opens at a given one.        *)
WindowFrom(first, failures, width) ==
  {l \in failures :
     first.timestamp =< l.timestamp /\ l.timestamp - first.timestamp =< width}

(* A failure contributes when some window holding it reaches the threshold.*)
QualifyingFailures(rule, failures) ==
  UNION {w \in {WindowFrom(f, failures, rule.time_window) : f \in failures} :
           Cardinality(w) >= rule.threshold_value}

BruteForceDetection(rule, ip, hits) ==
  LET triggered_at == Latest({l.timestamp : l \in hits})
  IN  [rule_id      |-> rule.rule_id,
       rule_type    |-> rule.rule_type,
       severity     |-> rule.severity,
       triggered_at |-> triggered_at,
       source_ip    |-> ip,
       username     |-> None,
       log_ids      |-> {l.log_id : l \in hits},
       dedup_key    |-> <<"brute_force", rule.rule_id, ip, DayOf(triggered_at)>>]

BruteForceDetections(rule, records) ==
  {BruteForceDetection(rule, ip, QualifyingFailures(rule, FailuresOf(ip, records))) :
     ip \in {i \in FailingIps(records) :
               /\ BruteForceEnabled(rule)
               /\ QualifyingFailures(rule, FailuresOf(i, records)) # {}}}

----------------------------------------------------------------------------
(***************************************************************************)
(* off_hours_login: a successful login whose hour is in [start, end).      *)
(***************************************************************************)
IsOffHours(hour, start, end) ==
  /\ start # end
  /\ \/ start < end /\ start =< hour /\ hour < end
     \/ start > end /\ (hour >= start \/ hour < end)

SingleLogDetection(rule, log, key) ==
  [rule_id      |-> rule.rule_id,
   rule_type    |-> rule.rule_type,
   severity     |-> rule.severity,
   triggered_at |-> log.timestamp,
   source_ip    |-> log.source_ip,
   username     |-> log.username,
   log_ids      |-> {log.log_id},
   dedup_key    |-> key]

(* The key names the user and the second, not the address or the log.      *)
OffHoursDetections(rule, records) ==
  {SingleLogDetection(rule, l,
      <<"off_hours", rule.rule_id, l.username, l.timestamp>>) :
     l \in {m \in records :
              /\ m.source_system = "auth"
              /\ m.event_type = "login"
              /\ m.status = "success"
              /\ IsOffHours(HourOf(m.timestamp), rule.start_hour, rule.end_hour)}}

----------------------------------------------------------------------------
(***************************************************************************)
(* privilege_escalation: an auth line containing a configured keyword.     *)
(* "phrases" stands for the keywords that occur in the lower-cased line.   *)
(***************************************************************************)
PrivilegeEscalationDetections(rule, records) ==
  {SingleLogDetection(rule, l, <<"priv_esc", rule.rule_id, l.log_id>>) :
     l \in {m \in records :
              /\ m.source_system = "auth"
              /\ m.phrases \cap rule.keywords # {}}}

----------------------------------------------------------------------------
(***************************************************************************)
(* run_rules: every rule through the detector of its type.  The list is    *)
(* sorted by (triggered_at, rule_id); "Precedes" is that order, and among  *)
(* equals the detectors' own order, which is the order of the logs.        *)
(***************************************************************************)
Detections(rule, records) ==
  CASE rule.rule_type = "brute_force"          -> BruteForceDetections(rule, records)
    [] rule.rule_type = "off_hours_login"      -> OffHoursDetections(rule, records)
    [] rule.rule_type = "privilege_escalation" -> PrivilegeEscalationDetections(rule, records)
    [] OTHER                                   -> {}

RunRules(rules, records) == UNION {Detections(rule, records) : rule \in rules}

Precedes(d, e) ==
  \/ d.triggered_at < e.triggered_at
  \/ d.triggered_at = e.triggered_at /\ d.rule_id < e.rule_id

(* What create_alerts keeps of detections that share a dedup_key: the      *)
(* first of the list becomes the alert, all of them give it links.         *)
KeysOf(detections) == {d.dedup_key : d \in detections}

EvidenceFor(key, detections) ==
  UNION {d.log_ids : d \in {e \in detections : e.dedup_key = key}}
============================================================================
