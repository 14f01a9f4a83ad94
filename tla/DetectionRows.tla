--------------------------- MODULE DetectionRows ---------------------------
(***************************************************************************)
(* What the rule engine detects in each batch of logs, and the rows of     *)
(* alerts, alert_log_links and incidents that those detections call for.   *)
(***************************************************************************)
EXTENDS Integers, FiniteSets

CONSTANTS
  LogIds,          (* Rows that logs_raw may come to hold.                 *)
  Keys,            (* Values of alerts.dedup_key, one alert each.          *)
  HighKeys,        (* The keys whose rule is of high or critical severity. *)
  Detected,        (* Detected[B]: keys of the detections of a batch B.    *)
  Evidence         (* Evidence[B][k]: the log_ids those of key k name.     *)

ASSUME DetectionAssumption ==
  /\ HighKeys \subseteq Keys
  /\ Detected \in [SUBSET LogIds -> SUBSET Keys]
  /\ Evidence \in [SUBSET LogIds -> [Keys -> SUBSET LogIds]]
  /\ \A B \in SUBSET LogIds : \A k \in Detected[B] : Evidence[B][k] \subseteq B

(* Rows are named by their unique key, incidents by that of their alert.   *)
AlertRow(k)    == <<"alert", k>>
LinkRow(k, l)  == <<"link", <<k, l>>>>
IncidentRow(k) == <<"incident", k>>

AlertRowsOf(B)    == {AlertRow(k) : k \in Detected[B]}
LinkRowsOf(B)     == UNION {{LinkRow(k, l) : l \in Evidence[B][k]} : k \in Detected[B]}
IncidentRowsOf(B) == {IncidentRow(k) : k \in Detected[B] \cap HighKeys}

RowsOf(B) == AlertRowsOf(B) \cup LinkRowsOf(B) \cup IncidentRowsOf(B)

(* The key of the alert a row belongs to.                                  *)
KeyOf(row) == IF row[1] = "link" THEN row[2][1] ELSE row[2]
============================================================================
