----------------------------- MODULE AlertBook -----------------------------
(***************************************************************************)
(* What the detection stage promises, without transactions: logs arrive,   *)
(* and now and then the detections of some batch of them are entered in    *)
(* the book all at once - their alerts, the links from the alerts to the   *)
(* logs, an incident for every alert of high severity - while the logs of  *)
(* the batch become processed.                                             *)
(***************************************************************************)
EXTENDS DetectionRows

VARIABLES
  logs,            (* log_ids in logs_raw.                                 *)
  processed,       (* Those whose processed column is true.                *)
  rows             (* Rows of alerts, alert_log_links and incidents.       *)

Init ==
  /\ logs = {}
  /\ processed = {}
  /\ rows = {}

Arrive ==
  /\ logs' \in SUBSET LogIds
  /\ logs \subseteq logs'
  /\ UNCHANGED <<processed, rows>>

Enter(B) ==
  /\ processed' = processed \cup B
  /\ rows' = rows \cup RowsOf(B)
  /\ UNCHANGED logs

Next == Arrive \/ \E B \in SUBSET logs : Enter(B)

Spec == Init /\ [][Next]_<<logs, processed, rows>>
============================================================================
