------------------------- MODULE MCBruteForceSweep -------------------------
(***************************************************************************)
(* Instances of BruteForceSweep: every batch of MaxLogs failed logins from *)
(* the addresses Ips, at every choice of times in a short range; and every *)
(* rule with a small threshold and window, the disabled ones included.     *)
(***************************************************************************)
EXTENDS BruteForceSweep

CONSTANTS
  MaxLogs,         (* Logs in a batch.                                     *)
  LastTick,        (* Times are 0..LastTick.                               *)
  Ips,             (* Source addresses.                                    *)
  Thresholds, Windows

Lines == [timestamp : 0..LastTick, source_ip : Ips]

Log(id, line) ==
  [log_id        |-> id,
   timestamp     |-> line.timestamp,
   source_system |-> "auth",
   event_type    |-> "login",
   status        |-> "failure",
   source_ip     |-> line.source_ip,
   username      |-> "root",
   phrases       |-> {}]

MCBatches ==
  {{Log(id, lines[id]) : id \in 1..MaxLogs} : lines \in [1..MaxLogs -> Lines]}

MCRules ==
  {[rule_id         |-> 1,
    rule_type       |-> "brute_force",
    severity        |-> "high",
    threshold_value |-> t,
    time_window     |-> w] : t \in Thresholds, w \in Windows}
============================================================================
