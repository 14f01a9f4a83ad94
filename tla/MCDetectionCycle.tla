-------------------------- MODULE MCDetectionCycle --------------------------
(***************************************************************************)
(* An instance of DetectionCycle in which the rule engine of RulesEngine   *)
(* works on three failed logins.  One brute-force rule makes an alert of   *)
(* either address, in an order that depends on how much of the burst has   *)
(* been ingested, another one that asks for two failures a third alert:    *)
(* all three are more than one INSERT of the instance can take.            *)
(***************************************************************************)
EXTENDS DetectionCycle, TLC

CONSTANTS TicksPerHour, HoursPerDay, None

Auth(id, timestamp, outcome, ip, user) ==
  [log_id        |-> id,
   timestamp     |-> timestamp,
   source_system |-> "auth",
   event_type    |-> "login",
   status        |-> outcome,
   source_ip     |-> ip,
   username      |-> user,
   phrases       |-> {}]

AllLines ==
  {Auth(1, 1, "failure", "a", "root"), Auth(2, 2, "failure", "b", "root"),
   Auth(3, 3, "failure", "a", "root")}

MCRules ==
  {[rule_id |-> 1, rule_type |-> "brute_force", severity |-> "high",
    threshold_value |-> 1, time_window |-> 2],
   [rule_id |-> 2, rule_type |-> "brute_force", severity |-> "medium",
    threshold_value |-> 2, time_window |-> 2]}

(* The functions are tables, computed once: TLC would compute a function   *)
(* at every application, and the definition that a constant stands for at  *)
(* every use, but not those it refers to.                                  *)
Table(f) == f @@ <<>>

Records == Table([id \in LogIds |-> CHOOSE line \in AllLines : line.log_id = id])

Engine == INSTANCE DetectionTables WITH RecordOf <- Records, ActiveRules <- MCRules

ASSUME EngineAssumption == Engine!LogsAndRules

RulesFor == Table([B \in SUBSET LogIds |-> Engine!DetectionsIn(B)])

(* Place of a key in the sorted list: how many keys come strictly before.  *)
Places ==
  Table([B \in SUBSET LogIds |->
           Table([k \in Engine!AlertKeys |->
                    Cardinality(Engine!KeysOf(
                      {d \in RulesFor[B] :
                         \A e \in RulesFor[B] :
                           e.dedup_key = k => Engine!Precedes(d, e)}))])])

OrderOfLogs == Table([id \in LogIds |-> 10 * Records[id].timestamp + id])

AllKeys     == Engine!AlertKeys
AllHighKeys == Engine!HighAlertKeys
KeysFor     == Table(Engine!KeysFor)
EvidenceIn  == Table([B \in SUBSET LogIds |-> Table(Engine!EvidenceIn[B])])

MCKeys     == AllKeys
MCHighKeys == AllHighKeys
MCDetected == KeysFor
MCEvidence == EvidenceIn
MCPosition == Places
MCLogOrder == OrderOfLogs

RunnerSymmetry == Permutations(Runners)
============================================================================
