-------------------------- MODULE DetectionTables --------------------------
(***************************************************************************)
(* What the rule engine detects in each batch of logs, as DetectionRows    *)
(* and the modules above it want to have it: these tables are the values   *)
(* of their constants.                                                     *)
(***************************************************************************)
EXTENDS RulesEngine

CONSTANTS
  LogIds,
  RecordOf,        (* The row of logs_raw with a log_id.                   *)
  ActiveRules      (* What load_active_rules returns.                      *)

(* What the tables logs_raw and detection_rules see to: their ids are      *)
(* primary keys, and a threshold is an integer.                            *)
LogsAndRules ==
  /\ IsFiniteSet(LogIds)
  /\ \A id \in LogIds : RecordOf[id].log_id = id
  /\ IsFiniteSet(ActiveRules)
  /\ \A r, s \in ActiveRules : r.rule_id = s.rule_id => r = s
  /\ \A r \in ActiveRules : r.rule_type = "brute_force" => r.threshold_value \in Int

DetectionsIn(B) == RunRules(ActiveRules, {RecordOf[id] : id \in B})

AlertKeys == UNION {KeysOf(DetectionsIn(B)) : B \in SUBSET LogIds}

HIGH_SEVERITIES == {"high", "critical"}

(* A key has the rule_id in second place, and the severity is the rule's.  *)
HighAlertKeys ==
  {k \in AlertKeys :
     \E r \in ActiveRules : r.rule_id = k[2] /\ r.severity \in HIGH_SEVERITIES}

KeysFor == [B \in SUBSET LogIds |-> KeysOf(DetectionsIn(B))]

EvidenceIn ==
  [B \in SUBSET LogIds |-> [k \in AlertKeys |-> EvidenceFor(k, DetectionsIn(B))]]

(* Whom the alert of a key accuses: of brute force, rule and address,      *)
(* whatever the day; otherwise it is the key itself.                       *)
SubjectOf(key) == IF key[1] = "brute_force" THEN <<key[1], key[2], key[3]>> ELSE key

SubjectFor == [k \in AlertKeys |-> SubjectOf(k)]

Tables == INSTANCE DetectionRows WITH
  Keys <- AlertKeys, HighKeys <- HighAlertKeys, Detected <- KeysFor, Evidence <- EvidenceIn
============================================================================
