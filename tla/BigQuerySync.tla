---------------------------- MODULE BigQuerySync ----------------------------
(***************************************************************************)
(* bi_export/sync_to_bigquery.py: the runs that bring the facts in         *)
(* BigQuery up to date with PostgreSQL, next to the transactions that      *)
(* change PostgreSQL.                                                      *)
(*                                                                         *)
(* now() in PostgreSQL, from which created_at, updated_at and ingested_at  *)
(* get their values, is the time a transaction began, not the time it      *)
(* commits.  No two transactions begin at one time.                        *)
(***************************************************************************)
EXTENDS Naturals, FiniteSets, FiniteSetsExt

CONSTANTS
  Syncs,           (* Processes that run the sync.                         *)
  Writers,         (* Sessions that may be open at a time.                 *)
  Alerts,          (* Alert ids.                                           *)
  Feeds,           (* Feeds of log lines, each ingested once ...           *)
  Days,            (* ... and the days                                     *)
  DaysOf,          (* its lines are from.                                  *)
  NoStage,         (* What a _stage_ table is that does not exist.         *)
  MaxTransactions, (* Bound on transactions ...                            *)
  MaxMishaps       (* ... and on crashes and drops of the schema.          *)

ASSUME SyncAssumption ==
  /\ DaysOf \in [Feeds -> SUBSET Days]
  /\ MaxTransactions \in Nat
  /\ MaxMishaps \in Nat

VARIABLES
  clock,           (* Transactions begun.                                  *)
  began,           (* When a session's transaction began; 0: none is open. *)
  alerts,          (* Change times and version of an alert's row.          *)
  ingested,        (* ingested_at of the rows of a feed; 0: not ingested.  *)
  fact,            (* fact_alerts: versions.  fact_logs_daily: the feeds   *)
                   (* whose rows a day's counts are of.                    *)
  dropped,         (* Whether the tables of the facts are missing.         *)
  mark,            (* last_synced_at of the two targets.                   *)
  stage,           (* The _stage_ tables.                                  *)
  pc, target, full,
  since,           (* The watermark that a run has read.                   *)
  found,           (* The data frame it will stage.                        *)
  high,            (* The watermark it will write.                         *)
  mishaps,
  alone,           (* No transaction, other run or drop since it began.    *)
  trusted          (* Since its last rebuild, if any, only runs that were  *)
                   (* alone have advanced the watermark of a target.       *)

pg == <<clock, began, alerts, ingested>>
bigquery == <<fact, dropped, mark, stage>>
run == <<pc, target, full, since, found, high>>
history == <<mishaps, alone, trusted>>
vars == <<clock, began, alerts, ingested, fact, dropped, mark, stage,
          pc, target, full, since, found, high, mishaps, alone, trusted>>

Targets == {"alerts", "logs"}

NoAlert == [created |-> 0, updated |-> 0, incident |-> 0, version |-> 0]
NoRows == [x \in {} |-> 0]
Empty == [t \in Targets |-> IF t = "alerts" THEN [a \in Alerts |-> 0]
                                            ELSE [d \in Days |-> {}]]

Init ==
  /\ clock = 0
  /\ began = [w \in Writers |-> 0]
  /\ alerts = [a \in Alerts |-> NoAlert]
  /\ ingested = [f \in Feeds |-> 0]
  /\ fact = Empty
  /\ dropped = FALSE
  /\ mark = [t \in Targets |-> 0]
  /\ stage = [t \in Targets |-> NoStage]
  /\ pc = [s \in Syncs |-> "idle"]
  /\ target = [s \in Syncs |-> "alerts"]
  /\ full = [s \in Syncs |-> FALSE]
  /\ since = [s \in Syncs |-> 0]
  /\ found = [s \in Syncs |-> NoRows]
  /\ high = [s \in Syncs |-> 0]
  /\ mishaps = 0
  /\ alone = [s \in Syncs |-> FALSE]
  /\ trusted = [t \in Targets |-> TRUE]

----------------------------------------------------------------------------
(***************************************************************************)
(* PostgreSQL.                                                             *)
(***************************************************************************)
Begin(w) ==
  /\ began[w] = 0
  /\ clock < MaxTransactions
  /\ clock' = clock + 1
  /\ began' = [began EXCEPT ![w] = clock + 1]
  /\ alone' = [s \in Syncs |-> FALSE]
  /\ UNCHANGED <<alerts, ingested, bigquery, run, mishaps, trusted>>

End(w) ==
  /\ began' = [began EXCEPT ![w] = 0]
  /\ UNCHANGED <<clock, bigquery, run, history>>

(* A detection cycle commits new alerts, some of them with incidents.      *)
RaiseAlerts(w, new) ==
  /\ began[w] # 0
  /\ \A a \in new : alerts[a] = NoAlert
  /\ \E severe \in SUBSET new :
       alerts' = [a \in Alerts |->
                    IF a \in new THEN [created  |-> began[w], updated |-> began[w],
                                       incident |-> IF a \in severe THEN began[w] ELSE 0,
                                       version  |-> 1]
                                 ELSE alerts[a]]
  /\ UNCHANGED ingested
  /\ End(w)

(* A session commits UPDATEs of an alert, of its incident, of both; the    *)
(* triggers set updated_at of each to the time of now.                     *)
UpdateAlert(w, a, tables) ==
  /\ began[w] # 0
  /\ alerts[a] # NoAlert
  /\ "incidents" \in tables => alerts[a].incident # 0
  /\ alerts' = [alerts EXCEPT ![a] =
                  [created  |-> @.created,
                   updated  |-> IF "alerts" \in tables THEN began[w] ELSE @.updated,
                   incident |-> IF "incidents" \in tables THEN began[w] ELSE @.incident,
                   version  |-> @.version + 1]]
  /\ UNCHANGED ingested
  /\ End(w)

IngestFeed(w, f) ==
  /\ began[w] # 0
  /\ ingested[f] = 0
  /\ ingested' = [ingested EXCEPT ![f] = began[w]]
  /\ UNCHANGED alerts
  /\ End(w)

Rollback(w) ==
  /\ began[w] # 0
  /\ UNCHANGED <<alerts, ingested>>
  /\ End(w)

----------------------------------------------------------------------------
(***************************************************************************)
(* The sync.                                                               *)
(***************************************************************************)
Others(s) == Syncs \ {s}

GoIdle(s) ==
  /\ pc' = [pc EXCEPT ![s] = "idle"]
  /\ target' = [target EXCEPT ![s] = "alerts"]
  /\ full' = [full EXCEPT ![s] = FALSE]
  /\ since' = [since EXCEPT ![s] = 0]
  /\ found' = [found EXCEPT ![s] = NoRows]
  /\ high' = [high EXCEPT ![s] = 0]
  /\ alone' = [alone EXCEPT ![s] = FALSE]

StartSync(s, ignoreMark) ==
  /\ pc[s] = "idle"
  /\ pc' = [pc EXCEPT ![s] = "mark"]
  /\ target' = [target EXCEPT ![s] = "alerts"]
  /\ full' = [full EXCEPT ![s] = ignoreMark]
  /\ alone' = [q \in Syncs |-> /\ q = s
                               /\ \A o \in Others(s) : pc[o] = "idle"
                               /\ \A w \in Writers : began[w] = 0]
  /\ UNCHANGED <<pg, bigquery, since, found, high, mishaps, trusted>>

(* _read_watermark, which --full does without.                             *)
ReadMark(s) ==
  /\ pc[s] = "mark"
  /\ since' = [since EXCEPT ![s] = IF full[s] THEN 0 ELSE mark[target[s]]]
  /\ pc' = [pc EXCEPT ![s] = "query"]
  /\ UNCHANGED <<pg, bigquery, target, full, found, high, history>>

(* Faulty: incidents do not count.                                         *)
ModifiedByAlert(a) == Max({alerts[a].created, alerts[a].updated})

(* row_modified_at.                                                        *)
Modified(a) == Max({alerts[a].created, alerts[a].updated, alerts[a].incident})

(* Faulty: the new watermark is written before the rows are merged.        *)
FoundAndMarked(s, rows, newMark, next) ==
  /\ found' = [found EXCEPT ![s] = rows]
  /\ high' = [high EXCEPT ![s] = IF DOMAIN rows = {} THEN since[s] ELSE newMark]
  /\ mark' = [mark EXCEPT ![target[s]] = high'[s]]
  /\ trusted' = [trusted EXCEPT ![target[s]] = alone[s] /\ (full[s] \/ @)]
  /\ pc' = [pc EXCEPT ![s] = IF DOMAIN rows = {} THEN "write" ELSE next]
  /\ UNCHANGED <<pg, fact, dropped, stage, target, full, since, mishaps, alone>>

(* What a query has found; nothing: no stage, and the watermark stays.     *)
Found(s, rows, newMark, next) ==
  /\ found' = [found EXCEPT ![s] = rows]
  /\ high' = [high EXCEPT ![s] = IF DOMAIN rows = {} THEN since[s] ELSE newMark]
  /\ pc' = [pc EXCEPT ![s] = IF DOMAIN rows = {} THEN "write" ELSE next]
  /\ UNCHANGED <<pg, bigquery, target, full, since, history>>

ChangedAlerts(s) == {a \in Alerts : Modified(a) > since[s]}

QueryAlerts(s) ==
  /\ pc[s] = "query" /\ target[s] = "alerts"
  /\ Found(s, [a \in ChangedAlerts(s) |-> alerts[a].version],
           Max({Modified(a) : a \in ChangedAlerts(s)}), "load")

(* Faulty: only the days of the newest rows.                               *)
DaysOfNewest(s) ==
  UNION {DaysOf[f] : f \in {g \in Feeds : /\ ingested[g] > since[s]
                                          /\ \A h \in Feeds : ingested[h] =< ingested[g]}}

ChangedDays(s) == UNION {DaysOf[f] : f \in {g \in Feeds : ingested[g] > since[s]}}

(* The three queries of _sync_fact_logs_daily see what has been committed  *)
(* when each begins: which days, their counts, the newest row.             *)
QueryDays(s) ==
  /\ pc[s] = "query" /\ target[s] = "logs"
  /\ Found(s, [d \in ChangedDays(s) |-> {}], since[s], "counts")

QueryCounts(s) ==
  /\ pc[s] = "counts"
  /\ found' = [found EXCEPT ![s] =
                 [d \in DOMAIN @ |-> {f \in Feeds : ingested[f] # 0 /\ d \in DaysOf[f]}]]
  /\ pc' = [pc EXCEPT ![s] = "load"]
  /\ UNCHANGED <<pg, bigquery, target, full, since, high, history>>

LoadStage(s) ==
  /\ pc[s] = "load"
  /\ stage' = [stage EXCEPT ![target[s]] = found[s]]
  /\ pc' = [pc EXCEPT ![s] = "merge"]
  /\ UNCHANGED <<pg, fact, dropped, mark, target, full, since, found, high, history>>

(* Rows of the stage that match replace the facts', the others are added.  *)
Merged(new, old) ==
  [x \in (DOMAIN old) \cup (DOMAIN new) |-> IF x \in DOMAIN new THEN new[x] ELSE old[x]]

Merge(s) ==
  /\ pc[s] = "merge"
  /\ stage[target[s]] # NoStage
  /\ ~dropped
  /\ fact' = [fact EXCEPT ![target[s]] = Merged(stage[target[s]], @)]
  /\ pc' = [pc EXCEPT ![s] = "delete"]
  /\ UNCHANGED <<pg, dropped, mark, stage, target, full, since, found, high, history>>

(* delete_table, with not_found_ok.                                        *)
DeleteStage(s) ==
  /\ pc[s] = "delete"
  /\ stage' = [stage EXCEPT ![target[s]] = NoStage]
  /\ pc' = [pc EXCEPT ![s] = IF target[s] = "alerts" THEN "write" ELSE "max"]
  /\ UNCHANGED <<pg, fact, dropped, mark, target, full, since, found, high, history>>

QueryMax(s) ==
  /\ pc[s] = "max"
  /\ high' = [high EXCEPT ![s] = Max({ingested[f] : f \in Feeds})]
  /\ pc' = [pc EXCEPT ![s] = "write"]
  /\ UNCHANGED <<pg, bigquery, target, full, since, found, history>>

(* Faulty: the rows that were found for the one target are kept for the    *)
(* next.                                                                   *)
WriteMarkKeepingRows(s) ==
  /\ pc[s] = "write"
  /\ mark' = [mark EXCEPT ![target[s]] = high[s]]
  /\ trusted' = [trusted EXCEPT ![target[s]] = alone[s] /\ (full[s] \/ @)]
  /\ IF target[s] = "alerts"
     THEN /\ pc' = [pc EXCEPT ![s] = "mark"]
          /\ target' = [target EXCEPT ![s] = "logs"]
          /\ UNCHANGED <<full, since, found, high, alone>>
     ELSE GoIdle(s)
  /\ UNCHANGED <<pg, fact, dropped, stage, mishaps>>

(* _write_watermark; then the next target, if there is one.                *)
WriteMark(s) ==
  /\ pc[s] = "write"
  /\ mark' = [mark EXCEPT ![target[s]] = high[s]]
  /\ trusted' = [trusted EXCEPT ![target[s]] = alone[s] /\ (full[s] \/ @)]
  /\ IF target[s] = "alerts"
     THEN /\ pc' = [pc EXCEPT ![s] = "mark"]
          /\ target' = [target EXCEPT ![s] = "logs"]
          /\ found' = [found EXCEPT ![s] = NoRows]
          /\ UNCHANGED <<full, since, high, alone>>
     ELSE GoIdle(s)
  /\ UNCHANGED <<pg, fact, dropped, stage, mishaps>>

(* A MERGE raises when another run has deleted its stage, or somebody the  *)
(* table.                                                                  *)
MergeRaises(s) ==
  /\ pc[s] = "merge"
  /\ stage[target[s]] = NoStage \/ dropped
  /\ GoIdle(s)
  /\ UNCHANGED <<pg, bigquery, mishaps, trusted>>

SyncDies(s) ==
  /\ pc[s] # "idle"
  /\ mishaps < MaxMishaps
  /\ mishaps' = mishaps + 1
  /\ GoIdle(s)
  /\ UNCHANGED <<pg, bigquery, trusted>>

(* By hand, whatever else is going on: the tables are deleted, but not     *)
(* _sync_state and the stages.                                             *)
DropSchema ==
  /\ mishaps < MaxMishaps
  /\ mishaps' = mishaps + 1
  /\ dropped' = TRUE
  /\ fact' = Empty
  /\ trusted' = [t \in Targets |-> FALSE]
  /\ alone' = [s \in Syncs |-> FALSE]
  /\ UNCHANGED <<pg, mark, stage, run>>

(* Tables that are missing are created, without rows.                      *)
CreateSchema ==
  /\ dropped
  /\ dropped' = FALSE
  /\ UNCHANGED <<pg, fact, mark, stage, run, history>>

----------------------------------------------------------------------------
Write(w) ==
  \/ \E new \in (SUBSET Alerts) \ {{}} : RaiseAlerts(w, new)
  \/ \E a \in Alerts, tables \in (SUBSET {"alerts", "incidents"}) \ {{}} :
       UpdateAlert(w, a, tables)
  \/ \E f \in Feeds : IngestFeed(w, f)
  \/ Rollback(w)

Step(s) ==
  \/ ReadMark(s) \/ QueryAlerts(s) \/ QueryDays(s) \/ QueryCounts(s) \/ LoadStage(s)
  \/ Merge(s) \/ DeleteStage(s) \/ QueryMax(s) \/ WriteMark(s) \/ MergeRaises(s)

Next ==
  \/ \E w \in Writers : Begin(w) \/ Write(w)
  \/ \E s \in Syncs : (\E ignoreMark \in BOOLEAN : StartSync(s, ignoreMark)) \/ Step(s)
                      \/ SyncDies(s)
  \/ DropSchema
  \/ CreateSchema

Spec == Init /\ [][Next]_vars

(* A transaction ends, a run goes on to its end, and the schedule starts   *)
(* another, before which it ensures that the schema is there.              *)
FairSpec ==
  /\ Spec
  /\ WF_vars(CreateSchema)
  /\ \A w \in Writers : WF_vars(Write(w))
  /\ \A s \in Syncs : WF_vars(StartSync(s, FALSE) \/ Step(s))

----------------------------------------------------------------------------
(***************************************************************************)
(* Properties.                                                             *)
(***************************************************************************)
Times == 0 .. MaxTransactions

AlertRows == [created : Times, updated : Times, incident : Times, version : Nat]

RowsTyped(t, rows) ==
  IF t = "alerts" THEN \E A \in SUBSET Alerts : rows \in [A -> Nat]
                  ELSE \E D \in SUBSET Days : rows \in [D -> SUBSET Feeds]

TypeOK ==
  /\ clock \in Times
  /\ began \in [Writers -> Times]
  /\ alerts \in [Alerts -> AlertRows]
  /\ ingested \in [Feeds -> Times]
  /\ DOMAIN fact = Targets
  /\ fact["alerts"] \in [Alerts -> Nat]
  /\ fact["logs"] \in [Days -> SUBSET Feeds]
  /\ dropped \in BOOLEAN
  /\ mark \in [Targets -> Times]
  /\ DOMAIN stage = Targets
  /\ \A t \in Targets : stage[t] = NoStage \/ RowsTyped(t, stage[t])
  /\ pc \in [Syncs -> {"idle", "mark", "query", "counts", "load",
                       "merge", "delete", "max", "write"}]
  /\ target \in [Syncs -> Targets]
  /\ full \in [Syncs -> BOOLEAN]
  /\ since \in [Syncs -> Times]
  /\ DOMAIN found = Syncs
  /\ \A s \in Syncs : RowsTyped(target[s], found[s])
  /\ high \in [Syncs -> Times]
  /\ mishaps \in 0 .. MaxMishaps
  /\ alone \in [Syncs -> BOOLEAN]
  /\ trusted \in [Targets -> BOOLEAN]

(* Rows of alerts that the watermark has passed are in fact_alerts as they *)
(* are in PostgreSQL: sync_to_bigquery.py:10-11, "rows whose               *)
(* GREATEST(alert.updated_at, incident.updated_at) is newer than the       *)
(* watermark", leaves nothing else to be merged.                           *)
AlertsSynced ==
  \A a \in Alerts : 0 < Modified(a) /\ Modified(a) =< mark["alerts"] =>
                      fact["alerts"][a] = alerts[a].version

(* Logs that the watermark has passed are in the counts of their days:     *)
(* sync_to_bigquery.py:12-13, "daily counts recomputed for any date that   *)
(* received logs since the watermark".                                     *)
LogsSynced ==
  \A f \in Feeds : 0 < ingested[f] /\ ingested[f] =< mark["logs"] =>
                     \A d \in DaysOf[f] : f \in fact["logs"][d]

(* As long as only runs that are alone have moved the watermark, and again *)
(* after a --full run that is alone, whatever has happened before it and   *)
(* wherever other runs have died: what the watermark has passed is synced. *)
AlertsSyncedIfTrusted == trusted["alerts"] => AlertsSynced
LogsSyncedIfTrusted == trusted["logs"] => LogsSynced

(* The facts catch up: changes being bounded they stop, and then every     *)
(* version of an alert and every feed is in the facts some day, unless a   *)
(* run that is not alone moves a watermark or the facts are dropped.       *)
CaughtUp ==
  /\ trusted["alerts"] => \A a \in Alerts : fact["alerts"][a] = alerts[a].version
  /\ trusted["logs"] => \A f \in Feeds : ingested[f] # 0 =>
                           \A d \in DaysOf[f] : f \in fact["logs"][d]

ChangesArrive == []<>CaughtUp
============================================================================
