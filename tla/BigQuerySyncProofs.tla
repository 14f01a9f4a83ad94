------------------------ MODULE BigQuerySyncProofs ------------------------
(***************************************************************************)
(* For any number of runs, sessions, alerts and feeds: what a watermark    *)
(* has passed is in the facts, as long as only runs that are alone move    *)
(* it.  Runs that are not alone may die anywhere and merge old rows: the   *)
(* rows they hold are harmless until one of them moves the watermark.      *)
(***************************************************************************)
EXTENDS BigQuerySync, WellFoundedInduction, TLAPS

LEMMA MaxIsHighest ==
  ASSUME NEW S, S \subseteq Times, S # {}
  PROVE  Max(S) \in S /\ \A t \in S : t =< Max(S)
<1>1. \A t \in S : t \in Nat /\ MaxTransactions - t \in Nat
  BY SyncAssumption DEF Times
<1> DEFINE Gaps == {MaxTransactions - t : t \in S}
<1>2. Gaps \subseteq Nat /\ Gaps # {}
  BY <1>1
<1>3. PICK least \in Gaps : \A n \in Gaps : ~(n < least)
  <2>1. \E x \in Gaps : \A y \in Gaps : ~(<<y, x>> \in OpToRel(<, Nat))
    <3> HIDE DEF Gaps
    <3> QED
      BY <1>2, NatLessThanWellFounded, WFMin
  <2> QED
    BY <1>2, <2>1 DEF OpToRel
<1>4. PICK t \in S : least = MaxTransactions - t
  OBVIOUS
<1>5. \A u \in S : t >= u
  BY <1>1, <1>3, <1>4, SyncAssumption
<1> QED
  BY <1>1, <1>5 DEF Max

(* row_modified_at of a row.                                               *)
Newest(row) == Max({row.created, row.updated, row.incident})

LEMMA NewestOfRow ==
  ASSUME NEW row \in AlertRows
  PROVE  /\ Newest(row) \in {row.created, row.updated, row.incident}
         /\ Newest(row) \in Times
         /\ row.created =< Newest(row)
         /\ row.updated =< Newest(row)
         /\ row.incident =< Newest(row)
<1>1. {row.created, row.updated, row.incident} \subseteq Times
  BY DEF AlertRows
<1> QED
  BY <1>1, MaxIsHighest DEF Newest

LEMMA ModifiedIsNewest == \A a : Modified(a) = Newest(alerts[a])
BY DEF Modified, Newest

----------------------------------------------------------------------------
(***************************************************************************)
(* The inductive invariant.                                                *)
(***************************************************************************)

(* Rows of t, found, staged or merged: each is as in PostgreSQL, or has    *)
(* been changed at a time that the watermark m has not passed.             *)
UpTo(m, t, rows, al, ing) ==
  IF t = "alerts"
  THEN \A a \in DOMAIN rows :
         0 < Newest(al[a]) /\ Newest(al[a]) =< m => rows[a] = al[a].version
  ELSE \A d \in DOMAIN rows : \A f \in Feeds :
         0 < ing[f] /\ ing[f] =< m /\ d \in DaysOf[f] => f \in rows[d]

TrustInvariant(t) ==
  trusted[t] => /\ UpTo(mark[t], t, fact[t], alerts, ingested)
                /\ \A w \in Writers : began[w] # 0 => began[w] > mark[t]
                /\ \A s \in Syncs : target[s] = t =>
                     /\ pc[s] = "load" => UpTo(mark[t], t, found[s], alerts, ingested)
                     /\ pc[s] = "merge" /\ stage[t] # NoStage =>
                          UpTo(mark[t], t, stage[t], alerts, ingested)

(* Who is alone.                                                           *)
AloneInvariant(s) ==
  alone[s] => /\ pc[s] # "idle"
              /\ \A w \in Writers : began[w] = 0
              /\ \A q \in Others(s) : pc[q] = "idle"

(* Rows of t that are as in PostgreSQL wherever it has changed since low.  *)
Since(low, t, rows, al, ing) ==
  IF t = "alerts"
  THEN \A a \in Alerts : Newest(al[a]) > low => a \in DOMAIN rows /\ rows[a] = al[a].version
  ELSE \A f \in Feeds : ing[f] > low =>
         \A d \in DaysOf[f] : d \in DOMAIN rows /\ f \in rows[d]

(* How far a run that is alone has come.                                   *)
ProgressInvariant(s) ==
  alone[s] =>
    /\ pc[s] # "mark" => since[s] = IF full[s] THEN 0 ELSE mark[target[s]]
    /\ pc[s] = "counts" => ChangedDays(s) \subseteq DOMAIN found[s]
    /\ pc[s] = "load" => Since(since[s], target[s], found[s], alerts, ingested)
    /\ pc[s] = "merge" /\ stage[target[s]] # NoStage =>
         Since(since[s], target[s], stage[target[s]], alerts, ingested)
    /\ pc[s] \in {"delete", "max", "write"} =>
         Since(since[s], target[s], fact[target[s]], alerts, ingested)

(* Nothing is later than the clock; there are rows where a run has found   *)
(* some.                                                                   *)
ClockInvariant ==
  /\ \A w \in Writers : began[w] =< clock
  /\ \A a \in Alerts : Newest(alerts[a]) =< clock
  /\ \A f \in Feeds : ingested[f] =< clock
  /\ \A t \in Targets : mark[t] =< clock
  /\ \A s \in Syncs : since[s] =< clock /\ high[s] =< clock

RunInvariant(s) ==
  /\ pc[s] = "idle" => target[s] = "alerts"
  /\ pc[s] \in {"counts", "max"} => target[s] = "logs" /\ Feeds # {}
  /\ pc[s] \in {"load", "merge", "delete"} /\ target[s] = "logs" => Feeds # {}

SInv ==
  /\ TypeOK
  /\ ClockInvariant
  /\ \A t \in Targets : TrustInvariant(t)
  /\ \A s \in Syncs : AloneInvariant(s) /\ ProgressInvariant(s) /\ RunInvariant(s)

----------------------------------------------------------------------------
(***************************************************************************)
(* Transactions.                                                           *)
(***************************************************************************)
LEMMA InitSatisfies == Init => SInv
<1> SUFFICES ASSUME Init PROVE SInv
  OBVIOUS
<1>1. NoAlert \in AlertRows /\ 0 \in Times
  BY SyncAssumption DEF NoAlert, AlertRows, Times
<1>2. Newest(NoAlert) = 0
  BY <1>1, NewestOfRow DEF NoAlert
<1>3. TypeOK
  <2>1. RowsTyped("alerts", NoRows)
    <3>1. NoRows \in [{} -> Nat]
      BY DEF NoRows
    <3> QED
      BY <3>1 DEF RowsTyped
  <2>2. /\ fact["alerts"] \in [Alerts -> Nat]
        /\ fact["logs"] \in [Days -> SUBSET Feeds]
        /\ DOMAIN fact = Targets
    BY DEF Init, Empty, Targets
  <2>3. dropped \in BOOLEAN
    BY DEF Init
  <2>7. mishaps \in 0 .. MaxMishaps
    BY SyncAssumption DEF Init
  <2>4. /\ DOMAIN found = Syncs /\ \A s \in Syncs : RowsTyped(target[s], found[s])
        /\ DOMAIN stage = Targets /\ \A t \in Targets : stage[t] = NoStage
    BY <2>1 DEF Init
  <2>5. /\ clock \in Times /\ began \in [Writers -> Times]
        /\ alerts \in [Alerts -> AlertRows] /\ ingested \in [Feeds -> Times]
        /\ mark \in [Targets -> Times]
        /\ since \in [Syncs -> Times] /\ high \in [Syncs -> Times]
    BY <1>1 DEF Init
  <2>6. /\ pc \in [Syncs -> {"idle", "mark", "query", "counts", "load",
                            "merge", "delete", "max", "write"}]
        /\ target \in [Syncs -> Targets] /\ full \in [Syncs -> BOOLEAN]
        /\ alone \in [Syncs -> BOOLEAN] /\ trusted \in [Targets -> BOOLEAN]
    BY DEF Init, Targets
  <2> QED
    BY <2>2, <2>3, <2>4, <2>5, <2>6, <2>7 DEF TypeOK
<1>4. ClockInvariant
  BY <1>2 DEF Init, ClockInvariant
<1>5. \A t \in Targets : TrustInvariant(t)
  BY <1>2 DEF Init, TrustInvariant, UpTo, Targets, Empty
<1>6. \A s \in Syncs : AloneInvariant(s) /\ ProgressInvariant(s) /\ RunInvariant(s)
  BY DEF Init, AloneInvariant, ProgressInvariant, RunInvariant
<1> QED
  BY <1>3, <1>4, <1>5, <1>6 DEF SInv

LEMMA BeginKeepsInvariant ==
  ASSUME SInv, NEW w \in Writers, Begin(w)
  PROVE  SInv'
<1> USE DEF Begin, bigquery, run
<1>1. TypeOK'
  BY SyncAssumption DEF SInv, TypeOK, Times
<1>2. clock \in Nat
  BY DEF SInv, TypeOK, Times
<1>3. ClockInvariant'
  <2>1. \A a \in Alerts : Newest(alerts[a]) \in Nat
    BY NewestOfRow DEF SInv, TypeOK, Times
  <2> QED
    BY <1>2, <2>1 DEF SInv, TypeOK, Times, ClockInvariant
<1>4. ASSUME NEW t \in Targets PROVE TrustInvariant(t)'
  <2>1. mark[t] \in Nat /\ mark[t] =< clock
    BY DEF SInv, TypeOK, ClockInvariant, Times
  <2> QED
    BY <1>2, <2>1 DEF SInv, TrustInvariant, TypeOK
<1>5. \A s \in Syncs : (AloneInvariant(s) /\ ProgressInvariant(s) /\ RunInvariant(s))'
  BY DEF SInv, AloneInvariant, ProgressInvariant, RunInvariant
<1> QED
  BY <1>1, <1>3, <1>4, <1>5 DEF SInv

(* Changes after m leave rows up to m.                                     *)
LEMMA ChangesAfterMark ==
  ASSUME NEW m \in Nat, NEW time \in Nat, time > m, NEW t \in Targets,
         NEW rows, RowsTyped(t, rows),
         NEW al \in [Alerts -> AlertRows], NEW al2 \in [Alerts -> AlertRows],
         \A a \in Alerts : al2[a] = al[a] \/ time =< Newest(al2[a]),
         NEW ing \in [Feeds -> Times], NEW ing2 \in [Feeds -> Times],
         \A f \in Feeds : ing2[f] \in {ing[f], time},
         UpTo(m, t, rows, al, ing)
  PROVE  UpTo(m, t, rows, al2, ing2)
<1>1. CASE t = "alerts"
  <2>1. DOMAIN rows \subseteq Alerts
    BY <1>1 DEF RowsTyped
  <2>2. \A a \in Alerts : Newest(al2[a]) \in Nat
    BY NewestOfRow DEF Times
  <2> QED
    BY <1>1, <2>1, <2>2 DEF UpTo
<1>2. CASE t = "logs"
  BY <1>2 DEF UpTo, Times
<1> QED
  BY <1>1, <1>2 DEF Targets

(* What every action of a session that ends does.                          *)
Writing(w) ==
  /\ began[w] # 0
  /\ End(w)
  /\ alerts' \in [Alerts -> AlertRows]
  /\ \A a \in Alerts : \/ alerts'[a] = alerts[a]
                       \/ /\ began[w] =< Newest(alerts'[a])
                          /\ Newest(alerts'[a]) =< clock
  /\ ingested' \in [Feeds -> Times]
  /\ \A f \in Feeds : ingested'[f] \in {ingested[f], began[w]}

LEMMA EveryWrite ==
  ASSUME SInv, NEW w \in Writers, Write(w)
  PROVE  Writing(w)
<1> USE DEF Writing
<1>1. began[w] \in Times /\ began[w] =< clock /\ clock \in Times
  BY DEF SInv, TypeOK, ClockInvariant
<1>2. alerts \in [Alerts -> AlertRows] /\ ingested \in [Feeds -> Times]
  BY DEF SInv, TypeOK
<1>3. 0 \in Times /\ Times \subseteq Nat
  BY SyncAssumption DEF Times
<1>4. ASSUME NEW new \in SUBSET Alerts, RaiseAlerts(w, new) PROVE Writing(w)
  <2>1. PICK severe \in SUBSET new :
          alerts' = [a \in Alerts |->
                       IF a \in new THEN [created  |-> began[w], updated |-> began[w],
                                          incident |-> IF a \in severe THEN began[w] ELSE 0,
                                          version  |-> 1]
                                    ELSE alerts[a]]
    BY <1>4 DEF RaiseAlerts
  <2>2. \A a \in new : /\ alerts'[a] \in AlertRows
                       /\ alerts'[a].created = began[w]
                       /\ alerts'[a].updated = began[w]
                       /\ alerts'[a].incident \in {0, began[w]}
    BY <1>1, <1>3, <2>1 DEF AlertRows
  <2>3. \A a \in new : began[w] =< Newest(alerts'[a]) /\ Newest(alerts'[a]) =< clock
    BY <1>1, <1>3, <2>2, NewestOfRow
  <2>4. \A a \in Alerts \ new : alerts'[a] = alerts[a]
    BY <2>1
  <2>5. alerts' \in [Alerts -> AlertRows]
    BY <1>2, <2>1, <2>2, <2>4
  <2> QED
    BY <1>2, <1>4, <2>3, <2>4, <2>5 DEF RaiseAlerts
<1>5. ASSUME NEW a \in Alerts, NEW tables \in (SUBSET {"alerts", "incidents"}) \ {{}},
             UpdateAlert(w, a, tables)
      PROVE  Writing(w)
  <2>1. /\ alerts[a] \in AlertRows
        /\ Newest(alerts[a]) =< clock
    BY <1>2, ModifiedIsNewest DEF SInv, ClockInvariant
  <2>2. alerts' = [alerts EXCEPT ![a] =
                  [created  |-> alerts[a].created,
                   updated  |-> IF "alerts" \in tables THEN began[w] ELSE alerts[a].updated,
                   incident |-> IF "incidents" \in tables THEN began[w] ELSE alerts[a].incident,
                   version  |-> alerts[a].version + 1]]
    BY <1>5, <1>2 DEF UpdateAlert
  <2>3. /\ alerts'[a] \in AlertRows
        /\ alerts'[a].created = alerts[a].created
        /\ alerts'[a].updated = IF "alerts" \in tables THEN began[w] ELSE alerts[a].updated
        /\ alerts'[a].incident = IF "incidents" \in tables THEN began[w] ELSE alerts[a].incident
    BY <1>1, <1>2, <2>1, <2>2 DEF AlertRows
  <2>4. "alerts" \in tables \/ "incidents" \in tables
    OBVIOUS
  <2>5. began[w] =< Newest(alerts'[a])
    BY <2>3, <2>4, NewestOfRow
  <2>6. Newest(alerts'[a]) =< clock
    BY <1>1, <1>3, <2>1, <2>3, NewestOfRow DEF AlertRows
  <2>7. alerts' \in [Alerts -> AlertRows] /\ \A b \in Alerts \ {a} : alerts'[b] = alerts[b]
    BY <1>2, <2>2, <2>3
  <2> QED
    BY <1>2, <1>5, <2>5, <2>6, <2>7 DEF UpdateAlert
<1>6. ASSUME NEW f \in Feeds, IngestFeed(w, f) PROVE Writing(w)
  BY <1>1, <1>2, <1>6 DEF IngestFeed
<1>7. ASSUME Rollback(w) PROVE Writing(w)
  BY <1>2, <1>7 DEF Rollback
<1> QED
  BY <1>4, <1>5, <1>6, <1>7 DEF Write

LEMMA WriteKeepsInvariant ==
  ASSUME SInv, NEW w \in Writers, Write(w)
  PROVE  SInv'
<1>1. Writing(w)
  BY EveryWrite
<1>2. /\ began' = [began EXCEPT ![w] = 0]
      /\ UNCHANGED <<clock, fact, dropped, mark, stage, pc, target, full, since, found, high,
                     mishaps, alone, trusted>>
  BY <1>1 DEF Writing, End, bigquery, run, history
<1>3. Times \subseteq Nat /\ 0 \in Times /\ began[w] \in Times /\ clock \in Times
  BY SyncAssumption DEF SInv, TypeOK, Times
<1>4. TypeOK'
  BY <1>1, <1>2, <1>3 DEF SInv, TypeOK, Writing
<1>5. ClockInvariant'
  BY <1>1, <1>2, <1>3 DEF SInv, ClockInvariant, TypeOK, Writing
<1>6. ASSUME NEW t \in Targets PROVE TrustInvariant(t)'
  <2> SUFFICES ASSUME trusted[t]
               PROVE  TrustInvariant(t)'
    BY <1>2 DEF TrustInvariant
  <2>1. TrustInvariant(t) /\ began[w] > mark[t] /\ mark[t] \in Nat
    BY <1>1, <1>3 DEF SInv, TrustInvariant, Writing, TypeOK
  <2>2. ASSUME NEW rows, RowsTyped(t, rows), UpTo(mark[t], t, rows, alerts, ingested)
        PROVE  UpTo(mark[t], t, rows, alerts', ingested')
    <3>1. began[w] \in Nat /\ began[w] > mark[t]
      BY <1>3, <2>1
    <3>2. /\ alerts \in [Alerts -> AlertRows] /\ alerts' \in [Alerts -> AlertRows]
          /\ ingested \in [Feeds -> Times] /\ ingested' \in [Feeds -> Times]
      BY <1>1 DEF Writing, SInv, TypeOK
    <3>3. /\ \A a \in Alerts : alerts'[a] = alerts[a] \/ began[w] =< Newest(alerts'[a])
          /\ \A f \in Feeds : ingested'[f] \in {ingested[f], began[w]}
      BY <1>1 DEF Writing
    <3> QED
      BY <2>1, <2>2, <3>1, <3>2, <3>3, ChangesAfterMark
  <2>3. \A s \in Syncs : RowsTyped(target[s], found[s])
    BY DEF SInv, TypeOK
  <2>4. (stage[t] = NoStage \/ RowsTyped(t, stage[t])) /\ RowsTyped(t, fact[t])
    BY DEF SInv, TypeOK, RowsTyped, Targets
  <2> QED
    BY <1>2, <2>1, <2>2, <2>3, <2>4 DEF TrustInvariant, SInv, TypeOK
<1>7. ASSUME NEW s \in Syncs PROVE (AloneInvariant(s) /\ ProgressInvariant(s) /\ RunInvariant(s))'
  <2>1. ~alone[s] /\ ~alone'[s]
    BY <1>1, <1>2 DEF SInv, AloneInvariant, Writing
  <2> QED
    BY <1>2, <2>1 DEF SInv, AloneInvariant, ProgressInvariant, RunInvariant
<1> QED
  BY <1>4, <1>5, <1>6, <1>7 DEF SInv

----------------------------------------------------------------------------
(***************************************************************************)
(* Runs.                                                                   *)
(***************************************************************************)

(* What every step of a run leaves to the others, and where it leads.      *)
Moves(s) ==
  /\ pc[s] # "idle"
  /\ UNCHANGED pg
  /\ \A q \in Others(s) : /\ pc'[q] = pc[q]
                          /\ target'[q] = target[q]
                          /\ found'[q] = found[q]
                          /\ alone'[q] = alone[q]
  /\ alone'[s] => alone[s] /\ pc'[s] # "idle"

LEMMA OthersKeep ==
  ASSUME SInv, NEW s \in Syncs, Moves(s),
         TypeOK', ClockInvariant', \A t \in Targets : TrustInvariant(t)',
         ProgressInvariant(s)', RunInvariant(s)'
  PROVE  SInv'
<1>1. AloneInvariant(s)'
  BY DEF SInv, AloneInvariant, Moves, pg, Others
<1>2. ASSUME NEW q \in Others(s)
      PROVE  (AloneInvariant(q) /\ ProgressInvariant(q) /\ RunInvariant(q))'
  <2>1. q \in Syncs /\ s \in Others(q)
    BY DEF Others
  <2>2. ~alone[q] /\ ~alone'[q]
    BY <2>1 DEF SInv, AloneInvariant, Moves
  <2> QED
    BY <2>1, <2>2 DEF SInv, AloneInvariant, ProgressInvariant, RunInvariant, Moves
<1> QED
  BY <1>1, <1>2 DEF SInv, Others

(* A step that changes neither facts nor stages: trust is kept if what the *)
(* run goes on with can be trusted.                                        *)
LEMMA TrustKept ==
  ASSUME SInv, NEW s \in Syncs, Moves(s), NEW t \in Targets,
         UNCHANGED <<fact, mark, stage, trusted>>,
         target'[s] = t => /\ pc'[s] # "merge"
                           /\ pc'[s] = "load" => UpTo(mark[t], t, found'[s], alerts, ingested)
  PROVE  TrustInvariant(t)'
BY DEF SInv, TrustInvariant, Moves, pg, Others

LEMMA QueryAlertsKeepsInvariant ==
  ASSUME SInv, NEW s \in Syncs, QueryAlerts(s)
  PROVE  SInv'
<1> DEFINE rows == [a \in ChangedAlerts(s) |-> alerts[a].version]
           newMark == Max({Modified(a) : a \in ChangedAlerts(s)})
<1>1. /\ pc[s] = "query" /\ target[s] = "alerts"
      /\ found' = [found EXCEPT ![s] = rows]
      /\ high' = [high EXCEPT ![s] = IF DOMAIN rows = {} THEN since[s] ELSE newMark]
      /\ pc' = [pc EXCEPT ![s] = IF DOMAIN rows = {} THEN "write" ELSE "load"]
      /\ UNCHANGED <<clock, began, alerts, ingested, fact, dropped, mark, stage, target, full, since,
                     mishaps, alone, trusted>>
  BY DEF QueryAlerts, Found, pg, bigquery, history
<1>2. /\ ChangedAlerts(s) \subseteq Alerts
      /\ \A a \in Alerts : /\ Modified(a) = Newest(alerts[a])
                           /\ Modified(a) \in Times
                           /\ Modified(a) =< clock
  BY NewestOfRow, ModifiedIsNewest DEF ChangedAlerts, SInv, TypeOK, ClockInvariant
<1>3. RowsTyped("alerts", rows)
  <2>1. rows \in [ChangedAlerts(s) -> Nat]
    BY <1>2 DEF SInv, TypeOK, AlertRows
  <2> QED
    BY <1>2, <2>1 DEF RowsTyped
<1>4. ChangedAlerts(s) # {} => newMark \in Times /\ newMark =< clock
  <2> DEFINE S == {Modified(a) : a \in ChangedAlerts(s)}
  <2>1. S \subseteq Times /\ \A u \in S : u =< clock
    BY <1>2
  <2>2. ChangedAlerts(s) # {} => S # {}
    OBVIOUS
  <2>3. newMark = Max(S)
    OBVIOUS
  <2> HIDE DEF S, newMark
  <2> QED
    BY <2>1, <2>2, <2>3, MaxIsHighest
<1>5. Moves(s)
  BY <1>1 DEF Moves, Others, pg, SInv, TypeOK
<1> HIDE DEF newMark
<1>6. high'[s] \in Times /\ high'[s] =< clock
  BY <1>1, <1>4 DEF SInv, TypeOK, ClockInvariant
<1>7. TypeOK'
  BY <1>1, <1>3, <1>6 DEF SInv, TypeOK
<1>8. ClockInvariant'
  BY <1>1, <1>6 DEF SInv, TypeOK, ClockInvariant
<1>9. \A t \in Targets : TrustInvariant(t)'
  <2>1. UpTo(mark["alerts"], "alerts", rows, alerts, ingested)
    BY DEF UpTo
  <2>2. found'[s] = rows /\ target'[s] = "alerts" /\ pc'[s] # "merge"
    BY <1>1 DEF SInv, TypeOK
  <2> HIDE DEF rows
  <2> QED
    BY <1>1, <1>5, <2>1, <2>2, TrustKept
<1>10. ProgressInvariant(s)'
  <2>1. Since(since[s], "alerts", rows, alerts, ingested)
    BY <1>2 DEF Since, ChangedAlerts
  <2>2. ChangedAlerts(s) = {} => Since(since[s], "alerts", fact["alerts"], alerts, ingested)
    BY <1>2 DEF Since, ChangedAlerts
  <2>3. found'[s] = rows /\ pc'[s] = IF ChangedAlerts(s) = {} THEN "write" ELSE "load"
    BY <1>1 DEF SInv, TypeOK
  <2> HIDE DEF rows
  <2> QED
    BY <1>1, <2>1, <2>2, <2>3 DEF SInv, ProgressInvariant
<1>11. RunInvariant(s)'
  BY <1>1 DEF RunInvariant, SInv, TypeOK
<1> QED
  BY <1>5, <1>7, <1>8, <1>9, <1>10, <1>11, OthersKeep

LEMMA QueryDaysKeepsInvariant ==
  ASSUME SInv, NEW s \in Syncs, QueryDays(s)
  PROVE  SInv'
<1> DEFINE rows == [d \in ChangedDays(s) |-> {}]
<1>1. /\ pc[s] = "query" /\ target[s] = "logs"
      /\ found' = [found EXCEPT ![s] = rows]
      /\ high' = [high EXCEPT ![s] = since[s]]
      /\ pc' = [pc EXCEPT ![s] = IF DOMAIN rows = {} THEN "write" ELSE "counts"]
      /\ UNCHANGED <<clock, began, alerts, ingested, fact, dropped, mark, stage, target, full, since,
                     mishaps, alone, trusted>>
  BY DEF QueryDays, Found, pg, bigquery, history
<1>2. ChangedDays(s) \subseteq Days
  BY SyncAssumption DEF ChangedDays
<1>3. RowsTyped("logs", rows)
  <2>1. rows \in [ChangedDays(s) -> SUBSET Feeds]
    OBVIOUS
  <2> QED
    BY <1>2, <2>1 DEF RowsTyped
<1>4. Moves(s)
  BY <1>1 DEF Moves, Others, pg, SInv, TypeOK
<1>5. found'[s] = rows /\ pc'[s] = IF ChangedDays(s) = {} THEN "write" ELSE "counts"
  BY <1>1 DEF SInv, TypeOK
<1>6. TypeOK'
  BY <1>1, <1>3 DEF SInv, TypeOK
<1>7. ClockInvariant'
  BY <1>1 DEF SInv, TypeOK, ClockInvariant
<1>8. \A t \in Targets : TrustInvariant(t)'
  BY <1>1, <1>4, <1>5, TrustKept
<1>9. ProgressInvariant(s)'
  <2>1. ChangedDays(s) = {} => Since(since[s], "logs", fact["logs"], alerts, ingested)
    BY DEF Since, ChangedDays
  <2>2. ChangedDays(s)' = ChangedDays(s)
    BY <1>1 DEF ChangedDays
  <2> QED
    BY <1>1, <1>5, <2>1, <2>2 DEF SInv, ProgressInvariant
<1>10. RunInvariant(s)'
  BY <1>1, <1>5 DEF RunInvariant, SInv, TypeOK, ChangedDays
<1> QED
  BY <1>4, <1>6, <1>7, <1>8, <1>9, <1>10, OthersKeep

LEMMA QueryCountsKeepsInvariant ==
  ASSUME SInv, NEW s \in Syncs, QueryCounts(s)
  PROVE  SInv'
<1> DEFINE rows == [d \in DOMAIN found[s] |-> {f \in Feeds : ingested[f] # 0 /\ d \in DaysOf[f]}]
<1>1. /\ pc[s] = "counts" /\ target[s] = "logs" /\ Feeds # {}
      /\ found' = [found EXCEPT ![s] = rows]
      /\ pc' = [pc EXCEPT ![s] = "load"]
      /\ UNCHANGED <<clock, began, alerts, ingested, fact, dropped, mark, stage, target, full, since,
                     high, mishaps, alone, trusted>>
  BY DEF QueryCounts, pg, bigquery, history, SInv, RunInvariant, TypeOK
<1>2. DOMAIN found[s] \subseteq Days
  BY <1>1 DEF SInv, TypeOK, RowsTyped
<1>3. RowsTyped("logs", rows)
  <2>1. rows \in [DOMAIN found[s] -> SUBSET Feeds]
    OBVIOUS
  <2> QED
    BY <1>2, <2>1 DEF RowsTyped
<1>4. Moves(s)
  BY <1>1 DEF Moves, Others, pg, SInv, TypeOK
<1>5. found'[s] = rows /\ pc'[s] = "load"
  BY <1>1 DEF SInv, TypeOK
<1>6. TypeOK'
  BY <1>1, <1>3 DEF SInv, TypeOK
<1>7. ClockInvariant'
  BY <1>1 DEF SInv, TypeOK, ClockInvariant
<1>8. \A t \in Targets : TrustInvariant(t)'
  <2>1. UpTo(mark["logs"], "logs", rows, alerts, ingested)
    BY DEF UpTo
  <2> HIDE DEF rows
  <2> QED
    BY <1>1, <1>4, <1>5, <2>1, TrustKept
<1>9. ProgressInvariant(s)'
  <2>1. ASSUME alone[s] PROVE Since(since[s], "logs", rows, alerts, ingested)
    <3>1. ChangedDays(s) \subseteq DOMAIN found[s]
      BY <1>1, <2>1 DEF SInv, ProgressInvariant
    <3>2. since[s] \in Nat /\ \A f \in Feeds : ingested[f] \in Nat
      BY DEF SInv, TypeOK, Times
    <3> QED
      BY <3>1, <3>2 DEF Since, ChangedDays
  <2> HIDE DEF rows
  <2> QED
    BY <1>1, <1>5, <2>1 DEF SInv, ProgressInvariant
<1>10. RunInvariant(s)'
  BY <1>1, <1>5 DEF RunInvariant
<1> QED
  BY <1>4, <1>6, <1>7, <1>8, <1>9, <1>10, OthersKeep

LEMMA ReadMarkKeepsInvariant ==
  ASSUME SInv, NEW s \in Syncs, ReadMark(s)
  PROVE  SInv'
<1>1. /\ pc[s] = "mark"
      /\ since' = [since EXCEPT ![s] = IF full[s] THEN 0 ELSE mark[target[s]]]
      /\ pc' = [pc EXCEPT ![s] = "query"]
      /\ UNCHANGED <<clock, began, alerts, ingested, fact, dropped, mark, stage, target, full, found,
                     high, mishaps, alone, trusted>>
  BY DEF ReadMark, pg, bigquery, history
<1>2. /\ Times \subseteq Nat /\ 0 \in Times
      /\ mark[target[s]] \in Times /\ mark[target[s]] =< clock /\ clock \in Times
  BY SyncAssumption DEF SInv, TypeOK, ClockInvariant, Times
<1>3. Moves(s)
  BY <1>1 DEF Moves, Others, pg, SInv, TypeOK
<1>4. pc'[s] = "query" /\ since'[s] = IF full[s] THEN 0 ELSE mark[target[s]]
  BY <1>1 DEF SInv, TypeOK
<1>5. TypeOK'
  BY <1>1, <1>2 DEF SInv, TypeOK
<1>6. ClockInvariant'
  BY <1>1, <1>2 DEF SInv, TypeOK, ClockInvariant
<1>7. \A t \in Targets : TrustInvariant(t)'
  BY <1>1, <1>3, <1>4, TrustKept
<1>8. ProgressInvariant(s)' /\ RunInvariant(s)'
  BY <1>1, <1>4 DEF ProgressInvariant, RunInvariant
<1> QED
  BY <1>3, <1>5, <1>6, <1>7, <1>8, OthersKeep

LEMMA LoadStageKeepsInvariant ==
  ASSUME SInv, NEW s \in Syncs, LoadStage(s)
  PROVE  SInv'
<1>1. /\ pc[s] = "load"
      /\ stage' = [stage EXCEPT ![target[s]] = found[s]]
      /\ pc' = [pc EXCEPT ![s] = "merge"]
      /\ UNCHANGED <<clock, began, alerts, ingested, fact, dropped, mark, target, full, since, found,
                     high, mishaps, alone, trusted>>
  BY DEF LoadStage, pg, history
<1>2. target[s] \in Targets /\ RowsTyped(target[s], found[s])
  BY DEF SInv, TypeOK
<1>3. Moves(s)
  BY <1>1 DEF Moves, Others, pg, SInv, TypeOK
<1>4. /\ pc'[s] = "merge" /\ stage'[target[s]] = found[s]
      /\ \A t \in Targets \ {target[s]} : stage'[t] = stage[t]
  BY <1>1, <1>2 DEF SInv, TypeOK
<1>5. TypeOK'
  BY <1>1, <1>2, <1>4 DEF SInv, TypeOK
<1>6. ClockInvariant'
  BY <1>1 DEF SInv, TypeOK, ClockInvariant
<1>7. ASSUME NEW t \in Targets PROVE TrustInvariant(t)'
  BY <1>1, <1>3, <1>4 DEF SInv, TrustInvariant, Moves, pg, Others
<1>8. ProgressInvariant(s)' /\ RunInvariant(s)'
  BY <1>1, <1>4 DEF SInv, ProgressInvariant, RunInvariant
<1> QED
  BY <1>3, <1>5, <1>6, <1>7, <1>8, OthersKeep

LEMMA MergeKeepsInvariant ==
  ASSUME SInv, NEW s \in Syncs, Merge(s)
  PROVE  SInv'
<1> DEFINE t == target[s]
           rows == Merged(stage[t], fact[t])
<1>1. /\ pc[s] = "merge"
      /\ stage[t] # NoStage
      /\ fact' = [fact EXCEPT ![t] = rows]
      /\ pc' = [pc EXCEPT ![s] = "delete"]
      /\ UNCHANGED <<clock, began, alerts, ingested, dropped, mark, stage, target, full, since, found,
                     high, mishaps, alone, trusted>>
  BY DEF Merge, pg, history
<1>2. t \in Targets /\ RowsTyped(t, stage[t])
  BY <1>1 DEF SInv, TypeOK
<1>3. IF t = "alerts" THEN rows \in [Alerts -> Nat] ELSE rows \in [Days -> SUBSET Feeds]
  BY <1>2 DEF Merged, RowsTyped, SInv, TypeOK, Targets
<1>4. \A x \in DOMAIN rows : rows[x] = IF x \in DOMAIN stage[t] THEN stage[t][x] ELSE fact[t][x]
  BY DEF Merged
<1>5. DOMAIN rows = (DOMAIN stage[t]) \cup (DOMAIN fact[t])
  BY DEF Merged
<1> HIDE DEF rows
<1>6. Moves(s)
  BY <1>1 DEF Moves, Others, pg, SInv, TypeOK
<1>7. /\ pc'[s] = "delete" /\ fact'[t] = rows
      /\ \A u \in Targets \ {t} : fact'[u] = fact[u]
      /\ DOMAIN fact' = Targets
  BY <1>1, <1>2 DEF SInv, TypeOK
<1>8. TypeOK'
  BY <1>1, <1>2, <1>3, <1>7 DEF SInv, TypeOK, Targets
<1>9. ClockInvariant'
  BY <1>1 DEF SInv, TypeOK, ClockInvariant
<1>10. ASSUME NEW u \in Targets PROVE TrustInvariant(u)'
  <2>1. ASSUME u = t, trusted[u] PROVE UpTo(mark[u], u, rows, alerts, ingested)
    <3>1. /\ UpTo(mark[u], u, stage[u], alerts, ingested)
          /\ UpTo(mark[u], u, fact[u], alerts, ingested)
      BY <1>1, <2>1 DEF SInv, TrustInvariant
    <3> QED
      BY <1>4, <1>5, <2>1, <3>1 DEF UpTo
  <2> QED
    BY <1>1, <1>6, <1>7, <2>1 DEF SInv, TrustInvariant, Moves, pg, Others
<1>11. ProgressInvariant(s)' /\ RunInvariant(s)'
  <2>1. ASSUME alone[s] PROVE Since(since[s], t, rows, alerts, ingested)
    <3>1. Since(since[s], t, stage[t], alerts, ingested)
      BY <1>1, <2>1 DEF SInv, ProgressInvariant
    <3> QED
      BY <1>4, <1>5, <3>1 DEF Since
  <2> QED
    BY <1>1, <1>7, <2>1 DEF SInv, ProgressInvariant, RunInvariant
<1> QED
  BY <1>6, <1>8, <1>9, <1>10, <1>11, OthersKeep

LEMMA DeleteStageKeepsInvariant ==
  ASSUME SInv, NEW s \in Syncs, DeleteStage(s)
  PROVE  SInv'
<1>1. /\ pc[s] = "delete"
      /\ stage' = [stage EXCEPT ![target[s]] = NoStage]
      /\ pc' = [pc EXCEPT ![s] = IF target[s] = "alerts" THEN "write" ELSE "max"]
      /\ UNCHANGED <<clock, began, alerts, ingested, fact, dropped, mark, target, full, since, found,
                     high, mishaps, alone, trusted>>
  BY DEF DeleteStage, pg, history
<1>2. target[s] \in Targets
  BY DEF SInv, TypeOK
<1>3. Moves(s)
  BY <1>1 DEF Moves, Others, pg, SInv, TypeOK
<1>4. /\ pc'[s] = IF target[s] = "alerts" THEN "write" ELSE "max"
      /\ stage'[target[s]] = NoStage
      /\ \A t \in Targets \ {target[s]} : stage'[t] = stage[t]
  BY <1>1, <1>2 DEF SInv, TypeOK
<1>5. TypeOK'
  BY <1>1, <1>2, <1>4 DEF SInv, TypeOK
<1>6. ClockInvariant'
  BY <1>1 DEF SInv, TypeOK, ClockInvariant
<1>7. ASSUME NEW t \in Targets PROVE TrustInvariant(t)'
  BY <1>1, <1>3, <1>4 DEF SInv, TrustInvariant, Moves, pg, Others
<1>8. ProgressInvariant(s)' /\ RunInvariant(s)'
  BY <1>1, <1>2, <1>4 DEF SInv, ProgressInvariant, RunInvariant, Targets
<1> QED
  BY <1>3, <1>5, <1>6, <1>7, <1>8, OthersKeep

LEMMA QueryMaxKeepsInvariant ==
  ASSUME SInv, NEW s \in Syncs, QueryMax(s)
  PROVE  SInv'
<1> DEFINE newMark == Max({ingested[f] : f \in Feeds})
<1>1. /\ pc[s] = "max" /\ target[s] = "logs" /\ Feeds # {}
      /\ high' = [high EXCEPT ![s] = newMark]
      /\ pc' = [pc EXCEPT ![s] = "write"]
      /\ UNCHANGED <<clock, began, alerts, ingested, fact, dropped, mark, stage, target, full, since,
                     found, mishaps, alone, trusted>>
  BY DEF QueryMax, pg, bigquery, history, SInv, RunInvariant
<1>2. newMark \in Times /\ newMark =< clock
  <2> DEFINE S == {ingested[f] : f \in Feeds}
  <2>1. S \subseteq Times /\ S # {} /\ \A u \in S : u =< clock
    BY <1>1 DEF SInv, TypeOK, ClockInvariant
  <2>2. newMark = Max(S)
    OBVIOUS
  <2> HIDE DEF S, newMark
  <2> QED
    BY <2>1, <2>2, MaxIsHighest
<1> HIDE DEF newMark
<1>3. Moves(s)
  BY <1>1 DEF Moves, Others, pg, SInv, TypeOK
<1>4. pc'[s] = "write"
  BY <1>1 DEF SInv, TypeOK
<1>5. TypeOK'
  BY <1>1, <1>2 DEF SInv, TypeOK
<1>6. ClockInvariant'
  BY <1>1, <1>2 DEF SInv, TypeOK, ClockInvariant
<1>7. \A t \in Targets : TrustInvariant(t)'
  BY <1>1, <1>3, <1>4, TrustKept
<1>8. ProgressInvariant(s)' /\ RunInvariant(s)'
  BY <1>1, <1>4 DEF SInv, ProgressInvariant, RunInvariant
<1> QED
  BY <1>3, <1>5, <1>6, <1>7, <1>8, OthersKeep

(* No rows have the type of the rows of both targets.                      *)
LEMMA NoRowsTyped == \A t : RowsTyped(t, NoRows)
<1>1. NoRows \in [{} -> Nat] /\ NoRows \in [{} -> SUBSET Feeds]
  BY DEF NoRows
<1> QED
  BY <1>1 DEF RowsTyped

(* Facts that are up to date since low, and up to low, are up to date.     *)
LEMMA UpToNow ==
  ASSUME TypeOK, NEW t \in Targets, NEW low \in Times, NEW m \in Times,
         Since(low, t, fact[t], alerts, ingested),
         low = 0 \/ UpTo(low, t, fact[t], alerts, ingested)
  PROVE  UpTo(m, t, fact[t], alerts, ingested)
<1>1. /\ \A a \in Alerts : Newest(alerts[a]) \in Nat
      /\ \A f \in Feeds : ingested[f] \in Nat
      /\ low \in Nat
  BY NewestOfRow DEF TypeOK, Times
<1>2. CASE t = "alerts"
  <2>1. DOMAIN fact[t] = Alerts
    BY <1>2 DEF TypeOK
  <2> QED
    BY <1>1, <1>2, <2>1 DEF Since, UpTo
<1>3. CASE t = "logs"
  BY <1>1, <1>3 DEF Since, UpTo
<1> QED
  BY <1>2, <1>3 DEF Targets

LEMMA WriteMarkKeepsInvariant ==
  ASSUME SInv, NEW s \in Syncs, WriteMark(s)
  PROVE  SInv'
<1> DEFINE t == target[s]
<1>1. /\ pc[s] = "write"
      /\ mark' = [mark EXCEPT ![t] = high[s]]
      /\ trusted' = [trusted EXCEPT ![t] = alone[s] /\ (full[s] \/ trusted[t])]
      /\ UNCHANGED <<clock, began, alerts, ingested, fact, dropped, stage, mishaps>>
  BY DEF WriteMark, pg, SInv, TypeOK
<1>2. /\ target' = [target EXCEPT ![s] = IF t = "alerts" THEN "logs" ELSE "alerts"]
      /\ pc' = [pc EXCEPT ![s] = IF t = "alerts" THEN "mark" ELSE "idle"]
      /\ found' = [found EXCEPT ![s] = NoRows]
      /\ full' = IF t = "alerts" THEN full ELSE [full EXCEPT ![s] = FALSE]
      /\ since' = IF t = "alerts" THEN since ELSE [since EXCEPT ![s] = 0]
      /\ high' = IF t = "alerts" THEN high ELSE [high EXCEPT ![s] = 0]
      /\ alone' = IF t = "alerts" THEN alone ELSE [alone EXCEPT ![s] = FALSE]
  BY DEF WriteMark, GoIdle
<1>3. t \in Targets /\ high[s] \in Times /\ high[s] =< clock
  BY DEF SInv, TypeOK, ClockInvariant
<1>4. 0 \in Times /\ Times \subseteq Nat /\ clock \in Times
  BY SyncAssumption DEF Times, SInv, TypeOK
<1>5. Moves(s)
  BY <1>1, <1>2 DEF Moves, Others, pg, SInv, TypeOK
<1>6. pc'[s] \in {"mark", "idle"} /\ target'[s] \in Targets /\ found'[s] = NoRows
  BY <1>2 DEF SInv, TypeOK, Targets
<1>7. TypeOK'
  <2>1. \A q \in Syncs : RowsTyped(target'[q], found'[q])
    <3>1. \A q \in Others(s) : target'[q] = target[q] /\ found'[q] = found[q]
      BY <1>5 DEF Moves
    <3> QED
      BY <1>6, <3>1, NoRowsTyped DEF SInv, TypeOK, Others
  <2>2. /\ full' \in [Syncs -> BOOLEAN] /\ alone' \in [Syncs -> BOOLEAN]
        /\ since' \in [Syncs -> Times] /\ high' \in [Syncs -> Times]
    BY <1>2, <1>4 DEF SInv, TypeOK
  <2>3. mark' \in [Targets -> Times] /\ trusted' \in [Targets -> BOOLEAN]
    BY <1>1, <1>3 DEF SInv, TypeOK
  <2>4. /\ pc' \in [Syncs -> {"idle", "mark", "query", "counts", "load",
                             "merge", "delete", "max", "write"}]
        /\ target' \in [Syncs -> Targets]
        /\ DOMAIN found' = Syncs
    BY <1>2 DEF SInv, TypeOK, Targets
  <2> QED
    BY <1>1, <2>1, <2>2, <2>3, <2>4 DEF SInv, TypeOK
<1>8. ClockInvariant'
  BY <1>1, <1>2, <1>3, <1>4 DEF SInv, TypeOK, ClockInvariant
<1>9. ASSUME NEW u \in Targets PROVE TrustInvariant(u)'
  <2>1. CASE u # t
    <3>1. mark'[u] = mark[u] /\ trusted'[u] = trusted[u]
      BY <1>1, <2>1 DEF SInv, TypeOK
    <3>2. UNCHANGED <<alerts, ingested, began, fact, stage>>
      BY <1>1 DEF pg
    <3>3. ASSUME NEW q \in Syncs, target'[q] = u, pc'[q] \in {"load", "merge"}
          PROVE  target[q] = u /\ pc'[q] = pc[q] /\ found'[q] = found[q]
      BY <1>5, <1>6, <3>3 DEF Moves, Others
    <3>4. TrustInvariant(u)
      BY DEF SInv
    <3> QED
      BY <3>1, <3>2, <3>3, <3>4 DEF TrustInvariant
  <2>2. CASE u = t
    <3>1. mark'[u] = high[s] /\ (trusted'[u] <=> alone[s] /\ (full[s] \/ trusted[u]))
      BY <1>1, <2>2 DEF SInv, TypeOK
    <3>2. ASSUME alone[s], full[s] \/ trusted[u]
          PROVE  /\ UpTo(high[s], u, fact[u], alerts, ingested)
                 /\ \A w \in Writers : began[w] = 0
                 /\ \A q \in Others(s) : pc[q] = "idle"
      <4>1. /\ since[s] = IF full[s] THEN 0 ELSE mark[u]
            /\ Since(since[s], u, fact[u], alerts, ingested)
        BY <1>1, <2>2, <3>2 DEF SInv, ProgressInvariant
      <4>2. since[s] = 0 \/ UpTo(since[s], u, fact[u], alerts, ingested)
        BY <3>2, <4>1 DEF SInv, TrustInvariant
      <4>3. since[s] \in Times
        BY DEF SInv, TypeOK
      <4> QED
        BY <1>3, <3>2, <4>1, <4>2, <4>3, UpToNow DEF SInv, AloneInvariant
    <3> QED
      BY <1>1, <1>5, <1>6, <3>1, <3>2 DEF TrustInvariant, Moves, pg, Others
  <2> QED
    BY <2>1, <2>2
<1>10. ProgressInvariant(s)' /\ RunInvariant(s)'
  BY <1>1, <1>2, <1>5, <1>6 DEF Moves, ProgressInvariant, RunInvariant, SInv, TypeOK
<1> QED
  BY <1>5, <1>7, <1>8, <1>9, <1>10, OthersKeep

LEMMA EndOfRunKeepsInvariant ==
  ASSUME SInv, NEW s \in Syncs, MergeRaises(s) \/ SyncDies(s)
  PROVE  SInv'
<1>1. /\ pc[s] # "idle"
      /\ GoIdle(s)
      /\ UNCHANGED <<clock, began, alerts, ingested, fact, dropped, mark, stage, trusted>>
      /\ mishaps' \in 0 .. MaxMishaps
  BY SyncAssumption DEF MergeRaises, SyncDies, pg, bigquery, SInv, TypeOK
<1>2. pc'[s] = "idle" /\ target'[s] \in Targets /\ found'[s] = NoRows /\ ~alone'[s]
  BY <1>1 DEF GoIdle, SInv, TypeOK, Targets
<1>3. Moves(s)
  BY <1>1, <1>2 DEF GoIdle, Moves, Others, pg, SInv, TypeOK
<1>4. 0 \in Times /\ clock \in Nat
  BY SyncAssumption DEF Times, SInv, TypeOK
<1>5. TypeOK'
  <2>1. \A q \in Syncs : RowsTyped(target'[q], found'[q])
    BY <1>2, <1>3, NoRowsTyped DEF SInv, TypeOK, Others, Moves
  <2>2. /\ full' \in [Syncs -> BOOLEAN] /\ alone' \in [Syncs -> BOOLEAN]
        /\ since' \in [Syncs -> Times] /\ high' \in [Syncs -> Times]
        /\ pc' \in [Syncs -> {"idle", "mark", "query", "counts", "load",
                             "merge", "delete", "max", "write"}]
        /\ target' \in [Syncs -> Targets]
        /\ DOMAIN found' = Syncs
    BY <1>1, <1>4 DEF GoIdle, SInv, TypeOK, Targets
  <2> QED
    BY <1>1, <2>1, <2>2 DEF SInv, TypeOK
<1>6. ClockInvariant'
  BY <1>1, <1>4 DEF GoIdle, SInv, TypeOK, ClockInvariant
<1>7. \A t \in Targets : TrustInvariant(t)'
  BY <1>1, <1>2, <1>3, TrustKept
<1>8. ProgressInvariant(s)' /\ RunInvariant(s)'
  BY <1>1, <1>2 DEF ProgressInvariant, RunInvariant, GoIdle, SInv, TypeOK
<1> QED
  BY <1>3, <1>5, <1>6, <1>7, <1>8, OthersKeep

LEMMA StartKeepsInvariant ==
  ASSUME SInv, NEW s \in Syncs, NEW ignoreMark \in BOOLEAN, StartSync(s, ignoreMark)
  PROVE  SInv'
<1>1. /\ pc[s] = "idle"
      /\ pc' = [pc EXCEPT ![s] = "mark"]
      /\ target' = [target EXCEPT ![s] = "alerts"]
      /\ full' = [full EXCEPT ![s] = ignoreMark]
      /\ alone' = [q \in Syncs |-> /\ q = s
                                   /\ \A o \in Others(s) : pc[o] = "idle"
                                   /\ \A w \in Writers : began[w] = 0]
      /\ UNCHANGED <<clock, began, alerts, ingested, fact, dropped, mark, stage, since, found, high,
                     mishaps, trusted>>
  BY DEF StartSync, pg, bigquery
<1>2. TypeOK'
  <2>1. target[s] = "alerts"
    BY <1>1 DEF SInv, RunInvariant
  <2>2. target' = target
    BY <1>1, <2>1 DEF SInv, TypeOK
  <2>3. alone' \in [Syncs -> BOOLEAN]
    BY <1>1, Zenon
  <2> QED
    BY <1>1, <2>2, <2>3 DEF SInv, TypeOK
<1>3. ClockInvariant'
  BY <1>1 DEF SInv, ClockInvariant
<1>4. \A t \in Targets : TrustInvariant(t)'
  BY <1>1 DEF SInv, TypeOK, TrustInvariant
<1>5. \A q \in Syncs : (AloneInvariant(q) /\ ProgressInvariant(q) /\ RunInvariant(q))'
  BY <1>1 DEF SInv, TypeOK, AloneInvariant, ProgressInvariant, RunInvariant, Others
<1> QED
  BY <1>2, <1>3, <1>4, <1>5 DEF SInv

(* No run is trusted, or alone, once the tables are deleted.               *)
LEMMA DropKeepsInvariant ==
  ASSUME SInv, DropSchema
  PROVE  SInv'
<1> USE DEF DropSchema, pg, run
<1>1. TypeOK'
  <2>1. /\ DOMAIN fact' = Targets
        /\ fact'["alerts"] \in [Alerts -> Nat]
        /\ fact'["logs"] \in [Days -> SUBSET Feeds]
        /\ dropped' \in BOOLEAN
    BY DEF Empty, Targets
  <2>2. mishaps' \in 0 .. MaxMishaps
    BY SyncAssumption DEF SInv, TypeOK
  <2>3. trusted' \in [Targets -> BOOLEAN] /\ alone' \in [Syncs -> BOOLEAN]
    OBVIOUS
  <2> QED
    BY <2>1, <2>2, <2>3 DEF SInv, TypeOK
<1>2. ClockInvariant'
  BY DEF SInv, ClockInvariant
<1>3. \A t \in Targets : TrustInvariant(t)'
  BY DEF TrustInvariant
<1>4. \A q \in Syncs : (AloneInvariant(q) /\ ProgressInvariant(q) /\ RunInvariant(q))'
  BY DEF SInv, AloneInvariant, ProgressInvariant, RunInvariant
<1> QED
  BY <1>1, <1>2, <1>3, <1>4 DEF SInv

LEMMA CreateKeepsInvariant ==
  ASSUME SInv, CreateSchema
  PROVE  SInv'
<1> USE DEF CreateSchema, pg, run, history
<1>1. TypeOK'
  <2>1. dropped' \in BOOLEAN
    OBVIOUS
  <2> QED
    BY <2>1 DEF SInv, TypeOK
<1>2. ClockInvariant'
  BY DEF SInv, ClockInvariant
<1>3. \A t \in Targets : TrustInvariant(t)'
  BY DEF SInv, TrustInvariant
<1>4. \A q \in Syncs : (AloneInvariant(q) /\ ProgressInvariant(q) /\ RunInvariant(q))'
  BY DEF SInv, AloneInvariant, ProgressInvariant, RunInvariant, ChangedDays
<1> QED
  BY <1>1, <1>2, <1>3, <1>4 DEF SInv

(* The invariant is inductive.                                             *)
THEOREM SyncInductive == Spec => []SInv
<1>1. SInv /\ [Next]_vars => SInv'
  <2> SUFFICES ASSUME SInv, [Next]_vars PROVE SInv'
    OBVIOUS
  <2>1. CASE UNCHANGED vars
    BY <2>1 DEF vars, SInv, TypeOK, ClockInvariant, TrustInvariant, AloneInvariant,
                ProgressInvariant, RunInvariant, ChangedDays
  <2>2. ASSUME NEW s \in Syncs, Step(s) PROVE SInv'
    BY <2>2, ReadMarkKeepsInvariant, QueryAlertsKeepsInvariant, QueryDaysKeepsInvariant,
       QueryCountsKeepsInvariant, LoadStageKeepsInvariant, MergeKeepsInvariant,
       DeleteStageKeepsInvariant, QueryMaxKeepsInvariant, WriteMarkKeepsInvariant,
       EndOfRunKeepsInvariant
    DEF Step
  <2> QED
    BY <2>1, <2>2, BeginKeepsInvariant, WriteKeepsInvariant, StartKeepsInvariant,
       EndOfRunKeepsInvariant, DropKeepsInvariant, CreateKeepsInvariant
    DEF Next
<1> QED
  BY <1>1, InitSatisfies, PTL DEF Spec

(* States of the sync are of their types (TypeOK).                         *)
THEOREM SyncTyped == Spec => []TypeOK
<1>1. SInv => TypeOK
  BY DEF SInv
<1> QED
  BY <1>1, SyncInductive, PTL

(* Alerts that a trusted watermark has passed are in fact_alerts as they   *)
(* are in PostgreSQL (AlertsSyncedIfTrusted).                              *)
THEOREM TrustedAlertsSynced == Spec => []AlertsSyncedIfTrusted
<1>1. SInv => AlertsSyncedIfTrusted
  BY ModifiedIsNewest DEF SInv, TypeOK, TrustInvariant, UpTo, AlertsSyncedIfTrusted,
                          AlertsSynced, Targets
<1> QED
  BY <1>1, SyncInductive, PTL

(* Logs that a trusted watermark has passed are in the counts of their     *)
(* days (LogsSyncedIfTrusted).                                             *)
THEOREM TrustedLogsSynced == Spec => []LogsSyncedIfTrusted
<1>1. SInv => LogsSyncedIfTrusted
  BY SyncAssumption DEF SInv, TypeOK, TrustInvariant, UpTo, LogsSyncedIfTrusted,
                        LogsSynced, Targets
<1> QED
  BY <1>1, SyncInductive, PTL
============================================================================
