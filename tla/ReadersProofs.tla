--------------------------- MODULE ReadersProofs ---------------------------
(***************************************************************************)
(* The dashboard's caches, for any alerts and any lifetime of the answers, *)
(* and the sections of the report, for any alerts and any groups of them.  *)
(***************************************************************************)
EXTENDS Readers, FiniteSetTheorems, TLAPS

(* The ages of the answers and the time since the last change.             *)
AgesInvariant ==
  /\ age \in [Queries -> Nat]
  /\ \A q \in Queries : age[q] < TTL
  /\ quiet \in 0..TTL
  /\ DOMAIN cache = Queries
  /\ cache = [q \in Queries |-> cache[q]]

(* An answer that is younger than the last change is not outdated.         *)
CacheInvariant ==
  \A q \in Queries : cache[q] # None /\ age[q] < quiet => cache[q] = Answer(q)

(* An alert that has got onto a feed, or into the cached rows of one, has  *)
(* its links, as every alert has.                                          *)
LinksInvariant ==
  /\ status = [a \in Alerts |-> status[a]]
  /\ Existing \subseteq linked
  /\ listed \subseteq linked
  /\ cache["alerts"] # None => \A r \in cache["alerts"] : r.alert_id \in linked

IInv == AgesInvariant /\ CacheInvariant /\ LinksInvariant /\ TracesNotEmpty

(* What a query answers depends on the tables alone.                       *)
LEMMA AnswersStay ==
  ASSUME UNCHANGED tables
  PROVE  /\ \A q \in Queries : Answer(q)' = Answer(q)
         /\ Existing' = Existing
         /\ linked' = linked
         /\ status' = status
  BY DEF tables, Answer, Kpis, LoadAlerts, LoadIncidents, LoadAlertLogs, FeedRow,
         CountBy, Existing, High

LEMMA NamesOfQueries ==
  /\ {"kpis", "alerts", "incidents", "severities"} \cup Alerts = Queries
  /\ \A a \in Alerts : Answer(a) = LoadAlertLogs(a)
  BY ReadersAssumption DEF Queries, Answer

LEMMA InitIInv == Init => IInv
<1> SUFFICES ASSUME Init PROVE IInv
  OBVIOUS
<1>1. AgesInvariant
  BY ReadersAssumption DEF Init, AgesInvariant
<1>2. CacheInvariant /\ TracesNotEmpty
  BY DEF Init, CacheInvariant, TracesNotEmpty, Queries
<1>3. LinksInvariant
  BY DEF Init, LinksInvariant, Existing, Queries
<1> QED
  BY <1>1, <1>2, <1>3 DEF IInv

----------------------------------------------------------------------------
(* A change makes all answers as old as it or older.                       *)
LEMMA ChangeKeepsCache ==
  ASSUME IInv, Change
  PROVE  AgesInvariant' /\ CacheInvariant' /\ TracesNotEmpty'
<1>1. AgesInvariant'
  BY ReadersAssumption DEF IInv, AgesInvariant, Change
<1>2. CacheInvariant'
  BY DEF IInv, AgesInvariant, CacheInvariant, Change
<1>3. TracesNotEmpty'
  BY DEF IInv, TracesNotEmpty, Change
<1> QED
  BY <1>1, <1>2, <1>3

LEMMA CommitCycleKeepsIInv ==
  ASSUME IInv, NEW new \in SUBSET Alerts, CommitCycle(new)
  PROVE  IInv'
<1>1. Change
  BY DEF CommitCycle
<1>2. LinksInvariant'
  <2>1. Existing' \subseteq Existing \cup new
    BY DEF CommitCycle, Existing
  <2>2. linked' = linked \cup new /\ status' = [a \in Alerts |-> status'[a]]
    BY DEF CommitCycle
  <2> QED
    BY <1>1, <2>1, <2>2 DEF IInv, LinksInvariant, Change
<1> QED
  BY <1>1, <1>2, ChangeKeepsCache DEF IInv

LEMMA SetStatusKeepsIInv ==
  ASSUME IInv, NEW a \in Alerts, NEW new,
         SetAlertStatus(a, new) \/ SetIncidentStatus(a, new)
  PROVE  IInv'
<1>1. Change
  BY DEF SetAlertStatus, SetIncidentStatus
<1>2. Existing' \subseteq Existing
  <2>1. \A b \in Alerts : status[b] = None => status'[b] = None
    BY DEF SetAlertStatus, SetIncidentStatus, IInv, LinksInvariant
  <2> QED
    BY <2>1 DEF Existing
<1>3. linked' = linked /\ status' = [b \in Alerts |-> status'[b]]
  BY DEF SetAlertStatus, SetIncidentStatus, IInv, LinksInvariant
<1>4. LinksInvariant'
  BY <1>1, <1>2, <1>3 DEF IInv, LinksInvariant, Change
<1> QED
  BY <1>1, <1>4, ChangeKeepsCache DEF IInv

----------------------------------------------------------------------------
(* A query is answered from the cache or from the tables.                  *)
LEMMA FetchKeepsCache ==
  ASSUME IInv, NEW q \in Queries, q \in Alerts => q \in listed, Fetch(q)
  PROVE  /\ AgesInvariant'
         /\ CacheInvariant'
         /\ TracesNotEmpty'
         /\ UNCHANGED tables
         /\ \A p \in Queries : cache'[p] = IF p = q /\ cache[p] = None
                                           THEN Answer(p) ELSE cache[p]
<1> USE DEF Fetch
<1>1. \A p \in Queries : Answer(p)' = Answer(p)
  BY AnswersStay
<1>2. AgesInvariant'
  BY ReadersAssumption DEF IInv, AgesInvariant
<1>3. \A p \in Queries : cache'[p] = IF p = q /\ cache[p] = None
                                     THEN Answer(p) ELSE cache[p]
  BY DEF IInv, AgesInvariant
<1>4. \A p \in Queries : cache[p] # None => age'[p] = age[p]
  BY DEF IInv, AgesInvariant
<1>5. CacheInvariant'
  BY <1>1, <1>3, <1>4 DEF IInv, CacheInvariant
<1>6. TracesNotEmpty'
  <2> SUFFICES ASSUME NEW a \in Alerts, cache'[a] # None
               PROVE  ~cache'[a].empty
    BY DEF TracesNotEmpty
  <2>1. CASE cache'[a] = cache[a]
    BY <2>1 DEF IInv, TracesNotEmpty
  <2>2. CASE cache'[a] # cache[a]
    <3>1. a = q /\ cache'[a] = LoadAlertLogs(a)
      BY <1>3, <2>2, NamesOfQueries
    <3>2. a \in linked
      BY <3>1 DEF IInv, LinksInvariant
    <3>3. LoadAlertLogs(a).empty = FALSE
      BY <3>2 DEF LoadAlertLogs
    <3> QED
      BY <3>1, <3>3
  <2> QED
    BY <2>1, <2>2
<1> QED
  BY <1>2, <1>3, <1>5, <1>6

(* The other queries than that of the feed leave its rows alone.           *)
LEMMA ShowOtherKeepsIInv ==
  ASSUME IInv, NEW q \in Queries \ {"alerts"}, q \in Alerts => q \in listed,
         Fetch(q), UNCHANGED listed
  PROVE  IInv'
<1>1. cache'["alerts"] = cache["alerts"]
  BY FetchKeepsCache, NamesOfQueries
<1>2. Existing' = Existing /\ linked' = linked /\ status' = status
  BY FetchKeepsCache, AnswersStay
<1>3. LinksInvariant'
  BY <1>1, <1>2 DEF IInv, LinksInvariant
<1> QED
  BY <1>3, FetchKeepsCache DEF IInv

LEMMA ShowAlertsKeepsIInv ==
  ASSUME IInv, ShowAlerts
  PROVE  IInv'
<1>1. "alerts" \in Queries /\ "alerts" \notin Alerts
  BY ReadersAssumption DEF Queries
<1>2. Fetch("alerts")
  BY DEF ShowAlerts
<1>3. Existing' = Existing /\ linked' = linked /\ status' = status
  BY <1>1, <1>2, FetchKeepsCache, AnswersStay
<1>4. \A r \in cache'["alerts"] : r.alert_id \in linked
  <2>1. CASE cache["alerts"] # None
    BY <1>1, <1>2, <2>1, FetchKeepsCache DEF IInv, LinksInvariant
  <2>2. CASE cache["alerts"] = None
    <3>1. cache'["alerts"] = LoadAlerts
      BY <1>1, <1>2, <2>2, FetchKeepsCache DEF Answer
    <3> QED
      BY <3>1 DEF LoadAlerts, FeedRow, IInv, LinksInvariant
  <2> QED
    BY <2>1, <2>2
<1>5. LinksInvariant'
  BY <1>3, <1>4 DEF IInv, LinksInvariant, ShowAlerts
<1> QED
  BY <1>1, <1>2, <1>5, FetchKeepsCache DEF IInv

(* Time makes an answer as much older as it does the last change, and ends *)
(* the answers of TTL.                                                     *)
LEMMA TickKeepsIInv ==
  ASSUME IInv, Tick
  PROVE  IInv'
<1> USE DEF Tick
<1>1. \A q \in Queries : Answer(q)' = Answer(q)
  BY AnswersStay
<1>2. Existing' = Existing /\ linked' = linked /\ status' = status
  BY AnswersStay
<1>3. \A q \in Queries :
        /\ cache'[q] # None => cache'[q] = cache[q] /\ age'[q] = age[q] + 1 /\ age'[q] # TTL
        /\ cache'[q] = None => age'[q] = 0
  OBVIOUS
<1>4. AgesInvariant'
  BY <1>3, ReadersAssumption DEF IInv, AgesInvariant
<1>5. CacheInvariant'
  BY <1>1, <1>3, ReadersAssumption DEF IInv, AgesInvariant, CacheInvariant
<1>6. TracesNotEmpty'
  BY <1>3, NamesOfQueries DEF IInv, TracesNotEmpty
<1>7. LinksInvariant'
  BY <1>2, <1>3, NamesOfQueries DEF IInv, LinksInvariant
<1> QED
  BY <1>4, <1>5, <1>6, <1>7 DEF IInv

LEMMA OthersKeepIInv ==
  ASSUME IInv, UNCHANGED <<tables, dashboardVars>>
  PROVE  IInv'
<1>1. \A q \in Queries : Answer(q)' = Answer(q)
  BY AnswersStay
<1>2. Existing' = Existing /\ linked' = linked /\ status' = status
  BY AnswersStay
<1> QED
  BY <1>1, <1>2 DEF IInv, AgesInvariant, CacheInvariant, LinksInvariant, TracesNotEmpty,
                    dashboardVars

----------------------------------------------------------------------------
LEMMA NextIInv ==
  ASSUME IInv, [Next]_vars
  PROVE  IInv'
<1> USE NamesOfQueries, ReadersAssumption
<1>1. ASSUME NEW new \in SUBSET Alerts, CommitCycle(new)
      PROVE  IInv'
  BY <1>1, CommitCycleKeepsIInv
<1>2. ASSUME NEW a \in Alerts, NEW new, SetAlertStatus(a, new) \/ SetIncidentStatus(a, new)
      PROVE  IInv'
  BY <1>2, SetStatusKeepsIInv
<1>3. ASSUME NEW a \in Alerts, ShowTrace(a)
      PROVE  IInv'
  BY <1>3, ShowOtherKeepsIInv DEF ShowTrace
<1>4. CASE ShowLedger \/ ShowQueue \/ ShowChart
  BY <1>4, ShowOtherKeepsIInv DEF ShowLedger, ShowQueue, ShowChart
<1>5. CASE ShowAlerts
  BY <1>5, ShowAlertsKeepsIInv
<1>6. CASE RunStatement \/ Render
  BY <1>6, OthersKeepIInv DEF RunStatement, Render
<1>7. CASE Tick
  BY <1>7, TickKeepsIInv
<1>8. CASE UNCHANGED vars
  BY <1>8, OthersKeepIInv DEF vars
<1> QED
  BY <1>1, <1>2, <1>3, <1>4, <1>5, <1>6, <1>7, <1>8 DEF Next

THEOREM Inductive == Spec => []IInv
  BY InitIInv, NextIInv, PTL DEF Spec

(* Whoever shows a page once the tables have not changed for the lifetime  *)
(* of an answer sees them as they are, and all pages of it agree: what     *)
(* data.py trades for its cache of a minute.                               *)
THEOREM FreshWhenQuiet == Spec => []CurrentWhenQuiet
<1>1. IInv => CurrentWhenQuiet
  BY DEF IInv, AgesInvariant, CacheInvariant, CurrentWhenQuiet
<1> QED
  BY <1>1, Inductive, PTL

(* The log trace of an alert is looked up later than the row of the feed,  *)
(* or cached before it, and is never empty: alerts and links are committed *)
(* together, and nothing removes a link.                                   *)
THEOREM TracesKept == Spec => []TracesNotEmpty
<1>1. IInv => TracesNotEmpty
  BY DEF IInv
<1> QED
  BY <1>1, Inductive, PTL

----------------------------------------------------------------------------
(***************************************************************************)
(* What the sections of the report count.                                  *)
(***************************************************************************)

(* The alerts of one group, and those of some groups.                      *)
Class(S, Group, g) == {a \in S : Group[a] = g}

Counted(S, Group, groups) == {a \in S : Group[a] \in groups}

Units(groups, counts) == UNION {{g} \X (1..counts[g]) : g \in groups}

(* To number the alerts of a group is a way to count them.                 *)
LEMMA Numbering ==
  ASSUME NEW S, IsFiniteSet(S), NEW Group, NEW g
  PROVE  /\ IsFiniteSet(Class(S, Group, g))
         /\ Cardinality(Class(S, Group, g)) \in Nat
         /\ \E h : h \in Bijection(Class(S, Group, g), 1..Cardinality(Class(S, Group, g)))
<1> DEFINE C == Class(S, Group, g)
<1>1. IsFiniteSet(C)
  BY FS_Subset DEF Class
<1>2. Cardinality(C) \in Nat
  BY <1>1, FS_CardinalityType
<1>3. IsFiniteSet(1..Cardinality(C)) /\ Cardinality(1..Cardinality(C)) = Cardinality(C)
  BY <1>2, FS_Interval
<1>4. ExistsBijection(C, 1..Cardinality(C))
  BY <1>1, <1>3, FS_SameCardinalityBij
<1> QED
  BY <1>1, <1>2, <1>4 DEF ExistsBijection

(* The counts by group, as GROUP BY returns them, add up to the number of  *)
(* alerts, and those of some groups to the alerts of these groups.         *)
LEMMA CountsAddUp ==
  ASSUME NEW S, IsFiniteSet(S), NEW Group, NEW groups,
         groups \subseteq DOMAIN CountBy(S, Group)
  PROVE  /\ TotalOf(groups, CountBy(S, Group)) = Cardinality(Counted(S, Group, groups))
         /\ IsFiniteSet(Counted(S, Group, groups))
<1> DEFINE counts == CountBy(S, Group)
           T == Counted(S, Group, groups)
           U == Units(groups, counts)
           Number == [g \in groups |->
             CHOOSE h : h \in Bijection(Class(S, Group, g), 1..Cardinality(Class(S, Group, g)))]
           f == [a \in T |-> <<Group[a], Number[Group[a]][a]>>]
<1>1. IsFiniteSet(T)
  BY FS_Subset DEF Counted
<1>2. \A g \in groups : counts[g] = Cardinality(Class(S, Group, g))
  BY DEF CountBy, Class
<1>3. \A g \in groups : Number[g] \in Bijection(Class(S, Group, g), 1..counts[g])
  <2> SUFFICES ASSUME NEW g \in groups
               PROVE  Number[g] \in Bijection(Class(S, Group, g), 1..counts[g])
    OBVIOUS
  <2>1. \E h : h \in Bijection(Class(S, Group, g), 1..Cardinality(Class(S, Group, g)))
    BY Numbering
  <2> QED
    BY <2>1, <1>2
<1> HIDE DEF Number, counts
<1>4. \A g \in groups :
        /\ \A a \in Class(S, Group, g) : Number[g][a] \in 1..counts[g]
        /\ \A a, b \in Class(S, Group, g) : Number[g][a] = Number[g][b] => a = b
        /\ \A n \in 1..counts[g] : \E a \in Class(S, Group, g) : Number[g][a] = n
  BY <1>3 DEF Bijection, Injection, Surjection, IsInjective
<1>5. \A a \in T : Group[a] \in groups /\ a \in Class(S, Group, Group[a])
  BY DEF Counted, Class
<1>6. \A g \in groups : Class(S, Group, g) \subseteq T
  BY DEF Counted, Class
<1>7. \A u : u \in U <=> \E g \in groups : \E n \in 1..counts[g] : u = <<g, n>>
  BY DEF Units
<1> HIDE DEF T, U
<1>8. f \in [T -> U]
  BY <1>4, <1>5, <1>7
<1>9. \A a, b \in T : f[a] = f[b] => a = b
  BY <1>4, <1>5
<1>10. \A u \in U : \E a \in T : f[a] = u
  <2> TAKE u \in U
  <2>1. PICK g \in groups : \E n \in 1..counts[g] : u = <<g, n>>
    BY <1>7
  <2>2. PICK n \in 1..counts[g] : u = <<g, n>>
    BY <2>1
  <2>3. PICK a \in Class(S, Group, g) : Number[g][a] = n
    BY <1>4
  <2>4. a \in T /\ Group[a] = g
    BY <1>6 DEF Class
  <2> QED
    BY <2>2, <2>3, <2>4
<1>11. f \in Bijection(T, U)
  BY <1>8, <1>9, <1>10 DEF Bijection, Injection, Surjection, IsInjective
<1>12. Cardinality(U) = Cardinality(T)
  BY <1>1, <1>11, FS_Bijection DEF ExistsBijection
<1> QED
  BY <1>1, <1>12 DEF T, U, counts, Units, TotalOf

(* The statements, and that they are five different ones.                  *)
LEMMA NamesOfStatements ==
  /\ Len(Statements) = 5
  /\ Statements[1] = "summary"
  /\ Statements[2] = "by_severity"
  /\ Statements[3] = "by_technique"
  /\ Statements[4] = "top_alerts"
  /\ Statements[5] = "open_incidents"
  /\ \A m, n \in 1..5 : m # n => Statements[m] # Statements[n]
<1>1. Len(Statements) = 5
  BY DEF Statements
<1>2. \A n \in 1..5 : n = 1 \/ n = 2 \/ n = 3 \/ n = 4 \/ n = 5
  OBVIOUS
<1>3. /\ Statements[1] = "summary"
      /\ Statements[2] = "by_severity"
      /\ Statements[3] = "by_technique"
      /\ Statements[4] = "top_alerts"
      /\ Statements[5] = "open_incidents"
  BY DEF Statements
<1> QED
  BY <1>1, <1>2, <1>3

(* As many rows on the list of the report as alerts, all or the new ones.  *)
LEMMA ListedOnce ==
  ASSUME NEW S, IsFiniteSet(S), NEW f, \A a, b \in S : f[a] = f[b] => a = b
  PROVE  Cardinality({f[a] : a \in S}) = Cardinality(S)
<1> DEFINE g == [a \in S |-> f[a]]
<1>1. g \in Bijection(S, {f[a] : a \in S})
  BY DEF Bijection, Injection, Surjection, IsInjective
<1> QED
  BY <1>1, FS_Bijection DEF ExistsBijection

LEMMA ResultsAgree ==
  /\ IsFiniteSet(InWindow)
  /\ Cardinality(InWindow) \in Nat
  /\ Summary.alerts_total = Cardinality(InWindow)
  /\ Summary.alerts_high = Cardinality(InWindow \cap High)
  /\ Summary.alerts_new = Cardinality({a \in InWindow : status[a] = "New"})
  /\ Total(BySeverity) = Cardinality(InWindow)
  /\ Total(ByTechnique) = Cardinality(InWindow)
  /\ Summary.alerts_high =
       TotalOf(DOMAIN BySeverity \cap {"high", "critical"}, BySeverity)
  /\ Summary.incidents_open_now = Cardinality(OpenIncidents)
<1>1. InWindow \subseteq Alerts
  BY DEF InWindow, Existing
<1>2. IsFiniteSet(InWindow) /\ Cardinality(InWindow) \in Nat
  BY <1>1, ReadersAssumption, FS_Subset, FS_CardinalityType
<1>3. \A Group : /\ Counted(InWindow, Group, DOMAIN CountBy(InWindow, Group)) = InWindow
                 /\ DOMAIN CountBy(InWindow, Group) = {Group[a] : a \in InWindow}
  BY DEF Counted, CountBy
<1>4. Total(BySeverity) = Cardinality(InWindow)
  BY <1>2, <1>3, CountsAddUp DEF Total, BySeverity
<1>5. Total(ByTechnique) = Cardinality(InWindow)
  BY <1>2, <1>3, CountsAddUp DEF Total, ByTechnique
<1>6. Summary.alerts_high = TotalOf(DOMAIN BySeverity \cap {"high", "critical"}, BySeverity)
  <2>1. Counted(InWindow, Severity, DOMAIN BySeverity \cap {"high", "critical"})
          = InWindow \cap High
    BY <1>1, <1>3 DEF Counted, BySeverity, High
  <2>2. TotalOf(DOMAIN BySeverity \cap {"high", "critical"}, BySeverity)
          = Cardinality(InWindow \cap High)
    BY <1>2, <2>1, CountsAddUp DEF BySeverity
  <2> QED
    BY <2>2 DEF Summary
<1>7. /\ Summary.alerts_total = Cardinality(InWindow)
      /\ Summary.alerts_high = Cardinality(InWindow \cap High)
      /\ Summary.alerts_new = Cardinality({a \in InWindow : status[a] = "New"})
      /\ Summary.incidents_open_now = Cardinality(OpenIncidents)
  BY DEF Summary, OpenIncidents
<1> QED
  BY <1>2, <1>4, <1>5, <1>6, <1>7

----------------------------------------------------------------------------
(***************************************************************************)
(* The list of the report, which is cut at its limit.                      *)
(***************************************************************************)
LEMMA LessOfTwo ==
  ASSUME NEW x \in Nat, NEW y \in Nat
  PROVE  Min({x, y}) = IF x =< y THEN x ELSE y
<1>1. \E m \in {x, y} : \A n \in {x, y} : m =< n
  <2>1. CASE x =< y
    BY <2>1
  <2>2. CASE ~(x =< y)
    BY <2>2
  <2> QED
    BY <2>1, <2>2
<1>2. Min({x, y}) \in {x, y} /\ \A n \in {x, y} : Min({x, y}) =< n
  BY <1>1 DEF Min
<1> QED
  BY <1>2

(* The rows of some of the listed alerts are as many as these.             *)
LEMMA RowsOfListed ==
  ASSUME NEW L, IsFiniteSet(L), NEW T, T \subseteq L,
         NEW rows, \A r : r \in rows <=> \E a \in T : r = TopRow(a)
  PROVE  Cardinality(rows) = Cardinality(T)
<1> DEFINE row == [a \in T |-> TopRow(a)]
<1>1. rows = {row[a] : a \in T}
  OBVIOUS
<1>2. \A a, b \in T : row[a] = row[b] => a = b
  BY DEF TopRow
<1>3. IsFiniteSet(T)
  BY FS_Subset
<1> HIDE DEF row
<1> QED
  BY <1>1, <1>2, <1>3, ListedOnce

(* A severe alert is left out for other severe ones only.                  *)
LEMMA SevereFirst ==
  ASSUME NEW L \in FirstAlerts
  PROVE  InWindow \cap High \subseteq L \/ L \subseteq InWindow \cap High
<1> SUFFICES ASSUME NEW b \in InWindow \cap High, b \notin L,
                    NEW a \in L, a \notin InWindow \cap High
             PROVE  FALSE
  OBVIOUS
<1>1. a \in InWindow /\ a \in Alerts /\ b \in Alerts /\ ~ListedBefore(b, a)
  BY DEF FirstAlerts, InWindow, Existing
<1>2. Severity[b] \in {"high", "critical"} /\ Severity[a] \in {"medium", "low"}
  <2>1. Severity[a] \in {"critical", "high", "medium", "low"}
    BY <1>1, ReadersAssumption DEF SeverityRank
  <2> QED
    BY <1>1, <2>1 DEF High
<1>3. SeverityRank[Severity[b]] \in {1, 2} /\ SeverityRank[Severity[a]] \in {3, 4}
  BY <1>2 DEF SeverityRank
<1>4. SeverityRank[Severity[b]] < SeverityRank[Severity[a]]
  BY <1>3
<1> QED
  BY <1>1, <1>4 DEF ListedBefore

LEMMA TopListAgrees ==
  ASSUME NEW rows \in TopAlerts
  PROVE  /\ Cardinality(rows) \in Nat
         /\ Cardinality(rows) = TopLimit \/ Cardinality(rows) = Cardinality(InWindow)
         /\ Cardinality({r \in rows : r.severity \in {"high", "critical"}})
              = Min({TopLimit, Summary.alerts_high})
         /\ Cardinality({r \in rows : r.alert_status = "New"}) =< Summary.alerts_new
         /\ Cardinality(rows) < TopLimit =>
              Cardinality({r \in rows : r.alert_status = "New"}) = Summary.alerts_new
<1>1. PICK L \in FirstAlerts : rows = {TopRow(a) : a \in L}
  BY DEF TopAlerts
<1> DEFINE all == Cardinality(InWindow)
           size == Cardinality(L)
           severe == InWindow \cap High
           New == {a \in InWindow : status[a] = "New"}
<1>2. /\ L \subseteq InWindow /\ IsFiniteSet(InWindow) /\ IsFiniteSet(L)
      /\ all \in Nat /\ size \in Nat /\ TopLimit \in Nat
      /\ size =< all
      /\ size = IF TopLimit =< all THEN TopLimit ELSE all
  <2>1. L \subseteq InWindow /\ size = Min({TopLimit, all})
    BY DEF FirstAlerts
  <2>2. IsFiniteSet(InWindow) /\ all \in Nat /\ TopLimit \in Nat
    BY ResultsAgree, ReadersAssumption
  <2>3. IsFiniteSet(L) /\ size \in Nat /\ size =< all
    BY <2>1, <2>2, FS_Subset, FS_CardinalityType
  <2> QED
    BY <2>1, <2>2, <2>3, LessOfTwo
<1>3. Cardinality(rows) = size
  BY <1>1, <1>2, RowsOfListed
<1>4. /\ IsFiniteSet(severe) /\ IsFiniteSet(New)
      /\ Cardinality(severe) \in Nat /\ Cardinality(severe) =< all
      /\ Cardinality(New) \in Nat
  BY <1>2, FS_Subset, FS_CardinalityType
<1>5. Cardinality({r \in rows : r.severity \in {"high", "critical"}}) = Cardinality(L \cap severe)
  <2>1. \A r : r \in {q \in rows : q.severity \in {"high", "critical"}}
              <=> \E a \in L \cap severe : r = TopRow(a)
    <3>1. \A a \in L : TopRow(a).severity = Severity[a]
                      /\ (a \in severe <=> Severity[a] \in {"high", "critical"})
      BY <1>2 DEF TopRow, High, InWindow, Existing
    <3> HIDE DEF severe
    <3> QED
      BY <1>1, <3>1
  <2> HIDE DEF severe
  <2> QED
    BY <1>2, <2>1, RowsOfListed
<1>6. Cardinality(L \cap severe) = Min({TopLimit, Cardinality(severe)})
  <2>1. Min({TopLimit, Cardinality(severe)}) =
          IF TopLimit =< Cardinality(severe) THEN TopLimit ELSE Cardinality(severe)
    BY <1>2, <1>4, LessOfTwo
  <2>2. CASE severe \subseteq L
    <3>1. L \cap severe = severe /\ Cardinality(severe) =< size
      BY <1>2, <2>2, FS_Subset
    <3>2. Cardinality(L \cap severe) = Cardinality(severe)
      BY <3>1
    <3> HIDE DEF severe, size, all
    <3> QED
      BY <1>2, <1>4, <2>1, <3>1, <3>2
  <2>3. CASE L \subseteq severe
    <3>1. L \cap severe = L /\ size =< Cardinality(severe)
      BY <1>4, <2>3, FS_Subset
    <3>2. Cardinality(L \cap severe) = size
      BY <3>1
    <3> HIDE DEF severe, size, all
    <3> QED
      BY <1>2, <1>4, <2>1, <3>1, <3>2
  <2> QED
    BY <2>2, <2>3, SevereFirst
<1>7. /\ Cardinality({r \in rows : r.alert_status = "New"}) = Cardinality(L \cap New)
      /\ Cardinality(L \cap New) =< Cardinality(New)
  <2>1. \A r : r \in {q \in rows : q.alert_status = "New"} <=> \E a \in L \cap New : r = TopRow(a)
    <3>1. \A a \in L : TopRow(a).alert_status = status[a] /\ (a \in New <=> status[a] = "New")
      BY <1>2 DEF TopRow
    <3> HIDE DEF New
    <3> QED
      BY <1>1, <3>1
  <2> HIDE DEF New
  <2>2. Cardinality(L \cap New) =< Cardinality(New)
    BY <1>4, FS_Subset
  <2> QED
    BY <1>2, <2>1, <2>2, RowsOfListed
<1>8. size < TopLimit => L \cap New = New
  <2> SUFFICES ASSUME size < TopLimit PROVE L = InWindow
    OBVIOUS
  <2>1. size = all
    BY <1>2
  <2> QED
    BY <1>2, <2>1, FS_Subset
<1> HIDE DEF all, size, severe, New
<1> QED
  BY <1>2, <1>3, <1>5, <1>6, <1>7, <1>8, ResultsAgree DEF all, severe, New

----------------------------------------------------------------------------
(***************************************************************************)
(* The report, between two statements.                                     *)
(***************************************************************************)
TablesOK ==
  /\ reader \in ReaderKinds
  /\ status \in [Alerts -> AlertStatuses \cup {None}]
  /\ incident \in [Alerts -> IncidentStatuses \cup {None}]
  /\ linked \subseteq Alerts
  /\ changes \in 0..MaxChanges

SectionsOK ==
  /\ at \in 1..(Len(Statements) + 1)
  /\ DOMAIN report = {Statements[n] : n \in 1..(at - 1)}
  /\ disturbed \in BOOLEAN

(* Each section that is there has the alerts of those before it, and no    *)
(* more than there are now; or it is the list, and full.                   *)
Grown ==
  LET now == Cardinality(InWindow) IN
  /\ at > 1 => report.summary.alerts_total \in 0..now
  /\ at > 2 => Total(report.by_severity) \in report.summary.alerts_total..now
  /\ at > 3 => Total(report.by_technique) \in Total(report.by_severity)..now
  /\ at > 4 => \/ Cardinality(report.top_alerts) = TopLimit
               \/ Cardinality(report.top_alerts) \in Total(report.by_technique)..now

(* As long as nothing was committed since the first of them, they are what *)
(* the tables have.                                                        *)
Current ==
  ~disturbed /\ at \in 2..Len(Statements) =>
    \A n \in 1..(at - 1) : report[Statements[n]] \in Results(Statements[n])

ReportInv == TablesOK /\ SectionsOK /\ Grown /\ Current /\ UndisturbedReportAgrees

LEMMA InitReportInv == Init => ReportInv
<1> SUFFICES ASSUME Init PROVE ReportInv
  OBVIOUS
<1>1. TablesOK
  BY ReadersAssumption DEF Init, TablesOK
<1>2. SectionsOK
  <2>1. at = 1 /\ disturbed = FALSE /\ DOMAIN report = {}
    BY DEF Init
  <2>2. {Statements[n] : n \in 1..(at - 1)} = {}
    BY <2>1
  <2>3. at \in 1..(Len(Statements) + 1)
    BY <2>1, NamesOfStatements
  <2>4. disturbed \in BOOLEAN
    BY <2>1
  <2> QED
    BY <2>1, <2>2, <2>3, <2>4 DEF SectionsOK
<1>3. Grown /\ Current /\ UndisturbedReportAgrees
  BY NamesOfStatements DEF Init, Grown, Current, UndisturbedReportAgrees
<1> QED
  BY <1>1, <1>2, <1>3 DEF ReportInv

(* Nobody removes an alert; a commit that falls between two statements is  *)
(* noted.                                                                  *)
LEMMA ChangeKeepsReportInv ==
  ASSUME ReportInv, Change, TablesOK', \A a \in Alerts : status[a] # None => status'[a] # None
  PROVE  ReportInv'
<1>1. SectionsOK'
  BY DEF Change, ReportInv, SectionsOK
<1>2. InWindow \subseteq InWindow' /\ InWindow' \subseteq Alerts
  BY DEF InWindow, Existing
<1>3. /\ Cardinality(InWindow) \in Nat
      /\ Cardinality(InWindow') \in Nat
      /\ Cardinality(InWindow) =< Cardinality(InWindow')
  <2>1. IsFiniteSet(InWindow')
    BY <1>2, ReadersAssumption, FS_Subset
  <2> QED
    BY <1>2, <2>1, FS_Subset, FS_CardinalityType
<1>4. Grown'
  BY <1>3 DEF Change, ReportInv, SectionsOK, Grown
<1>5. Current' /\ UndisturbedReportAgrees'
  BY NamesOfStatements DEF Change, ReportInv, SectionsOK, Current, UndisturbedReportAgrees
<1> QED
  BY <1>1, <1>4, <1>5 DEF ReportInv

LEMMA CommitKeepsReportInv ==
  ASSUME ReportInv, NEW new \in SUBSET Alerts, CommitCycle(new)
  PROVE  ReportInv'
<1>1. Change
  BY DEF CommitCycle
<1>2. TablesOK'
  <2>1. status' \in [Alerts -> AlertStatuses \cup {None}]
    BY DEF CommitCycle, ReportInv, TablesOK, AlertStatuses
  <2>2. incident' \in [Alerts -> IncidentStatuses \cup {None}]
    BY DEF CommitCycle, ReportInv, TablesOK, IncidentStatuses
  <2>3. linked' \subseteq Alerts
    BY DEF CommitCycle, ReportInv, TablesOK
  <2>4. reader' = reader /\ changes' \in 0..MaxChanges
    BY <1>1, ReadersAssumption DEF Change, ReportInv, TablesOK
  <2> QED
    BY <2>1, <2>2, <2>3, <2>4 DEF ReportInv, TablesOK
<1>3. \A a \in Alerts : status[a] # None => status'[a] # None
  BY DEF CommitCycle
<1> QED
  BY <1>1, <1>2, <1>3, ChangeKeepsReportInv

LEMMA SetStatusKeepsReportInv ==
  ASSUME ReportInv, NEW a \in Alerts,
         \/ \E new \in AlertStatuses : SetAlertStatus(a, new)
         \/ \E new \in IncidentStatuses : SetIncidentStatus(a, new)
  PROVE  ReportInv'
<1>1. Change
  BY DEF SetAlertStatus, SetIncidentStatus
<1>2. TablesOK'
  <2>1. status' \in [Alerts -> AlertStatuses \cup {None}]
    BY DEF SetAlertStatus, SetIncidentStatus, ReportInv, TablesOK
  <2>2. incident' \in [Alerts -> IncidentStatuses \cup {None}]
    BY DEF SetAlertStatus, SetIncidentStatus, ReportInv, TablesOK
  <2>3. linked' = linked
    BY DEF SetAlertStatus, SetIncidentStatus
  <2>4. reader' = reader /\ changes' \in 0..MaxChanges
    BY <1>1, ReadersAssumption DEF Change, ReportInv, TablesOK
  <2> QED
    BY <2>1, <2>2, <2>3, <2>4 DEF ReportInv, TablesOK
<1>3. \A b \in Alerts : status[b] # None => status'[b] # None
  BY ReadersAssumption DEF SetAlertStatus, SetIncidentStatus, ReportInv, TablesOK
<1> QED
  BY <1>1, <1>2, <1>3, ChangeKeepsReportInv

(* The statement that is run adds its section to those there are.          *)
LEMMA SectionAdded ==
  ASSUME ReportInv, RunStatement
  PROVE  /\ at \in 1..5 /\ at' = at + 1
         /\ SectionsOK'
         /\ \A n \in 1..(at - 1) : report'[Statements[n]] = report[Statements[n]]
         /\ report'[Statements[at]] \in Results(Statements[at])
<1>1. at \in 1..5 /\ at' = at + 1
  BY NamesOfStatements DEF RunStatement, ReportInv, SectionsOK
<1>2. DOMAIN report = {Statements[n] : n \in 1..(at - 1)}
  BY DEF ReportInv, SectionsOK
<1>3. Statements[at] \notin DOMAIN report
  BY <1>1, <1>2, NamesOfStatements
<1>4. DOMAIN report' = {Statements[n] : n \in 1..(at' - 1)}
  BY <1>1, <1>2 DEF RunStatement
<1>5. SectionsOK'
  BY <1>1, <1>4, NamesOfStatements DEF RunStatement, ReportInv, SectionsOK
<1> QED
  BY <1>1, <1>2, <1>3, <1>5 DEF RunStatement

LEMMA RunStatementKeepsReportInv ==
  ASSUME ReportInv, RunStatement
  PROVE  ReportInv'
<1>1. /\ InWindow' = InWindow
      /\ \A s : Results(s)' = Results(s)
  BY DEF RunStatement, tables, InWindow, Existing, Results, Summary, BySeverity, ByTechnique,
         TopAlerts, FirstAlerts, TopRow, ListedBefore, OpenIncidents, CountBy, High
<1>2. TablesOK' /\ disturbed' = disturbed
  BY DEF RunStatement, tables, ReportInv, TablesOK
<1>3. Grown'
  <2>1. /\ at = 1 => report'["summary"] = Summary
        /\ at = 2 => report'["by_severity"] = BySeverity
        /\ at = 3 => report'["by_technique"] = ByTechnique
        /\ at = 4 => report'["top_alerts"] \in TopAlerts
    BY SectionAdded, NamesOfStatements DEF Results
  <2>2. at \in 1..5 /\ at' = at + 1
    BY SectionAdded
  <2>3. /\ at > 1 => report'["summary"] = report["summary"]
        /\ at > 2 => report'["by_severity"] = report["by_severity"]
        /\ at > 3 => report'["by_technique"] = report["by_technique"]
        /\ at > 4 => report'["top_alerts"] = report["top_alerts"]
    BY SectionAdded, NamesOfStatements
  <2> DEFINE now == Cardinality(InWindow)
  <2>4. now \in Nat /\ now' = now
    BY <1>1, ResultsAgree
  <2>5. at = 1 => report'["summary"].alerts_total = now
    BY <2>1, ResultsAgree
  <2>6. at = 2 => Total(report'["by_severity"]) = now
    BY <2>1, ResultsAgree
  <2>7. at = 3 => Total(report'["by_technique"]) = now
    BY <2>1, ResultsAgree
  <2>8. at = 4 => Cardinality(report'["top_alerts"]) \in {TopLimit, now}
    BY <2>1, TopListAgrees
  <2>9. /\ at > 1 => report["summary"].alerts_total \in 0..now
        /\ at > 2 => Total(report["by_severity"]) \in report["summary"].alerts_total..now
        /\ at > 3 => Total(report["by_technique"]) \in Total(report["by_severity"])..now
        /\ at > 4 => \/ Cardinality(report["top_alerts"]) = TopLimit
                     \/ Cardinality(report["top_alerts"]) \in Total(report["by_technique"])..now
    BY DEF ReportInv, Grown
  <2> HIDE DEF now
  <2>10. /\ at' > 1 => report'["summary"].alerts_total \in 0..now
         /\ at' > 2 => Total(report'["by_severity"]) \in report'["summary"].alerts_total..now
         /\ at' > 3 => Total(report'["by_technique"]) \in Total(report'["by_severity"])..now
         /\ at' > 4 => \/ Cardinality(report'["top_alerts"]) = TopLimit
                       \/ Cardinality(report'["top_alerts"]) \in Total(report'["by_technique"])..now
    <3>1. CASE at = 1
      BY <3>1, <2>2, <2>4, <2>5
    <3>2. CASE at = 2
      BY <3>2, <2>2, <2>3, <2>4, <2>6, <2>9
    <3>3. CASE at = 3
      BY <3>3, <2>2, <2>3, <2>4, <2>7, <2>9
    <3>4. CASE at = 4
      BY <3>4, <2>2, <2>3, <2>4, <2>8, <2>9
    <3>5. CASE at = 5
      BY <3>5, <2>2, <2>3, <2>4, <2>9
    <3> QED
      BY <2>2, <3>1, <3>2, <3>3, <3>4, <3>5
  <2> QED
    BY <2>4, <2>10 DEF Grown, now
<1>4. ~disturbed => \A n \in 1..at : report'[Statements[n]] \in Results(Statements[n])
  BY SectionAdded, NamesOfStatements DEF ReportInv, Current
<1>5. Current'
  BY <1>1, <1>2, <1>4, SectionAdded DEF Current
<1>6. UndisturbedReportAgrees'
  <2> SUFFICES ASSUME at' > Len(Statements), ~disturbed'
               PROVE  UndisturbedReportAgrees'
    BY NamesOfStatements DEF UndisturbedReportAgrees
  <2>1. at = 5 /\ ~disturbed
    BY <1>2, SectionAdded, NamesOfStatements
  <2>2. /\ report'["summary"] = Summary
        /\ report'["by_severity"] = BySeverity
        /\ report'["top_alerts"] \in TopAlerts
        /\ report'["open_incidents"] = OpenIncidents
    BY <1>4, <2>1, NamesOfStatements DEF Results
  <2> QED
    BY <2>2, ResultsAgree, TopListAgrees DEF UndisturbedReportAgrees
<1> QED
  BY <1>2, <1>3, <1>5, <1>6, SectionAdded DEF ReportInv

LEMMA OthersKeepReportInv ==
  ASSUME ReportInv, UNCHANGED <<reader, tables>>, Render \/ UNCHANGED reportVars
  PROVE  ReportInv'
<1>1. /\ InWindow' = InWindow
      /\ \A s : Results(s)' = Results(s)
  BY DEF tables, InWindow, Existing, Results, Summary, BySeverity, ByTechnique,
         TopAlerts, FirstAlerts, TopRow, ListedBefore, OpenIncidents, CountBy, High
<1>2. TablesOK'
  BY DEF tables, ReportInv, TablesOK
<1>3. CASE Render
  <2>1. at' = 1 /\ disturbed' = FALSE /\ DOMAIN report' = {}
    BY <1>3 DEF Render
  <2>2. {Statements[n] : n \in 1..(at' - 1)} = {}
    BY <2>1
  <2>3. at' \in 1..(Len(Statements) + 1)
    BY <2>1, NamesOfStatements
  <2>4. disturbed' \in BOOLEAN
    BY <2>1
  <2>5. SectionsOK'
    BY <2>1, <2>2, <2>3, <2>4 DEF SectionsOK
  <2> QED
    BY <1>2, <2>1, <2>5, NamesOfStatements
       DEF ReportInv, Grown, Current, UndisturbedReportAgrees
<1>4. CASE UNCHANGED reportVars
  BY <1>1, <1>2, <1>4
     DEF reportVars, ReportInv, SectionsOK, Grown, Current, UndisturbedReportAgrees
<1> QED
  BY <1>3, <1>4

LEMMA NextReportInv ==
  ASSUME ReportInv, [Next]_vars
  PROVE  ReportInv'
<1>1. ASSUME NEW new \in SUBSET Alerts, CommitCycle(new)
      PROVE  ReportInv'
  BY <1>1, CommitKeepsReportInv
<1>2. ASSUME NEW a \in Alerts,
             \/ \E new \in AlertStatuses : SetAlertStatus(a, new)
             \/ \E new \in IncidentStatuses : SetIncidentStatus(a, new)
      PROVE  ReportInv'
  BY <1>2, SetStatusKeepsReportInv
<1>3. CASE RunStatement
  BY <1>3, RunStatementKeepsReportInv
<1>4. CASE Render
  BY <1>4, OthersKeepReportInv DEF Render
<1>5. CASE (\E a \in Alerts : ShowTrace(a)) \/ ShowLedger \/ ShowAlerts \/ ShowQueue \/ ShowChart
  BY <1>5, OthersKeepReportInv DEF ShowTrace, ShowLedger, ShowAlerts, ShowQueue, ShowChart, Fetch
<1>6. CASE Tick
  BY <1>6, OthersKeepReportInv DEF Tick
<1>7. CASE UNCHANGED vars
  BY <1>7, OthersKeepReportInv DEF vars
<1> QED
  BY <1>1, <1>2, <1>3, <1>4, <1>5, <1>6, <1>7 DEF Next

THEOREM ReportInductive == Spec => []ReportInv
  BY InitReportInv, NextReportInv, PTL DEF Spec

(* The variables of the report and of the dashboard have their types.      *)
THEOREM TypeCorrect == Spec => []TypeOK
<1>1. IInv /\ ReportInv => TypeOK
  <2> SUFFICES ASSUME IInv, ReportInv PROVE TypeOK
    OBVIOUS
  <2>1. age \in [Queries -> 0..(TTL - 1)]
    BY ReadersAssumption DEF IInv, AgesInvariant
  <2> QED
    BY <2>1 DEF IInv, AgesInvariant, LinksInvariant, ReportInv, TablesOK, SectionsOK, TypeOK
<1> QED
  BY <1>1, Inductive, ReportInductive, PTL

(* However commits fall between its statements, no section of the report   *)
(* has fewer alerts than one that gather computed before it, but for the   *)
(* list, when it is full.                                                  *)
THEOREM TotalsNeverShrink == Spec => []ReportTotalsGrow
<1>1. ReportInv => ReportTotalsGrow
  <2> SUFFICES ASSUME ReportInv, at > Len(Statements) PROVE ReportTotalsGrow
    BY DEF ReportTotalsGrow
  <2>1. at > 4 /\ Cardinality(InWindow) \in Nat
    BY NamesOfStatements, ResultsAgree DEF ReportInv, SectionsOK
  <2> QED
    BY <2>1 DEF ReportInv, Grown, SectionsOK, ReportTotalsGrow
<1> QED
  BY <1>1, ReportInductive, PTL

(* With no commit between its statements the sections of the report agree  *)
(* with its summary: the joins of v_alert_enriched and the groups lose no  *)
(* alert and count none twice, and the limit of the list cuts no severe    *)
(* alert off before one that is not.                                       *)
THEOREM UndisturbedAgrees == Spec => []UndisturbedReportAgrees
<1>1. ReportInv => UndisturbedReportAgrees
  BY DEF ReportInv
<1> QED
  BY <1>1, ReportInductive, PTL
============================================================================
