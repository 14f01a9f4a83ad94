------------------------- MODULE RulesEngineProofs -------------------------
(***************************************************************************)
(* Proofs about the rules engine.                                          *)
(*                                                                         *)
(* The two-pointer sweep of detect_brute_force computes, for every rule    *)
(* and every finite batch of logs, exactly the detections of its           *)
(* loop-free definition.                                                   *)
(*                                                                         *)
(* The tables that detection cycles take from the engine are as those      *)
(* assume, for any rules and logs.                                         *)
(*                                                                         *)
(* The rules find in the feeds that build_dataset makes what the manifests *)
(* promise, and it is known how far past the end of the run's window their *)
(* events may be, for every size of the feed and every setting that        *)
(* FeedAssumption allows.                                                  *)
(***************************************************************************)
EXTENDS BruteForceSweep, SimulatedFeed, DetectionTables, FiniteSetTheorems, SequenceTheorems, TLAPS

(* The first n failures of a list, and those between two positions.        *)
Prefix(s, n) == {s[k] : k \in 1..n}

Between(s, a, b) == {s[k] : k \in a..b}

----------------------------------------------------------------------------
(***************************************************************************)
(* Lemmas about the operators.                                             *)
(***************************************************************************)

LEMMA SortedIsSequence ==
  ASSUME NEW F, IsFiniteSet(F), NEW s \in SortedByTime(F)
  PROVE  /\ Cardinality(F) \in Nat
         /\ s \in Seq(F)
         /\ Len(s) = Cardinality(F)
         /\ s \in [1..Len(s) -> F]
         /\ Prefix(s, Len(s)) = F
         /\ \A i, j \in 1..Len(s) : i < j => s[i] # s[j]
         /\ \A i, j \in 1..Len(s) : i < j => s[i].timestamp =< s[j].timestamp
<1>1. Cardinality(F) \in Nat
  BY FS_CardinalityType
<1>2. s \in [1..Cardinality(F) -> F]
  BY DEF SortedByTime
<1>3. s \in Seq(F) /\ Len(s) = Cardinality(F)
  BY <1>1, <1>2
<1> QED
  BY <1>1, <1>2, <1>3 DEF SortedByTime, Prefix

(* An interval of a list without repetitions has as many elements as       *)
(* indices.                                                                *)
LEMMA BetweenCardinality ==
  ASSUME NEW s, NEW a \in Nat, NEW b \in Nat, a =< b,
         \A i, j \in a..b : i < j => s[i] # s[j]
  PROVE  /\ IsFiniteSet(Between(s, a, b))
         /\ Cardinality(Between(s, a, b)) = b - a + 1
<1> DEFINE g == [k \in a..b |-> s[k]]
<1>1. g \in Bijection(a..b, Between(s, a, b))
  BY DEF Bijection, Injection, Surjection, IsInjective, Between
<1>2. IsFiniteSet(a..b) /\ Cardinality(a..b) = b - a + 1
  BY FS_Interval
<1> QED
  BY <1>1, <1>2, FS_Bijection DEF ExistsBijection

LEMMA QualifyingSubset ==
  ASSUME NEW r, NEW F
  PROVE  QualifyingFailures(r, F) \subseteq F
BY DEF QualifyingFailures, WindowFrom

(***************************************************************************)
(* One iteration of "for right in range(len(evs))" once "left" has caught  *)
(* up: looking at one more failure adds to what qualifies the failures     *)
(* between the pointers, if they are enough, and nothing else.             *)
(***************************************************************************)
LEMMA CountStep ==
  ASSUME NEW F, IsFiniteSet(F), \A l \in F : l.timestamp \in Nat,
         NEW s \in SortedByTime(F),
         NEW r, r.threshold_value \in Int, r.time_window \in Int,
         r.time_window > 0,
         NEW a \in Nat \ {0}, NEW b \in 1..Len(s), a =< b,
         \A k \in 1..(a - 1) : s[b].timestamp - s[k].timestamp > r.time_window,
         s[b].timestamp - s[a].timestamp =< r.time_window
  PROVE  QualifyingFailures(r, Prefix(s, b)) =
           QualifyingFailures(r, Prefix(s, b - 1)) \cup
             (IF b - a + 1 >= r.threshold_value THEN Between(s, a, b) ELSE {})
<1> DEFINE P == Prefix(s, b - 1)
           Q == Prefix(s, b)
           W(f, S) == WindowFrom(f, S, r.time_window)
           T == r.threshold_value
           B == Between(s, a, b)
<1>1. /\ Len(s) \in Nat
      /\ s \in [1..Len(s) -> F]
      /\ \A i, j \in 1..Len(s) : i < j => s[i] # s[j]
      /\ \A i, j \in 1..Len(s) : i < j => s[i].timestamp =< s[j].timestamp
  BY SortedIsSequence
<1>2. /\ Q \subseteq F /\ P \subseteq F /\ B \subseteq Q /\ Q = P \cup {s[b]}
  BY <1>1 DEF Prefix, Between
<1>3. \A i, j \in 1..Len(s) : i =< j => s[i].timestamp =< s[j].timestamp
  BY <1>1
<1>4. \A k \in 1..Len(s) : s[k].timestamp \in Nat
  BY <1>1
<1>5. IsFiniteSet(B) /\ Cardinality(B) = b - a + 1
  <2>1. b \in Nat /\ \A i, j \in a..b : i < j => s[i] # s[j]
    BY <1>1
  <2> QED
    BY <2>1, BetweenCardinality
<1>6. IsFiniteSet(Q) /\ IsFiniteSet(P)
  BY <1>2, FS_Subset
<1>7. \A f, S : W(f, S) \subseteq S
  BY DEF WindowFrom
<1>8. ASSUME NEW x \in QualifyingFailures(r, P)
      PROVE  x \in QualifyingFailures(r, Q)
  <2>1. PICK f \in P : x \in W(f, P) /\ Cardinality(W(f, P)) >= T
    BY <1>8 DEF QualifyingFailures
  <2>2. W(f, P) \subseteq W(f, Q)
    BY <1>2 DEF WindowFrom
  <2>3. IsFiniteSet(W(f, Q))
    BY <1>6, <1>7, FS_Subset
  <2>4. /\ Cardinality(W(f, P)) =< Cardinality(W(f, Q))
        /\ Cardinality(W(f, P)) \in Nat /\ Cardinality(W(f, Q)) \in Nat
    BY <2>2, <2>3, FS_Subset, FS_CardinalityType
  <2>5. Cardinality(W(f, Q)) >= T
    BY <2>1, <2>4
  <2>6. f \in Q /\ x \in W(f, Q)
    BY <2>1, <2>2, <1>2
  <2> QED
    BY <2>5, <2>6 DEF QualifyingFailures
<1>9. ASSUME b - a + 1 >= T, NEW x \in B
       PROVE  x \in QualifyingFailures(r, Q)
  <2>1. s[a] \in Q
    BY <1>1 DEF Prefix
  <2>2. B \subseteq W(s[a], Q)
    <3>1. SUFFICES ASSUME NEW k \in a..b
                   PROVE  s[k] \in W(s[a], Q)
      BY DEF Between
    <3>2. k \in 1..Len(s) /\ a \in 1..Len(s) /\ a =< k /\ k =< b
      BY <1>1
    <3>3. s[a].timestamp =< s[k].timestamp /\ s[k].timestamp =< s[b].timestamp
      BY <3>2, <1>3
    <3>4. s[k] \in Q
      BY <1>2 DEF Between
    <3> QED
      BY <3>2, <3>3, <3>4, <1>4 DEF WindowFrom
  <2>3. IsFiniteSet(W(s[a], Q))
    BY <1>6, <1>7, FS_Subset
  <2>4. Cardinality(W(s[a], Q)) \in Nat /\ Cardinality(W(s[a], Q)) >= b - a + 1
    BY <2>2, <2>3, <1>5, FS_Subset, FS_CardinalityType
  <2>5. Cardinality(W(s[a], Q)) >= T
    BY <2>4, <1>9, <1>1
  <2> QED
    BY <2>1, <2>2, <2>5, <1>9 DEF QualifyingFailures
<1>10. ASSUME NEW x \in QualifyingFailures(r, Q)
       PROVE  \/ x \in QualifyingFailures(r, P)
              \/ b - a + 1 >= T /\ x \in B
  <2>1. PICK f \in Q : x \in W(f, Q) /\ Cardinality(W(f, Q)) >= T
    BY <1>10 DEF QualifyingFailures
  <2>2. CASE s[b] \notin W(f, Q)
    <3>1. W(f, Q) = W(f, P)
      BY <2>2, <1>2 DEF WindowFrom
    <3>2. f \in P
      <4>1. f.timestamp \in Nat
        BY <1>2
      <4>2. f \in W(f, Q)
        BY <4>1 DEF WindowFrom
      <4> QED
        BY <4>2, <3>1, <1>7
    <3> QED
      BY <2>1, <3>1, <3>2 DEF QualifyingFailures
  <2>3. CASE s[b] \in W(f, Q)
    <3>1. W(f, Q) \subseteq B
      <4>1. SUFFICES ASSUME NEW k \in 1..b, s[k] \in W(f, Q)
                     PROVE  k \in a..b
        BY <1>7 DEF Between, Prefix
      <4>2. /\ f.timestamp =< s[k].timestamp
            /\ s[b].timestamp - f.timestamp =< r.time_window
        BY <2>3, <4>1 DEF WindowFrom
      <4>3. f.timestamp \in Nat /\ s[k].timestamp \in Nat /\ s[b].timestamp \in Nat
        BY <1>1, <1>2, <1>4
      <4>4. ~(s[b].timestamp - s[k].timestamp > r.time_window)
        BY <4>2, <4>3
      <4> QED
        BY <4>4
    <3>2. Cardinality(W(f, Q)) \in Nat /\ Cardinality(W(f, Q)) =< b - a + 1
      BY <3>1, <1>5, FS_Subset, FS_CardinalityType
    <3> QED
      BY <3>1, <3>2, <2>1, <1>1
  <2> QED
    BY <2>2, <2>3
<1> QED
  BY <1>8, <1>9, <1>10

----------------------------------------------------------------------------
(***************************************************************************)
(* The inductive invariant.                                                *)
(***************************************************************************)
Inputs == rule \in Rules /\ batch \in Batches

IInv == Inputs /\ TypeOK /\ SweepInvariant

(* What the assumptions say of the rule and of the failures of an address. *)
LEMMA InputFacts ==
  ASSUME Inputs, NEW i
  PROVE  /\ rule.threshold_value \in Int
         /\ rule.time_window \in Int
         /\ IsFiniteSet(FailuresOf(i, batch))
         /\ \A l \in FailuresOf(i, batch) : l.timestamp \in Nat
         /\ DistinctIds(FailuresOf(i, batch))
<1>1. FailuresOf(i, batch) \subseteq batch
  BY DEF FailuresOf
<1>2. IsFiniteSet(batch) /\ \A l \in batch : l.timestamp \in Nat
  BY SweepAssumption DEF Inputs
<1>3. DistinctIds(batch)
  BY SweepAssumption DEF Inputs
<1>4. DistinctIds(FailuresOf(i, batch))
  BY <1>1, <1>3 DEF DistinctIds
<1> QED
  BY <1>1, <1>2, <1>4, FS_Subset, SweepAssumption DEF Inputs

LEMMA InitEstablishes == Init => IInv
<1> SUFFICES ASSUME Init PROVE IInv
  OBVIOUS
<1>1. Inputs
  BY DEF Init, Inputs
<1>2. TypeOK
  BY DEF Init, TypeOK
<1>3. SweepInvariant
  <2>1. PointerInvariant
    BY DEF Init, PointerInvariant
  <2>2. ResultSoFar
    BY DEF Init, ResultSoFar
  <2> QED
    BY <2>1, <2>2 DEF SweepInvariant
<1> QED
  BY <1>1, <1>2, <1>3 DEF IInv

LEMMA NextIpPreserves == IInv /\ NextIp => IInv'
<1> SUFFICES ASSUME IInv, NextIp PROVE IInv'
  OBVIOUS
<1>1. Inputs'
  BY DEF IInv, Inputs, NextIp, inputs
<1>2. PICK i \in todo : ip' = i /\ evs' \in SortedByTime(FailuresOf(i, batch))
  BY DEF NextIp
<1>3. Len(evs') \in Nat
  BY <1>2, InputFacts, SortedIsSequence DEF IInv
<1>4. TypeOK'
  BY <1>2, <1>3 DEF IInv, TypeOK, NextIp, inputs
<1>5. PointerInvariant'
  <2>1. Seen' = {}
    BY DEF NextIp, Seen
  <2>2. QualifyingFailures(rule, {}) = {}
    BY DEF QualifyingFailures
  <2> QED
    BY <2>1, <2>2 DEF PointerInvariant, NextIp, inputs
<1>6. ResultSoFar'
  BY DEF IInv, SweepInvariant, ResultSoFar, NextIp, inputs
<1> QED
  BY <1>1, <1>4, <1>5, <1>6 DEF IInv, SweepInvariant

(* In the middle of a sweep: the list is in order and the pointers in it.  *)
LEMMA SweepFacts ==
  ASSUME IInv, pc = "sweep"
  PROVE  /\ BruteForceEnabled(rule)
         /\ evs \in SortedByTime(FailuresOf(ip, batch))
         /\ Len(evs) \in Nat
         /\ evs \in [1..Len(evs) -> FailuresOf(ip, batch)]
         /\ Prefix(evs, Len(evs)) = FailuresOf(ip, batch)
         /\ \A k \in 1..Len(evs) : evs[k].timestamp \in Nat
         /\ \A i, j \in 1..Len(evs) : i =< j => evs[i].timestamp =< evs[j].timestamp
         /\ left \in Nat \ {0} /\ right \in Nat \ {0}
         /\ left =< right /\ right =< Len(evs) + 1
<1>1. /\ evs \in SortedByTime(FailuresOf(ip, batch))
      /\ left \in Nat \ {0} /\ right \in Nat \ {0}
      /\ left =< right /\ right =< Len(evs) + 1
  BY DEF IInv, TypeOK
<1>2. BruteForceEnabled(rule)
  BY DEF IInv, SweepInvariant, ResultSoFar
<1>3. /\ IsFiniteSet(FailuresOf(ip, batch))
      /\ \A l \in FailuresOf(ip, batch) : l.timestamp \in Nat
  BY InputFacts DEF IInv
<1>4. /\ Len(evs) \in Nat
      /\ Len(evs) = Cardinality(FailuresOf(ip, batch))
      /\ evs \in [1..Len(evs) -> FailuresOf(ip, batch)]
      /\ Prefix(evs, Len(evs)) = FailuresOf(ip, batch)
      /\ \A i, j \in 1..Len(evs) : i < j => evs[i].timestamp =< evs[j].timestamp
  BY <1>1, <1>3, SortedIsSequence
<1>5. \A k \in 1..Len(evs) : evs[k].timestamp \in Nat
  BY <1>3, <1>4
<1>6. \A i, j \in 1..Len(evs) : i =< j => evs[i].timestamp =< evs[j].timestamp
  BY <1>4, <1>5
<1> QED
  BY <1>1, <1>2, <1>4, <1>5, <1>6

LEMMA ShrinkPreserves == IInv /\ Shrink => IInv'
<1> SUFFICES ASSUME IInv, Shrink PROVE IInv'
  OBVIOUS
<1> USE DEF Shrink, inputs
<1>1. rule.time_window \in Int /\ rule.time_window > 0
  BY SweepFacts, InputFacts DEF BruteForceEnabled, IInv
<1>2. left # right
  <2>1. SUFFICES ASSUME left = right PROVE FALSE
    OBVIOUS
  <2>2. evs[right].timestamp \in Nat
    BY SweepFacts
  <2> QED
    BY <1>1, <2>1, <2>2 DEF TooWide
<1>3. TypeOK'
  BY <1>2, SweepFacts DEF IInv, TypeOK
<1>4. PointerInvariant'
  <2>1. Seen' = Seen
    BY DEF Seen
  <2>2. ASSUME NEW k \in 1..(left' - 1)
        PROVE  evs[right].timestamp - evs[k].timestamp > rule.time_window
    <3>1. CASE k = left
      BY <3>1 DEF TooWide
    <3>2. CASE k # left
      <4>1. k \in 1..(left - 1)
        BY <3>2, SweepFacts
      <4> QED
        BY <4>1 DEF IInv, SweepInvariant, PointerInvariant
    <3> QED
      BY <3>1, <3>2
  <2> QED
    BY <2>1, <2>2 DEF IInv, SweepInvariant, PointerInvariant
<1>5. Inputs' /\ ResultSoFar'
  BY DEF IInv, Inputs, SweepInvariant, ResultSoFar
<1> QED
  BY <1>3, <1>4, <1>5 DEF IInv, SweepInvariant

LEMMA CountPreserves == IInv /\ Count => IInv'
<1> SUFFICES ASSUME IInv, Count PROVE IInv'
  OBVIOUS
<1> USE DEF Count, inputs
<1>1. /\ rule.time_window \in Int /\ rule.time_window > 0
      /\ rule.threshold_value \in Int
      /\ IsFiniteSet(FailuresOf(ip, batch))
      /\ \A l \in FailuresOf(ip, batch) : l.timestamp \in Nat
  BY SweepFacts, InputFacts DEF BruteForceEnabled, IInv
<1>2. right \in 1..Len(evs)
  BY SweepFacts
<1>3. TypeOK'
  BY <1>2, SweepFacts DEF IInv, TypeOK
<1>4. \A k \in 1..(left - 1) :
        evs[right].timestamp - evs[k].timestamp > rule.time_window
  BY DEF IInv, SweepInvariant, PointerInvariant
<1>5. PointerInvariant'
  <2>1. ASSUME right' =< Len(evs), NEW k \in 1..(left - 1)
        PROVE  evs[right'].timestamp - evs[k].timestamp > rule.time_window
    <3>1. right + 1 \in 1..Len(evs) /\ k \in 1..Len(evs)
      BY <2>1, <1>2, SweepFacts
    <3>2. evs[right].timestamp =< evs[right + 1].timestamp
      BY <3>1, <1>2, SweepFacts
    <3>3. /\ evs[right].timestamp \in Nat /\ evs[right + 1].timestamp \in Nat
          /\ evs[k].timestamp \in Nat
      BY <3>1, <1>2, SweepFacts
    <3>4. evs[right].timestamp - evs[k].timestamp > rule.time_window
      BY <1>4
    <3>5. evs[right + 1].timestamp - evs[k].timestamp > rule.time_window
      BY <1>1, <3>2, <3>3, <3>4
    <3> QED
      BY <3>5
  <2>2. contributing' = {l.log_id : l \in QualifyingFailures(rule, Seen')}
    <3>1. Seen = Prefix(evs, right - 1) /\ Seen' = Prefix(evs, right)
      BY SweepFacts DEF Seen, Prefix
    <3>2. evs[right].timestamp - evs[left].timestamp =< rule.time_window
      <4>1. evs[right].timestamp \in Nat /\ evs[left].timestamp \in Nat
        BY SweepFacts
      <4> QED
        BY <4>1, <1>1 DEF TooWide
    <3>3. QualifyingFailures(rule, Seen') =
            QualifyingFailures(rule, Seen) \cup
              (IF right - left + 1 >= rule.threshold_value
               THEN Between(evs, left, right) ELSE {})
      <4>1. /\ evs \in SortedByTime(FailuresOf(ip, batch))
            /\ left \in Nat \ {0} /\ left =< right /\ right \in Nat
        BY <1>2, SweepFacts
      <4>2. QualifyingFailures(rule, Prefix(evs, right)) =
              QualifyingFailures(rule, Prefix(evs, right - 1)) \cup
                (IF right - left + 1 >= rule.threshold_value
                 THEN Between(evs, left, right) ELSE {})
        <5> HIDE DEF Count, inputs
        <5> QED
          BY <4>1, <3>2, <1>1, <1>2, <1>4, CountStep
      <4> QED
        BY <4>2, <3>1
    <3>4. contributing = {l.log_id : l \in QualifyingFailures(rule, Seen)}
      BY DEF IInv, SweepInvariant, PointerInvariant
    <3>5. CASE right - left + 1 >= rule.threshold_value
      <4>1. QualifyingFailures(rule, Seen') =
              QualifyingFailures(rule, Seen) \cup Between(evs, left, right)
        BY <3>3, <3>5
      <4>2. contributing' = contributing \cup {evs[k].log_id : k \in left..right}
        BY <3>5
      <4> QED
        BY <4>1, <4>2, <3>4 DEF Between
    <3>6. CASE ~(right - left + 1 >= rule.threshold_value)
      BY <3>3, <3>4, <3>6
    <3> QED
      BY <3>5, <3>6
  <2> QED
    BY <2>1, <2>2 DEF PointerInvariant
<1>6. Inputs' /\ ResultSoFar'
  BY DEF IInv, Inputs, SweepInvariant, ResultSoFar
<1> QED
  BY <1>3, <1>5, <1>6 DEF IInv, SweepInvariant

LEMMA EmitPreserves == IInv /\ Emit => IInv'
<1> SUFFICES ASSUME IInv, Emit PROVE IInv'
  OBVIOUS
<1> USE DEF Emit, inputs
<1> DEFINE F == FailuresOf(ip, batch)
           Q == QualifyingFailures(rule, F)
<1>1. Seen = F
  <2>1. right = Len(evs) + 1
    BY SweepFacts
  <2>2. Prefix(evs, Len(evs)) = F
    BY SweepFacts
  <2>3. right - 1 = Len(evs)
    BY <2>1, SweepFacts
  <2> QED
    BY <2>2, <2>3 DEF Seen, Prefix
<1>2. contributing = {l.log_id : l \in Q}
  BY <1>1 DEF IInv, SweepInvariant, PointerInvariant
<1>3. Hits = Q
  <2>1. F = {evs[k] : k \in 1..Len(evs)}
    BY SweepFacts DEF Prefix
  <2>2. Q \subseteq F
    BY QualifyingSubset
  <2>3. DistinctIds(F)
    BY InputFacts DEF IInv
  <2>4. Hits = {l \in F : l.log_id \in contributing}
    BY <2>1 DEF Hits
  <2>5. \A l \in F : l.log_id \in contributing <=> l \in Q
    BY <2>2, <2>3, <1>2 DEF DistinctIds
  <2> HIDE DEF F, Q
  <2> QED
    BY <2>2, <2>4, <2>5
<1>4. contributing # {} <=> Q # {}
  BY <1>2
<1>5. ip \in todo /\ todo \subseteq FailingIps(batch) /\ BruteForceEnabled(rule)
  BY SweepFacts DEF IInv, TypeOK
<1>6. ResultSoFar'
  <2> DEFINE D(i) == BruteForceDetection(rule, i,
                       QualifyingFailures(rule, FailuresOf(i, batch)))
             Found(S) == {j \in S : /\ BruteForceEnabled(rule)
                                    /\ QualifyingFailures(rule, FailuresOf(j, batch)) # {}}
  <2>1. out = {D(i) : i \in Found(FailingIps(batch) \ todo)}
    BY DEF IInv, SweepInvariant, ResultSoFar
  <2>2. FailingIps(batch) \ todo' = (FailingIps(batch) \ todo) \cup {ip}
    BY <1>5
  <2>3. Found(FailingIps(batch) \ todo') =
          Found(FailingIps(batch) \ todo) \cup (IF Q # {} THEN {ip} ELSE {})
    BY <2>2, <1>5
  <2>4. out' = out \cup (IF Q # {} THEN {D(ip)} ELSE {})
    <3>1. D(ip) = BruteForceDetection(rule, ip, Hits)
      BY <1>3
    <3>2. out' = IF Q # {} THEN out \cup {BruteForceDetection(rule, ip, Hits)} ELSE out
      BY <1>4
    <3> HIDE DEF D, Q
    <3> QED
      BY <3>1, <3>2
  <2> HIDE DEF D, Found
  <2>5. out' = {D(i) : i \in Found(FailingIps(batch) \ todo')}
    BY <2>1, <2>3, <2>4
  <2>6. pc' = "next" /\ BruteForceEnabled(rule)
    BY <1>5
  <2> QED
    BY <2>5, <2>6 DEF ResultSoFar, D, Found
<1>7. Inputs' /\ TypeOK' /\ PointerInvariant'
  BY DEF IInv, Inputs, TypeOK, PointerInvariant
<1> QED
  BY <1>6, <1>7 DEF IInv, SweepInvariant

LEMMA ReturnPreserves == IInv /\ Return => IInv'
BY DEF IInv, Inputs, TypeOK, SweepInvariant, PointerInvariant, ResultSoFar,
       Return, inputs

LEMMA StutterPreserves == IInv /\ UNCHANGED vars => IInv'
BY DEF IInv, Inputs, TypeOK, SweepInvariant, PointerInvariant, ResultSoFar,
       Seen, vars

(* The inductive invariant holds throughout every run of the detector.     *)
THEOREM SweepInductive == Spec => []IInv
<1>1. Init => IInv
  BY InitEstablishes
<1>2. IInv /\ [Next]_vars => IInv'
  BY NextIpPreserves, ShrinkPreserves, CountPreserves, EmitPreserves,
     ReturnPreserves, StutterPreserves DEF Next
<1> QED
  BY <1>1, <1>2, PTL DEF Spec

----------------------------------------------------------------------------
(***************************************************************************)
(* The results.                                                            *)
(***************************************************************************)

(* The pointers of detect_brute_force never leave the list, whatever the   *)
(* batch: evs[left] and evs[right] always exist.                           *)
THEOREM PointersInRange == Spec => []TypeOK
<1>1. IInv => TypeOK
  BY DEF IInv
<1> QED
  BY <1>1, SweepInductive, PTL

(* At every step of the sweep the window reaches from "left" to "right",   *)
(* and the failures collected are those of the windows seen so far.        *)
THEOREM SweepOnTrack == Spec => []SweepInvariant
<1>1. IInv => SweepInvariant
  BY DEF IInv
<1> QED
  BY <1>1, SweepInductive, PTL

(* For every rule and every finite batch of logs, detect_brute_force finds *)
(* the failures that some window with threshold failures holds, and makes  *)
(* of them one detection per address.                                      *)
THEOREM SweepComputesDetections == Spec => []ResultCorrect
<1>1. IInv => ResultCorrect
  BY DEF IInv, SweepInvariant, ResultSoFar, ResultCorrect, BruteForceDetections
<1> QED
  BY <1>1, SweepInductive, PTL

----------------------------------------------------------------------------
(***************************************************************************)
(* The other detectors look at one log at a time, brute_force counts them. *)
(***************************************************************************)

LEMMA QualifyingGrows ==
  ASSUME NEW r, r.threshold_value \in Int, NEW F, NEW G, IsFiniteSet(G), F \subseteq G
  PROVE  QualifyingFailures(r, F) \subseteq QualifyingFailures(r, G)
<1>1. ASSUME NEW f \in F,
             Cardinality(WindowFrom(f, F, r.time_window)) >= r.threshold_value
      PROVE  /\ WindowFrom(f, F, r.time_window) \subseteq WindowFrom(f, G, r.time_window)
             /\ Cardinality(WindowFrom(f, G, r.time_window)) >= r.threshold_value
  <2> DEFINE V == WindowFrom(f, F, r.time_window)
             W == WindowFrom(f, G, r.time_window)
  <2>1. V \subseteq W /\ W \subseteq G
    BY DEF WindowFrom
  <2>2. IsFiniteSet(W)
    BY <2>1, FS_Subset
  <2>3. IsFiniteSet(V) /\ Cardinality(V) =< Cardinality(W)
    BY <2>1, <2>2, FS_Subset
  <2>4. Cardinality(V) \in Nat /\ Cardinality(W) \in Nat
    BY <2>2, <2>3, FS_CardinalityType
  <2> QED
    BY <1>1, <2>1, <2>3, <2>4
<1> QED
  BY <1>1 DEF QualifyingFailures

(* More logs of an address can only make its burst larger.                 *)
LEMMA BurstOfAddress ==
  ASSUME NEW r, r.rule_type = "brute_force", r.threshold_value \in Int,
         NEW A, NEW B, IsFiniteSet(B), A \subseteq B,
         NEW d \in Detections(r, A)
  PROVE  \E e \in Detections(r, B) :
           /\ e.rule_id = d.rule_id /\ e.source_ip = d.source_ip /\ e.username = d.username
           /\ SubjectOf(e.dedup_key) = SubjectOf(d.dedup_key)
           /\ d.log_ids \subseteq e.log_ids
<1>1. \A S : Detections(r, S) = BruteForceDetections(r, S)
  BY DEF Detections
<1>2. PICK addr \in FailingIps(A) :
        /\ BruteForceEnabled(r)
        /\ QualifyingFailures(r, FailuresOf(addr, A)) # {}
        /\ d = BruteForceDetection(r, addr, QualifyingFailures(r, FailuresOf(addr, A)))
  BY <1>1 DEF BruteForceDetections
<1> DEFINE found == QualifyingFailures(r, FailuresOf(addr, A))
           more  == QualifyingFailures(r, FailuresOf(addr, B))
           e == BruteForceDetection(r, addr, more)
<1>3. found \subseteq more
  <2>1. FailuresOf(addr, A) \subseteq FailuresOf(addr, B) /\ FailuresOf(addr, B) \subseteq B
    BY DEF FailuresOf
  <2> QED
    BY <2>1, QualifyingGrows, FS_Subset
<1>4. e \in Detections(r, B)
  <2>1. addr \in FailingIps(B)
    BY DEF FailingIps
  <2> QED
    BY <1>1, <1>2, <1>3, <2>1 DEF BruteForceDetections
<1>5. d.log_ids \subseteq e.log_ids
  BY <1>2, <1>3 DEF BruteForceDetection
<1>6. /\ e.rule_id = d.rule_id /\ e.source_ip = d.source_ip /\ e.username = d.username
      /\ SubjectOf(e.dedup_key) = SubjectOf(d.dedup_key)
  BY <1>2 DEF BruteForceDetection, SubjectOf
<1> QED
  BY <1>4, <1>5, <1>6

(* Whoever is accused in a part of a batch of logs is accused in the whole *)
(* batch by the same rule, with that evidence and perhaps more: run_rules  *)
(* loses nothing when it gets more logs at once.                           *)
THEOREM MoreLogsFindMore ==
  ASSUME NEW rules, NEW A, NEW B, IsFiniteSet(B), A \subseteq B,
         \A r \in rules : r.rule_type = "brute_force" => r.threshold_value \in Int,
         NEW d \in RunRules(rules, A)
  PROVE  \E e \in RunRules(rules, B) :
           /\ e.rule_id = d.rule_id /\ e.source_ip = d.source_ip /\ e.username = d.username
           /\ d.log_ids \subseteq e.log_ids
<1>1. PICK r \in rules : d \in Detections(r, A)
  BY DEF RunRules
<1>2. Detections(r, B) \subseteq RunRules(rules, B)
  BY DEF RunRules
<1>3. CASE r.rule_type = "brute_force"
  BY <1>1, <1>2, <1>3, BurstOfAddress
<1>4. CASE r.rule_type = "off_hours_login"
  <2>1. \A S : Detections(r, S) = OffHoursDetections(r, S)
    BY <1>4 DEF Detections
  <2>2. d \in Detections(r, B)
    BY <1>1, <2>1 DEF OffHoursDetections
  <2> QED
    BY <1>2, <2>2
<1>5. CASE r.rule_type = "privilege_escalation"
  <2>1. \A S : Detections(r, S) = PrivilegeEscalationDetections(r, S)
    BY <1>5 DEF Detections
  <2>2. d \in Detections(r, B)
    BY <1>1, <2>1 DEF PrivilegeEscalationDetections
  <2> QED
    BY <1>2, <2>2
<1>6. CASE r.rule_type \notin {"brute_force", "off_hours_login", "privilege_escalation"}
  BY <1>1, <1>6 DEF Detections
<1> QED
  BY <1>3, <1>4, <1>5, <1>6


----------------------------------------------------------------------------
(***************************************************************************)
(* The tables that the detection cycles take from the engine.              *)
(***************************************************************************)

(* A detection names logs that its rule has been given.                    *)
LEMMA EvidenceInBatch ==
  ASSUME NEW r, NEW records, NEW d \in Detections(r, records)
  PROVE  d.log_ids \subseteq {l.log_id : l \in records}
<1>1. CASE r.rule_type = "brute_force"
  <2>1. PICK addr :
          d = BruteForceDetection(r, addr, QualifyingFailures(r, FailuresOf(addr, records)))
    BY <1>1 DEF Detections, BruteForceDetections
  <2>2. d.log_ids = {l.log_id : l \in QualifyingFailures(r, FailuresOf(addr, records))}
    BY <2>1 DEF BruteForceDetection
  <2>3. QualifyingFailures(r, FailuresOf(addr, records)) \subseteq records
    BY QualifyingSubset DEF FailuresOf
  <2> QED
    BY <2>2, <2>3
<1>2. CASE r.rule_type = "off_hours_login"
  <2>1. PICK l, key : l \in records /\ d = SingleLogDetection(r, l, key)
    BY <1>2 DEF Detections, OffHoursDetections
  <2> QED
    BY <2>1 DEF SingleLogDetection
<1>3. CASE r.rule_type = "privilege_escalation"
  <2>1. PICK l, key : l \in records /\ d = SingleLogDetection(r, l, key)
    BY <1>3 DEF Detections, PrivilegeEscalationDetections
  <2> QED
    BY <2>1 DEF SingleLogDetection
<1>4. CASE r.rule_type \notin {"brute_force", "off_hours_login", "privilege_escalation"}
  BY <1>4 DEF Detections
<1> QED
  BY <1>1, <1>2, <1>3, <1>4

LEMMA EvidenceOfBatch ==
  ASSUME LogsAndRules, NEW B \in SUBSET LogIds, NEW d \in DetectionsIn(B)
  PROVE  d.log_ids \subseteq B
<1>1. PICK r \in ActiveRules : d \in Detections(r, {RecordOf[id] : id \in B})
  BY DEF DetectionsIn, RunRules
<1>2. d.log_ids \subseteq {l.log_id : l \in {RecordOf[id] : id \in B}}
  BY <1>1, EvidenceInBatch
<1> QED
  BY <1>2 DEF LogsAndRules

(* The type of a rule and its id are in the keys of what it detects.       *)
LEMMA KeysOfTypes ==
  ASSUME NEW r, NEW records, NEW d \in Detections(r, records)
  PROVE  /\ r.rule_type \in {"brute_force", "off_hours_login", "privilege_escalation"}
         /\ d.dedup_key[2] = r.rule_id
         /\ d.dedup_key[1] = "brute_force" <=> r.rule_type = "brute_force"
<1>1. CASE r.rule_type = "brute_force"
  <2>1. PICK addr, hits : d = BruteForceDetection(r, addr, hits)
    BY <1>1 DEF Detections, BruteForceDetections
  <2> QED
    BY <1>1, <2>1 DEF BruteForceDetection
<1>2. CASE r.rule_type = "off_hours_login"
  <2>1. PICK l \in records :
          d = SingleLogDetection(r, l,
                <<"off_hours", r.rule_id, l.username, l.timestamp>>)
    BY <1>2 DEF Detections, OffHoursDetections
  <2> QED
    BY <1>2, <2>1 DEF SingleLogDetection
<1>3. CASE r.rule_type = "privilege_escalation"
  <2>1. PICK l \in records :
          d = SingleLogDetection(r, l, <<"priv_esc", r.rule_id, l.log_id>>)
    BY <1>3 DEF Detections, PrivilegeEscalationDetections
  <2> QED
    BY <1>3, <2>1 DEF SingleLogDetection
<1>4. CASE r.rule_type \notin {"brute_force", "off_hours_login", "privilege_escalation"}
  BY <1>4 DEF Detections
<1> QED
  BY <1>1, <1>2, <1>3, <1>4

(* A brute force alert has one detection behind it: of its rule, as rules  *)
(* have their own ids, and of its address.                                 *)
LEMMA OneBurstPerKey ==
  ASSUME NEW rules, \A r, s \in rules : r.rule_id = s.rule_id => r = s,
         NEW records, NEW d \in RunRules(rules, records), NEW e \in RunRules(rules, records),
         d.dedup_key = e.dedup_key, d.dedup_key[1] = "brute_force"
  PROVE  d = e
<1>1. PICK r \in rules : d \in Detections(r, records)
  BY DEF RunRules
<1>2. PICK s \in rules : e \in Detections(s, records)
  BY DEF RunRules
<1>3. r = s /\ r.rule_type = "brute_force"
  BY <1>1, <1>2, KeysOfTypes
<1>4. PICK i \in FailingIps(records) :
        d = BruteForceDetection(r, i, QualifyingFailures(r, FailuresOf(i, records)))
  BY <1>1, <1>3 DEF Detections, BruteForceDetections
<1>5. PICK j \in FailingIps(records) :
        e = BruteForceDetection(r, j, QualifyingFailures(r, FailuresOf(j, records)))
  BY <1>2, <1>3 DEF Detections, BruteForceDetections
<1>6. i = d.dedup_key[3] /\ j = e.dedup_key[3]
  BY <1>4, <1>5 DEF BruteForceDetection
<1> QED
  BY <1>4, <1>5, <1>6

(* In more logs the rules find more: whom they accuse in a part of a batch *)
(* they accuse in the batch, with all of that evidence.                    *)
LEMMA MoreInMore ==
  ASSUME LogsAndRules, NEW B \in SUBSET LogIds, NEW A \in SUBSET B,
         NEW k \in KeysOf(DetectionsIn(A))
  PROVE  \E j \in KeysOf(DetectionsIn(B)) :
           /\ SubjectOf(j) = SubjectOf(k)
           /\ EvidenceFor(k, DetectionsIn(A)) \subseteq EvidenceFor(j, DetectionsIn(B))
<1> DEFINE part == {RecordOf[id] : id \in A}
           whole == {RecordOf[id] : id \in B}
<1>1. part \subseteq whole /\ IsFiniteSet(whole)
  <2>1. [id \in B |-> RecordOf[id]] \in Surjection(B, whole)
    BY DEF Surjection
  <2> QED
    BY <2>1, FS_Subset, FS_Surjection DEF LogsAndRules
<1>2. /\ DetectionsIn(A) = RunRules(ActiveRules, part)
      /\ DetectionsIn(B) = RunRules(ActiveRules, whole)
  BY DEF DetectionsIn
<1> HIDE DEF part, whole
<1>3. PICK d \in RunRules(ActiveRules, part) : d.dedup_key = k
  BY <1>2 DEF KeysOf
<1>4. PICK r \in ActiveRules : d \in Detections(r, part)
  BY <1>3 DEF RunRules
<1>5. \A S : \A s \in ActiveRules : Detections(s, S) \subseteq RunRules(ActiveRules, S)
  BY DEF RunRules
<1>6. CASE r.rule_type = "brute_force"
  <2>1. PICK e \in Detections(r, whole) :
           SubjectOf(e.dedup_key) = SubjectOf(d.dedup_key) /\ d.log_ids \subseteq e.log_ids
    BY <1>1, <1>4, <1>6, BurstOfAddress DEF LogsAndRules
  <2>2. EvidenceFor(k, RunRules(ActiveRules, part)) = d.log_ids
    <3>1. k[1] = "brute_force"
      BY <1>3, <1>4, <1>6, KeysOfTypes
    <3>2. \A f \in RunRules(ActiveRules, part) : f.dedup_key = k => f = d
      BY <1>3, <3>1, OneBurstPerKey DEF LogsAndRules
    <3> QED
      BY <1>3, <3>2 DEF EvidenceFor
  <2>3. e \in RunRules(ActiveRules, whole)
    BY <2>1, <1>5
  <2>4. e.log_ids \subseteq EvidenceFor(e.dedup_key, RunRules(ActiveRules, whole))
    BY <2>3 DEF EvidenceFor
  <2>5. e.dedup_key \in KeysOf(RunRules(ActiveRules, whole))
    BY <2>3 DEF KeysOf
  <2> QED
    BY <1>2, <1>3, <2>1, <2>2, <2>4, <2>5
<1>7. CASE r.rule_type # "brute_force"
  <2>1. k[1] # "brute_force"
    BY <1>3, <1>4, <1>7, KeysOfTypes
  <2>2. ASSUME NEW f \in RunRules(ActiveRules, part), f.dedup_key = k
        PROVE  f \in RunRules(ActiveRules, whole)
    <3>1. PICK s \in ActiveRules : f \in Detections(s, part)
      BY DEF RunRules
    <3>2. s.rule_type \in {"off_hours_login", "privilege_escalation"}
      BY <2>1, <2>2, <3>1, KeysOfTypes
    <3>3. CASE s.rule_type = "off_hours_login"
      <4>1. Detections(s, part) \subseteq Detections(s, whole)
        BY <1>1, <3>3 DEF Detections, OffHoursDetections
      <4> QED
        BY <3>1, <4>1, <1>5
    <3>4. CASE s.rule_type = "privilege_escalation"
      <4>1. Detections(s, part) \subseteq Detections(s, whole)
        BY <1>1, <3>4 DEF Detections, PrivilegeEscalationDetections
      <4> QED
        BY <3>1, <4>1, <1>5
    <3> QED
      BY <3>2, <3>3, <3>4
  <2>3. EvidenceFor(k, RunRules(ActiveRules, part)) \subseteq EvidenceFor(k, RunRules(ActiveRules, whole))
    BY <2>2 DEF EvidenceFor
  <2>4. k \in KeysOf(RunRules(ActiveRules, whole))
    BY <1>3, <2>2 DEF KeysOf
  <2> QED
    BY <1>2, <2>3, <2>4
<1> QED
  BY <1>6, <1>7

(* A detection has its rule's severity.                                    *)
LEMMA DetectionsOfRule ==
  ASSUME NEW r, NEW records, NEW d \in Detections(r, records)
  PROVE  d.severity = r.severity
<1>1. CASE r.rule_type = "brute_force"
  <2>1. PICK addr, hits : d = BruteForceDetection(r, addr, hits)
    BY <1>1 DEF Detections, BruteForceDetections
  <2> QED
    BY <2>1 DEF BruteForceDetection
<1>2. CASE r.rule_type \in {"off_hours_login", "privilege_escalation"}
  <2>1. PICK l, key : l \in records /\ d = SingleLogDetection(r, l, key)
    BY <1>2 DEF Detections, OffHoursDetections, PrivilegeEscalationDetections
  <2> QED
    BY <2>1 DEF SingleLogDetection
<1>3. CASE r.rule_type \notin {"brute_force", "off_hours_login", "privilege_escalation"}
  BY <1>3 DEF Detections
<1> QED
  BY <1>1, <1>2, <1>3

(* Each rule makes finitely many detections of finitely many logs.         *)
LEMMA FinitelyMany ==
  ASSUME NEW r, NEW records, IsFiniteSet(records)
  PROVE  IsFiniteSet(Detections(r, records))
<1>1. CASE r.rule_type = "brute_force"
  <2> DEFINE hit == {i \in FailingIps(records) :
                       /\ BruteForceEnabled(r)
                       /\ QualifyingFailures(r, FailuresOf(i, records)) # {}}
             f == [i \in hit |-> BruteForceDetection(r, i,
                                   QualifyingFailures(r, FailuresOf(i, records)))]
             failing == {m \in records : IsFailedLogin(m)}
             ipOf == [m \in failing |-> m.source_ip]
  <2>1. IsFiniteSet(FailingIps(records))
    <3>1. IsFiniteSet(failing)
      BY FS_Subset
    <3>2. FailingIps(records) = {m.source_ip : m \in failing}
      BY DEF FailingIps
    <3> HIDE DEF failing
    <3>3. ipOf \in Surjection(failing, FailingIps(records))
      BY <3>2 DEF Surjection
    <3> QED
      BY <3>1, <3>3, FS_Surjection
  <2>2. IsFiniteSet(hit)
    BY <2>1, FS_Subset
  <2>3. Detections(r, records) = {f[i] : i \in hit}
    BY <1>1 DEF Detections, BruteForceDetections
  <2> HIDE DEF hit
  <2>4. f \in Surjection(hit, Detections(r, records))
    BY <2>3 DEF Surjection
  <2> QED
    BY <2>2, <2>4, FS_Surjection
<1>2. CASE r.rule_type = "off_hours_login"
  <2> DEFINE hit == {m \in records :
                       /\ m.source_system = "auth"
                       /\ m.event_type = "login"
                       /\ m.status = "success"
                       /\ IsOffHours(HourOf(m.timestamp), r.start_hour, r.end_hour)}
             f == [l \in hit |-> SingleLogDetection(r, l,
                                   <<"off_hours", r.rule_id, l.username, l.timestamp>>)]
  <2>1. IsFiniteSet(hit)
    BY FS_Subset
  <2>2. Detections(r, records) = {f[l] : l \in hit}
    BY <1>2 DEF Detections, OffHoursDetections
  <2> HIDE DEF hit
  <2>3. f \in Surjection(hit, Detections(r, records))
    BY <2>2 DEF Surjection
  <2> QED
    BY <2>1, <2>3, FS_Surjection
<1>3. CASE r.rule_type = "privilege_escalation"
  <2> DEFINE hit == {m \in records :
                       /\ m.source_system = "auth"
                       /\ m.phrases \cap r.keywords # {}}
             f == [l \in hit |-> SingleLogDetection(r, l,
                                   <<"priv_esc", r.rule_id, l.log_id>>)]
  <2>1. IsFiniteSet(hit)
    BY FS_Subset
  <2>2. Detections(r, records) = {f[l] : l \in hit}
    BY <1>3 DEF Detections, PrivilegeEscalationDetections
  <2> HIDE DEF hit
  <2>3. f \in Surjection(hit, Detections(r, records))
    BY <2>2 DEF Surjection
  <2> QED
    BY <2>1, <2>3, FS_Surjection
<1>4. CASE r.rule_type \notin {"brute_force", "off_hours_login", "privilege_escalation"}
  BY <1>4, FS_EmptySet DEF Detections
<1> QED
  BY <1>1, <1>2, <1>3, <1>4

LEMMA FiniteKeys ==
  ASSUME LogsAndRules
  PROVE  IsFiniteSet(AlertKeys)
<1>1. ASSUME NEW B \in SUBSET LogIds PROVE IsFiniteSet(KeysOf(DetectionsIn(B)))
  <2> DEFINE records == {RecordOf[id] : id \in B}
             made == [r \in ActiveRules |-> Detections(r, records)]
             each == {Detections(r, records) : r \in ActiveRules}
  <2>1. IsFiniteSet(records)
    <3>1. [id \in B |-> RecordOf[id]] \in Surjection(B, records)
      BY DEF Surjection
    <3> QED
      BY <3>1, FS_Subset, FS_Surjection DEF LogsAndRules
  <2>2. \A S \in each : IsFiniteSet(S)
    <3> HIDE DEF records
    <3> QED
      BY <2>1, FinitelyMany
  <2>3. IsFiniteSet(each)
    <3>1. made \in Surjection(ActiveRules, each)
      BY DEF Surjection
    <3> QED
      BY <3>1, FS_Surjection DEF LogsAndRules
  <2>4. DetectionsIn(B) = UNION each
    BY DEF DetectionsIn, RunRules
  <2> HIDE DEF each
  <2>5. IsFiniteSet(DetectionsIn(B))
    BY <2>2, <2>3, <2>4, FS_UNION
  <2>6. [d \in DetectionsIn(B) |-> d.dedup_key] \in Surjection(DetectionsIn(B), KeysOf(DetectionsIn(B)))
    BY DEF Surjection, KeysOf
  <2> QED
    BY <2>5, <2>6, FS_Surjection
<1> DEFINE all == {KeysOf(DetectionsIn(B)) : B \in SUBSET LogIds}
<1>2. IsFiniteSet(all)
  <2>1. IsFiniteSet(SUBSET LogIds)
    BY FS_SUBSET DEF LogsAndRules
  <2>2. [B \in SUBSET LogIds |-> KeysOf(DetectionsIn(B))] \in Surjection(SUBSET LogIds, all)
    BY DEF Surjection
  <2> QED
    BY <2>1, <2>2, FS_Surjection
<1>3. \A S \in all : IsFiniteSet(S)
  BY <1>1
<1>4. AlertKeys = UNION all
  BY DEF AlertKeys
<1> HIDE DEF all
<1> QED
  BY <1>2, <1>3, <1>4, FS_UNION

(* What detection cycles and the pipeline assume of the tables that they   *)
(* are given, the engine's tables have, whatever the active rules and the  *)
(* logs: a detection's evidence is in its batch, there are finitely many   *)
(* keys, and the rules find more in more logs.                             *)
THEOREM EngineFillsTables ==
  ASSUME LogsAndRules
  PROVE  /\ Tables!DetectionAssumption
         /\ IsFiniteSet(AlertKeys)
         /\ AlertKeys \subseteq DOMAIN SubjectFor
         /\ \A B \in SUBSET LogIds : \A A \in SUBSET B : \A k \in KeysFor[A] :
              \E j \in KeysFor[B] :
                /\ SubjectFor[j] = SubjectFor[k]
                /\ EvidenceIn[A][k] \subseteq EvidenceIn[B][j]
<1>1. \A B \in SUBSET LogIds : KeysFor[B] \subseteq AlertKeys /\ KeysFor[B] = KeysOf(DetectionsIn(B))
  BY DEF KeysFor, AlertKeys
<1>2. ASSUME NEW B \in SUBSET LogIds, NEW k \in AlertKeys
      PROVE  /\ EvidenceIn[B][k] = EvidenceFor(k, DetectionsIn(B))
             /\ EvidenceIn[B][k] \subseteq B
  <2>1. EvidenceIn[B][k] = EvidenceFor(k, DetectionsIn(B))
    BY DEF EvidenceIn
  <2>2. EvidenceFor(k, DetectionsIn(B)) \subseteq B
    BY EvidenceOfBatch DEF EvidenceFor
  <2> QED
    BY <2>1, <2>2
<1>3. Tables!DetectionAssumption
  <2>1. HighAlertKeys \subseteq AlertKeys
    BY DEF HighAlertKeys
  <2>2. KeysFor \in [SUBSET LogIds -> SUBSET AlertKeys]
    BY DEF KeysFor, AlertKeys
  <2>3. EvidenceIn \in [SUBSET LogIds -> [AlertKeys -> SUBSET LogIds]]
    <3>1. \A B \in SUBSET LogIds : \A k \in AlertKeys :
             EvidenceFor(k, DetectionsIn(B)) \in SUBSET LogIds
      BY <1>2
    <3> QED
      BY <3>1 DEF EvidenceIn
  <2> QED
    BY <1>1, <1>2, <2>1, <2>2, <2>3 DEF Tables!DetectionAssumption
<1>4. IsFiniteSet(AlertKeys)
  BY FiniteKeys
<1>5. ASSUME NEW B \in SUBSET LogIds, NEW A \in SUBSET B, NEW k \in KeysFor[A]
      PROVE  \E j \in KeysFor[B] : /\ SubjectFor[j] = SubjectFor[k]
                                   /\ EvidenceIn[A][k] \subseteq EvidenceIn[B][j]
  <2>1. A \in SUBSET LogIds /\ k \in AlertKeys
    BY <1>1
  <2>2. PICK j \in KeysOf(DetectionsIn(B)) :
          /\ SubjectOf(j) = SubjectOf(k)
          /\ EvidenceFor(k, DetectionsIn(A)) \subseteq EvidenceFor(j, DetectionsIn(B))
    BY <1>1, <2>1, MoreInMore
  <2>3. j \in AlertKeys /\ j \in KeysFor[B]
    BY <1>1, <2>2
  <2>4. SubjectFor[j] = SubjectFor[k]
    BY <2>1, <2>2, <2>3 DEF SubjectFor
  <2> QED
    BY <1>2, <2>1, <2>2, <2>3, <2>4
<1> QED
  BY <1>3, <1>4, <1>5 DEF SubjectFor

(* The severity of an alert is that of its rule, and so the key tells      *)
(* which alerts are to be escalated, in whatever batch they were found.    *)
THEOREM KeysTellSeverity ==
  ASSUME LogsAndRules, NEW B \in SUBSET LogIds, NEW d \in DetectionsIn(B)
  PROVE  d.dedup_key \in HighAlertKeys <=> d.severity \in HIGH_SEVERITIES
<1>1. PICK r \in ActiveRules : d \in Detections(r, {RecordOf[id] : id \in B})
  BY DEF DetectionsIn, RunRules
<1>2. d.dedup_key[2] = r.rule_id /\ d.severity = r.severity
  <2>1. d.dedup_key[2] = r.rule_id
    BY <1>1, KeysOfTypes
  <2>2. d.severity = r.severity
    BY <1>1, DetectionsOfRule
  <2> QED
    BY <2>1, <2>2
<1>3. d.dedup_key \in AlertKeys
  BY DEF AlertKeys, KeysOf
<1> QED
  BY <1>2, <1>3 DEF HighAlertKeys, LogsAndRules

----------------------------------------------------------------------------
(***************************************************************************)
(* The feed of build_dataset: arithmetic of times, and the times it draws. *)
(***************************************************************************)

LEMMA Division ==
  ASSUME NEW x \in Nat, NEW d \in Nat \ {0}
  PROVE  /\ x \div d \in Nat
         /\ (x \div d) * d =< x
         /\ x < (x \div d) * d + d
OBVIOUS

(* The quotient and the remainder are the only ones there are.             *)
LEMMA DivisionUnique ==
  ASSUME NEW q \in Nat, NEW d \in Nat \ {0}, NEW o \in 0..(d - 1)
  PROVE  (q * d + o) \div d = q /\ (q * d + o) % d = o
OBVIOUS

LEMMA Remainder ==
  ASSUME NEW x \in Nat, NEW d \in Nat \ {0}
  PROVE  /\ x % d \in 0..(d - 1)
         /\ x = (x \div d) * d + (x % d)
<1> DEFINE q == x \div d
           o == x - q * d
<1>1. q \in Nat /\ o \in 0..(d - 1) /\ x = q * d + o
  BY Division
<1> HIDE DEF q, o
<1>2. x % d = o /\ x \div d = q
  BY <1>1, DivisionUnique
<1> QED
  <2>1. x % d \in 0..(d - 1)
    BY <1>1, <1>2
  <2>2. x = (x \div d) * d + (x % d)
    BY <1>1, <1>2
  <2> QED
    BY <2>1, <2>2

(* The window of the run is at least a day long.                           *)
LEMMA Calendar ==
  /\ TicksPerHour \in Nat \ {0}
  /\ HoursPerDay \in Nat \ {0}
  /\ Day \in Nat \ {0}
  /\ Day = TicksPerHour * HoursPerDay
  /\ Start \in Nat /\ End \in Nat
  /\ End - Start >= Day
<1>1. Day \in Nat \ {0}
  BY CalendarAssumption DEF Day
<1>2. WindowHours * TicksPerHour >= HoursPerDay * TicksPerHour
  <2> DEFINE more == WindowHours - HoursPerDay
  <2>1. more \in Nat /\ WindowHours = HoursPerDay + more
    BY CalendarAssumption, FeedAssumption
  <2>2. (HoursPerDay + more) * TicksPerHour = HoursPerDay * TicksPerHour + more * TicksPerHour
    BY <2>1, CalendarAssumption
  <2>3. more * TicksPerHour \in Nat /\ HoursPerDay * TicksPerHour \in Nat
    BY <2>1, CalendarAssumption
  <2> QED
    BY <2>1, <2>2, <2>3
<1> QED
  BY <1>1, <1>2, CalendarAssumption, FeedAssumption DEF Day, End

(* random_business_time stays in the window: a day's shift brings back what*)
(* is before its start, and another what that carries past its end.        *)
LEMMA BusinessTimesInWindow == BusinessTimes \subseteq Start..(End - 1)
<1> SUFFICES ASSUME NEW k \in 0 .. (End - Start) \div Day - 1,
                    NEW h \in 0 .. HoursPerDay - 1,
                    NEW o \in 0 .. TicksPerHour - 1
             PROVE  IntoWindow(DayOf(Start + k * Day) * Day + h * TicksPerHour + o)
                      \in Start..(End - 1)
  BY DEF BusinessTimes
<1> DEFINE day == DayOf(Start + k * Day) * Day
           t == day + h * TicksPerHour + o
<1>1. k \in Nat /\ (k + 1) * Day =< End - Start
  <2>1. End - Start \in Nat
    BY Calendar
  <2>2. ((End - Start) \div Day) \in Nat /\ ((End - Start) \div Day) * Day =< End - Start
    BY <2>1, Division, Calendar
  <2>3. k + 1 =< (End - Start) \div Day /\ k \in Nat
    BY <2>2
  <2>4. (k + 1) * Day =< ((End - Start) \div Day) * Day
    BY <2>2, <2>3, Calendar
  <2> QED
    BY <2>2, <2>3, <2>4, Calendar
<1>2. k * Day \in Nat /\ (k + 1) * Day = k * Day + Day
  BY <1>1, Calendar
<1>3. day \in Nat /\ day =< Start + k * Day /\ Start + k * Day < day + Day
  <2> DEFINE x == Start + k * Day
  <2>1. x \in Nat
    BY <1>2, Calendar
  <2>2. DayOf(x) = x \div Day
    BY Calendar DEF DayOf
  <2> HIDE DEF x
  <2>3. DayOf(x) \in Nat /\ DayOf(x) * Day =< x /\ x < DayOf(x) * Day + Day
    BY <2>1, <2>2, Division, Calendar
  <2>4. DayOf(x) * Day \in Nat
    <3>1. \A q \in Nat : q * Day \in Nat
      BY Calendar
    <3> QED
      BY <2>3, <3>1
  <2> QED
    BY <2>3, <2>4 DEF x
<1>4. h * TicksPerHour + o \in 0..(Day - 1)
  <2>1. h * TicksPerHour =< (HoursPerDay - 1) * TicksPerHour
    BY Calendar
  <2>2. (HoursPerDay - 1) * TicksPerHour = Day - TicksPerHour
    BY Calendar
  <2>3. h * TicksPerHour \in Nat
    BY Calendar
  <2> QED
    BY <2>1, <2>2, <2>3, Calendar
<1> HIDE DEF day
<1>5. t \in Nat /\ t < End /\ Start - Day < t
  <2>1. t = day + (h * TicksPerHour + o)
    BY <1>3, <1>4, Calendar
  <2> QED
    BY <2>1, <1>1, <1>2, <1>3, <1>4, Calendar
<1> HIDE DEF t
<1>6. IntoWindow(t) \in Start..(End - 1)
  BY <1>5, Calendar DEF IntoWindow
<1> QED
  BY <1>6 DEF t, day

LEMMA LeastElement ==
  ASSUME NEW T, T \subseteq Nat, T # {}
  PROVE  Min(T) \in T /\ \A x \in T : Min(T) =< x
<1>1. PICK x \in T : \A y \in T : ~ (<<y, x>> \in OpToRel(<, Nat))
  BY NatLessThanWellFounded, WFMin
<1>2. \A y \in T : ~(y < x)
  BY <1>1 DEF OpToRel
<1>3. \A y \in T : x =< y
  BY <1>2
<1> QED
  BY <1>3 DEF Min

(* _pick_off_hour needs no fallback when an off-hour is preferred.         *)
LEMMA PreferredOffHour ==
  /\ OffHour \in 0..(HoursPerDay - 1)
  /\ IsOffHours(OffHour, OffHoursStart, OffHoursEnd)
<1> DEFINE off == {i \in DOMAIN OffHourPreference :
                     IsOffHours(OffHourPreference[i], OffHoursStart, OffHoursEnd)}
<1>1. off \subseteq Nat /\ off # {}
  BY FeedAssumption
<1>2. Min(off) \in off
  BY <1>1, LeastElement
<1>3. OffHour = OffHourPreference[Min(off)]
  BY <1>1 DEF OffHour
<1> HIDE DEF off
<1>4. /\ Min(off) \in DOMAIN OffHourPreference
      /\ IsOffHours(OffHourPreference[Min(off)], OffHoursStart, OffHoursEnd)
  BY <1>2 DEF off
<1>5. OffHourPreference[Min(off)] \in 0..(HoursPerDay - 1)
  <2> DEFINE hours == 0..(HoursPerDay - 1)
  <2>1. OffHourPreference \in Seq(hours)
    BY FeedAssumption
  <2> HIDE DEF hours
  <2>2. DOMAIN OffHourPreference = 1..Len(OffHourPreference)
    BY <2>1
  <2>3. OffHourPreference[Min(off)] \in hours
    BY <1>4, <2>1, <2>2, ElementOfSeq
  <2> QED
    BY <2>3 DEF hours
<1> QED
  BY <1>3, <1>4, <1>5

(* A window of a day has every hour of the day, so that                    *)
(* random_time_at_hour needs no fallback either.                           *)
LEMMA SomeFullHour ==
  ASSUME NEW hour \in 0..(HoursPerDay - 1)
  PROVE  FullHours(hour) # {}
<1> DEFINE p == Start \div TicksPerHour
           first == IF p * TicksPerHour = Start THEN p ELSE p + 1
           day == first \div HoursPerDay
           q == IF hour >= first % HoursPerDay
                THEN day * HoursPerDay + hour ELSE (day + 1) * HoursPerDay + hour
           t == q * TicksPerHour
<1>1. first \in Nat /\ Start =< first * TicksPerHour /\ first * TicksPerHour < Start + TicksPerHour
  <2>1. p \in Nat /\ p * TicksPerHour =< Start /\ Start < p * TicksPerHour + TicksPerHour
    BY Division, Calendar
  <2> HIDE DEF p
  <2>2. (p + 1) * TicksPerHour = p * TicksPerHour + TicksPerHour
    BY <2>1, Calendar
  <2> QED
    BY <2>1, <2>2, Calendar
<1> HIDE DEF first
<1>2. q \in Nat /\ q % HoursPerDay = hour /\ q - first \in 0..(HoursPerDay - 1)
  <2>1. day \in Nat /\ first % HoursPerDay \in 0..(HoursPerDay - 1)
    BY <1>1, Division, Remainder, Calendar
  <2>2. first = day * HoursPerDay + (first % HoursPerDay)
    BY <1>1, Remainder, Calendar
  <2> DEFINE m == first % HoursPerDay
  <2> HIDE DEF day, m
  <2>3. (day + 1) * HoursPerDay = day * HoursPerDay + HoursPerDay /\ day * HoursPerDay \in Nat
    BY <2>1, Calendar
  <2>4. \A n \in Nat : (n * HoursPerDay + hour) % HoursPerDay = hour
    BY DivisionUnique, Calendar
  <2>5. q % HoursPerDay = hour
    BY <2>1, <2>4
  <2> QED
    BY <2>1, <2>2, <2>3, <2>5, <1>1, Calendar DEF m
<1> HIDE DEF q
<1>3. t \in Nat /\ t \div TicksPerHour = q /\ t % TicksPerHour = 0
  <2>1. t \in Nat /\ t = q * TicksPerHour + 0
    BY <1>2, Calendar
  <2> QED
    BY <2>1, <1>2, DivisionUnique, Calendar
<1>4. t \in Start..(End - 1)
  <2> DEFINE more == q - first
  <2>1. more \in 0..(HoursPerDay - 1) /\ q = first + more
    BY <1>1, <1>2
  <2> HIDE DEF more
  <2>2. t = first * TicksPerHour + more * TicksPerHour
    BY <2>1, <1>1, Calendar
  <2>3. more * TicksPerHour \in Nat /\ more * TicksPerHour =< Day - TicksPerHour
    <3>1. more * TicksPerHour =< (HoursPerDay - 1) * TicksPerHour
      BY <2>1, Calendar
    <3>2. (HoursPerDay - 1) * TicksPerHour = Day - TicksPerHour
      BY Calendar
    <3> QED
      BY <2>1, <3>1, <3>2, Calendar
  <2> QED
    BY <1>1, <1>3, <2>2, <2>3, Calendar
<1> QED
  BY <1>2, <1>3, <1>4 DEF FullHours, HourOf

LEMMA TimesAtHourInHour ==
  ASSUME NEW hour \in 0..(HoursPerDay - 1), NEW dt \in TimesAtHour(hour)
  PROVE  dt \in Nat /\ HourOf(dt) = hour /\ dt \in Start..(End + TicksPerHour - 1)
<1>1. PICK t \in FullHours(hour), o \in 0..(TicksPerHour - 1) : dt = t + o
  BY SomeFullHour DEF TimesAtHour
<1>2. t \in Nat /\ t % TicksPerHour = 0 /\ HourOf(t) = hour
  BY Calendar DEF FullHours
<1>3. t = (t \div TicksPerHour) * TicksPerHour /\ (t \div TicksPerHour) \in Nat
  <2> DEFINE q == t \div TicksPerHour
  <2>1. t = q * TicksPerHour + (t % TicksPerHour)
    BY <1>2, Remainder, Calendar
  <2>2. q \in Nat
    BY <1>2, Division, Calendar
  <2> HIDE DEF q
  <2>3. q * TicksPerHour \in Nat
    BY <2>2, Calendar
  <2>4. t = q * TicksPerHour
    BY <1>2, <2>1, <2>3
  <2> QED
    BY <2>2, <2>4 DEF q
<1>4. (t + o) \div TicksPerHour = t \div TicksPerHour
  <2> DEFINE q == t \div TicksPerHour
  <2>1. q \in Nat /\ t = q * TicksPerHour
    BY <1>3
  <2> HIDE DEF q
  <2>2. (q * TicksPerHour + o) \div TicksPerHour = q
    BY <2>1, DivisionUnique, Calendar
  <2> QED
    BY <2>1, <2>2 DEF q
<1>5. t \in Start..(End - 1)
  BY DEF FullHours
<1>6. dt \in Start..(End + TicksPerHour - 1)
  BY <1>1, <1>5, Calendar
<1> QED
  BY <1>1, <1>2, <1>4, <1>6, Calendar DEF HourOf

LEMMA GreaterOfTwo ==
  ASSUME NEW a \in Int, NEW b \in Int
  PROVE  Max({a, b}) \in {a, b} /\ Max({a, b}) >= a /\ Max({a, b}) >= b
<1>1. \E x \in {a, b} : \A y \in {a, b} : x >= y
  <2>1. CASE a >= b
    BY <2>1
  <2>2. CASE ~(a >= b)
    BY <2>2
  <2> QED
    BY <2>1, <2>2
<1>2. Max({a, b}) \in {a, b} /\ \A y \in {a, b} : Max({a, b}) >= y
  BY <1>1 DEF Max
<1> QED
  BY <1>2

LEMMA LessOfTwo ==
  ASSUME NEW a \in Int, NEW b \in Int
  PROVE  Min({a, b}) \in {a, b} /\ Min({a, b}) =< a /\ Min({a, b}) =< b
<1>1. \E x \in {a, b} : \A y \in {a, b} : x =< y
  <2>1. CASE a =< b
    BY <2>1
  <2>2. CASE ~(a =< b)
    BY <2>2
  <2> QED
    BY <2>1, <2>2
<1>2. Min({a, b}) \in {a, b} /\ \A y \in {a, b} : Min({a, b}) =< y
  BY <1>1 DEF Min
<1> QED
  BY <1>2

LEMMA LongestDelay ==
  Max(FumbleDelays) \in Nat /\ \A delay \in FumbleDelays : delay =< Max(FumbleDelays)
<1>1. Max(FumbleDelays) \in FumbleDelays /\ \A delay \in FumbleDelays : Max(FumbleDelays) >= delay
  BY FeedAssumption DEF Max
<1> QED
  BY <1>1, FeedAssumption

(* No attempt is before the burst's start, or after its end by more than   *)
(* the jitter.                                                             *)
LEMMA OffsetsInBurst ==
  ASSUME NEW i \in 0..(Attempts - 1), NEW offset \in Offsets(i)
  PROVE  offset \in 0..(BurstWidth + Jitter)
<1> DEFINE steps == Max({Attempts - 1, 1})
           even == (BurstWidth * i) \div steps
<1>1. Attempts \in Nat \ {0} /\ BurstWidth \in Nat /\ Jitter \in Nat /\ i \in Nat
  BY FeedAssumption
<1>2. steps \in Nat \ {0} /\ i =< steps
  <2>1. Attempts - 1 \in Int /\ 1 \in Int
    BY <1>1
  <2>2. steps \in {Attempts - 1, 1} /\ steps >= Attempts - 1 /\ steps >= 1
    BY <2>1, GreaterOfTwo, Zenon
  <2> QED
    BY <1>1, <2>2
<1>3. offset \in Max({even - Jitter, 0})..(even + Jitter)
  BY DEF Offsets
<1> HIDE DEF steps
<1>4. BurstWidth * i \in Nat /\ BurstWidth * i =< BurstWidth * steps
  BY <1>1, <1>2
<1>5. even \in Nat /\ even * steps =< BurstWidth * i
  BY <1>2, <1>4, Division
<1> HIDE DEF even
<1>6. even =< BurstWidth
  <2> SUFFICES ASSUME even >= BurstWidth + 1 PROVE FALSE
    BY <1>1, <1>5
  <2>1. even * steps >= (BurstWidth + 1) * steps
    BY <1>1, <1>2, <1>5
  <2>2. (BurstWidth + 1) * steps = BurstWidth * steps + steps
    BY <1>1, <1>2
  <2>3. even * steps \in Nat /\ BurstWidth * steps \in Nat
    BY <1>1, <1>2, <1>5
  <2> QED
    BY <2>1, <2>2, <2>3, <1>2, <1>4, <1>5
<1>7. Max({even - Jitter, 0}) \in Int /\ Max({even - Jitter, 0}) >= 0
  <2> DEFINE early == even - Jitter
  <2>1. early \in Int /\ 0 \in Int
    BY <1>1, <1>5
  <2> HIDE DEF early
  <2>2. Max({early, 0}) \in {early, 0} /\ Max({early, 0}) >= 0
    BY <2>1, GreaterOfTwo
  <2> QED
    BY <2>1, <2>2 DEF early
<1> QED
  BY <1>1, <1>3, <1>5, <1>6, <1>7

NumSamples == Min({2, Cardinality(Keywords)})

(* What random.sample takes: two keywords, or as many as there are.        *)
LEMMA SamplesOfKeywords ==
  /\ NumSamples \in 0..2
  /\ \A kw \in Samples : kw \in [1..NumSamples -> Keywords]
<1>1. Cardinality(Keywords) \in Nat
  BY FeedAssumption, FS_CardinalityType
<1>2. NumSamples \in {2, Cardinality(Keywords)} /\ NumSamples =< 2
  BY <1>1, LessOfTwo DEF NumSamples
<1>3. NumSamples \in 0..2
  BY <1>1, <1>2
<1>4. \A kw \in Samples : kw \in [1..NumSamples -> Keywords]
  BY DEF NumSamples, Samples
<1> QED
  BY <1>3, <1>4

----------------------------------------------------------------------------
(***************************************************************************)
(* Events that are where WindowRespected wants them.                       *)
(***************************************************************************)

EventRecords ==
  [scenario : Scenarios \cup {"benign"}, timestamp : Nat, source_system : {"auth"},
   event_type : {"login", "logout", "sudo"}, status : {"success", "failure"},
   source_ip : {Attacker, Insider, None}, username : {"user"}, phrases : SUBSET Keywords]

LEMMA EventIsRecord ==
  ASSUME NEW scenario \in Scenarios \cup {"benign"}, NEW timestamp \in Nat,
         NEW kind \in {"login", "logout", "sudo"}, NEW addr \in {Attacker, Insider, None},
         NEW ok \in BOOLEAN, NEW phrases \in SUBSET Keywords
  PROVE  Event(scenario, timestamp, kind, addr, ok, phrases) \in EventRecords
BY DEF Event, EventRecords

(* The time that WindowRespected asks of an event.                         *)
Fitting ==
  {e \in EventRecords :
     CASE e.scenario = "off_hours_login" ->
            HourOf(e.timestamp) = OffHour /\ e.timestamp \in Start .. End + TicksPerHour - 1
       [] e.scenario = "benign" -> e.timestamp \in Start .. End + Max(FumbleDelays) - 1
       [] OTHER -> e.timestamp \in Start .. End}

LEMMA TimelyEvent ==
  ASSUME NEW scenario \in Scenarios \cup {"benign"}, scenario # "off_hours_login",
         NEW timestamp \in IF scenario = "benign" THEN Start .. End + Max(FumbleDelays) - 1
                           ELSE Start .. End,
         NEW kind \in {"login", "logout", "sudo"}, NEW addr \in {Attacker, Insider, None},
         NEW ok \in BOOLEAN, NEW phrases \in SUBSET Keywords
  PROVE  Event(scenario, timestamp, kind, addr, ok, phrases) \in Fitting
<1>1. timestamp \in Nat
  BY Calendar, LongestDelay
<1>2. Event(scenario, timestamp, kind, addr, ok, phrases) \in EventRecords
  BY <1>1, EventIsRecord
<1> QED
  BY <1>2 DEF Fitting, Event

----------------------------------------------------------------------------
(***************************************************************************)
(* The invariant of the events, and the steps that add some: the benign    *)
(* ones come first, then the burst, the login and the escalation.          *)
(***************************************************************************)

Timely ==
  /\ stage \in {"benign", "burst", "login", "escalation", "sort", "splice", "done"}
  /\ burst_start \in Nat
  /\ stage # "benign" => burst_start \in BurstStarts
  /\ events \in Seq(Fitting)

(* How many events there are at each stage.                                *)
Counted ==
  /\ stage = "benign" => Len(events) =< BenignEvents
  /\ stage = "burst" => Len(events) \in BenignEvents..(BenignEvents + Attempts)
  /\ stage = "login" => Len(events) = BenignEvents + Attempts + 1
  /\ stage = "escalation" => Len(events) = BenignEvents + Attempts + 2
  /\ stage \in {"sort", "splice", "done"} =>
       Len(events) = BenignEvents + Attempts + 3 + NumSamples

IsAttempt(e, from) ==
  /\ e.scenario = "brute_force"
  /\ e.event_type = "login"
  /\ e.status = "failure"
  /\ e.source_ip = Attacker
  /\ e.timestamp \in from..(from + BurstWidth + Jitter)

IsPlantedLogin(e) ==
  /\ e.scenario = "off_hours_login"
  /\ e.event_type = "login"
  /\ e.status = "success"

IsEscalation(e) ==
  /\ e.scenario = "privilege_escalation"
  /\ e.phrases # {}

(* Which of them are the scenarios' that the rules are to find.            *)
PlantedAt(i, e, from) ==
  /\ i \in (BenignEvents + 1)..(BenignEvents + Attempts) => IsAttempt(e, from)
  /\ i = BenignEvents + Attempts + 2 => IsPlantedLogin(e)
  /\ i > BenignEvents + Attempts + 3 => IsEscalation(e)

Planted ==
  \A i \in 1..Len(events) : PlantedAt(i, events[i], burst_start)

EventsInv == Timely /\ Counted /\ Planted

LEMMA Extended ==
  ASSUME NEW S, NEW s \in Seq(S), NEW more \in Seq(S)
  PROVE  /\ s \o more \in Seq(S)
         /\ Len(s \o more) = Len(s) + Len(more)
         /\ \A i \in 1..Len(s) : (s \o more)[i] = s[i]
         /\ \A i \in (Len(s) + 1)..(Len(s) + Len(more)) : (s \o more)[i] = more[i - Len(s)]
BY ConcatProperties

LEMMA ShortLists ==
  ASSUME NEW S, NEW x \in S, NEW y \in S
  PROVE  <<x>> \in Seq(S) /\ <<x, y>> \in Seq(S)
OBVIOUS

LEMMA AddBenignKeeps ==
  ASSUME EventsInv, AddBenign
  PROVE  EventsInv'
<1>1. PICK dt \in BusinessTimes, kind \in BenignKinds, delay \in FumbleDelays :
        LET made == CASE kind = "login"  -> <<Event("benign", dt, "login", Insider, TRUE, {})>>
                      [] kind = "fumble" -> <<Event("benign", dt, "login", Insider, FALSE, {}),
                                              Event("benign", dt + delay, "login", Insider, TRUE, {})>>
                      [] kind = "logout" -> <<Event("benign", dt, "logout", None, TRUE, {})>>
                      [] kind = "sudo"   -> <<Event("benign", dt, "sudo", None, TRUE, {})>>
        IN  events' = SubSeq(events \o made, 1,
                             IF Len(events \o made) < BenignEvents
                             THEN Len(events \o made) ELSE BenignEvents)
  BY DEF AddBenign
<1> DEFINE made == CASE kind = "login"  -> <<Event("benign", dt, "login", Insider, TRUE, {})>>
                     [] kind = "fumble" -> <<Event("benign", dt, "login", Insider, FALSE, {}),
                                             Event("benign", dt + delay, "login", Insider, TRUE, {})>>
                     [] kind = "logout" -> <<Event("benign", dt, "logout", None, TRUE, {})>>
                     [] kind = "sudo"   -> <<Event("benign", dt, "sudo", None, TRUE, {})>>
           n == IF Len(events \o made) < BenignEvents THEN Len(events \o made) ELSE BenignEvents
<1>2. events' = SubSeq(events \o made, 1, n)
  BY <1>1
<1>3. made \in Seq(Fitting)
  <2>1. /\ dt \in Start..(End + Max(FumbleDelays) - 1)
        /\ dt + delay \in Start..(End + Max(FumbleDelays) - 1)
    <3>1. dt \in Start..(End - 1)
      BY BusinessTimesInWindow
    <3>2. delay \in Nat /\ delay =< Max(FumbleDelays) /\ Max(FumbleDelays) \in Nat
      BY LongestDelay, FeedAssumption
    <3> QED
      BY <3>1, <3>2, Calendar
  <2>2. \A time \in {dt, dt + delay}, k \in {"login", "logout", "sudo"},
          addr \in {Attacker, Insider, None}, ok \in BOOLEAN :
          Event("benign", time, k, addr, ok, {}) \in Fitting
    BY <2>1, TimelyEvent DEF Scenarios
  <2>3. kind \in {"login", "fumble", "logout", "sudo"}
    BY FeedAssumption
  <2>4. CASE kind = "login"
    <3>1. Event("benign", dt, "login", Insider, TRUE, {}) \in Fitting
      BY <2>2
    <3>2. made = <<Event("benign", dt, "login", Insider, TRUE, {})>>
      BY <2>4
    <3> QED
      BY <3>1, <3>2, ShortLists
  <2>5. CASE kind = "fumble"
    <3>1. /\ Event("benign", dt, "login", Insider, FALSE, {}) \in Fitting
          /\ Event("benign", dt + delay, "login", Insider, TRUE, {}) \in Fitting
      BY <2>2
    <3>2. made = <<Event("benign", dt, "login", Insider, FALSE, {}),
                   Event("benign", dt + delay, "login", Insider, TRUE, {})>>
      BY <2>5
    <3> QED
      BY <3>1, <3>2, ShortLists
  <2>6. CASE kind = "logout"
    <3>1. Event("benign", dt, "logout", None, TRUE, {}) \in Fitting
      BY <2>2
    <3>2. made = <<Event("benign", dt, "logout", None, TRUE, {})>>
      BY <2>6
    <3> QED
      BY <3>1, <3>2, ShortLists
  <2>7. CASE kind = "sudo"
    <3>1. Event("benign", dt, "sudo", None, TRUE, {}) \in Fitting
      BY <2>2
    <3>2. made = <<Event("benign", dt, "sudo", None, TRUE, {})>>
      BY <2>7
    <3> QED
      BY <3>1, <3>2, ShortLists
  <2> QED
    BY <2>3, <2>4, <2>5, <2>6, <2>7
<1> HIDE DEF made
<1>4. stage = "benign" /\ stage' = "benign" /\ burst_start' = burst_start
  BY DEF AddBenign
<1>5. events \in Seq(Fitting) /\ BenignEvents \in Nat
  BY FeedAssumption DEF EventsInv, Timely
<1>6. events \o made \in Seq(Fitting)
  BY <1>3, <1>5, Extended
<1>7. n \in 0..Len(events \o made) /\ n =< BenignEvents
  BY <1>5, <1>6
<1> HIDE DEF n
<1>8. events' \in Seq(Fitting) /\ Len(events') = n
  BY <1>2, <1>6, <1>7, SubSeqProperties
<1>9. Timely'
  BY <1>4, <1>8 DEF EventsInv, Timely
<1>10. Counted' /\ Planted'
  BY <1>4, <1>5, <1>7, <1>8, FeedAssumption DEF Counted, Planted, PlantedAt
<1> QED
  BY <1>9, <1>10 DEF EventsInv

LEMMA StartBurstKeeps ==
  ASSUME EventsInv, StartBurst
  PROVE  EventsInv'
<1>1. /\ burst_start' \in BurstStarts
      /\ stage = "benign" /\ stage' = "burst"
      /\ events' = events /\ Len(events) = BenignEvents
  BY DEF StartBurst
<1>2. burst_start' \in Nat
  BY <1>1, FeedAssumption, Calendar DEF BurstStarts, RandomTimes
<1>3. Timely'
  BY <1>1, <1>2 DEF EventsInv, Timely, BurstStarts, RandomTimes
<1>4. Counted' /\ Planted'
  BY <1>1, FeedAssumption DEF Counted, Planted, PlantedAt
<1> QED
  BY <1>3, <1>4 DEF EventsInv

(* An event that is appended, with the others where they were.             *)
LEMMA OneMore ==
  ASSUME events \in Seq(Fitting), NEW e \in Fitting, events' = Append(events, e)
  PROVE  /\ events' \in Seq(Fitting)
         /\ Len(events) \in Nat
         /\ Len(events') = Len(events) + 1
         /\ \A i \in 1..Len(events) : events'[i] = events[i]
         /\ events'[Len(events) + 1] = e
BY AppendProperties

LEMMA PlantedOneMore ==
  ASSUME events \in Seq(Fitting), Planted, burst_start' = burst_start,
         NEW e \in Fitting, events' = Append(events, e),
         PlantedAt(Len(events) + 1, e, burst_start)
  PROVE  Planted'
<1> SUFFICES ASSUME NEW i \in 1..Len(events') PROVE PlantedAt(i, events'[i], burst_start)
  BY DEF Planted
<1>1. CASE i = Len(events) + 1
  BY <1>1, OneMore
<1>2. CASE i # Len(events) + 1
  <2>1. i \in 1..Len(events) /\ events'[i] = events[i]
    BY <1>2, OneMore
  <2> QED
    BY <2>1 DEF Planted
<1> QED
  BY <1>1, <1>2

LEMMA BurstTimes ==
  ASSUME burst_start \in BurstStarts, NEW offset \in 0..(BurstWidth + BurstMargin)
  PROVE  /\ burst_start + offset \in Start .. End
         /\ burst_start + offset \in Nat
<1>1. /\ BurstWidth \in Nat /\ BurstMargin \in Nat
      /\ BurstWidth + BurstMargin =< End - Start
  BY FeedAssumption
<1>2. burst_start \in Start..(End - (BurstWidth + BurstMargin))
  BY DEF BurstStarts, RandomTimes
<1> QED
  BY <1>1, <1>2, Calendar, LongestDelay

LEMMA AddAttemptKeeps ==
  ASSUME EventsInv, AddAttempt
  PROVE  EventsInv'
<1>1. /\ stage = "burst" /\ stage' = "burst" /\ burst_start' = burst_start
      /\ Len(events) < BenignEvents + Attempts
  BY DEF AddAttempt
<1>2. /\ BenignEvents \in Nat /\ Attempts \in Nat
      /\ BurstWidth \in Nat /\ Jitter \in Nat /\ BurstMargin \in Nat /\ Jitter =< BurstMargin
  BY FeedAssumption
<1>3. /\ events \in Seq(Fitting) /\ Len(events) \in Nat
      /\ burst_start \in BurstStarts /\ burst_start \in Nat
      /\ Len(events) >= BenignEvents
  BY <1>1 DEF EventsInv, Timely, Counted
<1>4. PICK offset \in Offsets(Len(events) - BenignEvents) :
        events' = Append(events, Event("brute_force", burst_start + offset, "login",
                                       Attacker, FALSE, {}))
  BY DEF AddAttempt
<1> DEFINE e == Event("brute_force", burst_start + offset, "login", Attacker, FALSE, {})
<1>5. offset \in 0..(BurstWidth + Jitter)
  BY <1>1, <1>2, <1>3, OffsetsInBurst
<1>6. burst_start + offset \in Start .. End
  <2>1. offset \in 0..(BurstWidth + BurstMargin)
    BY <1>2, <1>5
  <2> QED
    BY <1>3, <2>1, BurstTimes
<1>7. e \in Fitting
  BY <1>6, TimelyEvent DEF Scenarios
<1>8. IsAttempt(e, burst_start)
  BY <1>2, <1>3, <1>5 DEF IsAttempt, Event
<1> HIDE DEF e
<1>9. Timely'
  BY <1>1, <1>3, <1>4, <1>7, OneMore DEF e, Timely
<1>10. Counted'
  BY <1>1, <1>2, <1>3, <1>4, <1>7, OneMore DEF e, Counted
<1>11. Planted'
  <2>1. PlantedAt(Len(events) + 1, e, burst_start)
    BY <1>1, <1>2, <1>3, <1>8 DEF PlantedAt
  <2> QED
    BY <1>1, <1>4, <1>7, <2>1, PlantedOneMore DEF e, EventsInv, Timely
<1> QED
  BY <1>9, <1>10, <1>11 DEF EventsInv

LEMMA AddBreachKeeps ==
  ASSUME EventsInv, AddBreach
  PROVE  EventsInv'
<1>1. /\ stage = "burst" /\ stage' = "login" /\ burst_start' = burst_start
      /\ Len(events) = BenignEvents + Attempts
  BY DEF AddBreach
<1>2. BenignEvents \in Nat /\ Attempts \in Nat /\ BurstWidth \in Nat /\ BurstMargin \in Nat
  BY FeedAssumption
<1>3. events \in Seq(Fitting) /\ burst_start \in BurstStarts /\ burst_start \in Nat
  BY <1>1 DEF EventsInv, Timely
<1>4. PICK delay \in BreachDelays :
        events' = Append(events, Event("brute_force", burst_start + BurstWidth + delay, "login",
                                       Attacker, TRUE, {}))
  BY DEF AddBreach
<1> DEFINE e == Event("brute_force", burst_start + BurstWidth + delay, "login", Attacker, TRUE, {})
<1>5. BurstWidth + delay \in 0..(BurstWidth + BurstMargin)
  BY <1>2, FeedAssumption
<1>6. burst_start + BurstWidth + delay \in Start .. End
  <2>1. delay \in Int
    BY FeedAssumption
  <2>2. burst_start + (BurstWidth + delay) = burst_start + BurstWidth + delay
    BY <2>1, <1>2, <1>3
  <2> QED
    BY <1>3, <1>5, <2>2, BurstTimes
<1>7. e \in Fitting
  BY <1>6, TimelyEvent DEF Scenarios
<1> HIDE DEF e
<1>8. Timely' /\ Counted'
  <2>1. events' \in Seq(Fitting) /\ Len(events') = Len(events) + 1
    BY <1>3, <1>4, <1>7, OneMore DEF e
  <2>2. Timely'
    BY <1>1, <1>3, <2>1 DEF Timely
  <2> QED
    BY <1>1, <1>2, <2>1, <2>2 DEF Counted
<1>9. PlantedAt(Len(events) + 1, e, burst_start)
  BY <1>1, <1>2 DEF PlantedAt
<1> QED
  BY <1>1, <1>3, <1>4, <1>7, <1>8, <1>9, PlantedOneMore DEF e, EventsInv

LEMMA AddOffHoursLoginKeeps ==
  ASSUME EventsInv, AddOffHoursLogin
  PROVE  EventsInv'
<1>1. /\ stage = "login" /\ stage' = "escalation" /\ burst_start' = burst_start
      /\ Len(events) = BenignEvents + Attempts + 1
  BY DEF AddOffHoursLogin, EventsInv, Counted
<1>2. BenignEvents \in Nat /\ Attempts \in Nat
  BY FeedAssumption
<1>3. events \in Seq(Fitting) /\ burst_start \in BurstStarts /\ burst_start \in Nat
  BY <1>1 DEF EventsInv, Timely
<1>4. PICK dt \in TimesAtHour(OffHour) :
        events' = Append(events, Event("off_hours_login", dt, "login", Insider, TRUE, {}))
  BY DEF AddOffHoursLogin
<1> DEFINE e == Event("off_hours_login", dt, "login", Insider, TRUE, {})
<1>5. /\ dt \in Nat /\ HourOf(dt) = OffHour
      /\ dt \in Start..(End + TicksPerHour - 1)
  BY PreferredOffHour, TimesAtHourInHour
<1>6. e \in EventRecords
  BY <1>5, EventIsRecord DEF Scenarios
<1>7. e \in Fitting /\ IsPlantedLogin(e)
  BY <1>5, <1>6 DEF Fitting, Event, IsPlantedLogin
<1> HIDE DEF e
<1>8. Timely' /\ Counted'
  <2>1. events' \in Seq(Fitting) /\ Len(events') = Len(events) + 1
    BY <1>3, <1>4, <1>7, OneMore DEF e
  <2>2. Timely'
    BY <1>1, <1>3, <2>1 DEF Timely
  <2> QED
    BY <1>1, <1>2, <2>1, <2>2 DEF Counted
<1>9. PlantedAt(Len(events) + 1, e, burst_start)
  BY <1>1, <1>2, <1>7 DEF PlantedAt
<1> QED
  BY <1>1, <1>3, <1>4, <1>7, <1>8, <1>9, PlantedOneMore DEF e, EventsInv

LEMMA AddEscalationKeeps ==
  ASSUME EventsInv, AddEscalation
  PROVE  EventsInv'
<1>1. /\ stage = "escalation" /\ stage' = "sort" /\ burst_start' = burst_start
      /\ Len(events) = BenignEvents + Attempts + 2
  BY DEF AddEscalation, EventsInv, Counted
<1>2. BenignEvents \in Nat /\ Attempts \in Nat /\ SudoSpacing \in Nat /\ EscalationMargin \in Nat
  BY FeedAssumption
<1>3. events \in Seq(Fitting) /\ burst_start \in BurstStarts /\ burst_start \in Nat
  BY <1>1 DEF EventsInv, Timely
<1>4. PICK t0 \in RandomTimes(Start, End - EscalationMargin), kw \in Samples :
        \E delays \in [DOMAIN kw -> SudoDelays] :
          events' = events
            \o <<Event("privilege_escalation", t0, "login", Insider, TRUE, {})>>
            \o [i \in DOMAIN kw |-> Event("privilege_escalation",
                                          t0 + i * SudoSpacing + delays[i],
                                          "sudo", None, TRUE, {kw[i]})]
  BY DEF AddEscalation
<1>5. PICK delays \in [DOMAIN kw -> SudoDelays] :
        events' = events
          \o <<Event("privilege_escalation", t0, "login", Insider, TRUE, {})>>
          \o [i \in DOMAIN kw |-> Event("privilege_escalation",
                                        t0 + i * SudoSpacing + delays[i],
                                        "sudo", None, TRUE, {kw[i]})]
  BY <1>4
<1> DEFINE login == Event("privilege_escalation", t0, "login", Insider, TRUE, {})
           sudo == [i \in DOMAIN kw |-> Event("privilege_escalation",
                                              t0 + i * SudoSpacing + delays[i],
                                              "sudo", None, TRUE, {kw[i]})]
<1>6. kw \in [1..NumSamples -> Keywords] /\ NumSamples \in 0..2
  BY SamplesOfKeywords
<1>7. t0 \in Start..(End - EscalationMargin)
  BY DEF RandomTimes
<1>8. login \in Fitting
  <2>1. t0 \in Start .. End
    BY <1>2, <1>7, Calendar
  <2> QED
    BY <2>1, TimelyEvent DEF Scenarios
<1>9. ASSUME NEW i \in 1..NumSamples
      PROVE  sudo[i] \in Fitting /\ IsEscalation(sudo[i])
  <2>1. kw[i] \in Keywords /\ delays[i] \in SudoDelays
    BY <1>6
  <2>2. delays[i] \in Nat /\ 2 * SudoSpacing + delays[i] =< EscalationMargin
    BY <2>1, FeedAssumption
  <2>3. i \in {1, 2}
    BY <1>6
  <2>4. i * SudoSpacing \in Nat /\ i * SudoSpacing =< 2 * SudoSpacing
    BY <1>2, <2>3
  <2>5. t0 + i * SudoSpacing + delays[i] \in Start .. End
    BY <1>2, <1>7, <2>2, <2>4, Calendar
  <2> DEFINE e == Event("privilege_escalation", t0 + i * SudoSpacing + delays[i],
                        "sudo", None, TRUE, {kw[i]})
  <2>6. e \in Fitting
    BY <2>1, <2>5, TimelyEvent DEF Scenarios
  <2>7. IsEscalation(e)
    BY DEF IsEscalation, Event
  <2>8. sudo[i] = e
    BY <1>6
  <2> QED
    BY <2>6, <2>7, <2>8
<1>10. sudo \in Seq(Fitting) /\ Len(sudo) = NumSamples
  <2>1. DOMAIN sudo = 1..NumSamples
    BY <1>6
  <2> HIDE DEF sudo
  <2>2. sudo = [i \in 1..NumSamples |-> sudo[i]]
    BY <2>1 DEF sudo
  <2>3. sudo \in [1..NumSamples -> Fitting]
    BY <1>9, <2>2
  <2> QED
    BY <1>6, <2>3
<1> HIDE DEF login, sudo
<1> DEFINE first == events \o <<login>>
<1>11. first = Append(events, login)
  BY <1>3, <1>8, AppendIsConcat
<1>12. /\ first \in Seq(Fitting) /\ Len(first) = Len(events) + 1
       /\ \A i \in 1..Len(events) : first[i] = events[i]
  BY <1>3, <1>8, <1>11, AppendProperties
<1> HIDE DEF first
<1>13. events' = first \o sudo
  BY <1>5 DEF first, login, sudo
<1>14. /\ events' \in Seq(Fitting) /\ Len(events') = Len(first) + NumSamples
       /\ \A i \in 1..Len(first) : events'[i] = first[i]
       /\ \A i \in (Len(first) + 1)..(Len(first) + NumSamples) : events'[i] = sudo[i - Len(first)]
  BY <1>10, <1>12, <1>13, Extended
<1>15. Timely' /\ Counted'
  BY <1>1, <1>2, <1>3, <1>6, <1>12, <1>14 DEF Timely, Counted
<1>16. Planted'
  <2> SUFFICES ASSUME NEW i \in 1..Len(events') PROVE PlantedAt(i, events'[i], burst_start)
    BY <1>1 DEF Planted
  <2>1. CASE i \in 1..Len(events)
    BY <2>1, <1>12, <1>14 DEF EventsInv, Planted
  <2>2. CASE i = Len(events) + 1
    BY <2>2, <1>1, <1>2 DEF PlantedAt
  <2>3. CASE i > Len(events) + 1
    <3>1. i - Len(first) \in 1..NumSamples /\ events'[i] = sudo[i - Len(first)]
      BY <2>3, <1>1, <1>2, <1>6, <1>12, <1>14
    <3>2. IsEscalation(events'[i])
      BY <3>1, <1>9
    <3> QED
      BY <3>2, <2>3, <1>1, <1>2 DEF PlantedAt
  <2> QED
    BY <2>1, <2>2, <2>3, <1>1, <1>2
<1> QED
  BY <1>15, <1>16 DEF EventsInv

----------------------------------------------------------------------------
(***************************************************************************)
(* The sort: every event has one place, and every place one event.         *)
(***************************************************************************)

Predecessors(i) == {j \in DOMAIN events : Before(j, i)}

LEMMA EventsToSort ==
  ASSUME EventsInv
  PROVE  /\ Len(events) \in Nat
         /\ DOMAIN events = 1..Len(events)
         /\ \A i \in 1..Len(events) : events[i] \in Fitting /\ events[i].timestamp \in Nat
<1>1. events \in Seq(Fitting)
  BY DEF EventsInv, Timely
<1>2. \A e \in Fitting : e.timestamp \in Nat
  BY DEF Fitting, EventRecords
<1> QED
  BY <1>1, <1>2

(* Two events have different places, in the order in which they come.      *)
LEMMA PlacesInOrder ==
  ASSUME EventsInv, NEW i \in 1..Len(events), NEW j \in 1..Len(events), Before(i, j)
  PROVE  Place(i) \in Nat /\ Place(j) \in Nat /\ Place(i) < Place(j)
<1>1. IsFiniteSet(1..Len(events))
  BY EventsToSort, FS_Interval
<1>2. /\ IsFiniteSet(Predecessors(i)) /\ Cardinality(Predecessors(i)) \in Nat
      /\ IsFiniteSet(Predecessors(j)) /\ Cardinality(Predecessors(j)) \in Nat
  BY <1>1, EventsToSort, FS_Subset, FS_CardinalityType DEF Predecessors
<1>3. Predecessors(i) \subseteq Predecessors(j)
  BY EventsToSort DEF Predecessors, Before
<1>4. i \in Predecessors(j) /\ i \notin Predecessors(i)
  BY EventsToSort DEF Predecessors, Before
<1>5. Cardinality(Predecessors(i)) < Cardinality(Predecessors(j))
  BY <1>2, <1>3, <1>4, FS_Subset
<1> QED
  BY <1>2, <1>5 DEF Place, Predecessors

LEMMA PlacesApart ==
  ASSUME EventsInv
  PROVE  /\ \A i \in 1..Len(events) : Place(i) \in 1..Len(events)
         /\ \A i, j \in 1..Len(events) : Place(i) = Place(j) => i = j
         /\ \A k \in 1..Len(events) : \E i \in 1..Len(events) : Place(i) = k
<1> DEFINE D == 1..Len(events)
           place == [i \in D |-> Place(i)]
<1>1. IsFiniteSet(D) /\ Cardinality(D) = Len(events)
  <2> DEFINE n == Len(events)
  <2>1. n \in Nat /\ 1 \in Int
    BY EventsToSort
  <2> HIDE DEF n
  <2>2. IsFiniteSet(1..n) /\ Cardinality(1..n) = IF 1 > n THEN 0 ELSE n - 1 + 1
    BY <2>1, FS_Interval
  <2>3. Cardinality(1..n) = n
    BY <2>1, <2>2
  <2> QED
    BY <2>2, <2>3 DEF n
<1>2. ASSUME NEW i \in D PROVE Place(i) \in D
  <2>1. Predecessors(i) \subseteq D /\ i \notin Predecessors(i) /\ i \in D
    BY EventsToSort DEF Predecessors, Before
  <2>2. /\ Cardinality(Predecessors(i)) \in Nat
        /\ Cardinality(Predecessors(i)) < Len(events)
    BY <1>1, <2>1, FS_Subset, FS_CardinalityType
  <2> QED
    BY <2>2, EventsToSort DEF Place, Predecessors
<1>3. ASSUME NEW i \in D, NEW j \in D, Place(i) = Place(j) PROVE i = j
  <2>1. i # j => Before(i, j) \/ Before(j, i)
    BY EventsToSort DEF Before
  <2> QED
    BY <1>3, <2>1, PlacesInOrder
<1>4. place \in Bijection(D, {Place(i) : i \in D})
  BY <1>3 DEF Bijection, Injection, Surjection, IsInjective
<1>5. Cardinality({Place(i) : i \in D}) = Cardinality(D)
  BY <1>1, <1>4, FS_Bijection DEF ExistsBijection
<1>6. {Place(i) : i \in D} = D
  <2> DEFINE image == {Place(i) : i \in D}
  <2>1. image \subseteq D /\ Cardinality(image) = Cardinality(D)
    BY <1>2, <1>5
  <2> HIDE DEF image
  <2>2. IsFiniteSet(D)
    BY <1>1
  <2>3. image = D
    BY <2>1, <2>2, FS_Subset
  <2> QED
    BY <2>3 DEF image
<1> QED
  BY <1>2, <1>3, <1>6

(* Sorted has every event, at its place, and so the times do not fall.     *)
LEMMA SortedIsStable ==
  ASSUME EventsInv
  PROVE  /\ Sorted \in Seq(Fitting)
         /\ Len(Sorted) = Len(events)
         /\ \A i \in 1..Len(events) : Sorted[Place(i)] = events[i]
         /\ \A k, l \in 1..Len(events) : k < l => Sorted[k].timestamp =< Sorted[l].timestamp
<1> DEFINE D == 1..Len(events)
           At(k) == CHOOSE i \in DOMAIN events : Place(i) = k
<1>1. \A k \in D : At(k) \in D /\ Place(At(k)) = k
  BY PlacesApart, EventsToSort
<1>2. Sorted = [k \in D |-> events[At(k)]]
  BY EventsToSort DEF Sorted
<1> HIDE DEF At
<1>3. Sorted \in [D -> Fitting]
  BY <1>1, <1>2, EventsToSort
<1>4. Sorted \in Seq(Fitting) /\ Len(Sorted) = Len(events)
  BY <1>3, EventsToSort
<1>5. \A i \in D : Place(i) \in D /\ At(Place(i)) = i
  BY <1>1, PlacesApart
<1>6. \A i \in D : Sorted[Place(i)] = events[i]
  BY <1>2, <1>5
<1>7. ASSUME NEW k \in D, NEW l \in D, k < l
      PROVE  Sorted[k].timestamp =< Sorted[l].timestamp
  <2>1. ~Before(At(l), At(k))
    BY <1>1, <1>7, PlacesInOrder
  <2>2. events[At(k)].timestamp =< events[At(l)].timestamp
    BY <1>1, <2>1, EventsToSort DEF Before
  <2> QED
    BY <1>2, <2>2
<1> QED
  BY <1>4, <1>6, <1>7

----------------------------------------------------------------------------
(***************************************************************************)
(* The lines: where malformed ones are put in, the others stay in order.   *)
(***************************************************************************)

(* What is inserted at i moves up what was at i or after it.               *)
LEMMA Inserted ==
  ASSUME NEW S, NEW s \in Seq(S), NEW x \in S, NEW i \in 1..(Len(s) + 1)
  PROVE  /\ InsertAt(s, i, x) \in Seq(S)
         /\ Len(InsertAt(s, i, x)) = Len(s) + 1
         /\ \A k \in 1..Len(s) :
              InsertAt(s, i, x)[IF k < i THEN k ELSE k + 1] = s[k]
<1> DEFINE front == SubSeq(s, 1, i - 1)
           middle == front \o <<x>>
           back == SubSeq(s, i, Len(s))
<1>1. Len(s) \in Nat /\ i \in Nat /\ i >= 1 /\ \A k \in 1..Len(s) : s[k] \in S
  BY LenProperties
<1>2. /\ front \in Seq(S) /\ Len(front) = i - 1
      /\ \A k \in 1..(i - 1) : front[k] = s[k]
  <2>1. \A k \in 1..(i - 1) : s[k] \in S
    BY <1>1
  <2>2. /\ front \in Seq(S) /\ Len(front) = IF 1 =< i - 1 THEN (i - 1) - 1 + 1 ELSE 0
        /\ \A k \in 1..((i - 1) - 1 + 1) : front[k] = s[1 + k - 1]
    BY <1>1, <2>1, SubSeqProperties
  <2> HIDE DEF front
  <2> QED
    BY <1>1, <2>2
<1>3. /\ back \in Seq(S) /\ Len(back) = Len(s) - i + 1
      /\ \A k \in 1..(Len(s) - i + 1) : back[k] = s[i + k - 1]
  <2>1. \A k \in i..Len(s) : s[k] \in S
    BY <1>1
  <2>2. /\ back \in Seq(S) /\ Len(back) = IF i =< Len(s) THEN Len(s) - i + 1 ELSE 0
        /\ \A k \in 1..(Len(s) - i + 1) : back[k] = s[i + k - 1]
    BY <1>1, <2>1, SubSeqProperties
  <2> HIDE DEF back
  <2> QED
    BY <1>1, <2>2
<1> HIDE DEF front, back
<1>4. /\ middle \in Seq(S) /\ Len(middle) = i
      /\ \A k \in 1..(i - 1) : middle[k] = s[k]
  <2>1. <<x>> \in Seq(S) /\ Len(<<x>>) = 1
    OBVIOUS
  <2> DEFINE one == <<x>>
  <2> HIDE DEF one
  <2>2. /\ front \o one \in Seq(S) /\ Len(front \o one) = Len(front) + Len(one)
        /\ \A k \in 1..Len(front) : (front \o one)[k] = front[k]
    BY <1>2, <2>1, Extended DEF one
  <2> QED
    BY <1>1, <1>2, <2>1, <2>2 DEF one
<1> HIDE DEF middle
<1>5. InsertAt(s, i, x) = middle \o back
  BY DEF InsertAt, middle, front, back
<1>6. /\ middle \o back \in Seq(S)
      /\ Len(middle \o back) = Len(middle) + Len(back)
      /\ \A k \in 1..Len(middle) : (middle \o back)[k] = middle[k]
      /\ \A k \in (Len(middle) + 1)..(Len(middle) + Len(back)) :
           (middle \o back)[k] = back[k - Len(middle)]
  BY <1>3, <1>4, Extended
<1>7. ASSUME NEW k \in 1..Len(s)
      PROVE  (middle \o back)[IF k < i THEN k ELSE k + 1] = s[k]
  <2>1. CASE k < i
    BY <2>1, <1>1, <1>4, <1>6
  <2>2. CASE ~(k < i)
    <3>1. /\ k + 1 \in (Len(middle) + 1)..(Len(middle) + Len(back))
          /\ k + 1 - Len(middle) \in 1..(Len(s) - i + 1)
          /\ i + (k + 1 - Len(middle)) - 1 = k
      BY <2>2, <1>1, <1>3, <1>4
    <3>2. back[k + 1 - Len(middle)] = s[k]
      BY <3>1, <1>3
    <3> QED
      BY <2>2, <3>1, <3>2, <1>6
  <2> QED
    BY <2>1, <2>2
<1> QED
  BY <1>1, <1>3, <1>4, <1>5, <1>6, <1>7

----------------------------------------------------------------------------
(***************************************************************************)
(* The invariant of the feed.                                              *)
(***************************************************************************)

(* Where each event is among the lines: no two of them on the same.        *)
Placements ==
  {place \in [1..Len(events) -> 1..Len(items)] :
     /\ \A i, j \in 1..Len(events) : place[i] = place[j] => i = j
     /\ \A i \in 1..Len(events) : items[place[i]] = events[i]}

LinesInv ==
  /\ stage \in {"splice", "done"} =>
       /\ items \in Seq(Fitting \cup {Malformed})
       /\ Placements # {}
  /\ stage = "done" => manifest = [s \in Scenarios |-> LinesOf(s, items)]

FeedInv == EventsInv /\ LinesInv

LEMMA StartsWell == FeedInit => FeedInv
<1> SUFFICES ASSUME FeedInit PROVE FeedInv
  OBVIOUS
<1>1. events = <<>> /\ stage = "benign" /\ burst_start = Start
  BY DEF FeedInit
<1>2. events \in Seq(Fitting) /\ Len(events) = 0
  BY <1>1
<1>3. Timely
  BY <1>1, <1>2, FeedAssumption DEF Timely
<1>4. Counted /\ Planted
  BY <1>1, <1>2, FeedAssumption DEF Counted, Planted
<1> QED
  BY <1>1, <1>3, <1>4 DEF FeedInv, EventsInv, LinesInv

(* What the later steps, and a step that does nothing, leave as it is.     *)
LEMMA EventsStay ==
  ASSUME EventsInv, events' = events, burst_start' = burst_start,
         \/ stage' = stage
         \/ stage \in {"sort", "splice"} /\ stage' \in {"sort", "splice", "done"}
  PROVE  EventsInv'
<1>1. Timely'
  BY DEF EventsInv, Timely, BurstStarts, RandomTimes
<1>2. Counted' /\ Planted'
  BY DEF EventsInv, Counted, Planted, PlantedAt
<1> QED
  BY <1>1, <1>2 DEF EventsInv

LEMMA SortEventsKeeps ==
  ASSUME FeedInv, SortEvents
  PROVE  FeedInv'
<1>1. /\ stage = "sort" /\ stage' = "splice" /\ items' = Sorted
      /\ events' = events /\ burst_start' = burst_start
  BY DEF SortEvents
<1>2. EventsInv /\ EventsInv'
  BY <1>1, EventsStay DEF FeedInv
<1>3. Sorted \in Seq(Fitting) /\ Len(Sorted) = Len(events)
  BY <1>2, SortedIsStable
<1>4. items' \in Seq(Fitting \cup {Malformed})
  BY <1>1, <1>3, SeqMonotonic
<1> DEFINE place == [i \in 1..Len(events) |-> Place(i)]
<1>5. /\ \A i \in 1..Len(events) : place[i] \in 1..Len(items')
      /\ \A i, j \in 1..Len(events) : place[i] = place[j] => i = j
      /\ \A i \in 1..Len(events) : items'[place[i]] = events[i]
  BY <1>1, <1>2, <1>3, PlacesApart, SortedIsStable
<1>6. place \in [1..Len(events) -> 1..Len(items')]
  <2>1. \A i \in 1..Len(events) : Place(i) \in 1..Len(items')
    BY <1>5
  <2> QED
    BY <2>1
<1>7. place \in Placements'
  <2> HIDE DEF place
  <2> QED
    BY <1>1, <1>5, <1>6 DEF Placements
<1> QED
  BY <1>1, <1>2, <1>4, <1>7 DEF FeedInv, LinesInv

LEMMA InsertMalformedKeeps ==
  ASSUME FeedInv, InsertMalformed
  PROVE  FeedInv'
<1>1. /\ stage = "splice" /\ stage' = "splice"
      /\ events' = events /\ burst_start' = burst_start
  BY DEF InsertMalformed
<1>2. EventsInv /\ EventsInv' /\ Len(events) \in Nat
  BY <1>1, EventsStay, EventsToSort DEF FeedInv
<1>3. items \in Seq(Fitting \cup {Malformed}) /\ Placements # {}
  BY <1>1 DEF FeedInv, LinesInv
<1>4. PICK at \in 1..(Len(items) + 1) : items' = InsertAt(items, at, Malformed)
  BY DEF InsertMalformed
<1> DEFINE Moved(k) == IF k < at THEN k ELSE k + 1
<1>5. /\ items' \in Seq(Fitting \cup {Malformed})
      /\ Len(items') = Len(items) + 1 /\ Len(items) \in Nat
      /\ \A k \in 1..Len(items) : items'[Moved(k)] = items[k]
  <2> DEFINE S == Fitting \cup {Malformed}
  <2>1. items \in Seq(S) /\ Malformed \in S
    BY <1>3
  <2> HIDE DEF S
  <2>2. Len(items) \in Nat
    BY <2>1
  <2>3. /\ InsertAt(items, at, Malformed) \in Seq(S)
        /\ Len(InsertAt(items, at, Malformed)) = Len(items) + 1
        /\ \A k \in 1..Len(items) : InsertAt(items, at, Malformed)[Moved(k)] = items[k]
    BY <2>1, Inserted
  <2> QED
    BY <2>2, <2>3, <1>4 DEF S
<1>6. PICK before \in Placements : TRUE
  BY <1>3
<1>7. /\ \A i \in 1..Len(events) : before[i] \in 1..Len(items) /\ items[before[i]] = events[i]
      /\ \A i, j \in 1..Len(events) : before[i] = before[j] => i = j
  BY DEF Placements
<1> DEFINE place == [i \in 1..Len(events) |-> Moved(before[i])]
<1>8. \A i \in 1..Len(events) : Moved(before[i]) \in 1..Len(items')
  BY <1>5, <1>7
<1>9. place \in [1..Len(events) -> 1..Len(items')]
  BY <1>8
<1>10. /\ \A i, j \in 1..Len(events) : Moved(before[i]) = Moved(before[j]) => i = j
       /\ \A i \in 1..Len(events) : items'[Moved(before[i])] = events[i]
  <2>1. \A k, l \in 1..Len(items) : Moved(k) = Moved(l) => k = l
    BY <1>5
  <2> HIDE DEF Moved
  <2> QED
    BY <2>1, <1>5, <1>7
<1>11. place \in Placements'
  <2>1. \A i \in 1..Len(events) : place[i] = Moved(before[i])
    OBVIOUS
  <2> HIDE DEF place, Moved
  <2>2. /\ \A i, j \in 1..Len(events) : place[i] = place[j] => i = j
        /\ \A i \in 1..Len(events) : items'[place[i]] = events[i]
    BY <2>1, <1>10
  <2> QED
    BY <2>2, <1>1, <1>9 DEF Placements
<1> QED
  BY <1>1, <1>2, <1>5, <1>11 DEF FeedInv, LinesInv

LEMMA RenderKeeps ==
  ASSUME FeedInv, Render
  PROVE  FeedInv'
<1>1. /\ stage = "splice" /\ stage' = "done" /\ items' = items
      /\ events' = events /\ burst_start' = burst_start
      /\ manifest' = [s \in Scenarios |-> LinesOf(s, items)]
  BY DEF Render
<1>2. EventsInv'
  BY <1>1, EventsStay DEF FeedInv
<1>3. LinesInv'
  BY <1>1 DEF FeedInv, LinesInv, Placements, LinesOf
<1> QED
  BY <1>2, <1>3 DEF FeedInv

LEMMA EventsComing ==
  ASSUME FeedInv, stage \notin {"splice", "done"}, stage' \notin {"splice", "done"}, EventsInv'
  PROVE  FeedInv'
BY DEF FeedInv, LinesInv

LEMMA FeedStep == FeedInv /\ [FeedNext]_feedVars => FeedInv'
<1> SUFFICES ASSUME FeedInv, [FeedNext]_feedVars PROVE FeedInv'
  OBVIOUS
<1>0. EventsInv
  BY DEF FeedInv
<1>1. CASE AddBenign
  <2>1. stage = "benign" /\ stage' = "benign"
    BY <1>1 DEF AddBenign
  <2> QED
    BY <1>0, <1>1, <2>1, AddBenignKeeps, EventsComing
<1>2. CASE StartBurst
  <2>1. stage = "benign" /\ stage' = "burst"
    BY <1>2 DEF StartBurst
  <2> QED
    BY <1>0, <1>2, <2>1, StartBurstKeeps, EventsComing
<1>3. CASE AddAttempt
  <2>1. stage = "burst" /\ stage' = "burst"
    BY <1>3 DEF AddAttempt
  <2> QED
    BY <1>0, <1>3, <2>1, AddAttemptKeeps, EventsComing
<1>4. CASE AddBreach
  <2>1. stage = "burst" /\ stage' = "login"
    BY <1>4 DEF AddBreach
  <2> QED
    BY <1>0, <1>4, <2>1, AddBreachKeeps, EventsComing
<1>5. CASE AddOffHoursLogin
  <2>1. stage = "login" /\ stage' = "escalation"
    BY <1>5 DEF AddOffHoursLogin
  <2> QED
    BY <1>0, <1>5, <2>1, AddOffHoursLoginKeeps, EventsComing
<1>6. CASE AddEscalation
  <2>1. stage = "escalation" /\ stage' = "sort"
    BY <1>6 DEF AddEscalation
  <2> QED
    BY <1>0, <1>6, <2>1, AddEscalationKeeps, EventsComing
<1>7. CASE SortEvents
  BY <1>7, SortEventsKeeps
<1>8. CASE InsertMalformed
  BY <1>8, InsertMalformedKeeps
<1>9. CASE Render
  BY <1>9, RenderKeeps
<1>10. CASE UNCHANGED feedVars
  <2>1. /\ stage' = stage /\ burst_start' = burst_start /\ events' = events
        /\ items' = items /\ manifest' = manifest
    BY <1>10 DEF feedVars
  <2>2. EventsInv'
    BY <1>0, <2>1, EventsStay
  <2>3. LinesInv'
    BY <2>1 DEF FeedInv, LinesInv, Placements, LinesOf
  <2> QED
    BY <2>2, <2>3 DEF FeedInv
<1> QED
  BY <1>1, <1>2, <1>3, <1>4, <1>5, <1>6, <1>7, <1>8, <1>9, <1>10 DEF FeedNext

(* FeedInv is an inductive invariant of build_dataset.                     *)
THEOREM FeedInductive == FeedSpec => []FeedInv
<1>1. FeedInit => FeedInv
  BY StartsWell
<1>2. FeedInv /\ [FeedNext]_feedVars => FeedInv'
  BY FeedStep
<1> QED
  BY <1>1, <1>2, PTL DEF FeedSpec

LEMMA InvMeansWindow == FeedInv => WindowRespected
<1> SUFFICES ASSUME FeedInv, NEW i \in DOMAIN events
             PROVE  CASE events[i].scenario = "off_hours_login" ->
                           /\ HourOf(events[i].timestamp) = OffHour
                           /\ events[i].timestamp \in Start .. End + TicksPerHour - 1
                      [] events[i].scenario = "benign" ->
                           events[i].timestamp \in Start .. End + Max(FumbleDelays) - 1
                      [] OTHER -> events[i].timestamp \in Start .. End
  BY DEF WindowRespected
<1>1. EventsInv
  BY DEF FeedInv
<1>2. events[i] \in Fitting
  BY <1>1, EventsToSort
<1> QED
  BY <1>2 DEF Fitting

(* How far the events of every feed keep to the window: the attacks are    *)
(* from its start to its end, the benign events may be past the end by     *)
(* less than the longest time from a mistyped password to the login, and   *)
(* the login at an off-hour, in that hour, by less than an hour.           *)
THEOREM FeedInWindow == FeedSpec => []WindowRespected
<1>1. FeedInv => WindowRespected
  BY InvMeansWindow
<1> QED
  BY <1>1, FeedInductive, PTL

----------------------------------------------------------------------------
(***************************************************************************)
(* What the rules find in a feed.                                          *)
(***************************************************************************)

(* A finite set into which n numbers are mapped, no two of them to the     *)
(* same element, has n elements or more.                                   *)
LEMMA AsManyAs ==
  ASSUME NEW a \in Nat, NEW n \in Nat, NEW U, IsFiniteSet(U), NEW g,
         \A i \in (a + 1)..(a + n) : g[i] \in U,
         \A i, j \in (a + 1)..(a + n) : g[i] = g[j] => i = j
  PROVE  Cardinality(U) >= n
<1> DEFINE I == (a + 1)..(a + n)
           f == [i \in I |-> g[i]]
<1>1. IsFiniteSet(I) /\ Cardinality(I) = n
  <2>1. IsFiniteSet(I) /\ Cardinality(I) = IF a + 1 > a + n THEN 0 ELSE (a + n) - (a + 1) + 1
    BY FS_Interval
  <2> QED
    BY <2>1
<1> HIDE DEF I
<1>2. f \in Injection(I, U)
  BY DEF I, Injection, IsInjective
<1>3. Cardinality(I) =< Cardinality(U) /\ Cardinality(U) \in Nat
  BY <1>2, FS_Injection, FS_CardinalityType
<1> QED
  BY <1>1, <1>3

LEMMA FinishedFeed ==
  ASSUME FeedInv, stage = "done"
  PROVE  /\ EventsInv
         /\ Len(items) \in Nat /\ DOMAIN items = 1..Len(items)
         /\ \A k \in 1..Len(items) : items[k] \in Fitting \cup {Malformed}
         /\ Placements # {}
         /\ \A s \in Scenarios : manifest[s] = LinesOf(s, items) /\ IsFiniteSet(manifest[s])
         /\ IsFiniteSet(Logs)
<1>1. /\ EventsInv /\ Placements # {} /\ items \in Seq(Fitting \cup {Malformed})
      /\ manifest = [s \in Scenarios |-> LinesOf(s, items)]
  BY DEF FeedInv, LinesInv
<1>2. /\ Len(items) \in Nat /\ DOMAIN items = 1..Len(items)
      /\ \A k \in 1..Len(items) : items[k] \in Fitting \cup {Malformed}
  BY <1>1
<1>3. IsFiniteSet(1..Len(items))
  BY <1>2, FS_Interval
<1>4. \A s \in Scenarios : manifest[s] = LinesOf(s, items) /\ IsFiniteSet(manifest[s])
  <2>1. \A s \in Scenarios : LinesOf(s, items) \subseteq 1..Len(items)
    BY <1>2 DEF LinesOf
  <2>2. \A s \in Scenarios : IsFiniteSet(LinesOf(s, items))
    BY <1>3, <2>1, FS_Subset
  <2> QED
    BY <1>1, <2>2
<1>5. IsFiniteSet(Logs)
  <2> DEFINE rows == {k \in DOMAIN items : items[k] # Malformed}
             f == [k \in rows |-> LogOf(k)]
  <2>1. IsFiniteSet(rows)
    BY <1>2, <1>3, FS_Subset
  <2>2. f \in Surjection(rows, Logs)
    <3>1. Logs = {LogOf(k) : k \in rows}
      BY DEF Logs
    <3> HIDE DEF rows
    <3> QED
      BY <3>1 DEF Surjection
  <2> QED
    BY <2>1, <2>2, FS_Surjection
<1> QED
  BY <1>1, <1>2, <1>4, <1>5

(* Each event is on a line of its own, which is in the manifest of the     *)
(* event's scenario and whose log has what the event has.                  *)
LEMMA EventsOnLines ==
  ASSUME FeedInv, stage = "done", NEW place \in Placements, NEW i \in 1..Len(events)
  PROVE  /\ events[i] \in Fitting
         /\ LogOf(place[i]) \in Logs
         /\ LogOf(place[i]).log_id = place[i]
         /\ LogOf(place[i]).timestamp = events[i].timestamp
         /\ LogOf(place[i]).source_system = events[i].source_system
         /\ LogOf(place[i]).event_type = events[i].event_type
         /\ LogOf(place[i]).status = events[i].status
         /\ LogOf(place[i]).source_ip = events[i].source_ip
         /\ LogOf(place[i]).phrases = events[i].phrases
         /\ \A s \in Scenarios : events[i].scenario = s => place[i] \in manifest[s]
<1>1. /\ place[i] \in 1..Len(items) /\ items[place[i]] = events[i]
      /\ events[i] \in Fitting
  BY FinishedFeed, EventsToSort DEF Placements
<1>2. events[i] # Malformed
  BY <1>1 DEF Fitting, EventRecords, Scenarios, Malformed
<1>3. place[i] \in DOMAIN items
  BY <1>1, FinishedFeed
<1>4. LogOf(place[i]) \in Logs
  BY <1>1, <1>2, <1>3 DEF Logs
<1>5. \A s \in Scenarios : events[i].scenario = s => place[i] \in manifest[s]
  BY <1>1, <1>3, FinishedFeed DEF LinesOf
<1> QED
  BY <1>1, <1>4, <1>5 DEF LogOf

LEMMA ScenarioFound ==
  ASSUME FeedInv, stage = "done", NEW place \in Placements, NEW s \in Scenarios,
         NEW a \in Nat, NEW n \in Nat, a + n =< Len(events),
         \A i \in (a + 1)..(a + n) :
            events[i].scenario = s /\ place[i] \in Evidence(s)
  PROVE  Cardinality(manifest[s] \cap Evidence(s)) >= n
<1> DEFINE found == manifest[s] \cap Evidence(s)
<1>1. IsFiniteSet(found)
  BY FinishedFeed, FS_Subset
<1>2. \A i \in (a + 1)..(a + n) : i \in 1..Len(events)
  BY FinishedFeed, EventsToSort
<1>3. \A i \in (a + 1)..(a + n) : place[i] \in found
  BY <1>2, EventsOnLines
<1>4. \A i, j \in (a + 1)..(a + n) : place[i] = place[j] => i = j
  BY <1>2 DEF Placements
<1> HIDE DEF found
<1>5. Cardinality(found) >= n
  BY <1>1, <1>3, <1>4, AsManyAs
<1> QED
  BY <1>5 DEF found

(* What a rule detects is evidence of the scenario that it is for.         *)
LEMMA DetectedIsEvidence ==
  ASSUME NEW r \in SeededRules, NEW d \in Detections(r, Logs), NEW id \in d.log_ids
  PROVE  id \in Evidence(d.rule_type)
BY DEF Evidence, RunRules

BruteForceRule ==
  [rule_id |-> 1, rule_type |-> "brute_force", severity |-> "high",
   threshold_value |-> Threshold, time_window |-> RuleWindow]

OffHoursRule ==
  [rule_id |-> 2, rule_type |-> "off_hours_login", severity |-> "medium",
   start_hour |-> OffHoursStart, end_hour |-> OffHoursEnd]

EscalationRule ==
  [rule_id |-> 3, rule_type |-> "privilege_escalation", severity |-> "high",
   keywords |-> Keywords]

LEMMA RulesOfScenarios ==
  /\ {BruteForceRule, OffHoursRule, EscalationRule} \subseteq SeededRules
  /\ Detections(BruteForceRule, Logs) = BruteForceDetections(BruteForceRule, Logs)
  /\ Detections(OffHoursRule, Logs) = OffHoursDetections(OffHoursRule, Logs)
  /\ Detections(EscalationRule, Logs) = PrivilegeEscalationDetections(EscalationRule, Logs)
<1>1. {BruteForceRule, OffHoursRule, EscalationRule} \subseteq SeededRules
  BY DEF SeededRules, BruteForceRule, OffHoursRule, EscalationRule
<1>2. /\ BruteForceRule.rule_type = "brute_force"
      /\ OffHoursRule.rule_type = "off_hours_login"
      /\ EscalationRule.rule_type = "privilege_escalation"
  BY DEF BruteForceRule, OffHoursRule, EscalationRule
<1> QED
  BY <1>1, <1>2 DEF Detections

(* The attempts are in one window of the rule, which opens at the earliest.*)
LEMMA BurstFound ==
  ASSUME FeedInv, stage = "done"
  PROVE  Cardinality(manifest["brute_force"] \cap Evidence("brute_force")) >= Attempts
<1>1. PICK place \in Placements : TRUE
  BY FinishedFeed
<1>2. /\ BenignEvents \in Nat /\ Attempts \in Nat /\ Threshold \in Nat /\ Threshold > 0
      /\ Threshold =< Attempts /\ RuleWindow \in Nat /\ RuleWindow > 0
      /\ BurstWidth \in Nat /\ Jitter \in Nat /\ BurstWidth + Jitter =< RuleWindow
      /\ Attacker # None
  BY FeedAssumption
<1>3. /\ EventsInv /\ NumSamples \in Nat /\ burst_start \in Nat
      /\ Len(events) = BenignEvents + Attempts + 3 + NumSamples
  BY FinishedFeed, SamplesOfKeywords DEF EventsInv, Counted, Timely
<1> DEFINE I == (BenignEvents + 1)..(BenignEvents + Attempts)
           F == FailuresOf(Attacker, Logs)
           log == [i \in I |-> LogOf(place[i])]
<1>4. \A i \in I : i \in 1..Len(events)
  BY <1>2, <1>3
<1>5. ASSUME NEW i \in I
      PROVE  /\ IsAttempt(events[i], burst_start)
             /\ events[i].timestamp \in Nat
             /\ log[i].timestamp = events[i].timestamp
             /\ log[i].log_id = place[i]
             /\ log[i] \in F
  <2>1. IsAttempt(events[i], burst_start)
    BY <1>2, <1>3, <1>4 DEF EventsInv, Planted, PlantedAt
  <2>2. log[i] = LogOf(place[i])
    OBVIOUS
  <2>3. events[i] \in Fitting /\ i \in 1..Len(events)
    BY <1>4, EventsOnLines
  <2>4. events[i].source_system = "auth" /\ events[i].timestamp \in Nat
    BY <2>3 DEF Fitting, EventRecords
  <2>5. log[i] \in F
    BY <1>2, <2>1, <2>2, <2>3, <2>4, EventsOnLines DEF FailuresOf, IsFailedLogin, IsAttempt
  <2> QED
    BY <2>1, <2>2, <2>3, <2>4, <2>5, EventsOnLines
<1> HIDE DEF log
<1>6. PICK first \in I : \A i \in I : events[first].timestamp =< events[i].timestamp
  <2> DEFINE T == {events[i].timestamp : i \in I}
  <2>1. T \subseteq Nat
    BY <1>5
  <2>2. BenignEvents + 1 \in I
    BY <1>2
  <2>3. T # {}
    BY <2>2
  <2>4. Min(T) \in T /\ \A x \in T : Min(T) =< x
    BY <2>1, <2>3, LeastElement
  <2>5. PICK i \in I : events[i].timestamp = Min(T)
    BY <2>4
  <2> QED
    BY <2>4, <2>5
<1> DEFINE W == WindowFrom(log[first], F, RuleWindow)
<1>7. ASSUME NEW i \in I PROVE log[i] \in W
  <2>1. /\ events[first].timestamp \in burst_start..(burst_start + BurstWidth + Jitter)
        /\ events[i].timestamp \in burst_start..(burst_start + BurstWidth + Jitter)
    BY <1>5 DEF IsAttempt
  <2>2. events[i].timestamp - events[first].timestamp =< RuleWindow
    BY <2>1, <1>2, <1>3
  <2> QED
    BY <2>2, <1>5, <1>6 DEF WindowFrom
<1>8. Cardinality(W) >= Threshold
  <2>1. IsFiniteSet(W)
    <3>1. W \subseteq Logs
      BY DEF WindowFrom, FailuresOf
    <3> QED
      BY <3>1, FinishedFeed, FS_Subset
  <2>2. \A i, j \in I : log[i] = log[j] => i = j
    <3>1. \A i, j \in I : log[i] = log[j] => place[i] = place[j]
      BY <1>5
    <3> QED
      BY <3>1, <1>4 DEF Placements
  <2> HIDE DEF W
  <2>3. Cardinality(W) >= Attempts
    BY <1>2, <1>7, <2>1, <2>2, AsManyAs
  <2>4. Cardinality(W) \in Nat
    BY <2>1, FS_CardinalityType
  <2> QED
    BY <1>2, <2>3, <2>4
<1> DEFINE hits == QualifyingFailures(BruteForceRule, F)
           d == BruteForceDetection(BruteForceRule, Attacker, hits)
<1>9. \A i \in I : log[i] \in hits
  <2>1. BruteForceRule.time_window = RuleWindow /\ BruteForceRule.threshold_value = Threshold
    BY DEF BruteForceRule
  <2>2. log[first] \in F
    BY <1>5
  <2> HIDE DEF F
  <2> QED
    BY <1>7, <1>8, <2>1, <2>2 DEF QualifyingFailures
<1>10. d \in Detections(BruteForceRule, Logs)
  <2>1. log[first] \in F /\ log[first] \in hits
    BY <1>5, <1>9
  <2>2. Attacker \in FailingIps(Logs)
    BY <2>1 DEF FailuresOf, FailingIps
  <2>3. BruteForceEnabled(BruteForceRule)
    BY <1>2 DEF BruteForceEnabled, BruteForceRule
  <2>4. hits # {}
    BY <2>1
  <2>5. d \in BruteForceDetections(BruteForceRule, Logs)
    BY <2>2, <2>3, <2>4 DEF BruteForceDetections
  <2> QED
    BY <2>5, RulesOfScenarios
<1>11. \A i \in I : place[i] \in Evidence("brute_force")
  <2>1. d.rule_type = "brute_force" /\ d.log_ids = {l.log_id : l \in hits}
    BY DEF BruteForceDetection, BruteForceRule
  <2> HIDE DEF hits, d
  <2>2. \A i \in I : place[i] \in d.log_ids
    BY <1>5, <1>9, <2>1
  <2>3. BruteForceRule \in SeededRules
    BY RulesOfScenarios
  <2> QED
    BY <1>10, <2>1, <2>2, <2>3, DetectedIsEvidence
<1>12. \A i \in I : events[i].scenario = "brute_force"
  BY <1>5 DEF IsAttempt
<1>13. "brute_force" \in Scenarios /\ BenignEvents + Attempts =< Len(events)
  BY <1>2, <1>3 DEF Scenarios
<1> QED
  BY <1>2, <1>11, <1>12, <1>13, ScenarioFound

LEMMA OffHoursLoginFound ==
  ASSUME FeedInv, stage = "done"
  PROVE  Cardinality(manifest["off_hours_login"] \cap Evidence("off_hours_login")) >= 1
<1>1. PICK place \in Placements : TRUE
  BY FinishedFeed
<1>2. BenignEvents \in Nat /\ Attempts \in Nat
  BY FeedAssumption
<1>3. /\ EventsInv /\ NumSamples \in Nat
      /\ Len(events) = BenignEvents + Attempts + 3 + NumSamples
  BY FinishedFeed, SamplesOfKeywords DEF EventsInv, Counted
<1> DEFINE i == BenignEvents + Attempts + 2
           l == LogOf(place[i])
           d == SingleLogDetection(OffHoursRule, l,
                  <<"off_hours", OffHoursRule.rule_id, l.username, l.timestamp>>)
<1>4. i \in 1..Len(events) /\ IsPlantedLogin(events[i])
  BY <1>2, <1>3 DEF EventsInv, Planted, PlantedAt
<1> HIDE DEF i
<1>5. /\ l \in Logs /\ l.source_system = "auth" /\ l.event_type = "login"
      /\ l.status = "success" /\ HourOf(l.timestamp) = OffHour /\ l.log_id = place[i]
  <2>1. events[i] \in Fitting
    BY <1>4, EventsOnLines
  <2>2. events[i].source_system = "auth" /\ HourOf(events[i].timestamp) = OffHour
    BY <1>4, <2>1 DEF Fitting, EventRecords, IsPlantedLogin
  <2> QED
    BY <1>4, <2>2, EventsOnLines DEF IsPlantedLogin
<1>6. IsOffHours(HourOf(l.timestamp), OffHoursRule.start_hour, OffHoursRule.end_hour)
  BY <1>5, PreferredOffHour DEF OffHoursRule
<1> HIDE DEF l
<1>7. d \in Detections(OffHoursRule, Logs)
  BY <1>5, <1>6, RulesOfScenarios DEF OffHoursDetections
<1>8. d.rule_type = "off_hours_login" /\ d.log_ids = {place[i]}
  BY <1>5 DEF SingleLogDetection, OffHoursRule
<1> HIDE DEF d
<1>9. place[i] \in Evidence("off_hours_login")
  BY <1>7, <1>8, RulesOfScenarios, DetectedIsEvidence
<1>10. events[i].scenario = "off_hours_login" /\ "off_hours_login" \in Scenarios
  BY <1>4 DEF IsPlantedLogin, Scenarios
<1>11. i - 1 \in Nat /\ \A j \in (i - 1 + 1)..(i - 1 + 1) : j = i
  BY <1>2 DEF i
<1>12. i - 1 + 1 =< Len(events)
  BY <1>4, <1>11
<1> QED
  BY <1>9, <1>10, <1>11, <1>12, ScenarioFound

LEMMA EscalationFound ==
  ASSUME FeedInv, stage = "done"
  PROVE  Cardinality(manifest["privilege_escalation"] \cap Evidence("privilege_escalation"))
           >= NumSamples
<1>1. PICK place \in Placements : TRUE
  BY FinishedFeed
<1>2. BenignEvents \in Nat /\ Attempts \in Nat
  BY FeedAssumption
<1>3. /\ EventsInv /\ NumSamples \in Nat
      /\ Len(events) = BenignEvents + Attempts + 3 + NumSamples
  BY FinishedFeed, SamplesOfKeywords DEF EventsInv, Counted
<1> DEFINE a == BenignEvents + Attempts + 3
<1>4. ASSUME NEW i \in (a + 1)..(a + NumSamples)
      PROVE  /\ events[i].scenario = "privilege_escalation"
             /\ place[i] \in Evidence("privilege_escalation")
  <2> DEFINE l == LogOf(place[i])
             d == SingleLogDetection(EscalationRule, l,
                    <<"priv_esc", EscalationRule.rule_id, l.log_id>>)
  <2>1. i \in 1..Len(events) /\ IsEscalation(events[i])
    BY <1>2, <1>3 DEF EventsInv, Planted, PlantedAt
  <2>2. events[i] \in Fitting
    BY <2>1, EventsOnLines
  <2>3. events[i].source_system = "auth" /\ events[i].phrases \cap Keywords # {}
    BY <2>1, <2>2 DEF Fitting, EventRecords, IsEscalation
  <2>4. /\ l \in Logs /\ l.source_system = "auth" /\ l.log_id = place[i]
        /\ l.phrases \cap EscalationRule.keywords # {}
    BY <2>1, <2>3, EventsOnLines DEF EscalationRule
  <2> HIDE DEF l
  <2>5. d \in Detections(EscalationRule, Logs)
    BY <2>4, RulesOfScenarios DEF PrivilegeEscalationDetections
  <2>6. d.rule_type = "privilege_escalation" /\ d.log_ids = {place[i]}
    BY <2>4 DEF SingleLogDetection, EscalationRule
  <2> HIDE DEF d
  <2>7. place[i] \in Evidence("privilege_escalation")
    BY <2>5, <2>6, RulesOfScenarios, DetectedIsEvidence
  <2> QED
    BY <2>1, <2>7 DEF IsEscalation
<1>5. a \in Nat /\ a + NumSamples =< Len(events) /\ "privilege_escalation" \in Scenarios
  BY <1>2, <1>3 DEF Scenarios
<1> HIDE DEF a
<1> QED
  BY <1>3, <1>4, <1>5, ScenarioFound

LEMMA InvMeansDetected == FeedInv => GroundTruthDetected
<1> SUFFICES ASSUME FeedInv, stage = "done", NEW s \in Scenarios
             PROVE  Cardinality(manifest[s] \cap Evidence(s)) >= ExpectedMatches[s]
  BY DEF GroundTruthDetected
<1>1. CASE s = "brute_force"
  BY <1>1, BurstFound DEF ExpectedMatches
<1>2. CASE s = "off_hours_login"
  BY <1>2, OffHoursLoginFound DEF ExpectedMatches
<1>3. CASE s = "privilege_escalation"
  BY <1>3, EscalationFound DEF ExpectedMatches, NumSamples
<1> QED
  BY <1>1, <1>2, <1>3 DEF Scenarios

(* The rules find of every scenario what the manifest expects of it: in a  *)
(* window of the rule for brute force that opens at the earliest attempt,  *)
(* at the off-hour, and at the keywords of the escalation.                 *)
THEOREM ScenariosDetected == FeedSpec => []GroundTruthDetected
<1>1. FeedInv => GroundTruthDetected
  BY InvMeansDetected
<1> QED
  BY <1>1, FeedInductive, PTL
============================================================================
