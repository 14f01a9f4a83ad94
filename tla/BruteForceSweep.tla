-------------------------- MODULE BruteForceSweep --------------------------
(***************************************************************************)
(* detect_brute_force of detection/rules_engine.py, one step per iteration *)
(* of its loops: the failures of each source_ip are sorted by time and     *)
(* swept with two pointers, "left" chasing "right" so that the failures    *)
(* between them fit the window; when enough of them fit, all of them       *)
(* contribute.  RulesEngine!BruteForceDetections says, without a loop,     *)
(* what the result should be.                                              *)
(***************************************************************************)
EXTENDS RulesEngine

CONSTANTS
  Rules,           (* The brute_force rules the detector may be given.     *)
  Batches          (* The batches of logs it may be given.                 *)

DistinctIds(logs) == \A l, m \in logs : l.log_id = m.log_id => l = m

ASSUME SweepAssumption ==
  /\ \A rule \in Rules : rule.threshold_value \in Int /\ rule.time_window \in Int
  /\ \A logs \in Batches :
       /\ IsFiniteSet(logs)
       /\ \A l \in logs : l.timestamp \in Nat
       /\ DistinctIds(logs)

VARIABLES
  rule,            (* The rule; never changes.                             *)
  batch,           (* The batch of logs; never changes.                    *)
  pc,              (* "next" address, "sweep" of an address, or "done".    *)
  todo,            (* Addresses of fails_by_ip not swept yet.              *)
  ip,              (* The address being swept.                             *)
  evs,             (* Its failures, sorted by timestamp.                   *)
  left, right,     (* The two pointers, indices of evs.                    *)
  contributing,    (* log_ids found in a qualifying window of ip so far.   *)
  out              (* The detections of the addresses already swept.       *)

inputs == <<rule, batch>>
vars == <<rule, batch, pc, todo, ip, evs, left, right, contributing, out>>

(* The results of evs.sort(key=timestamp): every way to list the failures  *)
(* in time order.  The code's order among equal times is one of them.      *)
SortedByTime(failures) ==
  {s \in [1..Cardinality(failures) -> failures] :
     /\ {s[i] : i \in 1..Cardinality(failures)} = failures
     /\ \A i, j \in 1..Cardinality(failures) : i < j => s[i] # s[j]
     /\ \A i, j \in 1..Cardinality(failures) :
          i < j => s[i].timestamp =< s[j].timestamp}

Init ==
  /\ rule \in Rules
  /\ batch \in Batches
  /\ pc = IF BruteForceEnabled(rule) THEN "next" ELSE "done"
  /\ todo = FailingIps(batch)
  /\ ip = None
  /\ evs = <<>>
  /\ left = 1
  /\ right = 1
  /\ contributing = {}
  /\ out = {}

(* Faulty variants, here and below, are never part of Spec: a run with one *)
(* in place of the definition after it shows what a property rules out.    *)
(* This one goes on to an address without resetting the pointers.          *)
NextIpKeepingPointers ==
  /\ pc = "next"
  /\ \E i \in todo :
       /\ ip' = i
       /\ evs' \in SortedByTime(FailuresOf(i, batch))
  /\ contributing' = {}
  /\ pc' = "sweep"
  /\ UNCHANGED <<inputs, todo, left, right, out>>

NextIp ==
  /\ pc = "next"
  /\ \E i \in todo :
       /\ ip' = i
       /\ evs' \in SortedByTime(FailuresOf(i, batch))
  /\ left' = 1
  /\ right' = 1
  /\ contributing' = {}
  /\ pc' = "sweep"
  /\ UNCHANGED <<inputs, todo, out>>

(* Faulty: the window without its far end.                                 *)
TooWideHalfOpen == evs[right].timestamp - evs[left].timestamp >= rule.time_window

TooWide == evs[right].timestamp - evs[left].timestamp > rule.time_window

(* Faulty: the left pointer stays where it is.                             *)
ShrinkInPlace ==
  /\ pc = "sweep"
  /\ right =< Len(evs)
  /\ TooWide
  /\ UNCHANGED vars

Shrink ==
  /\ pc = "sweep"
  /\ right =< Len(evs)
  /\ TooWide
  /\ left' = left + 1
  /\ UNCHANGED <<inputs, pc, todo, ip, evs, right, contributing, out>>

(* Faulty: more failures than the threshold are asked for.                 *)
CountAboveThreshold ==
  /\ pc = "sweep"
  /\ right =< Len(evs)
  /\ ~TooWide
  /\ contributing' = IF right - left + 1 > rule.threshold_value
                     THEN contributing \cup {evs[k].log_id : k \in left..right}
                     ELSE contributing
  /\ right' = right + 1
  /\ UNCHANGED <<inputs, pc, todo, ip, evs, left, out>>

Count ==
  /\ pc = "sweep"
  /\ right =< Len(evs)
  /\ ~TooWide
  /\ contributing' = IF right - left + 1 >= rule.threshold_value
                     THEN contributing \cup {evs[k].log_id : k \in left..right}
                     ELSE contributing
  /\ right' = right + 1
  /\ UNCHANGED <<inputs, pc, todo, ip, evs, left, out>>

Hits == {evs[k] : k \in {j \in 1..Len(evs) : evs[j].log_id \in contributing}}

Emit ==
  /\ pc = "sweep"
  /\ right > Len(evs)
  /\ out' = IF contributing # {}
            THEN out \cup {BruteForceDetection(rule, ip, Hits)}
            ELSE out
  /\ todo' = todo \ {ip}
  /\ pc' = "next"
  /\ UNCHANGED <<inputs, ip, evs, left, right, contributing>>

Return ==
  /\ pc = "next"
  /\ todo = {}
  /\ pc' = "done"
  /\ UNCHANGED <<inputs, todo, ip, evs, left, right, contributing, out>>

Next == NextIp \/ Shrink \/ Count \/ Emit \/ Return

Spec == Init /\ [][Next]_vars /\ WF_vars(Next)

----------------------------------------------------------------------------
(***************************************************************************)
(* Properties.                                                             *)
(***************************************************************************)

(* The pointers stay inside the list of failures of a pending address.     *)
TypeOK ==
  /\ pc \in {"next", "sweep", "done"}
  /\ todo \subseteq FailingIps(batch)
  /\ left \in Nat \ {0}
  /\ right \in Nat \ {0}
  /\ pc = "sweep" =>
       /\ ip \in todo
       /\ evs \in SortedByTime(FailuresOf(ip, batch))
       /\ left =< right
       /\ right =< Len(evs) + 1

(* The failures the right pointer has passed.                              *)
Seen == {evs[k] : k \in 1..(right - 1)}

(* "left" never passes a failure that still fits the window, and what has  *)
(* been collected is exactly what windows over the failures seen qualify.  *)
PointerInvariant ==
  pc = "sweep" =>
    /\ right =< Len(evs) =>
         \A k \in 1..(left - 1) :
           evs[right].timestamp - evs[k].timestamp > rule.time_window
    /\ contributing = {l.log_id : l \in QualifyingFailures(rule, Seen)}

(* The addresses already swept have their detections.                      *)
ResultSoFar ==
  /\ pc # "done" => BruteForceEnabled(rule)
  /\ pc = "done" /\ BruteForceEnabled(rule) => todo = {}
  /\ out =
      {BruteForceDetection(rule, i, QualifyingFailures(rule, FailuresOf(i, batch))) :
         i \in {j \in FailingIps(batch) \ todo :
                  /\ BruteForceEnabled(rule)
                  /\ QualifyingFailures(rule, FailuresOf(j, batch)) # {}}}

(* Invariant of the two nested loops of detect_brute_force: between two    *)
(* iterations the pointers, the collected log_ids and the detections made  *)
(* so far are what the loop-free definition gives for the failures seen.   *)
SweepInvariant == PointerInvariant /\ ResultSoFar

(* The sweep of every address returns the detection its failures call for  *)
(* - those inside some window with threshold failures - and no other.      *)
ResultCorrect ==
  pc = "done" => out = BruteForceDetections(rule, batch)

(* detect_brute_force returns on every batch.                              *)
Termination == <>(pc = "done")
============================================================================
