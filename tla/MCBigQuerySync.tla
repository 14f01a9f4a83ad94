--------------------------- MODULE MCBigQuerySync ---------------------------
(* Instances of BigQuerySync.                                              *)
EXTENDS BigQuerySync, TLC

CONSTANTS f1, f2, d1, d2

(* Two feeds that share a day.  (TLC computes DaysInFeeds once, and what a *)
(* constant stands for at every use.)                                      *)
DaysInFeeds == [f \in Feeds |-> IF f = f1 THEN {d1} ELSE {d1, d2}] @@ <<>>

MCDaysOf == DaysInFeeds
============================================================================
