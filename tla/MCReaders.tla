----------------------------- MODULE MCReaders -----------------------------
(* Values for Readers: a severe alert, and later ones that are not, two of *)
(* them at the same time.                                                  *)
EXTENDS Readers

CONSTANTS a1, a2, a3

MCSeverity    == [a \in Alerts |-> IF a = a1 THEN "high" ELSE "medium"]
MCTriggeredAt == [a \in Alerts |-> IF a = a1 THEN 1 ELSE 2]
MCTechnique   == [a \in Alerts |-> IF a = a1 THEN "T1110" ELSE "T1078"]
============================================================================
