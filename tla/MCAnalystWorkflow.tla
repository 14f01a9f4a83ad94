------------------------- MODULE MCAnalystWorkflow -------------------------
(***************************************************************************)
(* Instances of AnalystWorkflow, with symmetric sessions.                  *)
(***************************************************************************)
EXTENDS AnalystWorkflow, TLC

SessionSymmetry == Permutations(Sessions)
============================================================================
