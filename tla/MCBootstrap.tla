---------------------------- MODULE MCBootstrap ----------------------------
(* Values for Bootstrap: two runs.                                         *)
EXTENDS Bootstrap, TLC

CONSTANTS r1, r2

RunSymmetry == Permutations(Runs)
============================================================================
