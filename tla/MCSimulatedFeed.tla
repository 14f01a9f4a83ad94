-------------------------- MODULE MCSimulatedFeed --------------------------
(***************************************************************************)
(* An instance of SimulatedFeed: days of four hours of two ticks.  The     *)
(* hour of the login at an off-hour is the one in the middle of which the  *)
(* window begins and ends.                                                 *)
(***************************************************************************)
EXTENDS SimulatedFeed

MCPreference == <<2, 0, 3, 1>>
============================================================================
