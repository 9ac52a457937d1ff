--------------------------- MODULE MCStatsManager ---------------------------
(* An instance of StatsManager for TLC.                                     *)
EXTENDS StatsManager

CONSTANTS r1, r2

Alike == Permutations(Request)
=============================================================================
