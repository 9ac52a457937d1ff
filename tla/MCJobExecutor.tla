---------------------------- MODULE MCJobExecutor ----------------------------
(* Instances of JobExecutor for TLC.                                        *)
EXTENDS JobExecutor

CONSTANTS e1, e2, j1, j2
=============================================================================
