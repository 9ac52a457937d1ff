------------------------- MODULE MCDBConnectionPool -------------------------
(* Three or four threads against a pool of at most two connections, so     *)
(* that the limit is hit and threads wait.                                 *)
EXTENDS DBConnectionPool
=============================================================================
