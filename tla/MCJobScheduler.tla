--------------------------- MODULE MCJobScheduler ---------------------------
(* Instances of JobScheduler for TLC.                                       *)
EXTENDS JobScheduler

CONSTANTS n1, n2, j1, j2, e1, e2

\* j1 is a ONCE job of high priority, j2 a PERIODIC job of low priority.
OnceJobs  == {j1}
JobOrder  == [j \in Job |-> IF j = j1 THEN 2 ELSE 1]

Only(kinds) == [k \in Kinds |-> IF k \in kinds THEN 1 ELSE 0]
CoreBound   == Only({"stepDown", "result", "executor", "edit"})
FairBound   == Only(Kinds \ {"executor", "edit"})
StopBound   == Only({"stop"})
NoBound     == Only({})

\* The executors are alike.
AlikeExecutors == Permutations({e1, e2})
=============================================================================
