------------------------------ MODULE MCJobLock ------------------------------
(* Two owners and a clock that outlives two leases of each length.         *)
EXTENDS JobLock, TLC

OwnerSymmetry == Permutations(Owner)
=============================================================================
