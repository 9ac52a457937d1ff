------------------------------- MODULE Permits -------------------------------
(***************************************************************************)
(* What a lock and a pool promise to their clients: a limited number of    *)
(* permits, taken and given back one at a time, each while there is one.   *)
(* JobLock implements it with a limit of 1, DBConnectionPool with maxSize. *)
(***************************************************************************)
EXTENDS Naturals, FiniteSets

CONSTANTS Client,     \* who may hold a permit
          Limit       \* how many permits there are

VARIABLE holders      \* the clients that hold one

Init == holders = {}

Acquire(c) ==
    /\ c \notin holders
    /\ Cardinality(holders) < Limit
    /\ holders' = holders \cup {c}

\* A permit is given back, or runs out.
Release(c) ==
    /\ c \in holders
    /\ holders' = holders \ {c}

Next == \E c \in Client : Acquire(c) \/ Release(c)

Spec == Init /\ [][Next]_holders
=============================================================================
