----------------------- MODULE DBConnectionPool_proofs -----------------------
(***************************************************************************)
(* The limit and the bookkeeping of the connection pool, for every set of  *)
(* threads, every pool size and any number of database outages.            *)
(***************************************************************************)
EXTENDS DBConnectionPool, FiniteSetTheorems, TLAPS

\* The limit is not inductive alone: a release after which active would be
\* negative must be excluded, and that needs active to count the borrowers.
PoolInv == TypeOK /\ WithinMaxSize /\ ActiveIsLent

USE DEF PC

-----------------------------------------------------------------------------
(* The set of borrowers is finite: its size is a number.                   *)
LEMMA BorrowersFinite == IsFiniteSet(Borrowers) /\ Cardinality(Borrowers) \in Nat
<1>1. Borrowers \in SUBSET Thread
  BY DEF Borrowers
<1>2. IsFiniteSet(Borrowers)
  BY <1>1, ThreadAssumption, FS_Subset
<1>. QED  BY <1>2, FS_CardinalityType

(* Lending a connection adds one borrower.                                 *)
LEMMA Lend ==
  ASSUME TypeOK, NEW t \in Thread, pc[t] # "holding", Goto(t, "holding")
  PROVE  Cardinality(Borrowers') = Cardinality(Borrowers) + 1
<1>1. Borrowers' = Borrowers \cup {t}
  BY DEF Borrowers, Goto, TypeOK
<1>2. t \notin Borrowers
  BY DEF Borrowers
<1>. QED  BY <1>1, <1>2, BorrowersFinite, FS_AddElement

(* Returning one removes one, and there was one to remove.                 *)
LEMMA GiveBack ==
  ASSUME TypeOK, NEW t \in Thread, pc[t] = "holding", Goto(t, "out")
  PROVE  /\ Cardinality(Borrowers') = Cardinality(Borrowers) - 1
         /\ Cardinality(Borrowers) > 0
<1>1. Borrowers' = Borrowers \ {t}
  BY DEF Borrowers, Goto, TypeOK
<1>2. t \in Borrowers
  BY DEF Borrowers
<1>3. Cardinality(Borrowers) > 0
  BY <1>2, BorrowersFinite, FS_EmptySet
<1>. QED  BY <1>1, <1>2, <1>3, BorrowersFinite, FS_RemoveElement

(* A thread that moves without obtaining or returning a connection leaves  *)
(* the borrowers alone.                                                    *)
LEMMA NoLoan ==
  ASSUME TypeOK, NEW t \in Thread, NEW where \in PC \ {"holding"},
         pc[t] # "holding", Goto(t, where)
  PROVE  Borrowers' = Borrowers
BY DEF Borrowers, Goto, TypeOK

(* The part of getConnection that runs with the mutex held, on entry and   *)
(* after every wait, keeps the limit and the bookkeeping.                  *)
LEMMA AttemptPreserves ==
  ASSUME PoolInv, NEW t \in Thread, pc[t] \in {"out", "waiting"}, ~down, ~down',
         TakeIdle(t) \/ Create(t) \/ Wait(t)
  PROVE  /\ idle' \in Nat /\ active' \in Nat /\ pc' \in [Thread -> PC]
         /\ idle' + active' <= MaxSize
         /\ active' = Cardinality(Borrowers')
<1>0. /\ active = Cardinality(Borrowers) /\ Cardinality(Borrowers) \in Nat
      /\ idle \in Nat /\ active \in Nat /\ idle + active <= MaxSize
  BY BorrowersFinite DEF PoolInv, ActiveIsLent, WithinMaxSize, TypeOK
<1>1. CASE TakeIdle(t) /\ dbUp
  <2>1. idle > 0 /\ idle' = idle - 1 /\ active' = active + 1 /\ Goto(t, "holding")
    BY <1>1 DEF TakeIdle
  <2>2. Cardinality(Borrowers') = Cardinality(Borrowers) + 1
    BY <2>1, Lend DEF PoolInv
  <2>. QED  BY <1>0, <2>1, <2>2, SizeAssumption DEF PoolInv, TypeOK, Goto
<1>2. CASE TakeIdle(t) /\ ~dbUp
  <2>1. idle > 0 /\ idle' = idle - 1 /\ active' = active /\ Goto(t, "hung")
    BY <1>2 DEF TakeIdle
  <2>2. Borrowers' = Borrowers
    BY <2>1, NoLoan DEF PoolInv
  <2>. QED  BY <1>0, <2>1, <2>2, SizeAssumption DEF PoolInv, TypeOK, Goto
<1>3. CASE Create(t)
  <2>1. idle = 0 /\ idle' = idle /\ active < MaxSize /\ active' = active + 1 /\ Goto(t, "holding")
    BY <1>3 DEF Create
  <2>2. Cardinality(Borrowers') = Cardinality(Borrowers) + 1
    BY <2>1, Lend DEF PoolInv
  <2>. QED  BY <1>0, <2>1, <2>2, SizeAssumption DEF PoolInv, TypeOK, Goto
<1>4. CASE Wait(t)
  <2>1. idle' = idle /\ active' = active /\ Goto(t, "waiting")
    BY <1>4 DEF Wait
  <2>2. Borrowers' = Borrowers
    <3>1. CASE pc[t] = "out"
      BY <3>1, <2>1, NoLoan DEF PoolInv
    <3>2. CASE pc[t] = "waiting"
      BY <3>2, <2>1, NoLoan DEF PoolInv
    <3>. QED  BY <3>1, <3>2
  <2>. QED  BY <1>0, <2>1, <2>2, SizeAssumption DEF PoolInv, TypeOK, Goto
<1>. QED  BY <1>1, <1>2, <1>3, <1>4

(* Every initial pool satisfies the invariant.                             *)
LEMMA InitPoolInv == Init => PoolInv
<1>. SUFFICES ASSUME Init PROVE PoolInv
  OBVIOUS
<1>1. Borrowers = {}
  BY DEF Init, Borrowers
<1>2. Cardinality(Borrowers) = 0
  BY <1>1, FS_EmptySet
<1>3. idle \in Nat /\ active \in Nat /\ outages \in Nat /\ WithinMaxSize
  BY SizeAssumption DEF Init, WithinMaxSize
<1>4. down \in BOOLEAN /\ dbUp \in BOOLEAN /\ pc \in [Thread -> PC] /\ woken \in SUBSET Thread
  BY DEF Init
<1>. QED  BY <1>2, <1>3, <1>4 DEF Init, PoolInv, ActiveIsLent, TypeOK

(* One step per method: none breaks the invariant.                         *)
LEMMA NextPoolInv == PoolInv /\ [Next]_vars => PoolInv'
<1>. SUFFICES ASSUME PoolInv, [Next]_vars PROVE PoolInv'
  OBVIOUS
<1>. USE DEF PoolInv, WithinMaxSize, ActiveIsLent
<1>1. ASSUME NEW t \in Thread, GetConnection(t) PROVE PoolInv'
  <2>1. /\ pc[t] = "out" /\ ~down /\ ~down' /\ UNCHANGED <<woken, dbUp, outages>>
        /\ TakeIdle(t) \/ Create(t) \/ Wait(t)
    BY <1>1 DEF GetConnection
  <2>2. /\ idle' \in Nat /\ active' \in Nat /\ pc' \in [Thread -> PC]
        /\ idle' + active' <= MaxSize
        /\ active' = Cardinality(Borrowers')
    BY <2>1, AttemptPreserves
  <2>. QED  BY <1>1, <2>1, <2>2 DEF TypeOK, GetConnection
<1>2. ASSUME NEW t \in Thread, WakeUp(t) PROVE PoolInv'
  <2>1. pc[t] = "waiting" /\ woken' \in SUBSET Thread /\ UNCHANGED <<down, dbUp, outages>>
    BY <1>2 DEF WakeUp, TypeOK
  <2>2. CASE down
    <3>1. Goto(t, "out") /\ UNCHANGED <<idle, active>>
      BY <1>2, <2>2 DEF WakeUp
    <3>2. Borrowers' = Borrowers
      BY <2>1, <3>1, NoLoan
    <3>. QED  BY <2>1, <2>2, <3>1, <3>2 DEF TypeOK, Goto
  <2>3. CASE ~down
    <3>1. TakeIdle(t) \/ Create(t) \/ Wait(t)
      BY <1>2, <2>3 DEF WakeUp
    <3>2. /\ idle' \in Nat /\ active' \in Nat /\ pc' \in [Thread -> PC]
          /\ idle' + active' <= MaxSize
          /\ active' = Cardinality(Borrowers')
      BY <2>1, <2>3, <3>1, AttemptPreserves
    <3>. QED  BY <2>1, <3>2 DEF TypeOK
  <2>. QED  BY <2>2, <2>3
<1>3. ASSUME NEW t \in Thread, TimeOut(t) PROVE PoolInv'
  <2>1. pc[t] = "waiting" /\ Goto(t, "out") /\ UNCHANGED <<idle, active, down, dbUp, outages>>
    BY <1>3 DEF TimeOut
  <2>2. Borrowers' = Borrowers
    BY <2>1, NoLoan
  <2>. QED  BY <1>3, <2>1, <2>2 DEF TypeOK, Goto, TimeOut
<1>4. ASSUME NEW t \in Thread, ReleaseConnection(t) PROVE PoolInv'
  <2>1. pc[t] = "holding" /\ Goto(t, "out") /\ UNCHANGED <<down, dbUp, outages>>
    BY <1>4 DEF ReleaseConnection
  <2>2. woken' \in SUBSET Thread
    BY <1>4 DEF ReleaseConnection, NotifyOne, Waiters, TypeOK
  <2>3. /\ Cardinality(Borrowers') = Cardinality(Borrowers) - 1
        /\ Cardinality(Borrowers) > 0
    BY <2>1, GiveBack
  <2>4. CASE down
    BY <1>4, <2>1, <2>2, <2>4 DEF ReleaseConnection, TypeOK, Goto
  <2>5. CASE ~down
    <3>1. idle' = idle + 1 /\ active' = active - 1
      BY <1>4, <2>5 DEF ReleaseConnection
    <3>2. active = Cardinality(Borrowers) /\ active \in Nat /\ idle \in Nat
      BY <2>5 DEF TypeOK
    <3>. QED  BY <2>1, <2>2, <2>3, <2>5, <3>1, <3>2, SizeAssumption DEF TypeOK, Goto
  <2>. QED  BY <2>4, <2>5
<1>5. CASE Shutdown
  <2>1. Borrowers' = Borrowers
    BY <1>5 DEF Shutdown, Borrowers
  <2>. QED  BY <1>5, <2>1, SizeAssumption DEF Shutdown, TypeOK, Waiters
<1>6. CASE DatabaseFails
  <2>1. Borrowers' = Borrowers
    BY <1>6 DEF DatabaseFails, Borrowers
  <2>2. outages' \in Nat
    BY <1>6 DEF DatabaseFails, TypeOK
  <2>3. dbUp' \in BOOLEAN
    BY <1>6 DEF DatabaseFails
  <2>. QED  BY <1>6, <2>1, <2>2, <2>3 DEF DatabaseFails, TypeOK
<1>7. CASE DatabaseRecovers
  <2>1. Borrowers' = Borrowers
    BY <1>7 DEF DatabaseRecovers, Borrowers
  <2>. QED  BY <1>7, <2>1 DEF DatabaseRecovers, TypeOK
<1>8. CASE UNCHANGED vars
  <2>1. Borrowers' = Borrowers
    BY <1>8 DEF vars, Borrowers
  <2>. QED  BY <1>8, <2>1 DEF vars, TypeOK
<1>. QED  BY <1>1, <1>2, <1>3, <1>4, <1>5, <1>6, <1>7, <1>8 DEF Next

(* Neither the number of idle connections nor activeConnections_ goes below *)
(* zero, whatever threads, outages and shutdown do: an unsigned counter     *)
(* lowered below zero would stop the pool from opening any connection.      *)
THEOREM TypeCorrect == Spec => []TypeOK
<1>1. PoolInv => TypeOK
  BY DEF PoolInv
<1>. QED  BY <1>1, InitPoolInv, NextPoolInv, PTL DEF Spec

(* In every reachable state the pool is within its limit and its counter   *)
(* of connections lent is exact.                                           *)
THEOREM PoolSafe == Spec => [](TypeOK /\ WithinMaxSize /\ ActiveIsLent)
<1>1. PoolInv => TypeOK /\ WithinMaxSize /\ ActiveIsLent
  BY DEF PoolInv
<1>. QED  BY <1>1, InitPoolInv, NextPoolInv, PTL DEF Spec

-----------------------------------------------------------------------------
(* shutdown() leaves no thread asleep and no connection idle: a thread only *)
(* starts waiting while the pool is open, and a closed pool gets no        *)
(* connection back.                                                        *)
THEOREM ShutdownSafe == Spec => []ShutdownWakesAll
<1>1. Init => ShutdownWakesAll
  BY DEF Init, ShutdownWakesAll
<1>2. TypeOK /\ ShutdownWakesAll /\ [Next]_vars => ShutdownWakesAll'
  <2>. SUFFICES ASSUME TypeOK, ShutdownWakesAll, [Next]_vars, down'
                PROVE  idle' = 0 /\ Waiters' \subseteq woken'
    BY DEF ShutdownWakesAll
  <2>1. ASSUME NEW t \in Thread, GetConnection(t) PROVE FALSE
    BY <2>1 DEF GetConnection
  <2>2. ASSUME NEW t \in Thread, WakeUp(t) PROVE idle' = 0 /\ Waiters' \subseteq woken'
    BY <2>2 DEF WakeUp, Waiters, Goto, TypeOK, ShutdownWakesAll
  <2>3. ASSUME NEW t \in Thread, TimeOut(t) PROVE idle' = 0 /\ Waiters' \subseteq woken'
    BY <2>3 DEF TimeOut, Waiters, Goto, TypeOK, ShutdownWakesAll
  <2>4. ASSUME NEW t \in Thread, ReleaseConnection(t) PROVE idle' = 0 /\ Waiters' \subseteq woken'
    BY <2>4 DEF ReleaseConnection, Waiters, Goto, TypeOK, ShutdownWakesAll
  <2>5. CASE Shutdown
    BY <2>5 DEF Shutdown, Waiters
  <2>6. CASE DatabaseFails \/ DatabaseRecovers \/ UNCHANGED vars
    BY <2>6 DEF DatabaseFails, DatabaseRecovers, vars, Waiters, ShutdownWakesAll
  <2>. QED  BY <2>1, <2>2, <2>3, <2>4, <2>5, <2>6 DEF Next
<1>3. PoolInv => TypeOK
  BY DEF PoolInv
<1>. QED  BY <1>1, <1>2, <1>3, InitPoolInv, NextPoolInv, PTL DEF Spec

(* After shutdown no thread is given a connection any more.                *)
THEOREM NoLoanProved == Spec => NoLoanAfterShutdown
<1>1. TypeOK /\ [Next]_vars => [down => Borrowers' \subseteq Borrowers]_vars
  <2>. SUFFICES ASSUME TypeOK, Next, down PROVE Borrowers' \subseteq Borrowers
    OBVIOUS
  <2>1. ASSUME NEW t \in Thread, GetConnection(t) PROVE FALSE
    BY <2>1 DEF GetConnection
  <2>2. ASSUME NEW t \in Thread, WakeUp(t) \/ TimeOut(t) \/ ReleaseConnection(t)
        PROVE  Borrowers' \subseteq Borrowers
    BY <2>2 DEF WakeUp, TimeOut, ReleaseConnection, Borrowers, Goto, TypeOK
  <2>3. CASE Shutdown \/ DatabaseFails \/ DatabaseRecovers
    BY <2>3 DEF Shutdown, DatabaseFails, DatabaseRecovers, Borrowers
  <2>. QED  BY <2>1, <2>2, <2>3 DEF Next
<1>2. PoolInv => TypeOK
  BY DEF PoolInv
<1>. QED  BY <1>1, <1>2, InitPoolInv, NextPoolInv, PTL DEF Spec, NoLoanAfterShutdown

-----------------------------------------------------------------------------
(* The pool as a number of permits.                                         *)

\* The instance has a Cardinality of its own, which is the same operator.
LEMMA SameCardinality == ASSUME NEW S PROVE Loans!Cardinality(S) = Cardinality(S)
BY DEF Loans!Cardinality, Cardinality

LEMMA LoanStep ==
  ASSUME PoolInv, NEW t \in Thread, pc[t] \in {"out", "waiting"}, ~down,
         TakeIdle(t) \/ Create(t) \/ Wait(t)
  PROVE  Loans!Acquire(t) \/ UNCHANGED Borrowers
<1>1. ASSUME NEW where \in PC \ {"holding"}, Goto(t, where) PROVE UNCHANGED Borrowers
  BY <1>1, NoLoan DEF PoolInv
<1>2. ASSUME Goto(t, "holding"), active < MaxSize PROVE Loans!Acquire(t)
  <2>1. Borrowers' = Borrowers \cup {t} /\ t \notin Borrowers
    BY <1>2 DEF Borrowers, Goto, PoolInv, TypeOK
  <2>2. Cardinality(Borrowers) < MaxSize
    BY <1>2 DEF PoolInv, ActiveIsLent
  <2>. QED  BY <2>1, <2>2, SameCardinality DEF Loans!Acquire
<1>3. CASE TakeIdle(t)
  <2>1. active < MaxSize
    BY <1>3, SizeAssumption DEF TakeIdle, PoolInv, WithinMaxSize, TypeOK
  <2>2. Goto(t, "holding") \/ Goto(t, "hung")
    BY <1>3 DEF TakeIdle
  <2>3. "hung" \in PC \ {"holding"}
    OBVIOUS
  <2>. QED  BY <1>1, <1>2, <2>1, <2>2, <2>3
<1>4. CASE Create(t)
  BY <1>2, <1>4 DEF Create
<1>5. CASE Wait(t)
  BY <1>1, <1>5 DEF Wait
<1>. QED  BY <1>3, <1>4, <1>5

(* The pool implements Permits: it lends one connection at a time, while    *)
(* fewer than maxSize are lent, for every number of threads.                *)
THEOREM PoolIsPermits == Spec => LendsWithinLimit
<1>1. Init => Loans!Init
  BY DEF Init, Loans!Init, Borrowers
<1>2. PoolInv /\ [Next]_vars => [Loans!Next]_Borrowers
  <2>. SUFFICES ASSUME PoolInv, [Next]_vars PROVE [Loans!Next]_Borrowers
    OBVIOUS
  <2>1. ASSUME NEW t \in Thread, GetConnection(t) PROVE [Loans!Next]_Borrowers
    BY <2>1, LoanStep DEF GetConnection, Loans!Next
  <2>2. ASSUME NEW t \in Thread, WakeUp(t) PROVE [Loans!Next]_Borrowers
    <3>1. CASE ~down
      BY <2>2, <3>1, LoanStep DEF WakeUp, Loans!Next
    <3>2. CASE down
      <4>1. pc[t] = "waiting" /\ Goto(t, "out")
        BY <2>2, <3>2 DEF WakeUp
      <4>. QED  BY <4>1, NoLoan DEF PoolInv
    <3>. QED  BY <3>1, <3>2
  <2>3. ASSUME NEW t \in Thread, TimeOut(t) PROVE UNCHANGED Borrowers
    BY <2>3, NoLoan DEF TimeOut, PoolInv
  <2>4. ASSUME NEW t \in Thread, ReleaseConnection(t) PROVE Loans!Next
    <3>1. t \in Borrowers /\ Borrowers' = Borrowers \ {t}
      BY <2>4 DEF ReleaseConnection, Borrowers, Goto, PoolInv, TypeOK
    <3>. QED  BY <3>1 DEF Loans!Next, Loans!Release
  <2>5. CASE Shutdown \/ DatabaseFails \/ DatabaseRecovers \/ UNCHANGED vars
    BY <2>5 DEF Shutdown, DatabaseFails, DatabaseRecovers, vars, Borrowers
  <2>. QED  BY <2>1, <2>2, <2>3, <2>4, <2>5 DEF Next
<1>. QED  BY <1>1, <1>2, InitPoolInv, NextPoolInv, PTL DEF Spec, LendsWithinLimit, Loans!Spec
=============================================================================
