-------------------------- MODULE DBConnectionPool --------------------------
(***************************************************************************)
(* The process-wide MySQL connection pool, common/src/db_connection_pool:  *)
(* getConnection and releaseConnection called by the threads of one        *)
(* process, and shutdown.  Every method body runs under mutex_, so it is   *)
(* one action, except that a thread which waits on condition_ gives the    *)
(* mutex up, and that a thread which enters getConnection recursively      *)
(* blocks on the mutex it already holds: it is hung, and so is everyone.   *)
(* (Locking a std::mutex twice in one thread is undefined; on the platform *)
(* the project is built for the thread blocks.)  A call made after         *)
(* shutdown returns nullptr and changes nothing.                           *)
(*                                                                         *)
(* A definition Op_fault is a faulty variant of Op, never part of Next: it *)
(* is what the properties are validated against.                           *)
(***************************************************************************)
EXTENDS Naturals, FiniteSets

CONSTANTS Thread,        \* the threads that call the pool
          InitialSize,   \* connections opened by initialize()
          MaxSize,       \* upper limit on connections
          MaxOutages     \* bound: how often the database may become unreachable

ASSUME SizeAssumption ==
    /\ InitialSize \in Nat
    /\ MaxSize \in Nat
    /\ InitialSize <= MaxSize

ASSUME ThreadAssumption == IsFiniteSet(Thread)

ASSUME OutageAssumption == MaxOutages \in Nat

VARIABLES idle,       \* connectionPool_.size()
          active,     \* activeConnections_
          down,       \* shutdown_
          pc,         \* where each thread is with respect to the pool
          woken,      \* waiting threads that have been notified
          dbUp,       \* the database server answers
          outages     \* outages so far

vars == <<idle, active, down, pc, woken, dbUp, outages>>

\* "out": holds no connection, "waiting": inside condition_.wait_until,
\* "holding": was given a connection, "hung": blocked on its own mutex.
PC == {"out", "waiting", "holding", "hung"}

Borrowers == {t \in Thread : pc[t] = "holding"}
Waiters   == {t \in Thread : pc[t] = "waiting"}
MutexFree == \A t \in Thread : pc[t] # "hung"

Goto(t, where) == pc' = [pc EXCEPT ![t] = where]

TypeOK ==
    /\ idle \in Nat
    /\ active \in Nat
    /\ down \in BOOLEAN
    /\ pc \in [Thread -> PC]
    /\ woken \in SUBSET Thread
    /\ dbUp \in BOOLEAN
    /\ outages \in Nat

-----------------------------------------------------------------------------
\* initialize() opens InitialSize connections; those that fail are skipped.
Init ==
    /\ idle \in 0 .. InitialSize
    /\ active = 0
    /\ down = FALSE
    /\ pc = [t \in Thread |-> "out"]
    /\ woken = {}
    /\ dbUp = TRUE
    /\ outages = 0

TakeIdle_leaksSlot(t) ==
    /\ idle > 0
    /\ idle' = idle - 1
    /\ active' = active + 1
    /\ Goto(t, IF dbUp THEN "holding" ELSE "hung")
TakeIdle_countedLate(t) ==
    /\ idle > 0
    /\ idle' = idle - 1
    /\ IF dbUp
       THEN active' = active + 1 /\ Goto(t, "holding")
       ELSE active' = active - 1 /\ Goto(t, "hung")
\* Front of the queue is taken: valid, or reconnected, or else given up, in
\* which case getConnection calls itself with mutex_ held.
TakeIdle(t) ==
    /\ idle > 0
    /\ idle' = idle - 1
    /\ IF dbUp
       THEN active' = active + 1 /\ Goto(t, "holding")
       ELSE active' = active /\ Goto(t, "hung")

Create_overLimit(t) ==
    /\ idle = 0 /\ active <= MaxSize /\ dbUp
    /\ active' = active + 1
    /\ Goto(t, "holding")
    /\ UNCHANGED idle
\* The queue is empty and there is room: createConnection().
Create(t) ==
    /\ idle = 0 /\ active < MaxSize /\ dbUp
    /\ active' = active + 1
    /\ Goto(t, "holding")
    /\ UNCHANGED idle

\* The queue is empty and no connection could be created: wait on condition_.
Wait(t) ==
    /\ idle = 0
    /\ ~(active < MaxSize /\ dbUp)
    /\ Goto(t, "waiting")
    /\ UNCHANGED <<idle, active>>

GetConnection_ignoreShutdown(t) ==
    /\ MutexFree
    /\ pc[t] = "out"
    /\ TakeIdle(t) \/ Create(t) \/ Wait(t)
    /\ UNCHANGED <<down, woken, dbUp, outages>>
GetConnection(t) ==
    /\ MutexFree
    /\ pc[t] = "out"
    /\ ~down
    /\ TakeIdle(t) \/ Create(t) \/ Wait(t)
    /\ UNCHANGED <<down, woken, dbUp, outages>>

\* wait_until returns because of a notification (or spuriously): nullptr when
\* the pool was shut down meanwhile, otherwise round the loop again.
WakeUp(t) ==
    /\ MutexFree
    /\ pc[t] = "waiting"
    /\ woken' = woken \ {t}
    /\ \/ down /\ Goto(t, "out") /\ UNCHANGED <<idle, active>>
       \/ ~down /\ (TakeIdle(t) \/ Create(t) \/ Wait(t))
    /\ UNCHANGED <<down, dbUp, outages>>

TimeOut_never(t) == FALSE /\ UNCHANGED vars
\* wait_until reports a timeout: nullptr, even if a connection is idle by now
\* and even if the thread had been notified.
TimeOut(t) ==
    /\ MutexFree
    /\ pc[t] = "waiting"
    /\ Goto(t, "out")
    /\ woken' = woken \ {t}
    /\ UNCHANGED <<idle, active, down, dbUp, outages>>

NotifyOne ==
    IF Waiters \ woken = {}
    THEN UNCHANGED woken
    ELSE \E w \in Waiters \ woken : woken' = woken \cup {w}

\* After shutdown a returned connection is dropped and nothing is updated.
ReleaseConnection(t) ==
    /\ MutexFree
    /\ pc[t] = "holding"
    /\ Goto(t, "out")
    /\ \/ down /\ UNCHANGED <<idle, active, woken>>
       \/ ~down /\ idle' = idle + 1 /\ active' = active - 1 /\ NotifyOne
    /\ UNCHANGED <<down, dbUp, outages>>

Shutdown_silent ==
    /\ MutexFree
    /\ ~down
    /\ down' = TRUE
    /\ UNCHANGED <<idle, active, pc, woken, dbUp, outages>>
Shutdown ==
    /\ MutexFree
    /\ ~down
    /\ down' = TRUE
    /\ idle' = 0
    /\ woken' = Waiters
    /\ UNCHANGED <<active, pc, dbUp, outages>>

\* The database server, external to the code.
DatabaseFails ==
    /\ dbUp /\ outages < MaxOutages
    /\ dbUp' = FALSE
    /\ outages' = outages + 1
    /\ UNCHANGED <<idle, active, down, pc, woken>>

DatabaseRecovers ==
    /\ ~dbUp
    /\ dbUp' = TRUE
    /\ UNCHANGED <<idle, active, down, pc, woken, outages>>

Next ==
    \/ \E t \in Thread : \/ GetConnection(t)
                         \/ WakeUp(t)
                         \/ TimeOut(t)
                         \/ ReleaseConnection(t)
    \/ Shutdown
    \/ DatabaseFails
    \/ DatabaseRecovers

Spec == Init /\ [][Next]_vars

\* A waiting thread's deadline passes, a borrower finishes its statement and
\* gives the connection back (every method of JobDAO does on every path).
Fairness == \A t \in Thread : WF_vars(TimeOut(t)) /\ WF_vars(ReleaseConnection(t))
FairSpec == Spec /\ Fairness

-----------------------------------------------------------------------------
Loans == INSTANCE Permits WITH Client <- Thread, Limit <- MaxSize,
                              holders <- Borrowers

(* The pool is MaxSize permits: a thread is given a connection only while   *)
(* fewer than maxSize are lent, one at a time, whatever the order in which  *)
(* threads create, take, return, time out and shut down.                    *)
LendsWithinLimit == Loans!Spec

(* Connections lent and idle together never exceed maxSize: getConnection   *)
(* compares activeConnections_ alone, but only when none is idle.           *)
WithinMaxSize == idle + active <= MaxSize

(* activeConnections_ is the number of connections lent, until shutdown    *)
(* stops the bookkeeping: no path of getConnection or releaseConnection    *)
(* leaks a slot, so the pool cannot be exhausted by earlier failures.      *)
ActiveIsLent == ~down => active = Cardinality(Borrowers)

(* Once shutdown() has run, no thread obtains a connection: neither a new  *)
(* caller nor one that was waiting when the pool was shut down.            *)
NoLoanAfterShutdown == [][down => Borrowers' \subseteq Borrowers]_vars

(* shutdown() leaves nobody asleep: whoever still waits has been notified, *)
(* and the idle connections are gone for good.                             *)
ShutdownWakesAll == down => idle = 0 /\ Waiters \subseteq woken

(* A thread that waits in getConnection comes back, with a connection or   *)
(* with nullptr, through shutdown, competition for released connections    *)
(* and outages, as long as nobody hangs on the mutex.                      *)
WaitEnds == \A t \in Thread : pc[t] = "waiting" ~> pc[t] # "waiting" \/ ~MutexFree
-----------------------------------------------------------------------------
(* What the comment in getConnection says and the code does not do: it     *)
(* "waits for a connection or a timeout" (line 202), and then returns.     *)
WaitAlwaysEnds == \A t \in Thread : pc[t] = "waiting" ~> pc[t] # "waiting"
=============================================================================
