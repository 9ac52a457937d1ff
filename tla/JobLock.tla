------------------------------- MODULE JobLock -------------------------------
(***************************************************************************)
(* The lock table of the database (job_lock) and the three operations of   *)
(* JobDAO on it: acquireLock, which is three SQL statements, refreshLock   *)
(* and releaseLock, one statement each.  The statements autocommit: other  *)
(* owners' statements may run between those of one acquireLock.  Locks of  *)
(* different names share no row: one name is modelled.                     *)
(*                                                                         *)
(* A definition Op_fault is a faulty variant of Op, never part of Next: it *)
(* is what the properties are validated against.                           *)
(***************************************************************************)
EXTENDS Integers

CONSTANTS Owner,      \* the processes that use the lock
          Duration,   \* values of expireSeconds the callers pass
          MaxTime     \* bound of the server's clock, NOW()

ASSUME DurationAssumption == Duration \subseteq Nat
ASSUME MaxTimeAssumption == MaxTime \in Nat

VARIABLES row,      \* the row of the lock: {} or a set of one record
          now,      \* NOW()
          pc,       \* progress of each owner's acquireLock call
          want,     \* its expireSeconds
          until,    \* call time + expireSeconds: what success will promise
          lease,    \* until when an owner really holds the lock, or -1
          trusted   \* until when it holds it by what the calls returned, or -1

vars == <<row, now, pc, want, until, lease, trusted>>

Row   == [owner : Owner, expire : Nat]
Never == -1
Times == Nat \cup {Never}

TypeOK ==
    /\ row \in SUBSET Row
    /\ \A r, s \in row : r = s
    /\ now \in Nat
    /\ pc \in [Owner -> {"idle", "upsert", "check"}]
    /\ want \in [Owner -> Nat]
    /\ until \in [Owner -> Nat]
    /\ lease \in [Owner -> Times]
    /\ trusted \in [Owner -> Times]

Expired(r) == r.expire < now
Mine(o) == {r \in row : r.owner = o}

Init ==
    /\ row = {}
    /\ now = 0
    /\ pc = [o \in Owner |-> "idle"]
    /\ want = [o \in Owner |-> 0]
    /\ until = [o \in Owner |-> 0]
    /\ lease = [o \in Owner |-> Never]
    /\ trusted = [o \in Owner |-> Never]

\* What owner o really holds from now on, and what it has been told.
Believe(o, real, said) ==
    /\ lease' = [lease EXCEPT ![o] = real]
    /\ trusted' = [trusted EXCEPT ![o] = said]

Tick ==
    /\ now < MaxTime
    /\ now' = now + 1
    /\ UNCHANGED <<row, pc, want, until, lease, trusted>>

\* acquireLock, DELETE ... WHERE expire_time < NOW().
Clean(o, d) ==
    /\ pc[o] = "idle"
    /\ \/ row' = {r \in row : ~Expired(r)}
       \/ UNCHANGED row                      \* the statement failed: ignored
    /\ pc' = [pc EXCEPT ![o] = "upsert"]
    /\ want' = [want EXCEPT ![o] = d]
    /\ until' = [until EXCEPT ![o] = now + d]
    /\ Believe(o, Never, Never)
    /\ UNCHANGED now

Upsert_noUniqueKey(o) ==
    /\ pc[o] = "upsert"
    /\ row' = row \cup {[owner |-> o, expire |-> now + want[o]]}
    /\ pc' = [pc EXCEPT ![o] = "check"]
    /\ UNCHANGED <<now, want, until, lease, trusted>>
\* acquireLock, INSERT ... ON DUPLICATE KEY UPDATE: insert, or take over an
\* expired row, or prolong the owner's own; another owner's live row stays.
Upsert(o) ==
    /\ pc[o] = "upsert"
    /\ row' = IF \E r \in row : ~Expired(r) /\ r.owner # o
              THEN row
              ELSE {[owner |-> o, expire |-> now + want[o]]}
    /\ pc' = [pc EXCEPT ![o] = "check"]
    /\ UNCHANGED <<now, want, until, lease, trusted>>

Check_anyRow(o) ==
    /\ pc[o] = "check"
    /\ pc' = [pc EXCEPT ![o] = "idle"]
    /\ row # {} /\ Believe(o, until[o], until[o])
    /\ UNCHANGED <<row, now, want, until>>
\* acquireLock, SELECT ... WHERE lock_owner = owner: true if there is a row.
Check(o) ==
    /\ pc[o] = "check"
    /\ pc' = [pc EXCEPT ![o] = "idle"]
    /\ \/ Mine(o) # {} /\ Believe(o, until[o], until[o])
       \/ Mine(o) = {} /\ UNCHANGED <<lease, trusted>>
    /\ UNCHANGED <<row, now, want, until>>

\* A statement of acquireLock fails and it returns false, or the owner dies.
GiveUp(o) ==
    /\ pc' = [pc EXCEPT ![o] = "idle"]
    /\ Believe(o, Never, Never)
    /\ UNCHANGED <<row, now, want, until>>

\* UPDATE ... WHERE lock_owner = owner: true even when no row was updated, so
\* that an owner which once acquired the lock believes it still has it.
RefreshLock(o, d) ==
    /\ pc[o] = "idle"
    /\ row' = {IF r.owner = o THEN [r EXCEPT !.expire = now + d] ELSE r : r \in row}
    /\ Believe(o, IF Mine(o) # {} THEN now + d ELSE Never,
                  IF trusted[o] # Never THEN now + d ELSE Never)
    /\ UNCHANGED <<now, pc, want, until>>

\* DELETE ... WHERE lock_owner = owner.
ReleaseLock(o) ==
    /\ pc[o] = "idle"
    /\ row' = row \ Mine(o)
    /\ Believe(o, Never, Never)
    /\ UNCHANGED <<now, pc, want, until>>

Next ==
    \/ Tick
    \/ \E o \in Owner, d \in Duration : Clean(o, d) \/ RefreshLock(o, d)
    \/ \E o \in Owner : Upsert(o) \/ Check(o) \/ GiveUp(o) \/ ReleaseLock(o)

Spec == Init /\ [][Next]_vars

-----------------------------------------------------------------------------
Holds(o)  == lease[o] >= now
Trusts(o) == trusted[o] >= now

Permit == INSTANCE Permits WITH Client <- Owner, Limit <- 1,
                               holders <- {o \in Owner : Holds(o)}

(* The lock is one permit: it passes from owner to owner only through a     *)
(* moment in which nobody holds it, whatever happens between the three      *)
(* statements of acquireLock, at the second in which a lease expires, or    *)
(* when an owner that lost the lock refreshes or releases it.               *)
OneHolder == Permit!Spec

(* Two owners never hold the lock at once.                                  *)
MutualExclusion == \A o, p \in Owner : Holds(o) /\ Holds(p) => o = p

(* The row passes to another owner only after expire_time.                  *)
NotStolen ==
    [][\A r \in row, s \in row' : s.owner # r.owner => Expired(r)]_vars

(* What the callers can tell from the return values: refreshLock answers   *)
(* true whether or not the caller still owned the row.                     *)
TrustedExclusion == \A o, p \in Owner : Trusts(o) /\ Trusts(p) => o = p
=============================================================================
