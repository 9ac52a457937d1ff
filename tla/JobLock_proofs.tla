---------------------------- MODULE JobLock_proofs ----------------------------
(***************************************************************************)
(* Mutual exclusion of the database lock, for any number of owners, any    *)
(* durations and an unbounded number of statements.                        *)
(***************************************************************************)
EXTENDS JobLock, FiniteSets, FiniteSetTheorems, TLAPS

(* A lease that has not run out is backed by the row.                      *)
LeaseBacked ==
    \A o \in Owner : Holds(o) => \E r \in row : r.owner = o /\ r.expire >= lease[o]

(* An owner about to check finds its own row only if its upsert wrote it,  *)
(* with an expiry no earlier than the call will promise.                   *)
CheckSound ==
    \A o \in Owner : pc[o] = "check" =>
        \A r \in row : r.owner = o => r.expire >= until[o]

(* What an upsert will write lasts at least as long as the call promises.  *)
PromiseKept == \A o \in Owner : pc[o] = "upsert" => until[o] <= now + want[o]

(* No lease survives into a call that is to replace it.                    *)
NoLeaseInCall == \A o \in Owner : pc[o] # "idle" => lease[o] = Never

LockInv == TypeOK /\ LeaseBacked /\ CheckSound /\ PromiseKept /\ NoLeaseInCall

-----------------------------------------------------------------------------
(* The table starts empty and nobody holds anything.                       *)
LEMMA InitLockInv == Init => LockInv
BY MaxTimeAssumption
   DEF Init, LockInv, TypeOK, LeaseBacked, CheckSound, PromiseKept, NoLeaseInCall,
       Holds, Times, Never, Row

(* Type correctness of each statement.                                     *)
LEMMA TypePreserved == TypeOK /\ [Next]_vars => TypeOK'
<1>. SUFFICES ASSUME TypeOK, [Next]_vars PROVE TypeOK'
  OBVIOUS
<1>. USE DurationAssumption DEF TypeOK, Row, Times, Never, Believe
<1>1. CASE Tick
  BY <1>1 DEF Tick
<1>2. ASSUME NEW o \in Owner, NEW d \in Duration, Clean(o, d) PROVE TypeOK'
  <2>1. d \in Nat /\ now + d \in Nat
    OBVIOUS
  <2>2. row' \subseteq row
    BY <1>2 DEF Clean
  <2>. QED  BY <1>2, <2>1, <2>2 DEF Clean
<1>3. ASSUME NEW o \in Owner, NEW d \in Duration, RefreshLock(o, d) PROVE TypeOK'
  <2>1. d \in Nat /\ now + d \in Nat
    OBVIOUS
  <2>2. row' \in SUBSET Row /\ \A r, s \in row' : r = s
    BY <1>3, <2>1 DEF RefreshLock
  <2>3. lease' \in [Owner -> Times] /\ trusted' \in [Owner -> Times]
    BY <1>3, <2>1 DEF RefreshLock
  <2>. QED  BY <1>3, <2>2, <2>3 DEF RefreshLock
<1>4. ASSUME NEW o \in Owner, Upsert(o) PROVE TypeOK'
  <2>1. want[o] \in Nat /\ now + want[o] \in Nat
    OBVIOUS
  <2>2. row' \in SUBSET Row /\ \A r, s \in row' : r = s
    BY <1>4, <2>1 DEF Upsert
  <2>. QED  BY <1>4, <2>2 DEF Upsert
<1>5. ASSUME NEW o \in Owner, Check(o) PROVE TypeOK'
  BY <1>5 DEF Check
<1>6. ASSUME NEW o \in Owner, GiveUp(o) PROVE TypeOK'
  BY <1>6 DEF GiveUp
<1>7. ASSUME NEW o \in Owner, ReleaseLock(o) PROVE TypeOK'
  BY <1>7 DEF ReleaseLock, Mine
<1>8. CASE UNCHANGED vars
  BY <1>8 DEF vars
<1>. QED  BY <1>1, <1>2, <1>3, <1>4, <1>5, <1>6, <1>7, <1>8 DEF Next

(* No statement, of any owner at any moment, breaks the invariant.         *)
LEMMA NextLockInv == LockInv /\ [Next]_vars => LockInv'
<1>. SUFFICES ASSUME LockInv, [Next]_vars PROVE LockInv'
  OBVIOUS
<1>0. TypeOK /\ TypeOK'
  BY TypePreserved DEF LockInv
<1>. SUFFICES LeaseBacked' /\ CheckSound' /\ PromiseKept' /\ NoLeaseInCall'
  BY <1>0 DEF LockInv
<1>. USE <1>0, DurationAssumption
     DEF LockInv, TypeOK, Row, Times, Never, Believe, Holds
<1>1. CASE Tick
  BY <1>1 DEF Tick, LeaseBacked, CheckSound, PromiseKept, NoLeaseInCall
<1>2. ASSUME NEW o \in Owner, NEW d \in Duration, Clean(o, d)
      PROVE  LeaseBacked' /\ CheckSound' /\ PromiseKept' /\ NoLeaseInCall'
  <2>1. row' \subseteq row /\ \A r \in row : r.expire >= now => r \in row'
    BY <1>2 DEF Clean, Expired
  <2>2. /\ now' = now /\ pc' = [pc EXCEPT ![o] = "upsert"]
        /\ want' = [want EXCEPT ![o] = d] /\ until' = [until EXCEPT ![o] = now + d]
        /\ lease' = [lease EXCEPT ![o] = Never]
    BY <1>2 DEF Clean
  <2>3. LeaseBacked'
    <3>. SUFFICES ASSUME NEW p \in Owner, Holds(p)'
                  PROVE  \E r \in row' : r.owner = p /\ r.expire >= lease'[p]
      BY DEF LeaseBacked
    <3>1. p # o /\ lease'[p] = lease[p] /\ lease[p] >= now
      BY <2>2
    <3>2. PICK r \in row : r.owner = p /\ r.expire >= lease[p]
      BY <3>1 DEF LeaseBacked
    <3>. QED  BY <2>1, <3>1, <3>2
  <2>4. CheckSound'
    BY <2>1, <2>2 DEF CheckSound
  <2>5. PromiseKept' /\ NoLeaseInCall'
    BY <2>2 DEF PromiseKept, NoLeaseInCall
  <2>. QED  BY <2>3, <2>4, <2>5
<1>3. ASSUME NEW o \in Owner, NEW d \in Duration, RefreshLock(o, d)
      PROVE  LeaseBacked' /\ CheckSound' /\ PromiseKept' /\ NoLeaseInCall'
  <2>1. /\ now' = now /\ pc' = pc /\ pc[o] = "idle" /\ want' = want /\ until' = until
        /\ lease' = [lease EXCEPT ![o] = IF Mine(o) # {} THEN now + d ELSE Never]
        /\ row' = {IF r.owner = o THEN [r EXCEPT !.expire = now + d] ELSE r : r \in row}
    BY <1>3 DEF RefreshLock
  <2>2. LeaseBacked'
    <3>. SUFFICES ASSUME NEW p \in Owner, Holds(p)'
                  PROVE  \E r \in row' : r.owner = p /\ r.expire >= lease'[p]
      BY DEF LeaseBacked
    <3>1. CASE p = o
      <4>1. Mine(o) # {} /\ lease'[p] = now + d
        BY <2>1, <3>1
      <4>2. PICK r \in row : r.owner = o
        BY <4>1 DEF Mine
      <4>3. [r EXCEPT !.expire = now + d] \in row'
        BY <2>1, <4>2
      <4>. QED  BY <3>1, <4>1, <4>2, <4>3
    <3>2. CASE p # o
      <4>1. lease'[p] = lease[p] /\ lease[p] >= now
        BY <2>1, <3>2
      <4>2. PICK r \in row : r.owner = p /\ r.expire >= lease[p]
        BY <4>1 DEF LeaseBacked
      <4>3. r \in row'
        BY <2>1, <3>2, <4>2
      <4>. QED  BY <4>1, <4>2, <4>3
    <3>. QED  BY <3>1, <3>2
  <2>3. CheckSound'
    <3>. SUFFICES ASSUME NEW p \in Owner, pc[p] = "check", NEW s \in row', s.owner = p
                  PROVE  s.expire >= until[p]
      BY <2>1 DEF CheckSound
    <3>1. p # o
      BY <2>1
    <3>2. s \in row
      BY <2>1, <3>1
    <3>. QED  BY <3>2 DEF CheckSound
  <2>4. PromiseKept' /\ NoLeaseInCall'
    BY <2>1 DEF PromiseKept, NoLeaseInCall
  <2>. QED  BY <2>2, <2>3, <2>4
<1>4. ASSUME NEW o \in Owner, Upsert(o)
      PROVE  LeaseBacked' /\ CheckSound' /\ PromiseKept' /\ NoLeaseInCall'
  <2>1. /\ pc[o] = "upsert" /\ pc' = [pc EXCEPT ![o] = "check"]
        /\ UNCHANGED <<now, want, until, lease>>
    BY <1>4 DEF Upsert
  <2>2. lease[o] = Never
    BY <2>1 DEF NoLeaseInCall
  <2>3. CASE \E r \in row : ~Expired(r) /\ r.owner # o
    <3>1. row' = row
      BY <1>4, <2>3 DEF Upsert
    <3>2. \A r \in row : r.owner # o
      BY <2>3
    <3>. QED  BY <2>1, <3>1, <3>2
              DEF LeaseBacked, CheckSound, PromiseKept, NoLeaseInCall
  <2>4. CASE ~(\E r \in row : ~Expired(r) /\ r.owner # o)
    <3>1. row' = {[owner |-> o, expire |-> now + want[o]]}
      BY <1>4, <2>4 DEF Upsert
    <3>2. LeaseBacked'
      <4>. SUFFICES ASSUME NEW p \in Owner, Holds(p)' PROVE FALSE
        BY DEF LeaseBacked
      <4>1. lease[p] >= now /\ p # o
        BY <2>1, <2>2
      <4>2. PICK r \in row : r.owner = p /\ r.expire >= lease[p]
        BY <4>1 DEF LeaseBacked
      <4>. QED  BY <2>4, <4>1, <4>2 DEF Expired
    <3>3. CheckSound'
      <4>1. until[o] <= now + want[o]
        BY <2>1 DEF PromiseKept
      <4>. QED  BY <2>1, <3>1, <4>1 DEF CheckSound
    <3>4. PromiseKept' /\ NoLeaseInCall'
      BY <2>1 DEF PromiseKept, NoLeaseInCall
    <3>. QED  BY <3>2, <3>3, <3>4
  <2>. QED  BY <2>3, <2>4
<1>5. ASSUME NEW o \in Owner, Check(o)
      PROVE  LeaseBacked' /\ CheckSound' /\ PromiseKept' /\ NoLeaseInCall'
  <2>1. /\ pc[o] = "check" /\ pc' = [pc EXCEPT ![o] = "idle"]
        /\ UNCHANGED <<row, now, want, until>>
    BY <1>5 DEF Check
  <2>2. CASE Mine(o) # {} /\ Believe(o, until[o], until[o])
    <3>1. PICK r \in row : r.owner = o
      BY <2>2 DEF Mine
    <3>2. r.expire >= until[o]
      BY <2>1, <3>1 DEF CheckSound
    <3>3. lease' = [lease EXCEPT ![o] = until[o]]
      BY <2>2
    <3>. QED  BY <2>1, <3>1, <3>2, <3>3
              DEF LeaseBacked, CheckSound, PromiseKept, NoLeaseInCall
  <2>3. CASE UNCHANGED lease
    BY <2>1, <2>3 DEF LeaseBacked, CheckSound, PromiseKept, NoLeaseInCall
  <2>. QED  BY <1>5, <2>2, <2>3 DEF Check
<1>6. ASSUME NEW o \in Owner, GiveUp(o)
      PROVE  LeaseBacked' /\ CheckSound' /\ PromiseKept' /\ NoLeaseInCall'
  BY <1>6 DEF GiveUp, LeaseBacked, CheckSound, PromiseKept, NoLeaseInCall
<1>7. ASSUME NEW o \in Owner, ReleaseLock(o)
      PROVE  LeaseBacked' /\ CheckSound' /\ PromiseKept' /\ NoLeaseInCall'
  BY <1>7 DEF ReleaseLock, Mine, LeaseBacked, CheckSound, PromiseKept, NoLeaseInCall
<1>8. CASE UNCHANGED vars
  BY <1>8 DEF vars, LeaseBacked, CheckSound, PromiseKept, NoLeaseInCall
<1>. QED  BY <1>1, <1>2, <1>3, <1>4, <1>5, <1>6, <1>7, <1>8 DEF Next

(* The lock is exclusive: two unexpired leases would both be backed by the *)
(* one row there is.                                                       *)
THEOREM LockExclusive == Spec => [](TypeOK /\ MutualExclusion)
<1>1. LockInv => TypeOK /\ MutualExclusion
  BY DEF LockInv, TypeOK, LeaseBacked, MutualExclusion
<1>. QED  BY <1>1, InitLockInv, NextLockInv, PTL DEF Spec

(* Nobody loses the lock to another owner before expire_time.              *)
THEOREM LockNotStolen == Spec => NotStolen
<1>1. TypeOK /\ [Next]_vars =>
        [\A r \in row, s \in row' : s.owner # r.owner => Expired(r)]_vars
  <2>. SUFFICES ASSUME TypeOK, Next, NEW r \in row, NEW s \in row', s.owner # r.owner
                PROVE  Expired(r)
    OBVIOUS
  <2>1. CASE Tick \/ \E o \in Owner : Check(o) \/ GiveUp(o) \/ ReleaseLock(o)
    BY <2>1 DEF Tick, Check, GiveUp, ReleaseLock, TypeOK
  <2>2. ASSUME NEW o \in Owner, NEW d \in Duration, Clean(o, d) PROVE Expired(r)
    BY <2>2 DEF Clean, TypeOK
  <2>3. ASSUME NEW o \in Owner, NEW d \in Duration, RefreshLock(o, d) PROVE Expired(r)
    BY <2>3 DEF RefreshLock, TypeOK, Row
  <2>4. ASSUME NEW o \in Owner, Upsert(o) PROVE Expired(r)
    <3>1. CASE \E q \in row : ~Expired(q) /\ q.owner # o
      BY <2>4, <3>1 DEF Upsert, TypeOK
    <3>2. CASE ~(\E q \in row : ~Expired(q) /\ q.owner # o)
      BY <2>4, <3>2 DEF Upsert
    <3>. QED  BY <3>1, <3>2
  <2>. QED  BY <2>1, <2>2, <2>3, <2>4 DEF Next
<1>2. LockInv => TypeOK
  BY DEF LockInv
<1>. QED  BY <1>1, <1>2, InitLockInv, NextLockInv, PTL DEF Spec, NotStolen

-----------------------------------------------------------------------------
(* The lock as one permit.                                                  *)

\* The instance has a Cardinality of its own, which is the same operator.
LEMMA SameCardinality == ASSUME NEW S PROVE Permit!Cardinality(S) = Cardinality(S)
BY DEF Permit!Cardinality, Cardinality

\* What makes an owner a holder: a row of its own that lasts long enough.
LEMMA RowDecides ==
    ASSUME LockInv, NEW o \in Owner, NEW p \in Owner, Holds(o), Mine(p) # {}
    PROVE  o = p
BY DEF LockInv, TypeOK, LeaseBacked, Mine

\* No step makes one owner a holder while another one is.
LEMMA NoHandOver ==
    ASSUME LockInv, [Next]_vars, NEW o \in Owner, NEW p \in Owner, Holds(o), Holds(p)'
    PROVE  o = p
<1>. USE DurationAssumption DEF LockInv, TypeOK, Times, Never, Believe, Holds
<1>1. ASSUME lease'[p] = lease[p], now' = now \/ now' = now + 1 PROVE o = p
  <2>1. Holds(p)
    BY <1>1
  <2>. QED  BY <2>1 DEF LeaseBacked
<1>2. CASE Tick \/ UNCHANGED vars
  BY <1>1, <1>2 DEF Tick, vars
<1>3. ASSUME NEW q \in Owner, UNCHANGED now, lease' = [lease EXCEPT ![q] = Never]
      PROVE  o = p
  BY <1>1, <1>3
<1>4. ASSUME NEW q \in Owner, NEW l, UNCHANGED now, lease' = [lease EXCEPT ![q] = l],
             Mine(q) # {}
      PROVE  o = p
  BY <1>1, <1>4, RowDecides
<1>5. ASSUME NEW q \in Owner, NEW d \in Duration, Clean(q, d) PROVE o = p
  BY <1>3, <1>5 DEF Clean
<1>6. ASSUME NEW q \in Owner, NEW d \in Duration, RefreshLock(q, d) PROVE o = p
  <2>1. CASE Mine(q) # {}
    BY <1>4, <1>6, <2>1 DEF RefreshLock
  <2>2. CASE Mine(q) = {}
    BY <1>3, <1>6, <2>2 DEF RefreshLock
  <2>. QED  BY <2>1, <2>2
<1>7. ASSUME NEW q \in Owner, Upsert(q) PROVE o = p
  BY <1>1, <1>7 DEF Upsert
<1>8. ASSUME NEW q \in Owner, Check(q) PROVE o = p
  BY <1>1, <1>4, <1>8 DEF Check
<1>9. ASSUME NEW q \in Owner, GiveUp(q) PROVE o = p
  BY <1>3, <1>9 DEF GiveUp
<1>10. ASSUME NEW q \in Owner, ReleaseLock(q) PROVE o = p
  BY <1>3, <1>10 DEF ReleaseLock
<1>. QED  BY <1>2, <1>5, <1>6, <1>7, <1>8, <1>9, <1>10 DEF Next

(* The lock implements Permits with a limit of one: whatever the statements  *)
(* of acquireLock, refreshLock and releaseLock do to each other, it passes   *)
(* from owner to owner through a moment in which nobody holds it.            *)
THEOREM LockIsPermit == Spec => OneHolder
<1>. DEFINE H == {o \in Owner : Holds(o)}
<1>1. Init => Permit!Init
  BY DEF Init, Permit!Init, Holds, Never
<1>2. LockInv /\ LockInv' /\ [Next]_vars => [Permit!Next]_H
  <2>. SUFFICES ASSUME LockInv, LockInv', [Next]_vars, H' # H PROVE Permit!Next
    OBVIOUS
  <2>1. /\ \A o, p \in H : o = p
        /\ \A o, p \in H' : o = p
    <3>1. \A o, p \in Owner : Holds(o) /\ Holds(p) => o = p
      BY DEF LockInv, TypeOK, LeaseBacked
    <3>2. \A o, p \in Owner : Holds(o)' /\ Holds(p)' => o = p
      BY DEF LockInv, TypeOK, LeaseBacked
    <3>. QED  BY <3>1, <3>2
  <2>2. \A o \in H, p \in H' : o = p
    BY NoHandOver
  <2>3. CASE H = {}
    <3>1. PICK p \in Owner : H' = {p}
      BY <2>1, <2>3
    <3>2. Cardinality(H) < 1
      BY <2>3, FS_EmptySet
    <3>. QED  BY <2>3, <3>1, <3>2, SameCardinality DEF Permit!Next, Permit!Acquire
  <2>4. CASE H # {}
    <3>1. PICK o \in Owner : H = {o}
      BY <2>1, <2>4
    <3>2. H' = {}
      BY <2>2, <3>1
    <3>. QED  BY <3>1, <3>2 DEF Permit!Next, Permit!Release
  <2>. QED  BY <2>3, <2>4
<1>. QED  BY <1>1, <1>2, InitLockInv, NextLockInv, PTL DEF Spec, OneHolder, Permit!Spec
=============================================================================
