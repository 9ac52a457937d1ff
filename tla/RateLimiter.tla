----------------------------- MODULE RateLimiter -----------------------------
(***************************************************************************)
(* The rate limiters of common/src/ratelimiter.cpp: the limiter of one key *)
(* of RateLimiter, which holds mapMutex_ around every call, so that each   *)
(* call is one action.  Keys do not interact.  setRate and setCapacity are *)
(* methods of the limiters that RateLimiter itself never calls.            *)
(*                                                                         *)
(* The clock is read with a finer grain than the millisecond in which      *)
(* durations are compared: Grain readings per millisecond.  1000/rate is   *)
(* an integer; the rates are those for which it is not zero, since dividing*)
(* by zero is undefined.  Tokens are a fraction: level counts 1/Unit of    *)
(* one.                                                                    *)
(*                                                                         *)
(* A definition Op_fault is a faulty variant of Op, never part of Next: it *)
(* is what the properties are validated against.                           *)
(***************************************************************************)
EXTENDS Integers, Sequences

CONSTANTS Capacities, Rates,   \* what limiters are configured with
          Second,              \* milliseconds in a second (1000 in the code)
          Grain, Unit,
          MaxCount,            \* largest count passed to tryAcquireBatch
          MaxTime, MaxGrants, MaxEdits   \* bounds

Strategies == {"TOKEN_BUCKET", "SLIDING_WINDOW", "LEAKY_BUCKET"}

ASSUME LimiterAssumption ==
    /\ Capacities \subseteq Nat
    /\ Second \in Nat /\ Grain \in Nat \ {0} /\ Unit \in Nat \ {0}
    /\ Rates \subseteq 1 .. Second
    /\ \A r \in Rates : Unit % (Second \div r) = 0
    /\ MaxCount \in Nat /\ MaxTime \in Nat /\ MaxGrants \in Nat /\ MaxEdits \in Nat

VARIABLES limiter,    \* the limiter of the key, or NoLimiter
          now,        \* steady_clock
          grants,     \* when it let a caller pass, since it was last configured
          refused,    \* it refused the last caller, at this moment
          pristine,   \* it has the configuration it was created with
          edits

vars == <<limiter, now, grants, refused, pristine, edits>>

\* level: tokens_ or water_; mark: lastRefillTime_ or lastLeakTime_; log:
\* requests_; period: rate_ or windowSize_.
Limiter == [kind : Strategies, capacity : Capacities, period : Nat,
            level : Nat, mark : Nat, log : Seq(Nat)]
NoLimiter == [kind |-> "NONE", capacity |-> 0, period |-> 0, level |-> 0, mark |-> 0, log |-> <<>>]

TypeOK ==
    /\ limiter \in Limiter \cup {NoLimiter}
    /\ limiter.kind = "TOKEN_BUCKET" => limiter.level <= limiter.capacity * Unit
    /\ limiter.mark <= now
    /\ \A i \in DOMAIN limiter.log : limiter.log[i] <= now
    /\ now \in 0 .. MaxTime
    /\ grants \in Seq(Nat)
    /\ refused \in BOOLEAN /\ pristine \in BOOLEAN
    /\ edits \in 0 .. MaxEdits

Init ==
    /\ limiter = NoLimiter
    /\ now = 0
    /\ grants = <<>>
    /\ refused = FALSE /\ pristine = TRUE
    /\ edits = 0

Least(a, b) == IF a <= b THEN a ELSE b

\* duration_cast to milliseconds.
Elapsed(t) == (now - t) \div Grain

-----------------------------------------------------------------------------
(* The limiters                                                             *)

\* RateLimiterFactory::create.  A sliding window is a second whatever the rate.
Create(capacity, rate, strategy) ==
    [kind |-> strategy, capacity |-> capacity,
     period |-> IF strategy = "SLIDING_WINDOW" THEN Second ELSE Second \div rate,
     level |-> IF strategy = "TOKEN_BUCKET" THEN capacity * Unit ELSE 0,
     mark |-> now, log |-> <<>>]

Due(l) == Elapsed(l.mark) >= l.period

Refill_unlimited(l) ==
    IF Due(l)
    THEN [l EXCEPT !.level = @ + Elapsed(l.mark) * (Unit \div l.period), !.mark = now]
    ELSE l
Refill(l) ==
    IF Due(l)
    THEN [l EXCEPT !.level = Least(l.capacity * Unit, @ + Elapsed(l.mark) * (Unit \div l.period)),
                   !.mark = now]
    ELSE l

\* The requests at the front are dropped, up to the first one that is not old.
DropFront(l, old) ==
    LET n == CHOOSE n \in 0 .. Len(l.log) : 1 .. n \subseteq old /\ n + 1 \notin old
    IN  [l EXCEPT !.log = SubSeq(@, n + 1, Len(@))]

Cleanup_early(l) == DropFront(l, {i \in DOMAIN l.log : Elapsed(l.log[i]) >= l.period})
Cleanup(l) == DropFront(l, {i \in DOMAIN l.log : Elapsed(l.log[i]) > l.period})

Leak_unmarked(l) ==
    IF Due(l)
    THEN [l EXCEPT !.level = IF @ > Elapsed(l.mark) \div l.period
                             THEN @ - Elapsed(l.mark) \div l.period ELSE 0]
    ELSE l
Leak_alwaysMarked(l) ==
    [l EXCEPT !.level = IF @ > Elapsed(l.mark) \div l.period
                        THEN @ - Elapsed(l.mark) \div l.period ELSE 0,
              !.mark = now]
\* What exceeds a whole number of periods is lost when the time is marked.
Leak(l) ==
    IF Due(l)
    THEN [l EXCEPT !.level = IF @ > Elapsed(l.mark) \div l.period
                             THEN @ - Elapsed(l.mark) \div l.period ELSE 0,
                   !.mark = now]
    ELSE l

Tried(l, granted) == [limiter |-> l, granted |-> granted]

\* The compare_exchange writes current - 0: no token is taken.
AcquireToken(l) == LET r == Refill(l) IN Tried(r, r.level >= Unit)

AcquireSlot(l) ==
    LET r == Cleanup(l) IN
    IF Len(r.log) < r.capacity
    THEN Tried([r EXCEPT !.log = Append(@, now)], TRUE)
    ELSE Tried(r, FALSE)

AcquireRoom(l) ==
    LET r == Leak(l) IN
    IF r.level < r.capacity THEN Tried([r EXCEPT !.level = @ + 1], TRUE) ELSE Tried(r, FALSE)

\* tryAcquire of the three classes.
Acquire(l) ==
    CASE l.kind = "TOKEN_BUCKET"   -> AcquireToken(l)
      [] l.kind = "SLIDING_WINDOW" -> AcquireSlot(l)
      [] l.kind = "LEAKY_BUCKET"   -> AcquireRoom(l)

\* A round of the loop of tryAcquireBatch: nothing more is tried after the
\* first refusal.
Round(before, k) ==
    LET this == Acquire(before.limiter) IN
    IF ~before.granted THEN before
    ELSE [limiter |-> this.limiter, granted |-> this.granted,
          taken |-> IF this.granted THEN k ELSE before.taken]

\* What was granted before a refusal stays taken.
AcquireMany(count) ==
    LET after[k \in 0 .. count] ==
          IF k = 0 THEN [limiter |-> limiter, granted |-> TRUE, taken |-> 0]
          ELSE Round(after[k - 1], k)
    IN  after[count]

-----------------------------------------------------------------------------
(* RateLimiter                                                              *)

Edit == edits < MaxEdits /\ edits' = edits + 1

Configured(l, fresh) ==
    /\ limiter' = l
    /\ grants' = <<>> /\ refused' = FALSE /\ pristine' = fresh
    /\ UNCHANGED now

\* A key that has a limiter keeps it.
AddLimiter(capacity, rate, strategy) ==
    /\ limiter = NoLimiter
    /\ Configured(Create(capacity, rate, strategy), TRUE)
    /\ UNCHANGED edits

RemoveLimiter ==
    /\ limiter # NoLimiter
    /\ Configured(NoLimiter, TRUE)
    /\ UNCHANGED edits

\* A new limiter: what the old one remembered is forgotten.
UpdateLimiter(capacity, rate, strategy) ==
    /\ limiter # NoLimiter
    /\ Edit
    /\ Configured(Create(capacity, rate, strategy), TRUE)

SetRate(rate) ==
    /\ limiter # NoLimiter
    /\ Edit
    /\ Configured([limiter EXCEPT !.period = Second \div rate], FALSE)

SetCapacity(capacity) ==
    /\ limiter # NoLimiter
    /\ Edit
    /\ LET l == [limiter EXCEPT !.capacity = capacity] IN
       Configured(IF l.kind = "TOKEN_BUCKET" THEN [l EXCEPT !.level = Least(capacity * Unit, @)]
                  ELSE l, FALSE)

\* tryAcquire is a batch of one.  Without a limiter everybody passes.
TryAcquireBatch(count) ==
    /\ limiter # NoLimiter
    /\ Len(grants) + count <= MaxGrants
    /\ LET result == AcquireMany(count) IN
       /\ limiter' = result.limiter
       /\ grants' = grants \o [i \in 1 .. result.taken |-> now]
       /\ refused' = ~result.granted
    /\ UNCHANGED <<now, pristine, edits>>

Tick ==
    /\ now < MaxTime
    /\ now' = now + 1
    /\ refused' = FALSE
    /\ UNCHANGED <<limiter, grants, pristine, edits>>

Next ==
    \/ \E c \in Capacities, r \in Rates, s \in Strategies :
          AddLimiter(c, r, s) \/ UpdateLimiter(c, r, s)
    \/ RemoveLimiter
    \/ \E r \in Rates : SetRate(r)
    \/ \E c \in Capacities : SetCapacity(c)
    \/ \E n \in 1 .. MaxCount : TryAcquireBatch(n)
    \/ Tick

Spec == Init /\ [][Next]_vars
-----------------------------------------------------------------------------
(* Properties                                                               *)

\* The grants from the i-th to the k-th, and how long they took.
Granted(i, k) == k - i + 1
Span(i, k)    == (grants[k] - grants[i]) \div Grain

(* A sliding window lets at most capacity callers pass in any stretch of     *)
(* windowSize_, wherever the stretch begins and however the calls are        *)
(* batched, and after setRate and setCapacity as soon as they have returned. *)
WindowBound ==
    limiter.kind = "SLIDING_WINDOW" =>
        \A i, k \in DOMAIN grants :
            i <= k /\ Span(i, k) <= limiter.period => Granted(i, k) <= limiter.capacity

(* A leaky bucket lets at most capacity callers pass at once, and one more   *)
(* for each period, but for one: the period that is under way when a stretch *)
(* begins.  lastLeakTime_ never lets time be counted twice.                  *)
LeakBound ==
    limiter.kind = "LEAKY_BUCKET" =>
        \A i, k \in DOMAIN grants :
            i <= k => Granted(i, k) <= limiter.capacity + Span(i, k) \div limiter.period + 1

(* A sliding window refuses only when it is full: capacity callers passed    *)
(* within windowSize_ of this moment.  A leaky bucket refuses only for less  *)
(* than a period after it let somebody pass: callers who keep asking do not  *)
(* starve, although asking marks the time and loses the remainder.           *)
RefusedOnlyWhenFull ==
    refused /\ pristine /\ limiter.capacity > 0 =>
        LET recent(d) == {i \in DOMAIN grants : Elapsed(grants[i]) <= d} IN
        /\ limiter.kind = "SLIDING_WINDOW" =>
              \E i \in DOMAIN grants :
                  Granted(i, Len(grants)) = limiter.capacity /\ i \in recent(limiter.period)
        /\ limiter.kind = "LEAKY_BUCKET" => recent(limiter.period - 1) # {}
-----------------------------------------------------------------------------
(* What the name says and the code does not do                              *)

(* A token bucket lets capacity callers pass at once, and then one for each  *)
(* token that is refilled.                                                   *)
TokenBound ==
    limiter.kind = "TOKEN_BUCKET" =>
        \A i, k \in DOMAIN grants :
            i <= k => Granted(i, k) <= limiter.capacity + Span(i, k) \div limiter.period + 1
=============================================================================
