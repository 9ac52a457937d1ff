-------------------------- MODULE RateLimiter_proofs --------------------------
(***************************************************************************)
(* What the rate limiters let pass and what they refuse, for any rates and *)
(* capacities, batches of any size and a clock that runs on.               *)
(*                                                                         *)
(* What a limiter remembers is less than what it has done.  The inductive  *)
(* invariant says what its state still tells about all it let pass: the    *)
(* log of a sliding window is the end of its grants, and whatever is not   *)
(* in it has left the window (LogIsTail); the level of a leaky bucket      *)
(* counts the grants that the whole periods before the mark have not made  *)
(* room for (WaterCounts).  A batch keeps it round by round.               *)
(***************************************************************************)
EXTENDS RateLimiter, NaturalsInduction, WellFoundedInduction, SequenceTheorems, TLAPS

-----------------------------------------------------------------------------
(* Division                                                                 *)

LEMMA DivFacts ==
    ASSUME NEW a \in Nat, NEW b \in Nat \ {0}
    PROVE  a \div b \in Nat /\ b * (a \div b) <= a /\ a < b * (a \div b) + b
OBVIOUS

\* The quotient is the greatest q with b * q <= a.
LEMMA DivLeast ==
    ASSUME NEW a \in Nat, NEW b \in Nat \ {0}, NEW q \in Nat
    PROVE  b * q <= a <=> q <= a \div b
<1>. DEFINE d == a \div b
<1>1. d \in Nat /\ b * d <= a /\ a < b * (d + 1)
  BY DivFacts
<1>. HIDE DEF d
<1>2. CASE q <= d
  <2>1. b * q <= b * d
    BY <1>1, <1>2
  <2>. QED BY <1>1, <1>2, <2>1 DEF d
<1>3. CASE q >= d + 1
  <2>1. b * q >= b * (d + 1)
    BY <1>1, <1>3
  <2>. QED BY <1>1, <1>3, <2>1 DEF d
<1>. QED BY <1>1, <1>2, <1>3

LEMMA DivSum ==
    ASSUME NEW a \in Nat, NEW c \in Nat, NEW b \in Nat \ {0}
    PROVE  /\ a \div b + c \div b <= (a + c) \div b
           /\ (a + c) \div b <= a \div b + c \div b + 1
           /\ a \div b <= (a + c) \div b
           /\ (a + b) \div b = a \div b + 1
<1>. DEFINE p == a \div b
            q == c \div b
            r == (a + c) \div b
            s == (a + b) \div b
<1>1. /\ p \in Nat /\ b * p <= a /\ a < b * p + b
      /\ q \in Nat /\ b * q <= c /\ c < b * q + b
      /\ r \in Nat /\ b * r <= a + c /\ a + c < b * r + b
      /\ s \in Nat /\ b * s <= a + b /\ a + b < b * s + b
  BY DivFacts
<1>. HIDE DEF p, q, r, s
<1>2. b * (p + q) = b * p + b * q /\ b * (r + 1) = b * r + b /\ b * (p + q + 2) = b * p + b * q + b + b
      /\ b * (p + 2) = b * p + b + b /\ b * (s + 1) = b * s + b /\ b * (p + 1) = b * p + b
  BY <1>1
<1>3. b * (p + q) < b * (r + 1) /\ b * r < b * (p + q + 2) /\ b * s < b * (p + 2) /\ b * (p + 1) < b * (s + 1)
      /\ b * p < b * (r + 1)
  BY <1>1, <1>2
<1>4. \A x, y \in Nat : b * x < b * y => x < y
  OBVIOUS
<1>5. p + q < r + 1 /\ r < p + q + 2 /\ s < p + 2 /\ p + 1 < s + 1 /\ p < r + 1
  BY <1>1, <1>3, <1>4
<1>. QED BY <1>1, <1>5 DEF p, q, r, s

\* How many whole periods there are in a stretch of time.
Periods(l, d) == (d \div Grain) \div l.period

LEMMA PeriodsSum ==
    ASSUME NEW l, l.period \in Nat \ {0}, NEW x \in Nat, NEW y \in Nat
    PROVE  /\ Periods(l, x) \in Nat
           /\ Periods(l, x) + Periods(l, y) <= Periods(l, x + y)
           /\ Periods(l, x) <= Periods(l, x + y)
           /\ x \div Grain < l.period => Periods(l, x + y) <= Periods(l, y) + 1
<1>. DEFINE p == l.period
            a == x \div Grain
            b == y \div Grain
            c == (x + y) \div Grain
<1>0. p \in Nat \ {0} /\ Grain \in Nat \ {0}
  BY LimiterAssumption
<1>1. /\ a \in Nat /\ b \in Nat /\ c \in Nat
      /\ a + b <= c /\ c <= a + b + 1
  <2>1. a + b <= c /\ c <= a + b + 1
    BY <1>0, DivSum
  <2>2. a \in Nat /\ b \in Nat
    BY <1>0, DivFacts
  <2>3. x + y \in Nat
    OBVIOUS
  <2>4. c \in Nat
    BY <1>0, <2>3, DivFacts
  <2>. QED BY <2>1, <2>2, <2>4
<1>. HIDE DEF p, a, b, c
<1>2. PICK d \in Nat : c = (a + b) + d
  <2>1. c - (a + b) \in Nat /\ c = (a + b) + (c - (a + b))
    BY <1>1
  <2>. QED BY <2>1
<1>3. /\ a \div p \in Nat /\ b \div p \in Nat
      /\ a \div p + b \div p <= (a + b) \div p
      /\ (a + b) \div p <= c \div p /\ (a + b) \div p \in Nat /\ c \div p \in Nat
  <2>1. a \div p + b \div p <= (a + b) \div p
    BY <1>0, <1>1, DivSum
  <2>2. a + b \in Nat
    BY <1>1
  <2>3. (a + b) \div p <= c \div p
    BY <1>0, <1>2, <2>2, DivSum
  <2>. QED BY <1>0, <1>1, <2>1, <2>2, <2>3, DivFacts
<1>4. ASSUME a < p PROVE c \div p <= b \div p + 1
  <2>1. PICK e \in Nat : b + p = c + e
    <3>1. b + p - c \in Nat /\ b + p = c + (b + p - c)
      BY <1>0, <1>1, <1>4
    <3>. QED BY <3>1
  <2>2. c \div p <= (c + e) \div p
    BY <1>0, <1>1, DivSum
  <2>3. (b + p) \div p = b \div p + 1
    BY <1>0, <1>1, DivSum
  <2>. QED BY <2>1, <2>2, <2>3
<1>5. Periods(l, x) = a \div p /\ Periods(l, y) = b \div p /\ Periods(l, x + y) = c \div p
  BY DEF Periods, a, b, c, p
<1>6. a \div p <= c \div p
  BY <1>1, <1>3
<1>7. (x \div Grain < l.period) <=> a < p
  BY DEF a, p
<1>. QED BY <1>3, <1>4, <1>5, <1>6, <1>7

-----------------------------------------------------------------------------
(* Induction                                                                *)

LEMMA LeastNumber ==
    ASSUME NEW S \in SUBSET Nat, S # {}
    PROVE  \E x \in S : \A y \in S : x <= y
<1>. DEFINE R == {p \in Nat \X Nat : p[1] < p[2]}
<1>1. IsWellFoundedOn(R, Nat)
  BY NatLessThanWellFounded DEF OpToRel
<1>2. \A x, y \in Nat : x < y => <<x, y>> \in R
  OBVIOUS
<1>. HIDE DEF R
<1>3. PICK x \in S : \A y \in S : ~(<<y, x>> \in R)
  BY <1>1, WFMin
<1>4. ASSUME NEW y \in S PROVE x <= y
  <2>1. x \in Nat /\ y \in Nat /\ ~(y < x)
    BY <1>2, <1>3
  <2>. QED BY <2>1
<1>. QED BY <1>4

LEMMA SetInduction ==
    ASSUME NEW n \in Nat, NEW S \in SUBSET Nat, 0 \in S,
           \A k \in S : k < n => k + 1 \in S
    PROVE  0 .. n \subseteq S
<1>. SUFFICES ASSUME (0 .. n) \ S # {} PROVE FALSE
  OBVIOUS
<1>1. (0 .. n) \ S \in SUBSET Nat
  OBVIOUS
<1>2. PICK m \in (0 .. n) \ S : \A y \in (0 .. n) \ S : m <= y
  BY <1>1, LeastNumber
<1>3. m # 0 /\ m \in Nat /\ m <= n
  BY <1>2
<1>4. m - 1 \in 0 .. n /\ m - 1 < n /\ ~(m <= m - 1)
  BY <1>3
<1>5. m - 1 \in S
  BY <1>2, <1>4
<1>6. m - 1 + 1 \in S /\ m - 1 + 1 = m
  BY <1>3, <1>4, <1>5
<1>. QED BY <1>2, <1>6

\* The rounds of a batch exist.
Before == [limiter |-> limiter, granted |-> TRUE, taken |-> 0]
Rounds(n, f) == f = [k \in 0 .. n |-> IF k = 0 THEN Before ELSE Round(f[k - 1], k)]

LEMMA RoundsExist == ASSUME NEW n \in Nat PROVE \E f : Rounds(n, f)
<1>. DEFINE S == {m \in Nat : \E f : Rounds(m, f)}
<1>1. 0 \in S
  <2>. DEFINE g == [k \in 0 .. 0 |-> Before]
  <2>1. g = [k \in 0 .. 0 |-> IF k = 0 THEN Before ELSE Round(g[k - 1], k)]
    OBVIOUS
  <2>. HIDE DEF g
  <2>2. Rounds(0, g)
    BY <2>1 DEF Rounds
  <2>. QED BY <2>2
<1>2. ASSUME NEW m \in S PROVE m + 1 \in S
  <2>1. PICK f : Rounds(m, f)
    OBVIOUS
  <2>. DEFINE g == [k \in 0 .. m + 1 |-> IF k = m + 1 THEN Round(f[m], k) ELSE f[k]]
              h == [k \in 0 .. m + 1 |-> IF k = 0 THEN Before ELSE Round(g[k - 1], k)]
  <2>2. m \in Nat /\ f = [k \in 0 .. m |-> IF k = 0 THEN Before ELSE Round(f[k - 1], k)]
    BY <2>1 DEF Rounds
  <2>3. ASSUME NEW k \in 0 .. m + 1 PROVE g[k] = h[k]
    <3>1. CASE k = 0
      <4>1. f[0] = Before /\ 0 # m + 1
        BY <2>2
      <4>. QED BY <3>1, <4>1
    <3>2. CASE k = m + 1
      <4>1. k - 1 = m /\ m \in 0 .. m + 1 /\ m # m + 1 /\ k # 0
        BY <2>2, <3>2
      <4>2. g[m] = f[m]
        BY <4>1
      <4>. QED BY <3>2, <4>1, <4>2
    <3>3. CASE k # 0 /\ k # m + 1
      <4>1. k \in 0 .. m /\ k - 1 \in 0 .. m + 1 /\ k - 1 # m + 1
        BY <2>2, <3>3
      <4>2. g[k - 1] = f[k - 1] /\ g[k] = f[k]
        BY <3>3, <4>1
      <4>3. f[k] = Round(f[k - 1], k)
        BY <2>2, <3>3, <4>1
      <4>. QED BY <3>3, <4>2, <4>3
    <3>. QED BY <3>1, <3>2, <3>3
  <2>4. g = h
    BY <2>3
  <2>5. Rounds(m + 1, g)
    BY <2>4 DEF Rounds
  <2>. HIDE DEF g, h
  <2>. QED BY <2>2, <2>5
<1>3. 0 .. n \subseteq S
  <2>. HIDE DEF S
  <2>1. S \in SUBSET Nat
    BY DEF S
  <2>. QED BY <1>1, <1>2, <2>1, SetInduction
<1>. QED BY <1>3

\* What every round keeps, the batch keeps.
LEMMA BatchInduction ==
    ASSUME NEW n \in Nat, NEW J, Before \in J[0],
           \A k \in 1 .. n : \A b \in J[k - 1] : Round(b, k) \in J[k]
    PROVE  AcquireMany(n) \in J[n]
<1>. DEFINE f == CHOOSE f : Rounds(n, f)
            S == {m \in Nat : m <= n => f[m] \in J[m]}
<1>1. Rounds(n, f)
  BY RoundsExist
<1>2. AcquireMany(n) = f[n]
  BY DEF AcquireMany, Rounds, Before
<1>3. \A k \in 0 .. n : f[k] = IF k = 0 THEN Before ELSE Round(f[k - 1], k)
  <2>. HIDE DEF f
  <2>. QED BY <1>1 DEF Rounds
<1>. HIDE DEF f
<1>4. 0 \in S
  BY <1>3
<1>5. ASSUME NEW m \in S, m < n PROVE m + 1 \in S
  <2>1. m \in 0 .. n /\ m + 1 \in 1 .. n /\ m + 1 \in 0 .. n /\ m + 1 - 1 = m /\ m + 1 # 0
    BY <1>5
  <2>2. f[m] \in J[m]
    BY <1>5
  <2>3. Round(f[m], m + 1) \in J[m + 1]
    BY <2>1, <2>2
  <2>4. f[m + 1] = Round(f[m], m + 1)
    BY <1>3, <2>1
  <2>. QED BY <2>1, <2>3, <2>4
<1>6. 0 .. n \subseteq S
  <2>. HIDE DEF S
  <2>1. S \in SUBSET Nat
    BY DEF S
  <2>. QED BY <1>4, <1>5, <2>1, SetInduction
<1>. QED BY <1>2, <1>6

-----------------------------------------------------------------------------
(* The inductive invariant                                                  *)

LimiterOK(l) ==
    /\ l \in Limiter /\ l.period > 0
    /\ l.kind = "TOKEN_BUCKET" => l.level <= l.capacity * Unit
    /\ l.mark <= now
    /\ \A i \in DOMAIN l.log : l.log[i] <= now

GrantsOK(g) ==
    /\ g \in Seq(Nat)
    /\ \A i \in DOMAIN g : g[i] <= now
    /\ \A i, k \in DOMAIN g : i <= k => g[i] <= g[k]

\* The log of a sliding window and the grants end alike, and what is only in
\* the grants has left the window.
LogIsTail(l, g) ==
    LET ahead == Len(g) - Len(l.log) IN
    /\ \A i \in DOMAIN l.log : ahead + i > 0 => l.log[i] = g[ahead + i]
    /\ \A i \in DOMAIN g : i <= ahead => Elapsed(g[i]) > l.period
    /\ pristine => ahead >= 0 /\ Len(l.log) <= l.capacity

WindowKept(l, g) ==
    \A i, k \in DOMAIN g : i <= k /\ (g[k] - g[i]) \div Grain <= l.period => k - i + 1 <= l.capacity

\* The grants from the i-th on are in the bucket, but for one for every period
\* up to the last mark, and one more.
WaterCounts(l, g) ==
    /\ \A i \in DOMAIN g :
         \/ /\ l.mark <= g[i] /\ (g[i] - l.mark) \div Grain < l.period
            /\ Len(g) - i + 1 <= l.level
         \/ /\ l.mark > g[i]
            /\ Len(g) - i + 1 <= l.level + Periods(l, l.mark - g[i]) + 1
    /\ pristine => /\ l.level <= l.capacity
                   /\ (l.level = l.capacity /\ l.capacity > 0) => (g # <<>> /\ g[Len(g)] >= l.mark)

LeakKept(l, g) ==
    \A i, k \in DOMAIN g : i <= k => k - i + 1 <= l.capacity + Periods(l, g[k] - g[i]) + 1

Held(l, g) ==
    /\ LimiterOK(l) /\ GrantsOK(g)
    /\ l.kind = "SLIDING_WINDOW" => LogIsTail(l, g) /\ WindowKept(l, g)
    /\ l.kind = "LEAKY_BUCKET" => WaterCounts(l, g) /\ LeakKept(l, g)

Refusal(l, g) ==
    pristine /\ l.capacity > 0 =>
        /\ l.kind = "SLIDING_WINDOW" =>
             \E i \in DOMAIN g : Len(g) - i + 1 = l.capacity /\ Elapsed(g[i]) <= l.period
        /\ l.kind = "LEAKY_BUCKET" => \E i \in DOMAIN g : Elapsed(g[i]) <= l.period - 1

Clock == now \in Nat /\ pristine \in BOOLEAN

LEMMA ElapsedType ==
    ASSUME Clock, NEW t \in Nat, t <= now
    PROVE  Elapsed(t) \in Nat /\ \A u \in Nat : u <= t => Elapsed(u) \in Nat /\ Elapsed(t) <= Elapsed(u)
<1>1. Grain \in Nat \ {0} /\ now \in Nat
  BY LimiterAssumption DEF Clock
<1>2. now - t \in Nat
  BY <1>1
<1>3. Elapsed(t) \in Nat
  BY <1>1, <1>2, DivFacts DEF Elapsed
<1>4. ASSUME NEW u \in Nat, u <= t PROVE Elapsed(u) \in Nat /\ Elapsed(t) <= Elapsed(u)
  <2>1. t - u \in Nat /\ now - u = (now - t) + (t - u) /\ now - u \in Nat
    BY <1>1, <1>4
  <2>2. (now - t) \div Grain <= ((now - t) + (t - u)) \div Grain
    BY <1>1, <1>2, <2>1, DivSum
  <2>. QED BY <1>1, <2>1, <2>2, DivFacts DEF Elapsed
<1>. QED BY <1>3, <1>4

LEMMA GrantedNow ==
    ASSUME Clock, NEW g, GrantsOK(g), NEW h, h = Append(g, now)
    PROVE  /\ GrantsOK(h)
           /\ Len(g) \in Nat /\ DOMAIN g = 1 .. Len(g)
           /\ Len(h) = Len(g) + 1 /\ DOMAIN h = 1 .. Len(g) + 1
           /\ \A i \in 1 .. Len(g) : h[i] = g[i]
           /\ h[Len(g) + 1] = now
<1>1. now \in Nat /\ g \in Seq(Nat)
  BY DEF Clock, GrantsOK
<1>2. /\ Len(g) \in Nat /\ DOMAIN g = 1 .. Len(g)
      /\ h \in Seq(Nat)
      /\ Len(h) = Len(g) + 1 /\ DOMAIN h = 1 .. Len(g) + 1
      /\ \A i \in 1 .. Len(g) : h[i] = g[i]
      /\ h[Len(g) + 1] = now
  BY <1>1, AppendProperties, LenProperties
<1>3. \A i \in DOMAIN g : g[i] \in Nat
  BY <1>1, LenProperties
<1>4. \A i \in DOMAIN h : h[i] <= now
  BY <1>1, <1>2 DEF GrantsOK
<1>5. ASSUME NEW i \in DOMAIN h, NEW k \in DOMAIN h, i <= k PROVE h[i] <= h[k]
  <2>1. CASE k = Len(g) + 1
    BY <1>2, <1>4, <2>1
  <2>2. CASE k # Len(g) + 1
    BY <1>2, <1>5, <2>2 DEF GrantsOK
  <2>. QED BY <2>1, <2>2
<1>. QED BY <1>2, <1>4, <1>5 DEF GrantsOK

LEMMA LimiterTypes ==
    ASSUME NEW l, LimiterOK(l)
    PROVE  /\ l \in Limiter /\ l.period \in Nat \ {0} /\ l.capacity \in Nat /\ l.level \in Nat
           /\ l.mark \in Nat /\ l.mark <= now /\ l.log \in Seq(Nat)
           /\ Len(l.log) \in Nat /\ DOMAIN l.log = 1 .. Len(l.log)
           /\ \A i \in 1 .. Len(l.log) : l.log[i] \in Nat /\ l.log[i] <= now
<1>1. l \in Limiter /\ l.period > 0 /\ l.mark <= now
  BY DEF LimiterOK
<1>2. l.capacity \in Capacities /\ l.period \in Nat /\ l.level \in Nat /\ l.mark \in Nat /\ l.log \in Seq(Nat)
  BY <1>1 DEF Limiter
<1>3. l.capacity \in Nat
  BY <1>2, LimiterAssumption
<1>4. l.period \in Nat \ {0}
  BY <1>1, <1>2
<1>5. /\ Len(l.log) \in Nat /\ DOMAIN l.log = 1 .. Len(l.log)
      /\ \A i \in 1 .. Len(l.log) : l.log[i] \in Nat
  BY <1>2, LenProperties, ElementOfSeq
<1>. QED BY <1>1, <1>2, <1>3, <1>4, <1>5 DEF LimiterOK

LEMMA TokensHeld ==
    ASSUME Clock, NEW l, NEW g, Held(l, g), l.kind = "TOKEN_BUCKET"
    PROVE  /\ Held(Refill(l), g) /\ Held(Refill(l), Append(g, now))
           /\ Refill(l).kind = l.kind
<1>. DEFINE d == Elapsed(l.mark) * (Unit \div l.period)
            r == [l EXCEPT !.level = Least(l.capacity * Unit, l.level + d), !.mark = now]
<1>1. /\ l \in Limiter /\ l.period \in Nat \ {0} /\ l.capacity \in Nat /\ l.level \in Nat
      /\ Unit \in Nat /\ now \in Nat
      /\ l.mark \in Nat /\ l.mark <= now
  BY LimiterTypes, LimiterAssumption DEF Held, Clock
<1>2. d \in Nat
  <2>1. Elapsed(l.mark) \in Nat /\ Unit \div l.period \in Nat
    BY <1>1, ElapsedType, DivFacts
  <2>. QED BY <2>1
<1>3. Least(l.capacity * Unit, l.level + d) \in Nat /\ Least(l.capacity * Unit, l.level + d) <= l.capacity * Unit
  <2>1. l.capacity * Unit \in Nat
    BY <1>1
  <2>. QED BY <1>1, <1>2, <2>1 DEF Least
<1>4. /\ r \in Limiter /\ r.level <= r.capacity * Unit /\ r.mark = now /\ r.kind = "TOKEN_BUCKET"
      /\ r.period = l.period /\ r.log = l.log
  BY <1>1, <1>3 DEF Limiter
<1>5. LimiterOK(r)
  BY <1>1, <1>4 DEF Held, LimiterOK
<1>6. Refill(l) = r \/ Refill(l) = l
  BY DEF Refill
<1>7. LimiterOK(Refill(l)) /\ Refill(l).kind = "TOKEN_BUCKET"
  BY <1>4, <1>5, <1>6 DEF Held
<1>. QED BY <1>7, GrantedNow DEF Held

\* The front of the log that has left the window, whatever its length.
LEMMA FrontDropped ==
    ASSUME Clock, NEW l, LimiterOK(l)
    PROVE  \E n \in 0 .. Len(l.log) :
              /\ Cleanup(l) = [l EXCEPT !.log = SubSeq(l.log, n + 1, Len(l.log))]
              /\ \A i \in 1 .. n : Elapsed(l.log[i]) > l.period
              /\ n < Len(l.log) => ~(Elapsed(l.log[n + 1]) > l.period)
<1>. DEFINE old == {i \in DOMAIN l.log : Elapsed(l.log[i]) > l.period}
            Front(n) == 1 .. n \subseteq old /\ n + 1 \notin old
            m == CHOOSE n \in 0 .. Len(l.log) : Front(n)
            S == {k \in Nat : k + 1 \notin old}
<1>0. Len(l.log) \in Nat /\ DOMAIN l.log = 1 .. Len(l.log)
  BY LimiterTypes
<1>1. \E n \in 0 .. Len(l.log) : Front(n)
  <2>1. Len(l.log) \in S /\ S \in SUBSET Nat
    BY <1>0
  <2>2. PICK n \in S : \A k \in S : n <= k
    <3>. HIDE DEF S
    <3>. QED BY <2>1, LeastNumber
  <2>3. n \in 0 .. Len(l.log) /\ n + 1 \notin old
    BY <1>0, <2>1, <2>2
  <2>4. ASSUME NEW i \in 1 .. n, i \notin old PROVE FALSE
    <3>1. i - 1 \in Nat /\ i - 1 + 1 = i /\ ~(n <= i - 1)
      BY <2>3
    <3>2. i - 1 \in S
      BY <2>4, <3>1
    <3>. QED BY <2>2, <3>1, <3>2
  <2>. QED BY <2>3, <2>4
<1>2. m \in 0 .. Len(l.log) /\ Front(m)
  <2>. HIDE DEF Front
  <2>. QED BY <1>1
<1>3. Cleanup(l) = [l EXCEPT !.log = SubSeq(l.log, m + 1, Len(l.log))]
  BY DEF Cleanup, DropFront
<1>4. \A i \in 1 .. m : Elapsed(l.log[i]) > l.period
  BY <1>2
<1>5. m < Len(l.log) => ~(Elapsed(l.log[m + 1]) > l.period)
  BY <1>0, <1>2
<1>6. m \in 0 .. Len(l.log)
  BY <1>2
<1>. HIDE DEF m
<1>. QED BY <1>3, <1>4, <1>5, <1>6

LEMMA WindowCleaned ==
    ASSUME Clock, NEW l, NEW g, Held(l, g), l.kind = "SLIDING_WINDOW", NEW r, r = Cleanup(l)
    PROVE  /\ LimiterOK(r) /\ LogIsTail(r, g)
           /\ r.kind = l.kind /\ r.capacity = l.capacity /\ r.period = l.period
           /\ r.log # <<>> => ~(Elapsed(r.log[1]) > r.period)
<1>1. PICK n \in 0 .. Len(l.log) :
              /\ Cleanup(l) = [l EXCEPT !.log = SubSeq(l.log, n + 1, Len(l.log))]
              /\ \A i \in 1 .. n : Elapsed(l.log[i]) > l.period
              /\ n < Len(l.log) => ~(Elapsed(l.log[n + 1]) > l.period)
  BY FrontDropped DEF Held
<1>2. LimiterOK(l) /\ GrantsOK(g) /\ LogIsTail(l, g)
  BY DEF Held
<1>3. /\ l \in Limiter /\ Len(l.log) \in Nat /\ DOMAIN l.log = 1 .. Len(l.log)
      /\ \A i \in 1 .. Len(l.log) : l.log[i] \in Nat /\ l.log[i] <= now
      /\ l.log \in Seq(Nat) /\ l.capacity \in Nat
  BY <1>2, LimiterTypes
<1>. DEFINE s == SubSeq(l.log, n + 1, Len(l.log))
            m == Len(l.log)
            a == Len(g) - m
            b == Len(g) - Len(s)
<1>4. /\ s \in Seq(Nat) /\ Len(s) = m - n
      /\ \A i \in 1 .. m - n : s[i] = l.log[n + i]
  <2>1. n + 1 \in Int /\ m \in Int /\ \A i \in n + 1 .. m : l.log[i] \in Nat
    BY <1>3
  <2>2. /\ s \in Seq(Nat) /\ Len(s) = IF n + 1 <= m THEN m - (n + 1) + 1 ELSE 0
        /\ \A i \in 1 .. m - (n + 1) + 1 : s[i] = l.log[(n + 1) + i - 1]
    BY <2>1, SubSeqProperties
  <2>3. m - (n + 1) + 1 = m - n /\ Len(s) = m - n
    BY <1>3, <2>2
  <2>4. ASSUME NEW i \in 1 .. m - n PROVE s[i] = l.log[n + i]
    <3>1. (n + 1) + i - 1 = n + i
      BY <1>3
    <3>. QED BY <2>2, <2>3, <3>1
  <2>. QED BY <2>2, <2>3, <2>4
<1>5. r = [l EXCEPT !.log = s]
  BY <1>1
<1>. HIDE DEF s
<1>6. /\ r \in Limiter /\ r.log = s
      /\ r.kind = l.kind /\ r.capacity = l.capacity /\ r.period = l.period
      /\ r.mark = l.mark /\ r.level = l.level
  BY <1>3, <1>4, <1>5 DEF Limiter
<1>7. DOMAIN s = 1 .. m - n /\ Len(g) \in Nat /\ DOMAIN g = 1 .. Len(g)
  BY <1>2, <1>4, LenProperties DEF GrantsOK
<1>8. LimiterOK(r)
  <2>1. ASSUME NEW i \in DOMAIN s PROVE s[i] <= now
    <3>1. n + i \in 1 .. m /\ i \in 1 .. m - n
      BY <1>3, <1>7
    <3>. QED BY <1>3, <1>4, <3>1
  <2>. QED BY <1>2, <1>6, <2>1 DEF LimiterOK
<1>9. b = a + n /\ a \in Int
  BY <1>3, <1>4, <1>7
<1>10. LogIsTail(r, g)
  <2>1. ASSUME NEW i \in DOMAIN s, b + i > 0 PROVE s[i] = g[b + i]
    <3>0. n + i \in 1 .. m /\ i \in 1 .. m - n
      BY <1>3, <1>7
    <3>. HIDE DEF a, b
    <3>1. n + i \in DOMAIN l.log /\ a + (n + i) = b + i
      BY <1>3, <1>9, <3>0
    <3>. USE DEF a, b
    <3>2. l.log[n + i] = g[a + (n + i)]
      BY <1>2, <2>1, <3>1 DEF LogIsTail
    <3>. QED BY <1>4, <1>7, <3>1, <3>2
  <2>2. ASSUME NEW i \in DOMAIN g, i <= b PROVE Elapsed(g[i]) > l.period
    <3>1. CASE i <= a
      BY <1>2, <3>1 DEF LogIsTail
    <3>2. CASE ~(i <= a)
      <4>1. i \in Int /\ i > 0 /\ n \in 0 .. m /\ m \in Nat /\ DOMAIN l.log = 1 .. m
        BY <1>3, <1>7
      <4>. HIDE DEF a, b
      <4>2. i - a \in 1 .. n
        BY <1>9, <2>2, <3>2, <4>1
      <4>3. i - a \in DOMAIN l.log /\ a + (i - a) = i
        BY <1>9, <4>1, <4>2
      <4>. USE DEF a, b
      <4>4. l.log[i - a] = g[i]
        BY <1>2, <4>1, <4>3 DEF LogIsTail
      <4>. QED BY <1>1, <4>2, <4>4
    <3>. QED BY <3>1, <3>2
  <2>3. ASSUME pristine PROVE b >= 0 /\ Len(s) <= l.capacity
    <3>1. a >= 0 /\ m <= l.capacity
      BY <1>2, <2>3 DEF LogIsTail
    <3>. QED BY <1>3, <1>4, <1>7, <1>9, <3>1
  <2>. QED BY <1>6, <2>1, <2>2, <2>3 DEF LogIsTail
<1>11. ASSUME r.log # <<>> PROVE ~(Elapsed(r.log[1]) > r.period)
  <2>1. Len(s) # 0
    BY <1>4, <1>6, <1>11, EmptySeq
  <2>2. n < m /\ 1 \in 1 .. m - n
    BY <1>3, <1>4, <2>1
  <2>. QED BY <1>1, <1>4, <1>6, <2>2
<1>. QED BY <1>6, <1>8, <1>10, <1>11

LEMMA SlotHeld ==
    ASSUME Clock, NEW l, NEW g, Held(l, g), l.kind = "SLIDING_WINDOW",
           NEW r, r = AcquireSlot(l), NEW h, h = IF r.granted THEN Append(g, now) ELSE g
    PROVE  /\ Held(r.limiter, h) /\ r.granted \in BOOLEAN
           /\ ~r.granted => Refusal(r.limiter, h)
<1>. DEFINE c == Cleanup(l)
            n == Len(g)
            m == Len(c.log)
            a == Len(g) - Len(c.log)
<1>1. /\ LimiterOK(c) /\ LogIsTail(c, g) /\ GrantsOK(g) /\ WindowKept(l, g)
      /\ c.kind = "SLIDING_WINDOW" /\ c.capacity = l.capacity /\ c.period = l.period
      /\ c.log # <<>> => ~(Elapsed(c.log[1]) > c.period)
  BY WindowCleaned DEF Held
<1>2. /\ c \in Limiter /\ c.capacity \in Nat /\ c.period \in Nat /\ c.log \in Seq(Nat)
      /\ m \in Nat /\ DOMAIN c.log = 1 .. m
      /\ \A i \in 1 .. m : c.log[i] \in Nat /\ c.log[i] <= now
  BY <1>1, LimiterTypes
<1>3. /\ n \in Nat /\ DOMAIN g = 1 .. n /\ now \in Nat
      /\ \A i \in 1 .. n : g[i] \in Nat /\ g[i] <= now
  BY <1>1, LenProperties, ElementOfSeq DEF GrantsOK, Clock
<1>4. r = IF m < c.capacity
          THEN [limiter |-> [c EXCEPT !.log = Append(c.log, now)], granted |-> TRUE]
          ELSE [limiter |-> c, granted |-> FALSE]
  BY DEF AcquireSlot, Tried
<1>. HIDE DEF c
<1>5. a \in Int /\ a = n - m
  BY <1>2, <1>3
<1>6. /\ \A i \in 1 .. m : a + i > 0 => c.log[i] = g[a + i]
      /\ \A i \in 1 .. n : i <= a => Elapsed(g[i]) > c.period
      /\ pristine => a >= 0 /\ m <= c.capacity
  BY <1>1, <1>2, <1>3 DEF LogIsTail
<1>7. /\ WindowKept(c, g)
      /\ \A i \in 1 .. n : Elapsed(g[i]) \in Nat
  BY <1>1, <1>3, ElapsedType DEF WindowKept
<1>8. CASE m < c.capacity
  <2>. DEFINE s == Append(c.log, now)
  <2>1. /\ s \in Seq(Nat) /\ Len(s) = m + 1 /\ DOMAIN s = 1 .. m + 1
        /\ \A i \in 1 .. m : s[i] = c.log[i]
        /\ s[m + 1] = now
    BY <1>2, <1>3, AppendProperties, LenProperties
  <2>2. r.limiter = [c EXCEPT !.log = s] /\ r.granted = TRUE
    BY <1>4, <1>8
  <2>. HIDE DEF s
  <2>3. /\ r.limiter \in Limiter /\ r.limiter.log = s
        /\ r.limiter.kind = c.kind /\ r.limiter.capacity = c.capacity /\ r.limiter.period = c.period
        /\ r.limiter.mark = c.mark /\ r.limiter.level = c.level
    BY <1>2, <2>1, <2>2 DEF Limiter
  <2>4. h = Append(g, now)
    BY <2>2
  <2>5. /\ GrantsOK(h) /\ Len(h) = n + 1 /\ DOMAIN h = 1 .. n + 1
        /\ \A i \in 1 .. n : h[i] = g[i]
        /\ h[n + 1] = now
    BY <1>1, <2>4, GrantedNow, Zenon
  <2>. HIDE DEF n, m, a
  <2>6. Len(h) - Len(s) = a
    BY <1>2, <1>3, <1>5, <2>1, <2>5
  <2>7. LimiterOK(r.limiter)
    <3>1. ASSUME NEW i \in DOMAIN s PROVE s[i] <= now
      <4>1. i = m + 1 \/ i \in 1 .. m
        BY <1>2, <2>1
      <4>2. s[m + 1] <= now
        BY <1>3, <2>1
      <4>. QED BY <1>2, <2>1, <4>1, <4>2
    <3>. QED BY <1>1, <2>3, <3>1 DEF LimiterOK
  <2>8. LogIsTail(r.limiter, h)
    <3>1. ASSUME NEW i \in DOMAIN s, a + i > 0 PROVE s[i] = h[a + i]
      <4>1. CASE i = m + 1
        <5>1. a + i = n + 1
          BY <1>2, <1>3, <1>5, <4>1
        <5>. QED BY <2>1, <2>5, <4>1, <5>1
      <4>2. CASE i # m + 1
        <5>1. i \in 1 .. m /\ a + i \in 1 .. n
          BY <1>2, <1>3, <1>5, <2>1, <3>1, <4>2
        <5>. QED BY <1>6, <2>1, <2>5, <3>1, <5>1
      <4>. QED BY <4>1, <4>2
    <3>2. ASSUME NEW i \in DOMAIN h, i <= a PROVE Elapsed(h[i]) > c.period
      <4>1. i \in 1 .. n
        BY <1>2, <1>3, <1>5, <2>5, <3>2
      <4>. QED BY <1>6, <2>5, <3>2, <4>1
    <3>3. ASSUME pristine PROVE a >= 0 /\ Len(s) <= c.capacity
      BY <1>2, <1>6, <1>8, <2>1, <3>3
    <3>. QED BY <2>3, <2>6, <3>1, <3>2, <3>3 DEF LogIsTail
  <2>9. WindowKept(r.limiter, h)
    <3>. SUFFICES ASSUME NEW i \in DOMAIN h, NEW k \in DOMAIN h, i <= k,
                         (h[k] - h[i]) \div Grain <= c.period
                  PROVE  k - i + 1 <= c.capacity
      BY <2>3 DEF WindowKept
    <3>1. CASE k # n + 1
      <4>1. i \in 1 .. n /\ k \in 1 .. n
        BY <1>3, <2>5, <3>1
      <4>. QED BY <1>3, <1>7, <2>5, <4>1 DEF WindowKept
    <3>2. CASE i = n + 1
      <4>1. k = i
        BY <1>3, <2>5, <3>2
      <4>. QED BY <1>2, <1>3, <1>8, <3>2, <4>1
    <3>3. CASE k = n + 1 /\ i # n + 1
      <4>1. i \in 1 .. n
        BY <1>3, <2>5, <3>3
      <4>2. Elapsed(g[i]) <= c.period
        BY <2>5, <3>3, <4>1 DEF Elapsed
      <4>3. ~(i <= a)
        BY <1>2, <1>6, <1>7, <4>1, <4>2
      <4>. QED BY <1>2, <1>3, <1>5, <1>8, <3>3, <4>1, <4>3
    <3>. QED BY <3>1, <3>2, <3>3
  <2>. QED BY <1>1, <2>2, <2>3, <2>5, <2>7, <2>8, <2>9 DEF Held
<1>9. CASE ~(m < c.capacity)
  <2>1. r.limiter = c /\ r.granted = FALSE /\ h = g
    BY <1>4, <1>9
  <2>2. ASSUME pristine, c.capacity > 0
        PROVE  \E i \in DOMAIN g : Len(g) - i + 1 = c.capacity /\ Elapsed(g[i]) <= c.period
    <3>1. c.log # <<>>
      BY <1>2, <1>9, <2>2, EmptySeq
    <3>. HIDE DEF n, m, a
    <3>2. m = c.capacity /\ a >= 0
      BY <1>2, <1>6, <1>9, <2>2
    <3>3. a + 1 \in 1 .. n /\ n - (a + 1) + 1 = c.capacity /\ a + 1 > 0 /\ 1 \in 1 .. m
      <4>1. a \in Int /\ a >= 0 /\ n \in Nat /\ m \in Nat /\ a = n - m /\ m > 0 /\ m = c.capacity
        BY <1>2, <1>3, <1>5, <2>2, <3>2
      <4>2. a + 1 \in 1 .. n /\ n - (a + 1) + 1 = m /\ a + 1 > 0 /\ 1 \in 1 .. m
        BY <4>1
      <4>. QED BY <4>1, <4>2
    <3>4. c.log[1] = g[a + 1]
      BY <1>6, <3>3
    <3>5. ~(Elapsed(g[a + 1]) > c.period) /\ Elapsed(g[a + 1]) \in Nat
      BY <1>1, <1>7, <3>1, <3>3, <3>4
    <3>6. Elapsed(g[a + 1]) <= c.period
      BY <1>2, <3>5
    <3>. QED BY <1>3, <3>3, <3>6 DEF n
  <2>. QED BY <1>1, <1>7, <2>1, <2>2 DEF Held, Refusal
<1>. QED BY <1>8, <1>9

\* What leaks makes room for as many more as there are whole periods.
LEMMA WaterLeaks ==
    ASSUME Clock, NEW l, NEW g, Held(l, g), l.kind = "LEAKY_BUCKET", NEW r, r = Leak(l)
    PROVE  /\ LimiterOK(r) /\ WaterCounts(r, g)
           /\ r.kind = l.kind /\ r.capacity = l.capacity /\ r.period = l.period
           /\ (now - r.mark) \div Grain < r.period
<1>1. LimiterOK(l) /\ GrantsOK(g) /\ WaterCounts(l, g)
  BY DEF Held
<1>2. /\ l \in Limiter /\ l.period \in Nat \ {0} /\ l.capacity \in Nat /\ l.level \in Nat
      /\ l.mark \in Nat /\ l.mark <= now /\ now \in Nat
      /\ Elapsed(l.mark) \in Nat
  BY <1>1, LimiterTypes, ElapsedType DEF Clock
<1>3. /\ Len(g) \in Nat /\ DOMAIN g = 1 .. Len(g)
      /\ \A i \in 1 .. Len(g) : g[i] \in Nat /\ g[i] <= now
  BY <1>1, LenProperties, ElementOfSeq DEF GrantsOK
<1>4. CASE ~Due(l)
  BY <1>1, <1>2, <1>4 DEF Leak, Due, Elapsed
<1>5. CASE Due(l)
  <2>. DEFINE d == Periods(l, now - l.mark)
              v == IF l.level > d THEN l.level - d ELSE 0
  <2>1. r = [l EXCEPT !.level = v, !.mark = now]
    BY <1>5 DEF Leak, Periods, Elapsed
  <2>2. d \in Nat /\ d >= 1
    <3>1. l.period * 1 <= Elapsed(l.mark)
      BY <1>2, <1>5 DEF Due
    <3>2. 1 <= Elapsed(l.mark) \div l.period
      BY <1>2, <3>1, DivLeast
    <3>3. now - l.mark \in Nat
      BY <1>2
    <3>4. d \in Nat
      BY <1>2, <3>3, PeriodsSum
    <3>. QED BY <3>2, <3>4 DEF Periods, Elapsed
  <2>. HIDE DEF d
  <2>3. v \in Nat /\ v + d >= l.level
    BY <1>2, <2>2
  <2>4. (l.level <= l.capacity) => (v <= l.capacity /\ (l.capacity > 0 => v # l.capacity))
    BY <1>2, <2>2
  <2>. HIDE DEF v
  <2>5. /\ r \in Limiter /\ r.level = v /\ r.mark = now
        /\ r.kind = l.kind /\ r.capacity = l.capacity /\ r.period = l.period
        /\ r.log = l.log
    BY <1>2, <2>1, <2>3 DEF Limiter
  <2>6. LimiterOK(r)
    BY <1>1, <1>2, <2>5 DEF LimiterOK
  <2>7. ASSUME NEW i \in DOMAIN g
        PROVE  r.mark > g[i] /\ Len(g) - i + 1 <= r.level + Periods(r, r.mark - g[i]) + 1
    <3>. DEFINE n == Len(g) - i + 1
                p == Periods(l, now - g[i])
    <3>1. n \in Nat /\ g[i] \in Nat /\ g[i] <= now
      BY <1>3
    <3>2. p \in Nat /\ Periods(r, r.mark - g[i]) = p
      <4>1. now - g[i] \in Nat
        BY <1>2, <3>1
      <4>. QED BY <1>2, <2>5, <4>1, PeriodsSum DEF Periods
    <3>3. CASE l.mark <= g[i] /\ (g[i] - l.mark) \div Grain < l.period /\ n <= l.level
      <4>1. g[i] # now
        BY <1>2, <1>5, <3>3 DEF Due, Elapsed
      <4>2. /\ g[i] - l.mark \in Nat /\ now - g[i] \in Nat
            /\ (g[i] - l.mark) + (now - g[i]) = now - l.mark
        BY <1>2, <3>1, <3>3
      <4>3. d <= p + 1
        BY <1>2, <3>3, <4>2, PeriodsSum DEF d
      <4>. HIDE DEF n, p
      <4>4. n <= v + p + 1
        BY <1>2, <2>2, <2>3, <3>1, <3>2, <3>3, <4>3
      <4>. QED BY <1>2, <2>5, <3>1, <3>2, <4>1, <4>4 DEF n
    <3>4. CASE l.mark > g[i] /\ n <= l.level + Periods(l, l.mark - g[i]) + 1
      <4>1. /\ now - l.mark \in Nat /\ l.mark - g[i] \in Nat
            /\ (now - l.mark) + (l.mark - g[i]) = now - g[i]
        <5>1. l.mark > g[i] /\ l.mark \in Nat /\ l.mark <= now /\ now \in Nat /\ g[i] \in Nat
          BY <1>2, <3>1, <3>4
        <5>. QED BY <5>1
      <4>2. d + Periods(l, l.mark - g[i]) <= p /\ Periods(l, l.mark - g[i]) \in Nat
        BY <1>2, <4>1, PeriodsSum DEF d
      <4>. HIDE DEF n, p
      <4>3. n <= v + p + 1
        BY <1>2, <2>2, <2>3, <3>1, <3>2, <3>4, <4>2
      <4>4. now > g[i]
        BY <1>2, <3>1, <3>4
      <4>. QED BY <2>5, <3>2, <4>3, <4>4 DEF n
    <3>. QED BY <1>1, <3>3, <3>4 DEF WaterCounts
  <2>8. pristine => r.level <= r.capacity /\ ~(r.level = r.capacity /\ r.capacity > 0)
    BY <1>1, <2>4, <2>5 DEF WaterCounts
  <2>9. (now - r.mark) \div Grain < r.period
    <3>1. now - r.mark = 0 /\ Grain \in Nat \ {0}
      BY <1>2, <2>5, LimiterAssumption
    <3>2. 0 \div Grain = 0
      BY <3>1
    <3>. QED BY <1>2, <2>5, <3>1, <3>2
  <2>. QED BY <2>5, <2>6, <2>7, <2>8, <2>9 DEF WaterCounts
<1>. QED BY <1>4, <1>5

\* Whoever is let in is counted in the level, and the level is within the
\* capacity; a bucket that is full was last filled after the mark.
LEMMA RoomHeld ==
    ASSUME Clock, NEW l, NEW g, Held(l, g), l.kind = "LEAKY_BUCKET",
           NEW r, r = AcquireRoom(l), NEW h, h = IF r.granted THEN Append(g, now) ELSE g
    PROVE  /\ Held(r.limiter, h) /\ r.granted \in BOOLEAN
           /\ ~r.granted => Refusal(r.limiter, h)
<1>. DEFINE w == Leak(l)
            n == Len(g)
<1>1. /\ LimiterOK(w) /\ WaterCounts(w, g) /\ GrantsOK(g) /\ LeakKept(l, g)
      /\ w.kind = "LEAKY_BUCKET" /\ w.capacity = l.capacity /\ w.period = l.period
      /\ (now - w.mark) \div Grain < w.period
  BY WaterLeaks DEF Held
<1>2. r = IF w.level < w.capacity
          THEN [limiter |-> [w EXCEPT !.level = @ + 1], granted |-> TRUE]
          ELSE [limiter |-> w, granted |-> FALSE]
  BY DEF AcquireRoom, Tried
<1>. HIDE DEF w
<1>3. /\ w \in Limiter /\ w.capacity \in Nat /\ w.period \in Nat \ {0} /\ w.level \in Nat
      /\ w.mark \in Nat /\ w.mark <= now /\ now \in Nat
  BY <1>1, LimiterTypes DEF Clock
<1>4. /\ n \in Nat /\ DOMAIN g = 1 .. n
      /\ \A i \in 1 .. n : g[i] \in Nat /\ g[i] <= now
  BY <1>1, LenProperties, ElementOfSeq DEF GrantsOK
<1>5. LeakKept(w, g)
  BY <1>1 DEF LeakKept, Periods
<1>6. CASE w.level < w.capacity
  <2>. DEFINE v == w.level + 1
              u == [w EXCEPT !.level = v]
  <2>1. r.limiter = u /\ r.granted = TRUE
    BY <1>2, <1>6
  <2>. HIDE DEF u, v
  <2>0. h = Append(g, now)
    BY <2>1
  <2>2. /\ GrantsOK(h) /\ Len(h) = n + 1 /\ DOMAIN h = 1 .. n + 1
        /\ \A i \in 1 .. n : h[i] = g[i]
        /\ h[n + 1] = now
    BY <1>1, <2>0, GrantedNow, Zenon
  <2>3. v \in Nat /\ v <= w.capacity
    BY <1>3, <1>6 DEF v
  <2>4. /\ u \in Limiter /\ u.level = v /\ u.mark = w.mark
        /\ u.kind = w.kind /\ u.capacity = w.capacity /\ u.period = w.period
        /\ u.log = w.log
    BY <1>3, <2>3 DEF Limiter, u
  <2>5. LimiterOK(u)
    BY <1>1, <2>4 DEF LimiterOK
  <2>6. \A d : Periods(u, d) = Periods(w, d)
    BY <2>4 DEF Periods
  <2>. HIDE DEF n
  <2>7. WaterCounts(u, h)
    <3>1. ASSUME NEW i \in DOMAIN h
          PROVE  \/ /\ w.mark <= h[i] /\ (h[i] - w.mark) \div Grain < w.period
                    /\ Len(h) - i + 1 <= v
                 \/ /\ w.mark > h[i]
                    /\ Len(h) - i + 1 <= v + Periods(w, w.mark - h[i]) + 1
      <4>1. CASE i = n + 1
        <5>1. Len(h) - i + 1 = 1 /\ 1 <= v
          BY <1>3, <1>4, <2>2, <4>1 DEF v
        <5>. QED BY <1>1, <1>3, <2>2, <4>1, <5>1
      <4>2. CASE i # n + 1
        <5>1. i \in 1 .. n /\ i \in DOMAIN g /\ h[i] = g[i]
          BY <1>4, <2>2, <4>2
        <5>. DEFINE x == n - i + 1
        <5>2. x \in Nat /\ Len(h) - i + 1 = x + 1 /\ x = Len(g) - i + 1
          BY <1>4, <2>2, <5>1 DEF n
        <5>. HIDE DEF x
        <5>3. CASE w.mark <= g[i] /\ (g[i] - w.mark) \div Grain < w.period /\ x <= w.level
          <6>1. x + 1 <= v
            BY <1>3, <5>2, <5>3 DEF v
          <6>. QED BY <5>1, <5>2, <5>3, <6>1
        <5>4. CASE w.mark > g[i] /\ x <= w.level + Periods(w, w.mark - g[i]) + 1
          <6>. DEFINE p == Periods(w, w.mark - g[i])
          <6>1. p \in Nat
            <7>1. w.mark - g[i] \in Nat
              BY <1>3, <1>4, <5>1, <5>4
            <7>. QED BY <1>3, <7>1, PeriodsSum
          <6>. HIDE DEF p
          <6>2. x + 1 <= v + p + 1
            BY <1>3, <5>2, <5>4, <6>1 DEF v, p
          <6>. QED BY <5>1, <5>2, <5>4, <6>2 DEF p
        <5>. QED BY <1>1, <5>1, <5>2, <5>3, <5>4 DEF WaterCounts
      <4>. QED BY <4>1, <4>2
    <3>2. h # <<>> /\ h[Len(h)] >= u.mark
      <4>1. Len(h) # 0
        BY <1>4, <2>2
      <4>. QED BY <1>3, <2>2, <2>4, <4>1, EmptySeq
    <3>3. \A i \in DOMAIN h :
            \/ /\ u.mark <= h[i] /\ (h[i] - u.mark) \div Grain < u.period
               /\ Len(h) - i + 1 <= u.level
            \/ /\ u.mark > h[i]
               /\ Len(h) - i + 1 <= u.level + Periods(u, u.mark - h[i]) + 1
      BY <2>4, <2>6, <3>1, Zenon
    <3>. QED BY <2>3, <2>4, <3>2, <3>3 DEF WaterCounts
  <2>8. LeakKept(u, h)
    <3>. SUFFICES LeakKept(w, h)
      BY <2>4 DEF LeakKept, Periods
    <3>. SUFFICES ASSUME NEW i \in DOMAIN h, NEW k \in DOMAIN h, i <= k
                  PROVE  k - i + 1 <= w.capacity + Periods(w, h[k] - h[i]) + 1
      BY DEF LeakKept
    <3>1. CASE k # n + 1
      <4>1. i \in DOMAIN g /\ k \in DOMAIN g /\ h[i] = g[i] /\ h[k] = g[k]
        BY <1>4, <2>2, <3>1
      <4>. QED BY <1>5, <4>1 DEF LeakKept
    <3>2. CASE k = n + 1
      <4>. DEFINE x == n - i + 1
                  q == Periods(w, now - h[i])
      <4>1. h[i] \in Nat /\ h[i] <= now /\ now - h[i] \in Nat
        BY <1>3, <2>2 DEF GrantsOK
      <4>2. q \in Nat
        BY <1>3, <4>1, PeriodsSum
      <4>3. CASE i = n + 1
        <5>. HIDE DEF q
        <5>1. k - i + 1 = 1 /\ 1 <= w.capacity + q + 1
          BY <1>3, <1>4, <3>2, <4>2, <4>3
        <5>. QED BY <2>2, <3>2, <5>1 DEF q
      <4>4. CASE i # n + 1
        <5>1. i \in 1 .. n /\ i \in DOMAIN g /\ h[i] = g[i] /\ k - i + 1 = x + 1 /\ x \in Nat
          BY <1>4, <2>2, <3>2, <4>4
        <5>2. x = Len(g) - i + 1
          BY DEF n
        <5>. HIDE DEF x, q
        <5>3. CASE x <= w.level
          <6>1. x + 1 <= w.capacity + q + 1
            BY <1>3, <1>6, <4>2, <5>1, <5>3
          <6>. QED BY <2>2, <3>2, <5>1, <6>1 DEF q
        <5>4. CASE w.mark > g[i] /\ x <= w.level + Periods(w, w.mark - g[i]) + 1
          <6>. DEFINE p == Periods(w, w.mark - g[i])
          <6>1. /\ w.mark - g[i] \in Nat /\ now - w.mark \in Nat
                /\ (w.mark - g[i]) + (now - w.mark) = now - g[i]
            <7>1. w.mark > g[i] /\ g[i] \in Nat
              BY <1>4, <5>1, <5>4
            <7>. QED BY <1>3, <7>1
          <6>2. p \in Nat /\ p <= q
            BY <1>3, <5>1, <6>1, PeriodsSum DEF q
          <6>. HIDE DEF p
          <6>3. x + 1 <= w.capacity + q + 1
            BY <1>3, <1>6, <4>2, <5>1, <5>4, <6>2 DEF p
          <6>. QED BY <2>2, <3>2, <5>1, <6>3 DEF q
        <5>. QED BY <1>1, <5>1, <5>2, <5>3, <5>4 DEF WaterCounts
      <4>. QED BY <4>3, <4>4
    <3>. QED BY <3>1, <3>2
  <2>. QED BY <1>1, <2>0, <2>1, <2>2, <2>4, <2>5, <2>7, <2>8 DEF Held
<1>7. CASE ~(w.level < w.capacity)
  <2>1. r.limiter = w /\ r.granted = FALSE /\ h = g
    BY <1>2, <1>7
  <2>2. ASSUME pristine, w.capacity > 0
        PROVE  \E i \in DOMAIN g : Elapsed(g[i]) <= w.period - 1
    <3>1. w.level = w.capacity
      <4>1. w.level <= w.capacity
        BY <1>1, <2>2 DEF WaterCounts
      <4>. QED BY <1>3, <1>7, <4>1
    <3>2. g # <<>> /\ g[n] >= w.mark
      BY <1>1, <2>2, <3>1 DEF WaterCounts
    <3>3. n \in 1 .. n
      BY <1>1, <1>4, <3>2, EmptySeq DEF GrantsOK
    <3>4. Elapsed(g[n]) \in Nat /\ Elapsed(g[n]) <= Elapsed(w.mark) /\ Elapsed(w.mark) \in Nat
      <4>1. g[n] \in Nat /\ g[n] <= now /\ w.mark <= g[n]
        BY <1>3, <1>4, <3>2, <3>3
      <4>. QED BY <1>3, <4>1, ElapsedType
    <3>5. Elapsed(w.mark) < w.period
      BY <1>1 DEF Elapsed
    <3>6. Elapsed(g[n]) <= w.period - 1
      BY <1>3, <3>4, <3>5
    <3>. QED BY <1>4, <3>3, <3>6
  <2>. QED BY <1>1, <1>5, <2>1, <2>2 DEF Held, Refusal
<1>. QED BY <1>6, <1>7

LEMMA AcquireHeld ==
    ASSUME Clock, NEW l, NEW g, Held(l, g),
           NEW r, r = Acquire(l), NEW h, h = IF r.granted THEN Append(g, now) ELSE g
    PROVE  /\ Held(r.limiter, h) /\ r.granted \in BOOLEAN
           /\ ~r.granted => Refusal(r.limiter, h)
<1>1. l.kind \in Strategies
  BY LimiterTypes DEF Held, Limiter
<1>2. CASE l.kind = "TOKEN_BUCKET"
  <2>. DEFINE b == Refill(l)
              ok == b.level >= Unit
  <2>1. r = [limiter |-> b, granted |-> ok]
    BY <1>2 DEF Acquire, AcquireToken, Tried
  <2>2. Held(b, g) /\ Held(b, Append(g, now)) /\ b.kind = "TOKEN_BUCKET"
    BY <1>2, TokensHeld, Zenon
  <2>3. ok \in BOOLEAN
    OBVIOUS
  <2>. HIDE DEF b, ok
  <2>4. r.limiter = b /\ r.granted = ok
    BY <2>1
  <2>5. Held(b, h)
    BY <2>2
  <2>6. Refusal(b, h)
    BY <2>2 DEF Refusal
  <2>. QED BY <2>3, <2>4, <2>5, <2>6
<1>3. CASE l.kind = "SLIDING_WINDOW"
  <2>1. r = AcquireSlot(l)
    BY <1>3 DEF Acquire
  <2>. QED BY <1>3, <2>1, SlotHeld, Zenon
<1>4. CASE l.kind = "LEAKY_BUCKET"
  <2>1. r = AcquireRoom(l)
    BY <1>4 DEF Acquire
  <2>. QED BY <1>4, <2>1, RoomHeld, Zenon
<1>. QED BY <1>1, <1>2, <1>3, <1>4 DEF Strategies

\* The grants when t of a batch have been granted.
With(t) == grants \o [i \in 1 .. t |-> now]

LEMMA WithNone == ASSUME GrantsOK(grants) PROVE With(0) = grants
<1>1. [i \in 1 .. 0 |-> now] = <<>>
  OBVIOUS
<1>. QED BY <1>1, ConcatEmptySeq DEF With, GrantsOK

LEMMA WithOneMore ==
    ASSUME Clock, GrantsOK(grants), NEW t \in Nat
    PROVE  With(t + 1) = Append(With(t), now)
<1>. DEFINE n == Len(grants)
            F(k) == [i \in 1 .. k |-> now]
<1>1. now \in Nat /\ grants \in Seq(Nat) /\ n \in Nat /\ DOMAIN grants = 1 .. n
  BY LenProperties DEF Clock, GrantsOK
<1>2. ASSUME NEW k \in Nat
      PROVE  /\ F(k) \in Seq(Nat) /\ Len(F(k)) = k
             /\ \A i \in 1 .. k : F(k)[i] = now
  BY <1>1
<1>3. ASSUME NEW k \in Nat
      PROVE  /\ With(k) \in Seq(Nat) /\ Len(With(k)) = n + k
             /\ \A i \in 1 .. n + k : With(k)[i] = IF i <= n THEN grants[i] ELSE now
  <2>. DEFINE f == F(k)
  <2>1. f \in Seq(Nat) /\ Len(f) = k /\ \A i \in 1 .. k : f[i] = now
    BY <1>2
  <2>. HIDE DEF f
  <2>2. /\ grants \o f \in Seq(Nat) /\ Len(grants \o f) = n + k
        /\ \A i \in 1 .. n + k : (grants \o f)[i] = IF i <= n THEN grants[i] ELSE f[i - n]
    BY <1>1, <2>1, ConcatProperties
  <2>3. ASSUME NEW i \in 1 .. n + k, ~(i <= n) PROVE f[i - n] = now
    <3>1. i - n \in 1 .. k
      BY <1>1, <2>3
    <3>. QED BY <2>1, <3>1
  <2>4. With(k) = grants \o f
    BY DEF With, f
  <2>. QED BY <2>2, <2>3, <2>4
<1>. DEFINE s == With(t)
            u == With(t + 1)
            v == Append(s, now)
<1>4. /\ s \in Seq(Nat) /\ Len(s) = n + t
      /\ \A i \in 1 .. n + t : s[i] = IF i <= n THEN grants[i] ELSE now
  BY <1>3
<1>5. /\ u \in Seq(Nat) /\ Len(u) = n + (t + 1)
      /\ \A i \in 1 .. n + (t + 1) : u[i] = IF i <= n THEN grants[i] ELSE now
  <2>1. t + 1 \in Nat
    OBVIOUS
  <2>. QED BY <1>3, <2>1
<1>. HIDE DEF s, u, n
<1>6. /\ v \in Seq(Nat) /\ Len(v) = n + t + 1
      /\ \A i \in 1 .. n + t : v[i] = s[i]
      /\ v[n + t + 1] = now
  BY <1>1, <1>4, AppendProperties
<1>. HIDE DEF v
<1>7. Len(u) = Len(v)
  BY <1>1, <1>5, <1>6
<1>8. ASSUME NEW i \in 1 .. Len(u) PROVE u[i] = v[i]
  <2>1. CASE i = n + t + 1
    BY <1>1, <1>5, <1>6, <2>1
  <2>2. CASE i # n + t + 1
    <3>1. i \in 1 .. n + t /\ i \in 1 .. n + (t + 1)
      BY <1>1, <1>5, <2>2
    <3>. QED BY <1>4, <1>5, <1>6, <3>1
  <2>. QED BY <2>1, <2>2
<1>9. u = v
  BY <1>5, <1>6, <1>7, <1>8, SeqEqual
<1>. QED BY <1>9 DEF u, v, s

\* What is known after the first k rounds of a batch.
Batch(k) ==
    {b \in [limiter : Limiter, granted : BOOLEAN, taken : 0 .. k] :
        /\ Held(b.limiter, With(b.taken))
        /\ b.granted => b.taken = k
        /\ ~b.granted => Refusal(b.limiter, With(b.taken))}

LEMMA RoundHeld ==
    ASSUME Clock, GrantsOK(grants), NEW k \in Nat \ {0}, NEW b \in Batch(k - 1)
    PROVE  Round(b, k) \in Batch(k)
<1>. DEFINE t == b.taken
            r == Acquire(b.limiter)
<1>1. /\ b.limiter \in Limiter /\ b.granted \in BOOLEAN /\ t \in 0 .. k - 1
      /\ Held(b.limiter, With(t))
      /\ b.granted => t = k - 1
      /\ ~b.granted => Refusal(b.limiter, With(t))
      /\ b = [limiter |-> b.limiter, granted |-> b.granted, taken |-> t]
  BY DEF Batch
<1>2. t \in 0 .. k /\ t \in Nat
  BY <1>1
<1>3. CASE ~b.granted
  <2>1. Round(b, k) = b
    BY <1>3 DEF Round
  <2>2. b \in [limiter : Limiter, granted : BOOLEAN, taken : 0 .. k]
    BY <1>1, <1>2
  <2>. QED BY <1>1, <1>3, <2>1, <2>2 DEF Batch
<1>4. CASE b.granted
  <2>. DEFINE h == IF r.granted THEN Append(With(t), now) ELSE With(t)
              c == [limiter |-> r.limiter, granted |-> r.granted, taken |-> IF r.granted THEN k ELSE t]
  <2>1. /\ Held(r.limiter, h) /\ r.granted \in BOOLEAN
        /\ ~r.granted => Refusal(r.limiter, h)
    BY <1>1, AcquireHeld, Zenon
  <2>2. Round(b, k) = c
    BY <1>4 DEF Round
  <2>3. r.limiter \in Limiter
    BY <2>1, LimiterTypes DEF Held
  <2>4. t + 1 = k /\ k \in 0 .. k
    BY <1>1, <1>4
  <2>5. With(k) = Append(With(t), now)
    BY <1>2, <2>4, WithOneMore
  <2>. HIDE DEF r, t
  <2>6. c \in [limiter : Limiter, granted : BOOLEAN, taken : 0 .. k]
    BY <1>2, <2>1, <2>3, <2>4
  <2>7. c.limiter = r.limiter /\ c.granted = r.granted /\ With(c.taken) = h /\ (c.granted => c.taken = k)
    BY <2>1, <2>5
  <2>. HIDE DEF c, h
  <2>. QED BY <2>1, <2>2, <2>6, <2>7 DEF Batch
<1>. QED BY <1>1, <1>3, <1>4

LEMMA BatchHeld ==
    ASSUME Clock, Held(limiter, grants), NEW n \in Nat
    PROVE  AcquireMany(n) \in Batch(n)
<1>. DEFINE J == [k \in 0 .. n |-> Batch(k)]
<1>1. GrantsOK(grants) /\ limiter \in Limiter
  BY DEF Held, LimiterOK
<1>2. Before \in J[0]
  <2>1. Before \in [limiter : Limiter, granted : BOOLEAN, taken : 0 .. 0]
    BY <1>1 DEF Before
  <2>2. Before \in Batch(0)
    BY <1>1, <2>1, WithNone DEF Batch, Before
  <2>. QED BY <2>2
<1>3. ASSUME NEW k \in 1 .. n, NEW b \in J[k - 1] PROVE Round(b, k) \in J[k]
  <2>1. k \in Nat \ {0} /\ k \in 0 .. n /\ k - 1 \in 0 .. n
    BY <1>3
  <2>2. b \in Batch(k - 1)
    BY <1>3, <2>1
  <2>3. Round(b, k) \in Batch(k)
    BY <1>1, <2>1, <2>2, RoundHeld
  <2>. QED BY <2>1, <2>3
<1>4. J[n] = Batch(n)
  OBVIOUS
<1>. HIDE DEF J
<1>5. AcquireMany(n) \in J[n]
  BY <1>2, <1>3, BatchInduction
<1>. QED BY <1>4, <1>5

-----------------------------------------------------------------------------
(* The steps                                                                *)

Counters == /\ now \in 0 .. MaxTime
            /\ refused \in BOOLEAN /\ pristine \in BOOLEAN
            /\ edits \in 0 .. MaxEdits
Kept     == IF limiter = NoLimiter THEN grants = <<>> /\ ~refused ELSE Held(limiter, grants)
Justified == refused => Refusal(limiter, grants)

LimiterInv == Counters /\ Kept /\ Justified

LEMMA ClockTicks == ASSUME Counters PROVE Clock
  BY LimiterAssumption DEF Counters, Clock

LEMMA NoLimiterIsNone == NoLimiter \notin Limiter /\ NoLimiter.kind = "NONE"
  BY DEF NoLimiter, Limiter, Strategies

\* A limiter that has just been configured has let nobody pass.
LEMMA Emptied ==
    ASSUME Clock, NEW l, LimiterOK(l), now' = now, limiter' = l, grants' = <<>>,
           pristine' => (l.log = <<>> /\ l.level = 0) \/ l.kind = "TOKEN_BUCKET"
    PROVE  Held(limiter, grants)'
<1>. DEFINE g == <<>>
<1>1. g \in Seq(Nat) /\ Len(g) = 0 /\ DOMAIN g = {}
  OBVIOUS
<1>2. /\ l.capacity \in Nat /\ Len(l.log) \in Nat /\ DOMAIN l.log = 1 .. Len(l.log)
  BY LimiterTypes
<1>. HIDE DEF g
<1>3. grants' = g
  BY DEF g
<1>4. LimiterOK(limiter)'
  BY DEF LimiterOK
<1>5. GrantsOK(grants)'
  BY <1>1, <1>3 DEF GrantsOK
<1>6. ASSUME l.kind # "TOKEN_BUCKET" PROVE LogIsTail(limiter, grants)'
  <2>1. ASSUME NEW i \in DOMAIN l.log PROVE ~(Len(g) - Len(l.log) + i > 0)
    BY <1>1, <1>2
  <2>2. pristine' => Len(l.log) = 0
    BY <1>6, EmptySeq
  <2>3. pristine' => (Len(g) - Len(l.log) >= 0 /\ Len(l.log) <= l.capacity)
    BY <1>1, <1>2, <2>2
  <2>. QED BY <1>1, <1>3, <2>1, <2>3 DEF LogIsTail
<1>7. ASSUME l.kind # "TOKEN_BUCKET" PROVE WaterCounts(limiter, grants)'
  <2>1. pristine' => l.level = 0
    BY <1>7
  <2>2. pristine' => (l.level <= l.capacity /\ ~(l.level = l.capacity /\ l.capacity > 0))
    BY <1>2, <2>1
  <2>. QED BY <1>1, <1>3, <2>2 DEF WaterCounts
<1>8. WindowKept(limiter, grants)' /\ LeakKept(limiter, grants)'
  BY <1>1, <1>3 DEF WindowKept, LeakKept
<1>. QED BY <1>4, <1>5, <1>6, <1>7, <1>8 DEF Held

LEMMA RateAsPeriod ==
    ASSUME NEW r \in Rates
    PROVE  Second \div r \in Nat \ {0} /\ Second \in Nat \ {0}
<1>1. r \in Nat \ {0} /\ r <= Second /\ Second \in Nat
  BY LimiterAssumption
<1>2. 1 <= Second \div r
  <2>1. r * 1 <= Second
    BY <1>1
  <2>. QED BY <1>1, <2>1, DivLeast
<1>3. Second \div r \in Nat
  BY <1>1, DivFacts
<1>. QED BY <1>1, <1>2, <1>3

LEMMA Created ==
    ASSUME Clock, NEW c \in Capacities, NEW r \in Rates, NEW s \in Strategies,
           NEW l, l = Create(c, r, s)
    PROVE  LimiterOK(l) /\ l.log = <<>> /\ (l.level = 0 \/ l.kind = "TOKEN_BUCKET")
<1>. DEFINE p == IF s = "SLIDING_WINDOW" THEN Second ELSE Second \div r
            v == IF s = "TOKEN_BUCKET" THEN c * Unit ELSE 0
<1>1. p \in Nat /\ p > 0
  BY RateAsPeriod
<1>2. c \in Nat /\ Unit \in Nat /\ now \in Nat
  BY LimiterAssumption DEF Clock
<1>3. v \in Nat /\ (s = "TOKEN_BUCKET" => v = c * Unit) /\ (s # "TOKEN_BUCKET" => v = 0)
  BY <1>2
<1>4. l = [kind |-> s, capacity |-> c, period |-> p, level |-> v, mark |-> now, log |-> <<>>]
  BY DEF Create
<1>. HIDE DEF p, v
<1>5. <<>> \in Seq(Nat) /\ DOMAIN <<>> = {}
  OBVIOUS
<1>6. l \in Limiter
  BY <1>1, <1>2, <1>3, <1>4, <1>5 DEF Limiter
<1>7. /\ l.kind = s /\ l.capacity = c /\ l.period = p /\ l.level = v /\ l.mark = now /\ l.log = <<>>
  BY <1>4
<1>8. c * Unit <= c * Unit /\ now <= now
  BY <1>2
<1>. QED BY <1>1, <1>3, <1>5, <1>6, <1>7, <1>8 DEF LimiterOK

LEMMA ConfiguredInv ==
    ASSUME LimiterInv, NEW l, LimiterOK(l), NEW fresh \in BOOLEAN, Configured(l, fresh),
           fresh => l.log = <<>> /\ (l.level = 0 \/ l.kind = "TOKEN_BUCKET"),
           edits' \in 0 .. MaxEdits
    PROVE  LimiterInv'
<1>1. Counters'
  BY DEF LimiterInv, Counters, Configured
<1>2. Clock
  BY ClockTicks DEF LimiterInv
<1>3. Held(limiter, grants)'
  BY <1>2, Emptied DEF Configured
<1>4. Kept' /\ Justified'
  BY <1>3, NoLimiterIsNone DEF Kept, Justified, Configured, Held, LimiterOK
<1>. QED BY <1>1, <1>4 DEF LimiterInv

LEMMA EditBounded == ASSUME Counters, Edit PROVE edits' \in 0 .. MaxEdits
  BY LimiterAssumption DEF Counters, Edit

LEMMA LimiterInvInit == Init => LimiterInv
<1>. SUFFICES ASSUME Init PROVE LimiterInv
  OBVIOUS
<1>1. now \in 0 .. MaxTime /\ edits \in 0 .. MaxEdits
  BY LimiterAssumption DEF Init
<1>2. refused = FALSE /\ pristine = TRUE
  BY DEF Init
<1>3. Kept /\ Justified
  BY <1>2 DEF Init, Kept, Justified
<1>. QED BY <1>1, <1>2, <1>3 DEF LimiterInv, Counters

LEMMA CreateInv ==
    ASSUME LimiterInv, NEW c \in Capacities, NEW r \in Rates, NEW s \in Strategies,
           AddLimiter(c, r, s) \/ UpdateLimiter(c, r, s)
    PROVE  LimiterInv'
<1>1. edits' \in 0 .. MaxEdits
  BY EditBounded DEF LimiterInv, Counters, AddLimiter, UpdateLimiter
<1>2. Configured(Create(c, r, s), TRUE)
  BY DEF AddLimiter, UpdateLimiter
<1>3. Clock
  BY ClockTicks DEF LimiterInv
<1>4. LimiterOK(Create(c, r, s)) /\ Create(c, r, s).log = <<>>
      /\ (Create(c, r, s).level = 0 \/ Create(c, r, s).kind = "TOKEN_BUCKET")
  BY <1>3, Created
<1>. QED BY <1>1, <1>2, <1>4, ConfiguredInv

LEMMA RemoveInv == ASSUME LimiterInv, RemoveLimiter PROVE LimiterInv'
  BY DEF LimiterInv, Counters, Kept, Justified, RemoveLimiter, Configured

LEMMA SetRateInv ==
    ASSUME LimiterInv, NEW r \in Rates, SetRate(r)
    PROVE  LimiterInv'
<1>. DEFINE l == [limiter EXCEPT !.period = Second \div r]
<1>1. edits' \in 0 .. MaxEdits
  BY EditBounded DEF LimiterInv, SetRate
<1>2. LimiterOK(limiter) /\ limiter \in Limiter
  BY DEF LimiterInv, Kept, SetRate, Held, LimiterOK
<1>3. Second \div r \in Nat /\ Second \div r > 0
  BY RateAsPeriod
<1>4. /\ l \in Limiter /\ l.period > 0
      /\ l.kind = limiter.kind /\ l.level = limiter.level /\ l.capacity = limiter.capacity
      /\ l.mark = limiter.mark /\ l.log = limiter.log
  BY <1>2, <1>3 DEF Limiter
<1>5. LimiterOK(l)
  BY <1>2, <1>4 DEF LimiterOK
<1>6. Configured(l, FALSE)
  BY DEF SetRate
<1>. HIDE DEF l
<1>. QED BY <1>1, <1>5, <1>6, ConfiguredInv

LEMMA SetCapacityInv ==
    ASSUME LimiterInv, NEW c \in Capacities, SetCapacity(c)
    PROVE  LimiterInv'
<1>. DEFINE w == [limiter EXCEPT !.capacity = c]
            v == [w EXCEPT !.level = Least(c * Unit, @)]
            l == IF w.kind = "TOKEN_BUCKET" THEN v ELSE w
<1>1. edits' \in 0 .. MaxEdits
  BY EditBounded DEF LimiterInv, SetCapacity
<1>2. LimiterOK(limiter) /\ limiter \in Limiter
  BY DEF LimiterInv, Kept, SetCapacity, Held, LimiterOK
<1>3. c \in Nat /\ Unit \in Nat /\ limiter.level \in Nat
  BY <1>2, LimiterAssumption DEF Limiter
<1>4. Least(c * Unit, limiter.level) \in Nat /\ Least(c * Unit, limiter.level) <= c * Unit
  <2>1. c * Unit \in Nat
    BY <1>3
  <2>. QED BY <1>3, <2>1 DEF Least
<1>5. /\ w \in Limiter /\ w.kind = limiter.kind /\ w.level = limiter.level /\ w.capacity = c
      /\ w.period = limiter.period /\ w.mark = limiter.mark /\ w.log = limiter.log
  BY <1>2 DEF Limiter
<1>6. /\ v \in Limiter /\ v.kind = limiter.kind /\ v.level <= c * Unit /\ v.capacity = c
      /\ v.period = limiter.period /\ v.mark = limiter.mark /\ v.log = limiter.log
  <2>. HIDE DEF w
  <2>1. v = [w EXCEPT !.level = Least(c * Unit, limiter.level)]
    BY <1>5
  <2>. QED BY <1>4, <1>5, <2>1 DEF Limiter
<1>7. Configured(l, FALSE)
  BY DEF SetCapacity
<1>. HIDE DEF w, v
<1>8. LimiterOK(l)
  BY <1>2, <1>5, <1>6 DEF LimiterOK
<1>. HIDE DEF l
<1>. QED BY <1>1, <1>7, <1>8, ConfiguredInv

LEMMA BatchInv ==
    ASSUME LimiterInv, NEW n \in 1 .. MaxCount, TryAcquireBatch(n)
    PROVE  LimiterInv'
<1>. DEFINE b == AcquireMany(n)
<1>1. Clock /\ Held(limiter, grants) /\ n \in Nat
  BY ClockTicks DEF LimiterInv, Kept, TryAcquireBatch
<1>2. b \in Batch(n)
  BY <1>1, BatchHeld
<1>3. /\ limiter' = b.limiter /\ grants' = With(b.taken) /\ refused' = ~b.granted
      /\ UNCHANGED <<now, pristine, edits>>
  BY DEF TryAcquireBatch, With
<1>. HIDE DEF b
<1>4. /\ b.limiter \in Limiter /\ b.granted \in BOOLEAN
      /\ Held(b.limiter, With(b.taken))
      /\ ~b.granted => Refusal(b.limiter, With(b.taken))
  BY <1>2 DEF Batch
<1>. DEFINE l == b.limiter
            g == With(b.taken)
<1>. HIDE DEF l, g
<1>5. limiter' = l /\ grants' = g /\ l \in Limiter /\ Held(l, g) /\ (~b.granted => Refusal(l, g))
  BY <1>3, <1>4 DEF l, g
<1>6. \A t : Elapsed(t)' = (now - t') \div Grain
  BY <1>3 DEF Elapsed
<1>7. Held(limiter, grants)'
  BY <1>3, <1>5
     DEF Held, LimiterOK, GrantsOK, LogIsTail, WindowKept, WaterCounts, LeakKept, Periods, Elapsed
<1>8. Justified'
  BY <1>3, <1>4, <1>5 DEF Justified, Refusal, Elapsed
<1>9. Counters'
  BY <1>3, <1>4 DEF LimiterInv, Counters
<1>10. limiter' # NoLimiter
  BY <1>5, NoLimiterIsNone
<1>. QED BY <1>7, <1>8, <1>9, <1>10 DEF LimiterInv, Kept

LEMMA TickInv == ASSUME LimiterInv, Tick PROVE LimiterInv'
<1>1. /\ now' = now + 1 /\ refused' = FALSE
      /\ limiter' = limiter /\ grants' = grants /\ pristine' = pristine /\ edits' = edits
  BY DEF Tick
<1>2. Counters'
  <2>1. now' \in 0 .. MaxTime /\ edits' \in 0 .. MaxEdits
    BY <1>1, LimiterAssumption DEF LimiterInv, Counters, Tick
  <2>2. refused' \in BOOLEAN /\ pristine' \in BOOLEAN
    BY <1>1 DEF LimiterInv, Counters
  <2>. QED BY <2>1, <2>2 DEF Counters
<1>3. Justified'
  BY <1>1 DEF Justified
<1>4. CASE limiter = NoLimiter
  BY <1>1, <1>2, <1>3, <1>4 DEF LimiterInv, Kept
<1>5. CASE limiter # NoLimiter
  <2>1. Held(limiter, grants) /\ Clock
    BY <1>5, ClockTicks DEF LimiterInv, Kept
  <2>2. now \in Nat /\ LimiterOK(limiter) /\ GrantsOK(grants)
    BY <2>1 DEF Held, Clock
  <2>3. /\ \A i \in 1 .. Len(limiter.log) : limiter.log[i] \in Nat
        /\ limiter.mark \in Nat /\ limiter.period \in Nat
        /\ Len(limiter.log) \in Nat /\ DOMAIN limiter.log = 1 .. Len(limiter.log)
    BY <2>2, LimiterTypes
  <2>4. DOMAIN grants = 1 .. Len(grants) /\ \A i \in DOMAIN grants : grants[i] \in Nat /\ grants[i] <= now
    BY <2>2, LenProperties, ElementOfSeq DEF GrantsOK
  <2>5. LimiterOK(limiter)'
    BY <1>1, <2>2, <2>3 DEF LimiterOK
  <2>6. GrantsOK(grants)'
    BY <1>1, <2>2, <2>4 DEF GrantsOK
  <2>7. ASSUME NEW i \in DOMAIN grants, Elapsed(grants[i]) > limiter.period
        PROVE  (now' - grants[i]) \div Grain > limiter.period
    <3>. DEFINE x == now - grants[i]
                p == x \div Grain
                q == (x + 1) \div Grain
    <3>1. x \in Nat /\ now' - grants[i] = x + 1 /\ Grain \in Nat \ {0}
      BY <1>1, <2>2, <2>4, LimiterAssumption
    <3>2. p <= q /\ p \in Nat
      <4>. HIDE DEF x
      <4>. QED BY <3>1, DivSum, DivFacts
    <3>3. q \in Nat
      <4>1. x + 1 \in Nat
        BY <3>1
      <4>. HIDE DEF x
      <4>. QED BY <3>1, <4>1, DivFacts
    <3>4. p > limiter.period
      BY <2>7 DEF Elapsed
    <3>. HIDE DEF p, q
    <3>5. q > limiter.period
      BY <2>3, <3>2, <3>3, <3>4
    <3>. QED BY <3>1, <3>5 DEF q
  <2>8. LogIsTail(limiter, grants) => LogIsTail(limiter, grants)'
    <3>. DEFINE ahead == Len(grants) - Len(limiter.log)
    <3>. SUFFICES ASSUME LogIsTail(limiter, grants) PROVE LogIsTail(limiter, grants)'
      OBVIOUS
    <3>1. ASSUME NEW i \in DOMAIN grants, i <= ahead
          PROVE  (now' - grants[i]) \div Grain > limiter.period
      BY <2>7, <3>1 DEF LogIsTail
    <3>2. \A i \in DOMAIN grants :
            i <= Len(grants) - Len(limiter.log) => (now' - grants[i]) \div Grain > limiter.period
      BY <3>1
    <3>3. \A i \in DOMAIN limiter.log :
            Len(grants) - Len(limiter.log) + i > 0 =>
                limiter.log[i] = grants[Len(grants) - Len(limiter.log) + i]
      BY Zenon DEF LogIsTail
    <3>4. pristine => /\ Len(grants) - Len(limiter.log) >= 0
                      /\ Len(limiter.log) <= limiter.capacity
      BY Zenon DEF LogIsTail
    <3>. QED BY <1>1, <3>2, <3>3, <3>4, Zenon DEF LogIsTail, Elapsed
  <2>9. /\ WindowKept(limiter, grants) => WindowKept(limiter, grants)'
        /\ LeakKept(limiter, grants) => LeakKept(limiter, grants)'
        /\ WaterCounts(limiter, grants) => WaterCounts(limiter, grants)'
    BY <1>1 DEF WindowKept, LeakKept, WaterCounts, Periods
  <2>10. Held(limiter, grants)'
    BY <1>1, <2>1, <2>5, <2>6, <2>8, <2>9 DEF Held
  <2>. QED BY <1>1, <1>2, <1>3, <1>5, <2>10 DEF LimiterInv, Kept
<1>. QED BY <1>4, <1>5

LEMMA UnchangedInv == ASSUME LimiterInv, UNCHANGED vars PROVE LimiterInv'
  BY DEF vars, LimiterInv, Counters, Kept, Justified, Held, Refusal, LimiterOK, GrantsOK, LogIsTail,
         WindowKept, WaterCounts, LeakKept, Periods, Elapsed

LEMMA LimiterInvInductive == Spec => []LimiterInv
<1>1. ASSUME LimiterInv, [Next]_vars PROVE LimiterInv'
  <2>1. CASE Next
    BY <1>1, <2>1, CreateInv, RemoveInv, SetRateInv, SetCapacityInv, BatchInv, TickInv DEF Next
  <2>. QED BY <1>1, <2>1, UnchangedInv
<1>. QED BY <1>1, LimiterInvInit, PTL DEF Spec

-----------------------------------------------------------------------------
(* What follows                                                             *)

(* The limiter of a key is one of the three kinds or none, with a level that *)
(* the capacity of a token bucket bounds, and has noted nothing later than   *)
(* the clock, whatever is called and in whatever order.                      *)
THEOREM TypeCorrect == Spec => []TypeOK
<1>1. ASSUME LimiterInv PROVE TypeOK
  <2>1. CASE limiter = NoLimiter
    <3>1. limiter.kind = "NONE" /\ limiter.mark = 0 /\ limiter.log = <<>> /\ grants = <<>>
      BY <1>1, <2>1 DEF NoLimiter, LimiterInv, Kept
    <3>2. grants \in Seq(Nat) /\ DOMAIN limiter.log = {}
      BY <3>1
    <3>3. limiter.mark <= now
      BY <1>1, <3>1, LimiterAssumption DEF LimiterInv, Counters
    <3>. QED BY <1>1, <2>1, <3>1, <3>2, <3>3 DEF TypeOK, LimiterInv, Counters
  <2>2. CASE limiter # NoLimiter
    BY <1>1, <2>2 DEF TypeOK, LimiterInv, Counters, Kept, Held, LimiterOK, GrantsOK
  <2>. QED BY <2>1, <2>2
<1>. QED BY <1>1, LimiterInvInductive, PTL

(* A sliding window lets no more callers pass than its capacity in any       *)
(* stretch of windowSize_, for every capacity, window, batch and clock.      *)
THEOREM WindowBounded == Spec => []WindowBound
<1>1. ASSUME LimiterInv PROVE WindowBound
  <2>1. ASSUME limiter.kind = "SLIDING_WINDOW" PROVE Held(limiter, grants)
    BY <1>1, <2>1, NoLimiterIsNone DEF LimiterInv, Kept
  <2>. QED BY <2>1 DEF WindowBound, Held, WindowKept, Span, Granted
<1>. QED BY <1>1, LimiterInvInductive, PTL

(* A leaky bucket lets capacity callers pass at once, and then one for each  *)
(* period and one more: what leaks between two calls is never counted twice. *)
THEOREM LeakBounded == Spec => []LeakBound
<1>1. ASSUME LimiterInv PROVE LeakBound
  <2>1. ASSUME limiter.kind = "LEAKY_BUCKET" PROVE Held(limiter, grants)
    BY <1>1, <2>1, NoLimiterIsNone DEF LimiterInv, Kept
  <2>. QED BY <2>1 DEF LeakBound, Held, LeakKept, Periods, Span, Granted
<1>. QED BY <1>1, LimiterInvInductive, PTL

(* Who is refused is refused by a full window, or within a period of the     *)
(* last caller who was let into a leaky bucket.                              *)
THEOREM RefusalsJustified == Spec => []RefusedOnlyWhenFull
<1>1. ASSUME LimiterInv PROVE RefusedOnlyWhenFull
  <2>1. ASSUME refused, pristine, limiter.capacity > 0
        PROVE  /\ limiter.kind = "SLIDING_WINDOW" =>
                    \E i \in DOMAIN grants :
                        Len(grants) - i + 1 = limiter.capacity /\ Elapsed(grants[i]) <= limiter.period
               /\ limiter.kind = "LEAKY_BUCKET" =>
                    \E i \in DOMAIN grants : Elapsed(grants[i]) <= limiter.period - 1
    BY <1>1, <2>1 DEF LimiterInv, Justified, Refusal
  <2>. QED BY <2>1 DEF RefusedOnlyWhenFull, Granted
<1>. QED BY <1>1, LimiterInvInductive, PTL
=============================================================================
