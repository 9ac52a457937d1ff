------------------------ MODULE StatsManager_proofs -------------------------
(***************************************************************************)
(* What is proved of the statistics.  The counters and the programs of the *)
(* threads keep their types (TypeInv); a division by zero needs a reset    *)
(* (TrapInv); no update is lost (SerialInv).  The last two rest on what is *)
(* still owed to a field by the calls that are under way, a finite set     *)
(* with one element for each time that one will be added to it.            *)
(***************************************************************************)
EXTENDS StatsManager, NaturalsInduction, WellFoundedInduction, FiniteSetTheorems,
        SequenceTheorems, TLAPS

-----------------------------------------------------------------------------
(* Arithmetic modulo Modulus                                                *)

LEMMA ModType ==
    ASSUME NEW a \in Int
    PROVE  a % Modulus \in Values /\ Values \subseteq Nat /\ Modulus \in Nat /\ Modulus > 1
<1>1. Modulus \in Nat /\ Modulus > 1
  BY StatsAssumption
<1>2. a % Modulus \in 0 .. Modulus - 1
  BY <1>1
<1>. QED BY <1>1, <1>2 DEF Values

LEMMA ModSmall ==
    ASSUME NEW a \in Values
    PROVE  a % Modulus = a
<1>1. Modulus \in Nat /\ Modulus > 1 /\ a \in Nat /\ a < Modulus
  BY StatsAssumption DEF Values
<1>. QED BY <1>1

\* The remainder of a sum is the remainder of the sum of the remainders.
LEMMA ModSum ==
    ASSUME NEW a \in Int, NEW b \in Int
    PROVE  /\ ((a % Modulus) + b) % Modulus = (a + b) % Modulus
           /\ ((a % Modulus) + (b % Modulus)) % Modulus = (a + b) % Modulus
<1>. DEFINE M == Modulus
<1>1. M \in Nat /\ M > 1
  BY StatsAssumption
<1>2. ASSUME NEW x \in Int, NEW y \in Int, NEW k \in Int, y = x + M * k
      PROVE  x % M = y % M
  <2>. DEFINE p == x \div M
              r == x % M
              q == y \div M
              s == y % M
  <2>1. /\ p \in Int /\ r \in Int /\ x = M * p + r /\ 0 <= r /\ r < M
        /\ q \in Int /\ s \in Int /\ y = M * q + s /\ 0 <= s /\ s < M
    BY <1>1
  <2>. HIDE DEF p, q, r, s, M
  <2>2. M * (p + k) = M * p + M * k /\ M * (p + k + 1) = M * p + M * k + M /\ M * (q + 1) = M * q + M
    BY <1>1, <2>1
  <2>3. M * (p + k) < M * (q + 1) /\ M * q < M * (p + k + 1)
    BY <1>1, <1>2, <2>1, <2>2
  <2>4. \A u, v \in Int : M * u < M * v => u < v
    BY <1>1
  <2>5. p + k < q + 1 /\ q < p + k + 1
    BY <2>1, <2>3, <2>4
  <2>6. q = p + k
    BY <2>1, <2>5
  <2>7. s = r
    BY <1>1, <1>2, <2>1, <2>2, <2>6
  <2>. QED BY <2>7 DEF r, s
<1>. DEFINE p == a \div M
            r == a % M
            q == b \div M
            s == b % M
<1>3. /\ p \in Int /\ r \in Int /\ a = M * p + r
      /\ q \in Int /\ s \in Int /\ b = M * q + s
  BY <1>1
<1>. HIDE DEF p, q, r, s, M
<1>4. a + b = (r + b) + M * p /\ a + b = (r + s) + M * (p + q)
  BY <1>1, <1>3
<1>5. (r + b) % M = (a + b) % M
  BY <1>2, <1>3, <1>4
<1>6. (r + s) % M = (a + b) % M
  BY <1>2, <1>3, <1>4
<1>. QED BY <1>5, <1>6 DEF r, s, M

-----------------------------------------------------------------------------
(* Fields                                                                   *)

LEMMA FieldNames ==
    /\ \A i \in 1 .. 13 : JobFields[i] \in Field
    /\ \A i \in 1 .. 6 : SystemFields[i] \in Field
    /\ \A f \in Field : (\E i \in 1 .. 13 : f = JobFields[i]) \/ (\E i \in 1 .. 6 : f = SystemFields[i])
    /\ DOMAIN JobFields = 1 .. 13 /\ DOMAIN SystemFields = 1 .. 6
    /\ JobFields \in Seq(Field) /\ SystemFields \in Seq(Field)
    /\ Len(JobFields) = 13 /\ Len(SystemFields) = 6
<1>1. DOMAIN JobFields = 1 .. 13 /\ DOMAIN SystemFields = 1 .. 6 /\ Len(JobFields) = 13 /\ Len(SystemFields) = 6
  BY DEF JobFields, SystemFields
<1>3. /\ \A i \in 1 .. 13 : JobFields[i] \in Field
      /\ \A i \in 1 .. 6 : SystemFields[i] \in Field
      /\ \A f \in Field : (\E i \in 1 .. 13 : f = JobFields[i]) \/ (\E i \in 1 .. 6 : f = SystemFields[i])
  BY <1>1 DEF Field, ToSet
<1>4. JobFields \in Seq(Field) /\ SystemFields \in Seq(Field)
  <2>1. JobFields = [i \in 1 .. 13 |-> JobFields[i]] /\ SystemFields = [i \in 1 .. 6 |-> SystemFields[i]]
    BY DEF JobFields, SystemFields
  <2>2. [i \in 1 .. 13 |-> JobFields[i]] \in Seq(Field)
    BY <1>3
  <2>3. [i \in 1 .. 6 |-> SystemFields[i]] \in Seq(Field)
    BY <1>3
  <2>. QED BY <2>1, <2>2, <2>3
<1>. QED BY <1>1, <1>3, <1>4

LEMMA FieldsNamed ==
    /\ {"total_jobs", "pending_jobs", "running_jobs", "completed_jobs", "failed_jobs", "timeout_jobs",
        "cancelled_jobs", "once_jobs", "periodic_jobs", "total_execution_time", "min_execution_time",
        "max_execution_time"} \subseteq Field
    /\ {"scheduler_uptime", "db_query_count", "db_query_time", "kafka_msg_sent", "kafka_msg_received",
        "scheduler_cycles"} \subseteq Field
<1>1. /\ JobFields[1] = "total_jobs" /\ JobFields[2] = "pending_jobs" /\ JobFields[3] = "running_jobs"
      /\ JobFields[4] = "completed_jobs" /\ JobFields[5] = "failed_jobs" /\ JobFields[6] = "timeout_jobs"
      /\ JobFields[7] = "cancelled_jobs" /\ JobFields[8] = "once_jobs" /\ JobFields[9] = "periodic_jobs"
      /\ JobFields[10] = "total_execution_time" /\ JobFields[11] = "min_execution_time"
      /\ JobFields[12] = "max_execution_time"
  BY DEF JobFields
<1>2. /\ SystemFields[1] = "scheduler_uptime" /\ SystemFields[2] = "db_query_count"
      /\ SystemFields[3] = "db_query_time" /\ SystemFields[4] = "kafka_msg_sent"
      /\ SystemFields[5] = "kafka_msg_received" /\ SystemFields[6] = "scheduler_cycles"
  BY DEF SystemFields
<1>3. /\ \A i \in 1 .. 13 : JobFields[i] \in Field
      /\ \A i \in 1 .. 6 : SystemFields[i] \in Field
  BY FieldNames
<1>4. \A f \in {"total_jobs", "pending_jobs", "running_jobs", "completed_jobs", "failed_jobs", "timeout_jobs",
        "cancelled_jobs", "once_jobs", "periodic_jobs", "total_execution_time", "min_execution_time",
        "max_execution_time"} : \E i \in 1 .. 13 : f = JobFields[i]
  BY <1>1
<1>5. \A f \in {"scheduler_uptime", "db_query_count", "db_query_time", "kafka_msg_sent", "kafka_msg_received",
        "scheduler_cycles"} : \E i \in 1 .. 6 : f = SystemFields[i]
  BY <1>2
<1>. QED BY <1>3, <1>4, <1>5

\* No name occurs twice in the order in which a reset clears them.
LEMMA FieldsDiffer ==
    /\ \A i, k \in 1 .. 13 : JobFields[i] = JobFields[k] => i = k
    /\ \A i, k \in 1 .. 6 : SystemFields[i] = SystemFields[k] => i = k
    /\ \A i \in 1 .. 13, k \in 1 .. 6 : JobFields[i] # SystemFields[k]
<1>1. \A i \in 1 .. 13 : i \in {1,2,3,4,5,6,7,8,9,10,11,12,13}
  OBVIOUS
<1>2. \A i \in 1 .. 6 : i \in {1,2,3,4,5,6}
  OBVIOUS
<1>3. \A i, k \in 1 .. 6 : SystemFields[i] = SystemFields[k] => i = k
  BY <1>2 DEF SystemFields
<1>4. \A i, k \in 1 .. 13 : JobFields[i] = JobFields[k] => i = k
  BY <1>1 DEF JobFields
<1>5. \A i \in 1 .. 13, k \in 1 .. 6 : JobFields[i] # SystemFields[k]
  BY <1>1, <1>2 DEF JobFields, SystemFields
<1>. QED BY <1>3, <1>4, <1>5

-----------------------------------------------------------------------------
(* Programs                                                                 *)

Writers    == {"plus", "store", "lower", "raise"}
Measured       == {"min_execution_time", "max_execution_time", "scheduler_uptime"}
Counts     == {"completed_jobs", "db_query_count"}
Writes(i, f) == i.op \in Writers /\ i.field = f

\* The value that an instruction leaves where it finds x.
Effect(i, x) ==
    CASE i.op = "plus"  -> (x + i.value) % Modulus
      [] i.op = "store" -> i.value
      [] OTHER          -> IF Needed(i, x) THEN i.value ELSE x

\* What thread t may have to do, in a reset or not.
Sound(t, i, reset) ==
    /\ i \in Instruction
    /\ reset => i.op \in {"store", "clear"}
    /\ i.op = "clear" => reset
    /\ i.op = "plus" => i.field \in Field \ Measured /\ (i.field \in Counts => i.value = 1)
    /\ i.op = "store" => /\ i.field \in Field /\ i.value \in Values
                         /\ IF reset THEN i.value = InitialValue(i.field)
                            ELSE t = "schedule" /\ i.field = "scheduler_uptime"
    /\ i.op = "lower" => /\ t = "handler" /\ i.field = "min_execution_time" /\ i.value \in Values
                         /\ i.seen # NotRead => i.value < i.seen
    /\ i.op = "raise" => /\ t = "handler" /\ i.field = "max_execution_time" /\ i.value \in Values
                         /\ i.seen # NotRead => i.value > i.seen
    /\ i.op = "divide" => i.field \in Counts
    /\ i.op = "enter"  => i.field \in Executor

\* No two of its instructions write the same field.
Program(t, p, reset) ==
    /\ p \in Seq(Instruction)
    /\ \A j \in DOMAIN p : Sound(t, p[j], reset)
    /\ \A j, k \in DOMAIN p, f \in Field : Writes(p[j], f) /\ Writes(p[k], f) => j = k

LEMMA ValueTypes ==
    /\ Values \subseteq Nat /\ Modulus \in Nat /\ Modulus > 1
    /\ 0 \in Values /\ 1 \in Values /\ Modulus - 1 \in Values
    /\ -1 \notin Values
    /\ Times \subseteq Values
    /\ \A v \in Values : v < Modulus
    /\ \A f : InitialValue(f) \in Values
  BY StatsAssumption DEF Values, InitialValue

LEMMA InstrTypes ==
    ASSUME NEW i \in Instruction
    PROVE  /\ i.value \in Int /\ i.value \in -1 .. Modulus - 1
           /\ i.seen \in Values \cup {NotRead}
           /\ i.field \in Field \cup Executor
  BY DEF Instruction

LEMMA EffectType ==
    ASSUME NEW t, NEW i, NEW r, Sound(t, i, r), i.op \in Writers, NEW x \in Values
    PROVE  Effect(i, x) \in Values /\ i.field \in Field
<1>1. i \in Instruction
  BY DEF Sound
<1>2. "min_execution_time" \in Field /\ "max_execution_time" \in Field
  BY FieldsNamed
<1>3. CASE i.op = "plus"
  <2>1. x + i.value \in Int
    BY <1>1, InstrTypes, ValueTypes
  <2>. QED BY <1>3, <2>1, ModType DEF Effect, Sound
<1>4. CASE i.op = "store"
  BY <1>4 DEF Effect, Sound
<1>5. CASE i.op \in {"lower", "raise"}
  BY <1>2, <1>5 DEF Effect, Sound
<1>. QED BY <1>3, <1>4, <1>5 DEF Writers

\* An instruction changes its field, and only if it writes.
LEMMA WholeEffect ==
    ASSUME NEW t, NEW i, NEW r, Sound(t, i, r), NEW s \in [Field -> Values]
    PROVE  /\ Whole(s, i) \in [Field -> Values]
           /\ \A f \in Field : Whole(s, i)[f] = IF Writes(i, f) THEN Effect(i, s[f]) ELSE s[f]
<1>1. CASE i.op \in Writers
  <2>0. i.field \in Field
    BY <1>1, EffectType, ValueTypes
  <2>1. Effect(i, s[i.field]) \in Values
    BY <1>1, <2>0, EffectType
  <2>2. Whole(s, i) = [s EXCEPT ![i.field] = Effect(i, s[i.field])]
    BY <1>1 DEF Writers, Whole, Effect
  <2>. HIDE DEF Effect
  <2>3. \A f \in Field : Whole(s, i)[f] = IF i.field = f THEN Effect(i, s[i.field]) ELSE s[f]
    BY <2>0, <2>2
  <2>4. \A f \in Field : Whole(s, i)[f] = IF i.field = f THEN Effect(i, s[f]) ELSE s[f]
    BY <2>3
  <2>5. Whole(s, i) \in [Field -> Values]
    BY <2>0, <2>1, <2>2
  <2>. QED BY <1>1, <2>4, <2>5 DEF Writes
<1>2. CASE i.op \notin Writers
  <2>1. Whole(s, i) = s
    BY <1>2 DEF Writers, Whole
  <2>. QED BY <1>2, <2>1 DEF Writes
<1>. QED BY <1>1, <1>2

-----------------------------------------------------------------------------
(* A call that nothing comes between                                        *)

LEMMA LeastNumber ==
    ASSUME NEW S \in SUBSET Nat, S # {}
    PROVE  \E x \in S : \A y \in S : x <= y
<1>. DEFINE R == {p \in Nat \X Nat : p[1] < p[2]}
<1>1. IsWellFoundedOn(R, Nat)
  BY NatLessThanWellFounded DEF OpToRel
<1>2. \A x, y \in Nat : x < y => <<x, y>> \in R
  OBVIOUS
<1>. HIDE DEF R
<1>3. PICK x \in S : \A y \in S : ~(<<y, x>> \in R)
  BY <1>1, WFMin
<1>4. ASSUME NEW y \in S PROVE x <= y
  <2>1. x \in Nat /\ y \in Nat /\ ~(y < x)
    BY <1>2, <1>3
  <2>. QED BY <2>1
<1>. QED BY <1>4

LEMMA SetInduction ==
    ASSUME NEW n \in Nat, NEW S \in SUBSET Nat, 0 \in S,
           \A k \in S : k < n => k + 1 \in S
    PROVE  0 .. n \subseteq S
<1>. SUFFICES ASSUME (0 .. n) \ S # {} PROVE FALSE
  OBVIOUS
<1>1. (0 .. n) \ S \in SUBSET Nat
  OBVIOUS
<1>2. PICK m \in (0 .. n) \ S : \A y \in (0 .. n) \ S : m <= y
  BY <1>1, LeastNumber
<1>3. m # 0 /\ m \in Nat /\ m <= n
  BY <1>2
<1>4. m - 1 \in 0 .. n /\ m - 1 < n /\ ~(m <= m - 1)
  BY <1>3
<1>5. m - 1 \in S
  BY <1>2, <1>4
<1>6. m - 1 + 1 \in S /\ m - 1 + 1 = m
  BY <1>3, <1>4, <1>5
<1>. QED BY <1>2, <1>6

\* The counters after each of the first n instructions.
Runs(s, p, n, f) == f = [k \in 0 .. n |-> IF k = 0 THEN s ELSE Whole(f[k - 1], p[k])]

LEMMA RunsExist == ASSUME NEW s, NEW p, NEW n \in Nat PROVE \E f : Runs(s, p, n, f)
<1>. DEFINE S == {m \in Nat : \E f : Runs(s, p, m, f)}
<1>1. 0 \in S
  <2>. DEFINE g == [k \in 0 .. 0 |-> s]
  <2>1. g = [k \in 0 .. 0 |-> IF k = 0 THEN s ELSE Whole(g[k - 1], p[k])]
    OBVIOUS
  <2>. HIDE DEF g
  <2>2. Runs(s, p, 0, g)
    BY <2>1 DEF Runs
  <2>. QED BY <2>2
<1>2. ASSUME NEW m \in S PROVE m + 1 \in S
  <2>1. PICK f : Runs(s, p, m, f)
    OBVIOUS
  <2>. DEFINE g == [k \in 0 .. m + 1 |-> IF k = m + 1 THEN Whole(f[m], p[k]) ELSE f[k]]
              h == [k \in 0 .. m + 1 |-> IF k = 0 THEN s ELSE Whole(g[k - 1], p[k])]
  <2>2. m \in Nat /\ f = [k \in 0 .. m |-> IF k = 0 THEN s ELSE Whole(f[k - 1], p[k])]
    BY <2>1 DEF Runs
  <2>3. ASSUME NEW k \in 0 .. m + 1 PROVE g[k] = h[k]
    <3>1. CASE k = 0
      <4>1. f[0] = s /\ 0 # m + 1
        BY <2>2
      <4>. QED BY <3>1, <4>1
    <3>2. CASE k = m + 1
      <4>1. k - 1 = m /\ m \in 0 .. m + 1 /\ m # m + 1 /\ k # 0
        BY <2>2, <3>2
      <4>2. g[m] = f[m]
        BY <4>1
      <4>. QED BY <3>2, <4>1, <4>2
    <3>3. CASE k # 0 /\ k # m + 1
      <4>1. k \in 0 .. m /\ k - 1 \in 0 .. m + 1 /\ k - 1 # m + 1
        BY <2>2, <3>3
      <4>2. g[k - 1] = f[k - 1] /\ g[k] = f[k]
        BY <3>3, <4>1
      <4>3. f[k] = Whole(f[k - 1], p[k])
        BY <2>2, <3>3, <4>1
      <4>. QED BY <3>3, <4>2, <4>3
    <3>. QED BY <3>1, <3>2, <3>3
  <2>4. g = h
    BY <2>3
  <2>5. Runs(s, p, m + 1, g)
    BY <2>4 DEF Runs
  <2>. HIDE DEF g, h
  <2>. QED BY <2>2, <2>5
<1>3. 0 .. n \subseteq S
  <2>. HIDE DEF S
  <2>1. S \in SUBSET Nat
    BY DEF S
  <2>. QED BY <1>1, <1>2, <2>1, SetInduction
<1>. QED BY <1>3

\* Every field is changed by the one instruction that writes it.
LEMMA AtOnceEffect ==
    ASSUME NEW t, NEW p, NEW r, Program(t, p, r), NEW s \in [Field -> Values]
    PROVE  /\ AtOnce(s, p) \in [Field -> Values]
           /\ \A f \in Field, j \in DOMAIN p : Writes(p[j], f) => AtOnce(s, p)[f] = Effect(p[j], s[f])
           /\ \A f \in Field : (\A j \in DOMAIN p : ~Writes(p[j], f)) => AtOnce(s, p)[f] = s[f]
<1>. DEFINE n == Len(p)
            a == CHOOSE f : Runs(s, p, n, f)
            Good(k) == /\ a[k] \in [Field -> Values]
                       /\ \A f \in Field, j \in 1 .. k : Writes(p[j], f) => a[k][f] = Effect(p[j], s[f])
                       /\ \A f \in Field : (\A j \in 1 .. k : ~Writes(p[j], f)) => a[k][f] = s[f]
            S == {k \in Nat : k <= n => Good(k)}
<1>1. n \in Nat /\ DOMAIN p = 1 .. n
  BY LenProperties DEF Program
<1>2. Runs(s, p, n, a)
  BY <1>1, RunsExist
<1>3. AtOnce(s, p) = a[n]
  BY DEF AtOnce, Runs
<1>4. \A k \in 0 .. n : a[k] = IF k = 0 THEN s ELSE Whole(a[k - 1], p[k])
  <2>. HIDE DEF a, n
  <2>. QED BY <1>2 DEF Runs
<1>. HIDE DEF a, n
<1>5. 0 \in S
  BY <1>1, <1>4
<1>6. ASSUME NEW k \in S, k < n PROVE k + 1 \in S
  <2>1. /\ k \in Nat /\ k + 1 \in DOMAIN p /\ k + 1 \in 0 .. n /\ k + 1 # 0 /\ k + 1 - 1 = k
        /\ k <= n
    BY <1>1, <1>6
  <2>2. Good(k)
    BY <1>6, <2>1
  <2>3. Sound(t, p[k + 1], r)
    BY <2>1 DEF Program
  <2>4. a[k + 1] = Whole(a[k], p[k + 1])
    BY <1>4, <2>1
  <2>5. /\ a[k + 1] \in [Field -> Values]
        /\ \A f \in Field : a[k + 1][f] = IF Writes(p[k + 1], f) THEN Effect(p[k + 1], a[k][f]) ELSE a[k][f]
    BY <2>2, <2>3, <2>4, WholeEffect
  <2>6. ASSUME NEW f \in Field, NEW j \in 1 .. k + 1, Writes(p[j], f)
        PROVE  a[k + 1][f] = Effect(p[j], s[f])
    <3>1. CASE j = k + 1
      <4>1. ASSUME NEW m \in 1 .. k, Writes(p[m], f) PROVE FALSE
        <5>1. m \in DOMAIN p /\ m # k + 1
          BY <1>1, <2>1
        <5>. QED BY <2>1, <2>6, <3>1, <4>1, <5>1 DEF Program
      <4>2. a[k][f] = s[f]
        BY <2>2, <4>1
      <4>. QED BY <2>5, <2>6, <3>1, <4>2
    <3>2. CASE j # k + 1
      <4>1. j \in 1 .. k /\ j \in DOMAIN p
        BY <1>1, <2>1, <3>2
      <4>2. ~Writes(p[k + 1], f)
        BY <2>1, <2>6, <3>2, <4>1 DEF Program
      <4>. QED BY <2>2, <2>5, <2>6, <4>1, <4>2
    <3>. QED BY <3>1, <3>2
  <2>7. ASSUME NEW f \in Field, \A j \in 1 .. k + 1 : ~Writes(p[j], f)
        PROVE  a[k + 1][f] = s[f]
    <3>1. k + 1 \in 1 .. k + 1 /\ \A j \in 1 .. k : j \in 1 .. k + 1
      BY <2>1
    <3>. QED BY <2>2, <2>5, <2>7, <3>1
  <2>8. Good(k + 1)
    BY <2>5, <2>6, <2>7
  <2>. HIDE DEF Good
  <2>. QED BY <2>1, <2>8
<1>7. 0 .. n \subseteq S
  <2>. HIDE DEF S
  <2>1. S \in SUBSET Nat
    BY DEF S
  <2>. QED BY <1>1, <1>5, <1>6, <2>1, SetInduction
<1>8. Good(n)
  BY <1>1, <1>7
<1>. QED BY <1>1, <1>3, <1>8

-----------------------------------------------------------------------------
(* The calls                                                                *)

Unread(p) == p # <<>> /\ \A j \in DOMAIN p : p[j].seen = NotRead

LEMMA PlusSound ==
    ASSUME NEW t, NEW f \in Field \ Measured, NEW v \in -1 .. Modulus - 1, f \in Counts => v = 1
    PROVE  LET i == Plus(f, v) IN
           Sound(t, i, FALSE) /\ i.seen = NotRead /\ i.field = f /\ i.op = "plus" /\ i \in Instruction
  BY ValueTypes DEF Plus, Instr, Sound, Instruction, NotRead

LEMMA StoreSound ==
    ASSUME NEW t, NEW f \in Field, NEW v \in Values
    PROVE  LET i == Store(f, v) IN
           /\ i.seen = NotRead /\ i.field = f /\ i.op = "store" /\ i.value = v /\ i \in Instruction
           /\ v = InitialValue(f) => Sound(t, i, TRUE)
           /\ (t = "schedule" /\ f = "scheduler_uptime") => Sound(t, i, FALSE)
<1>1. v \in -1 .. Modulus - 1
  BY ValueTypes DEF Values
<1>. QED BY <1>1 DEF Store, Instr, Sound, Instruction, NotRead

LEMMA ExtremeSound ==
    ASSUME NEW v \in Values
    PROVE  LET i == Lower("min_execution_time", v)
               k == Raise("max_execution_time", v)
           IN  /\ Sound("handler", i, FALSE) /\ i.seen = NotRead /\ i.field = "min_execution_time"
               /\ i.op = "lower" /\ i \in Instruction
               /\ Sound("handler", k, FALSE) /\ k.seen = NotRead /\ k.field = "max_execution_time"
               /\ k.op = "raise" /\ k \in Instruction
<1>1. v \in -1 .. Modulus - 1
  BY ValueTypes DEF Values
<1>. QED BY <1>1, FieldsNamed DEF Lower, Raise, Instr, Sound, Instruction, NotRead

LEMMA OthersSound ==
    /\ \A t, f : f \in Counts =>
           /\ Sound(t, Divide(f), FALSE) /\ Divide(f).seen = NotRead /\ Divide(f).op = "divide"
           /\ Divide(f) \in Instruction
    /\ \A t, e : e \in Executor =>
           /\ Sound(t, Enter(e), FALSE) /\ Enter(e).seen = NotRead /\ Enter(e).op = "enter"
           /\ Enter(e) \in Instruction
    /\ \A t : Sound(t, ClearList, TRUE) /\ ClearList \in Instruction
    /\ ClearList.seen = NotRead /\ ClearList.op = "clear"
<1>1. 0 \in -1 .. Modulus - 1 /\ Counts \subseteq Field /\ "total_jobs" \in Field
  BY ValueTypes, FieldsNamed DEF Counts, Values
<1>. QED BY <1>1 DEF Divide, Enter, ClearList, Instr, Sound, Instruction, NotRead

\* Every field that is counted up.
LEMMA PlusFields ==
    {"total_jobs", "pending_jobs", "running_jobs", "completed_jobs", "failed_jobs", "timeout_jobs",
     "cancelled_jobs", "once_jobs", "periodic_jobs", "total_execution_time", "db_query_count",
     "db_query_time", "kafka_msg_sent", "kafka_msg_received", "scheduler_cycles"} \subseteq Field \ Measured
  BY FieldsNamed DEF Measured

LEMMA SmallValues == 1 \in -1 .. Modulus - 1 /\ -1 \in -1 .. Modulus - 1 /\ Values \subseteq -1 .. Modulus - 1
  BY ValueTypes DEF Values

LEMMA JobCall ==
    ASSUME NEW t, NEW type \in {"once_jobs", "periodic_jobs"},
           NEW status \in {"pending_jobs", "running_jobs"}
    PROVE  LET p == <<Plus("total_jobs", 1), Plus(type, 1), Plus(status, 1)>>
           IN  Program(t, p, FALSE) /\ Unread(p)
<1>. DEFINE a == Plus("total_jobs", 1)
            b == Plus(type, 1)
            c == Plus(status, 1)
            p == <<a, b, c>>
<1>1. /\ Sound(t, a, FALSE) /\ a.seen = NotRead /\ a.field = "total_jobs" /\ a \in Instruction
      /\ Sound(t, b, FALSE) /\ b.seen = NotRead /\ b.field = type /\ b \in Instruction
      /\ Sound(t, c, FALSE) /\ c.seen = NotRead /\ c.field = status /\ c \in Instruction
  <2>1. "total_jobs" \in Field \ Measured /\ type \in Field \ Measured /\ status \in Field \ Measured
    BY PlusFields
  <2>. QED BY <2>1, PlusSound, SmallValues
<1>. HIDE DEF a, b, c
<1>2. p \in Seq(Instruction) /\ DOMAIN p = 1 .. 3 /\ p[1] = a /\ p[2] = b /\ p[3] = c /\ p # <<>>
  BY <1>1
<1>3. \A j \in 1 .. 3 : j = 1 \/ j = 2 \/ j = 3
  OBVIOUS
<1>. HIDE DEF p
<1>4. \A j \in DOMAIN p : Sound(t, p[j], FALSE) /\ p[j].seen = NotRead
  BY <1>1, <1>2, <1>3
<1>5. \A j, k \in DOMAIN p : p[j].field = p[k].field => j = k
  BY <1>1, <1>2, <1>3
<1>6. Program(t, p, FALSE) /\ Unread(p)
  BY <1>2, <1>4, <1>5 DEF Program, Writes, Unread
<1>. QED BY <1>6 DEF p, a, b, c

LEMMA TwoAndThree ==
    ASSUME NEW a, NEW b, NEW c, NEW d, NEW e
    PROVE  <<a, b>> \o <<c, d, e>> = <<a, b, c, d, e>>
<1>. DEFINE S == {a, b, c, d, e}
            p == <<a, b>>
            q == <<c, d, e>>
            r == <<a, b, c, d, e>>
<1>1. /\ p \in Seq(S) /\ Len(p) = 2 /\ p[1] = a /\ p[2] = b
      /\ q \in Seq(S) /\ Len(q) = 3 /\ q[1] = c /\ q[2] = d /\ q[3] = e
      /\ r \in Seq(S) /\ Len(r) = 5
      /\ r[1] = a /\ r[2] = b /\ r[3] = c /\ r[4] = d /\ r[5] = e
  OBVIOUS
<1>2. \A j \in 1 .. 5 : j = 1 \/ j = 2 \/ j = 3 \/ j = 4 \/ j = 5
  OBVIOUS
<1>. HIDE DEF p, q, r, S
<1>3. /\ p \o q \in Seq(S) /\ Len(p \o q) = 5
      /\ \A j \in 1 .. 5 : (p \o q)[j] = IF j <= 2 THEN p[j] ELSE q[j - 2]
  <2>1. /\ p \o q \in Seq(S) /\ Len(p \o q) = Len(p) + Len(q)
        /\ \A j \in 1 .. Len(p) + Len(q) :
              (p \o q)[j] = IF j <= Len(p) THEN p[j] ELSE q[j - Len(p)]
    BY <1>1, ConcatProperties
  <2>. QED BY <1>1, <2>1
<1>4. \A j \in 1 .. 5 : (p \o q)[j] = r[j]
  <2>1. /\ (p \o q)[1] = p[1] /\ (p \o q)[2] = p[2]
        /\ (p \o q)[3] = q[1] /\ (p \o q)[4] = q[2] /\ (p \o q)[5] = q[3]
    BY <1>3
  <2>. QED BY <1>1, <1>2, <2>1
<1>5. p \o q = r
  BY <1>1, <1>3, <1>4, SeqEqual
<1>. QED BY <1>5 DEF p, q, r

LEMMA ResultCall ==
    ASSUME NEW status \in Ended, NEW time \in Times
    PROVE  LET p == <<Plus(status, 1), Plus("running_jobs", -1), Plus("total_execution_time", time),
                      Lower("min_execution_time", time), Raise("max_execution_time", time)>>
           IN  Program("handler", p, FALSE) /\ Unread(p)
<1>. DEFINE t == "handler"
            a == Plus(status, 1)
            b == Plus("running_jobs", -1)
            c == Plus("total_execution_time", time)
            d == Lower("min_execution_time", time)
            e == Raise("max_execution_time", time)
            p == <<a, b, c, d, e>>
<1>0. time \in Values /\ time \in -1 .. Modulus - 1
  BY ValueTypes, SmallValues
<1>1. /\ Sound(t, a, FALSE) /\ a.seen = NotRead /\ a.field = status /\ a \in Instruction
      /\ Sound(t, b, FALSE) /\ b.seen = NotRead /\ b.field = "running_jobs" /\ b \in Instruction
      /\ Sound(t, c, FALSE) /\ c.seen = NotRead /\ c.field = "total_execution_time" /\ c \in Instruction
  <2>1. "running_jobs" \notin Counts /\ "total_execution_time" \notin Counts
    BY DEF Counts
  <2>2. status \in Field \ Measured /\ "running_jobs" \in Field \ Measured /\ "total_execution_time" \in Field \ Measured
    BY PlusFields DEF Ended
  <2>. QED BY <1>0, <2>1, <2>2, PlusSound, SmallValues
<1>2. /\ Sound(t, d, FALSE) /\ d.seen = NotRead /\ d.field = "min_execution_time" /\ d \in Instruction
      /\ Sound(t, e, FALSE) /\ e.seen = NotRead /\ e.field = "max_execution_time" /\ e \in Instruction
  BY <1>0, ExtremeSound
<1>. HIDE DEF a, b, c, d, e, t
<1>3. /\ p \in Seq(Instruction) /\ DOMAIN p = 1 .. 5 /\ p # <<>>
      /\ p[1] = a /\ p[2] = b /\ p[3] = c /\ p[4] = d /\ p[5] = e
  BY <1>1, <1>2
<1>4. \A j \in 1 .. 5 : j = 1 \/ j = 2 \/ j = 3 \/ j = 4 \/ j = 5
  OBVIOUS
<1>. HIDE DEF p
<1>5. \A j \in DOMAIN p : Sound(t, p[j], FALSE) /\ p[j].seen = NotRead
  BY <1>1, <1>2, <1>3, <1>4
<1>6. \A j, k \in DOMAIN p : p[j].field = p[k].field => j = k
  BY <1>1, <1>2, <1>3, <1>4 DEF Ended
<1>7. Program(t, p, FALSE) /\ Unread(p)
  BY <1>3, <1>5, <1>6 DEF Program, Writes, Unread
<1>. QED BY <1>7 DEF p, a, b, c, d, e, t

\* A result whose status ends nothing adds its time only.
LEMMA OtherResultCall ==
    ASSUME NEW time \in Times
    PROVE  LET p == <<Plus("total_execution_time", time), Lower("min_execution_time", time),
                      Raise("max_execution_time", time)>>
           IN  Program("handler", p, FALSE) /\ Unread(p)
<1>. DEFINE t == "handler"
            a == Plus("total_execution_time", time)
            b == Lower("min_execution_time", time)
            c == Raise("max_execution_time", time)
            p == <<a, b, c>>
<1>0. time \in Values /\ time \in -1 .. Modulus - 1
  BY ValueTypes, SmallValues
<1>1. Sound(t, a, FALSE) /\ a.seen = NotRead /\ a.field = "total_execution_time" /\ a \in Instruction
  <2>1. "total_execution_time" \notin Counts
    BY DEF Counts
  <2>2. "total_execution_time" \in Field \ Measured
    BY PlusFields
  <2>. QED BY <1>0, <2>1, <2>2, PlusSound, SmallValues
<1>2. /\ Sound(t, b, FALSE) /\ b.seen = NotRead /\ b.field = "min_execution_time" /\ b \in Instruction
      /\ Sound(t, c, FALSE) /\ c.seen = NotRead /\ c.field = "max_execution_time" /\ c \in Instruction
  BY <1>0, ExtremeSound
<1>. HIDE DEF a, b, c, t
<1>3. p \in Seq(Instruction) /\ DOMAIN p = 1 .. 3 /\ p # <<>> /\ p[1] = a /\ p[2] = b /\ p[3] = c
  BY <1>1, <1>2
<1>4. \A j \in 1 .. 3 : j = 1 \/ j = 2 \/ j = 3
  OBVIOUS
<1>. HIDE DEF p
<1>5. \A j \in DOMAIN p : Sound(t, p[j], FALSE) /\ p[j].seen = NotRead
  BY <1>1, <1>2, <1>3, <1>4
<1>6. \A j, k \in DOMAIN p : p[j].field = p[k].field => j = k
  BY <1>1, <1>2, <1>3, <1>4
<1>7. Program(t, p, FALSE) /\ Unread(p)
  BY <1>3, <1>5, <1>6 DEF Program, Writes, Unread
<1>. QED BY <1>7 DEF p, a, b, c, t

\* The calls of one or two instructions.
LEMMA ShortCall ==
    ASSUME NEW t, NEW i, NEW k, Sound(t, i, FALSE), i.seen = NotRead,
           Sound(t, k, FALSE), k.seen = NotRead, \A f : ~(Writes(i, f) /\ Writes(k, f))
    PROVE  /\ Program(t, <<i>>, FALSE) /\ Unread(<<i>>)
           /\ Program(t, <<i, k>>, FALSE) /\ Unread(<<i, k>>)
<1>. DEFINE p == <<i>>
            q == <<i, k>>
<1>1. i \in Instruction /\ k \in Instruction
  BY DEF Sound
<1>2. /\ p \in Seq(Instruction) /\ DOMAIN p = 1 .. 1 /\ p[1] = i /\ p # <<>>
      /\ q \in Seq(Instruction) /\ DOMAIN q = 1 .. 2 /\ q[1] = i /\ q[2] = k /\ q # <<>>
  BY <1>1
<1>3. (\A j \in 1 .. 1 : j = 1) /\ (\A j \in 1 .. 2 : j = 1 \/ j = 2)
  OBVIOUS
<1>. HIDE DEF p, q
<1>4. Program(t, p, FALSE) /\ Unread(p)
  BY <1>2, <1>3 DEF Program, Unread
<1>5. Program(t, q, FALSE) /\ Unread(q)
  BY <1>2, <1>3 DEF Program, Unread
<1>. QED BY <1>4, <1>5 DEF p, q

\* A call that is not a reset.
Ordinary(t) == \E p : Update(t, p) /\ Program(t, p, FALSE) /\ Unread(p)

LEMMA QueryCall ==
    ASSUME NEW t, NEW time \in Times, AddDbQuery(t, time)
    PROVE  Ordinary(t)
<1>. DEFINE i == Plus("db_query_count", 1)
            k == Plus("db_query_time", time)
<1>1. /\ Sound(t, i, FALSE) /\ i.seen = NotRead /\ i.field = "db_query_count"
      /\ Sound(t, k, FALSE) /\ k.seen = NotRead /\ k.field = "db_query_time"
  <2>1. "db_query_time" \notin Counts /\ time \in -1 .. Modulus - 1
    BY ValueTypes, SmallValues DEF Counts
  <2>2. "db_query_count" \in Field \ Measured /\ "db_query_time" \in Field \ Measured
    BY PlusFields
  <2>. QED BY <2>1, <2>2, PlusSound, SmallValues
<1>2. Update(t, <<i, k>>)
  BY DEF AddDbQuery
<1>. HIDE DEF i, k
<1>3. Program(t, <<i, k>>, FALSE) /\ Unread(<<i, k>>)
  BY <1>1, ShortCall DEF Writes
<1>. QED BY <1>2, <1>3 DEF Ordinary

LEMMA SinglePlus ==
    ASSUME NEW t, NEW f \in {"kafka_msg_sent", "kafka_msg_received", "cancelled_jobs"},
           Update(t, <<Plus(f, 1)>>)
    PROVE  Ordinary(t)
<1>. DEFINE i == Plus(f, 1)
            k == Divide("completed_jobs")
<1>1. Sound(t, i, FALSE) /\ i.seen = NotRead
  <2>1. f \in Field \ Measured
    BY PlusFields
  <2>. QED BY <2>1, PlusSound, SmallValues
<1>2. Sound(t, k, FALSE) /\ k.seen = NotRead /\ k.op = "divide"
  BY OthersSound DEF Counts
<1>. HIDE DEF i, k
<1>3. Program(t, <<i>>, FALSE) /\ Unread(<<i>>)
  BY <1>1, <1>2, ShortCall DEF Writes, Writers
<1>. QED BY <1>3 DEF Ordinary, i

LEMMA CycleCall ==
    ASSUME NEW uptime \in Times, AddSchedulerCycle(uptime)
    PROVE  Ordinary("schedule")
<1>. DEFINE t == "schedule"
            i == Plus("scheduler_cycles", 1)
            k == Store("scheduler_uptime", uptime)
<1>1. Sound(t, i, FALSE) /\ i.seen = NotRead /\ i.field = "scheduler_cycles"
  BY PlusSound, PlusFields, SmallValues
<1>2. Sound(t, k, FALSE) /\ k.seen = NotRead /\ k.field = "scheduler_uptime"
  BY StoreSound, FieldsNamed, ValueTypes
<1>3. Update(t, <<i, k>>)
  BY DEF AddSchedulerCycle
<1>. HIDE DEF i, k, t
<1>4. Program(t, <<i, k>>, FALSE) /\ Unread(<<i, k>>)
  BY <1>1, <1>2, ShortCall DEF Writes
<1>5. Ordinary(t)
  BY <1>3, <1>4 DEF Ordinary
<1>. QED BY <1>5 DEF t

LEMMA ListCalls ==
    ASSUME NEW t
    PROVE  /\ \A e \in Executor : UpdateExecutorStats(e) => Ordinary("handler")
           /\ ExportStatsAsJson(t) => Ordinary(t)
<1>1. ASSUME NEW e \in Executor, UpdateExecutorStats(e) PROVE Ordinary("handler")
  <2>. DEFINE i == Enter(e)
              h == "handler"
  <2>1. Sound(h, i, FALSE) /\ i.seen = NotRead /\ i.op = "enter"
    BY OthersSound
  <2>2. Update(h, <<i>>)
    BY <1>1 DEF UpdateExecutorStats
  <2>. HIDE DEF i, h
  <2>3. Program(h, <<i>>, FALSE) /\ Unread(<<i>>)
    BY <2>1, ShortCall DEF Writes, Writers
  <2>4. Ordinary(h)
    BY <2>2, <2>3 DEF Ordinary
  <2>. QED BY <2>4 DEF h
<1>2. ASSUME ExportStatsAsJson(t) PROVE Ordinary(t)
  <2>. DEFINE i == Divide("completed_jobs")
              k == Divide("db_query_count")
  <2>1. /\ Sound(t, i, FALSE) /\ i.seen = NotRead /\ i.op = "divide"
        /\ Sound(t, k, FALSE) /\ k.seen = NotRead /\ k.op = "divide"
    BY OthersSound DEF Counts
  <2>2. Update(t, <<i, k>>)
    BY <1>2 DEF ExportStatsAsJson
  <2>. HIDE DEF i, k
  <2>3. Program(t, <<i, k>>, FALSE) /\ Unread(<<i, k>>)
    BY <2>1, ShortCall DEF Writes, Writers
  <2>. QED BY <2>2, <2>3 DEF Ordinary
<1>. QED BY <1>1, <1>2

\* Whatever is called, it is one of three kinds of step.
LEMMA StepKinds ==
    ASSUME Next
    PROVE  \/ \E t \in Thread : Ordinary(t)
           \/ \E t \in Request : ResetAllStats(t)
           \/ \E t \in Thread : Steps(t)
<1>. USE DEF Thread
<1>1. CASE ScheduleThread
  <2>1. CASE \E uptime \in Times : AddSchedulerCycle(uptime)
    BY <2>1, CycleCall
  <2>2. CASE \E type \in {"once_jobs", "periodic_jobs"} : UpdateJobStats("schedule", type, "running_jobs")
    BY <2>2, JobCall DEF UpdateJobStats, Ordinary
  <2>3. CASE \E time \in Times : AddDbQuery("schedule", time)
    BY <2>3, QueryCall
  <2>4. CASE AddKafkaMessage("schedule", "kafka_msg_sent")
    BY <2>4, SinglePlus DEF AddKafkaMessage
  <2>. QED BY <1>1, <2>1, <2>2, <2>3, <2>4 DEF ScheduleThread
<1>2. CASE HandlerThread
  <2>1. CASE AddKafkaMessage("handler", "kafka_msg_received")
    BY <2>1, SinglePlus DEF AddKafkaMessage
  <2>2. ASSUME NEW status \in Ended \cup {"other"}, NEW time \in Times,
               UpdateJobResultStats(status, time)
        PROVE  Ordinary("handler")
    <3>. DEFINE a == Plus(status, 1)
                b == Plus("running_jobs", -1)
                c == Plus("total_execution_time", time)
                d == Lower("min_execution_time", time)
                e == Raise("max_execution_time", time)
    <3>1. Update("handler", IF status \in Ended THEN <<a, b>> \o <<c, d, e>> ELSE <<c, d, e>>)
      BY <2>2 DEF UpdateJobResultStats
    <3>2. CASE status \in Ended
      <4>1. Program("handler", <<a, b, c, d, e>>, FALSE) /\ Unread(<<a, b, c, d, e>>)
        BY <3>2, ResultCall
      <4>. HIDE DEF a, b, c, d, e
      <4>2. <<a, b>> \o <<c, d, e>> = <<a, b, c, d, e>>
        BY TwoAndThree
      <4>3. Update("handler", <<a, b, c, d, e>>)
        BY <3>1, <3>2, <4>2
      <4>. QED BY <4>1, <4>3 DEF Ordinary
    <3>3. CASE status \notin Ended
      <4>1. Program("handler", <<c, d, e>>, FALSE) /\ Unread(<<c, d, e>>)
        BY OtherResultCall
      <4>. HIDE DEF a, b, c, d, e
      <4>. QED BY <3>1, <3>3, <4>1 DEF Ordinary
    <3>. QED BY <3>2, <3>3
  <2>3. CASE \E e \in Executor : UpdateExecutorStats(e)
    BY <2>3, ListCalls
  <2>4. CASE \E time \in Times : AddDbQuery("handler", time)
    BY <2>4, QueryCall
  <2>. QED BY <1>2, <2>1, <2>2, <2>3, <2>4 DEF HandlerThread
<1>3. ASSUME NEW t \in Request, RequestThread(t) PROVE Ordinary(t) \/ ResetAllStats(t)
  <2>1. CASE \E type \in {"once_jobs", "periodic_jobs"} : UpdateJobStats(t, type, "pending_jobs")
    BY <2>1, JobCall DEF UpdateJobStats, Ordinary
  <2>2. CASE IncrementCancelledJobs(t)
    BY <2>2, SinglePlus DEF IncrementCancelledJobs
  <2>3. CASE \E time \in Times : AddDbQuery(t, time)
    BY <2>3, QueryCall
  <2>4. CASE ExportStatsAsJson(t)
    BY <2>4, ListCalls
  <2>5. CASE AddKafkaMessage(t, "kafka_msg_sent")
    BY <2>5, SinglePlus DEF AddKafkaMessage
  <2>. QED BY <1>3, <2>1, <2>2, <2>3, <2>4, <2>5 DEF RequestThread
<1>. QED BY <1>1, <1>2, <1>3 DEF Next

-----------------------------------------------------------------------------
(* A reset                                                                  *)

Everything == Stores(JobFields) \o <<ClearList>> \o Stores(SystemFields)

LEMMA ResetProgram ==
    ASSUME NEW t
    PROVE  /\ Program(t, Everything, TRUE) /\ Unread(Everything)
           /\ \A f \in Field : \E j \in DOMAIN Everything :
                 Writes(Everything[j], f) /\ Everything[j].op = "store"
<1>. DEFINE a == Stores(JobFields)
            b == <<ClearList>>
            c == Stores(SystemFields)
            p == Everything
<1>1. /\ a \in Seq(Instruction) /\ Len(a) = 13
      /\ \A j \in 1 .. 13 : a[j] = Store(JobFields[j], InitialValue(JobFields[j]))
  <2>1. \A j \in 1 .. 13 : Store(JobFields[j], InitialValue(JobFields[j])) \in Instruction
    BY FieldNames, StoreSound, ValueTypes
  <2>. QED BY <2>1, FieldNames DEF Stores
<1>2. /\ c \in Seq(Instruction) /\ Len(c) = 6
      /\ \A j \in 1 .. 6 : c[j] = Store(SystemFields[j], InitialValue(SystemFields[j]))
  <2>1. \A j \in 1 .. 6 : Store(SystemFields[j], InitialValue(SystemFields[j])) \in Instruction
    BY FieldNames, StoreSound, ValueTypes
  <2>. QED BY <2>1, FieldNames DEF Stores
<1>3. b \in Seq(Instruction) /\ Len(b) = 1 /\ b[1] = ClearList
  <2>1. ClearList \in Instruction
    BY OthersSound
  <2>. HIDE DEF ClearList
  <2>. QED BY <2>1
<1>. HIDE DEF a, b, c
<1>. DEFINE d == a \o b
            e == d \o c
<1>4. /\ d \in Seq(Instruction) /\ Len(d) = 14
      /\ \A j \in 1 .. 13 : d[j] = a[j]
      /\ d[14] = ClearList
  <2>1. /\ d \in Seq(Instruction) /\ Len(d) = Len(a) + Len(b)
        /\ \A j \in 1 .. Len(a) + Len(b) : d[j] = IF j <= Len(a) THEN a[j] ELSE b[j - Len(a)]
    BY <1>1, <1>3, ConcatProperties
  <2>2. Len(a) + Len(b) = 14 /\ 14 - Len(a) = 1
    BY <1>1, <1>3
  <2>. HIDE DEF d
  <2>. QED BY <1>1, <1>3, <2>1, <2>2
<1>. HIDE DEF d
<1>5. /\ e \in Seq(Instruction) /\ Len(e) = 20
      /\ \A j \in 1 .. 14 : e[j] = d[j]
      /\ \A i \in 1 .. 6 : e[i + 14] = c[i]
  <2>1. /\ e \in Seq(Instruction) /\ Len(e) = Len(d) + Len(c)
        /\ \A j \in 1 .. Len(d) + Len(c) : e[j] = IF j <= Len(d) THEN d[j] ELSE c[j - Len(d)]
    BY <1>2, <1>4, ConcatProperties
  <2>2. Len(d) + Len(c) = 20 /\ \A i \in 1 .. 6 : (i + 14) - Len(d) = i
    BY <1>2, <1>4
  <2>. HIDE DEF e
  <2>. QED BY <1>2, <1>4, <2>1, <2>2
<1>6. p = e
  BY DEF Everything, a, b, c, d
<1>. HIDE DEF p, e
<1>7. p \in Seq(Instruction) /\ DOMAIN p = 1 .. 20 /\ p # <<>>
  <2>1. p \in Seq(Instruction) /\ Len(p) = 20
    BY <1>5, <1>6
  <2>2. DOMAIN p = 1 .. Len(p)
    BY <2>1, LenProperties
  <2>3. p # <<>>
    <3>1. Len(p) # 0 /\ Len(<<>>) = 0
      BY <2>1
    <3>. QED BY <3>1
  <2>. QED BY <2>1, <2>2, <2>3
<1>8. ASSUME NEW j \in 1 .. 13
      PROVE  Sound(t, p[j], TRUE) /\ p[j].seen = NotRead /\ p[j].op = "store" /\ p[j].field = JobFields[j]
  <2>1. p[j] = Store(JobFields[j], InitialValue(JobFields[j]))
    BY <1>1, <1>4, <1>5, <1>6
  <2>. DEFINE f == JobFields[j]
              x == Store(f, InitialValue(f))
  <2>2. f \in Field /\ InitialValue(f) \in Values
    BY FieldNames, ValueTypes
  <2>. HIDE DEF f
  <2>3. Sound(t, x, TRUE) /\ x.seen = NotRead /\ x.op = "store" /\ x.field = f
    BY <2>2, StoreSound
  <2>. HIDE DEF x
  <2>. QED BY <2>1, <2>3 DEF f, x
<1>12. ASSUME NEW i \in 1 .. 6
       PROVE  /\ Sound(t, p[i + 14], TRUE) /\ p[i + 14].seen = NotRead
              /\ p[i + 14].op = "store" /\ p[i + 14].field = SystemFields[i]
  <2>1. p[i + 14] = Store(SystemFields[i], InitialValue(SystemFields[i]))
    BY <1>2, <1>5, <1>6
  <2>. DEFINE f == SystemFields[i]
              x == Store(f, InitialValue(f))
  <2>2. f \in Field /\ InitialValue(f) \in Values
    BY FieldNames, ValueTypes
  <2>. HIDE DEF f
  <2>3. Sound(t, x, TRUE) /\ x.seen = NotRead /\ x.op = "store" /\ x.field = f
    BY <2>2, StoreSound
  <2>. HIDE DEF x
  <2>. QED BY <2>1, <2>3 DEF f, x
<1>13. Sound(t, p[14], TRUE) /\ p[14].seen = NotRead /\ p[14].op = "clear"
  <2>1. p[14] = ClearList
    BY <1>4, <1>5, <1>6
  <2>. QED BY <2>1, OthersSound
<1>14. \A j \in 1 .. 20 : j \in 1 .. 13 \/ j = 14 \/ \E i \in 1 .. 6 : j = i + 14
  <2>1. ASSUME NEW j \in 1 .. 20, j > 14 PROVE j - 14 \in 1 .. 6 /\ j = (j - 14) + 14
    BY <2>1
  <2>. QED BY <2>1
<1>9. \A j \in 1 .. 20 : Sound(t, p[j], TRUE) /\ p[j].seen = NotRead
  <2>. SUFFICES ASSUME NEW j \in 1 .. 20 PROVE Sound(t, p[j], TRUE) /\ p[j].seen = NotRead
    OBVIOUS
  <2>1. CASE \E i \in 1 .. 6 : j = i + 14
    BY <1>12, <2>1
  <2>. QED BY <1>8, <1>13, <1>14, <2>1
<1>10. ASSUME NEW j \in 1 .. 20, NEW k \in 1 .. 20, NEW f, Writes(p[j], f), Writes(p[k], f) PROVE j = k
  <2>1. j # 14 /\ k # 14 /\ p[j].field = p[k].field
    BY <1>10, <1>13 DEF Writes, Writers
  <2>2. CASE j \in 1 .. 13 /\ k \in 1 .. 13
    BY <1>8, <2>1, <2>2, FieldsDiffer
  <2>3. ASSUME NEW i \in 1 .. 6, NEW m \in 1 .. 6, j = i + 14, k = m + 14 PROVE j = k
    <3>1. i = m
      BY <1>12, <2>1, <2>3, FieldsDiffer
    <3>. QED BY <2>3, <3>1
  <2>4. ASSUME NEW i \in 1 .. 6, j \in 1 .. 13, k = i + 14 PROVE FALSE
    BY <1>8, <1>12, <2>1, <2>4, FieldsDiffer
  <2>5. ASSUME NEW i \in 1 .. 6, k \in 1 .. 13, j = i + 14 PROVE FALSE
    BY <1>8, <1>12, <2>1, <2>5, FieldsDiffer
  <2>. QED BY <1>14, <2>1, <2>2, <2>3, <2>4, <2>5
<1>11. ASSUME NEW f \in Field PROVE \E j \in 1 .. 20 : Writes(p[j], f) /\ p[j].op = "store"
  <2>1. CASE \E i \in 1 .. 13 : f = JobFields[i]
    <3>1. PICK i \in 1 .. 13 : f = JobFields[i]
      BY <2>1
    <3>2. i \in 1 .. 20
      OBVIOUS
    <3>. QED BY <1>8, <3>1, <3>2 DEF Writes, Writers
  <2>2. CASE \E i \in 1 .. 6 : f = SystemFields[i]
    <3>1. PICK i \in 1 .. 6 : f = SystemFields[i]
      BY <2>2
    <3>2. i + 14 \in 1 .. 20
      OBVIOUS
    <3>. QED BY <1>12, <3>1, <3>2 DEF Writes, Writers
  <2>. QED BY <2>1, <2>2, FieldNames
<1>15. Program(t, p, TRUE) /\ Unread(p)
  BY <1>7, <1>9, <1>10 DEF Program, Unread
<1>. QED BY <1>7, <1>11, <1>15 DEF p

-----------------------------------------------------------------------------
(* The steps                                                                *)

Programs == \A t \in Thread : Program(t, todo[t], t \in resetting)
TypeInv  == TypeOK /\ Programs

\* A thread has finished with an instruction, which had its whole effect now.
Done(t) ==
    LET i == Head(todo[t]) IN
    /\ todo[t] # <<>>
    /\ stats' = Whole(stats, i)
    /\ todo' = [todo EXCEPT ![t] = Tail(todo[t])]
    /\ resetting' = IF Tail(todo[t]) = <<>> THEN resetting \ {t} ELSE resetting
    /\ executors' \subseteq Executor
    /\ trapped' \in BOOLEAN
    /\ ~trapped
    /\ trapped' => i.op = "divide" /\ i.seen # NotRead /\ stats[i.field] = 0
    /\ UNCHANGED <<calls, serial, torn>>

\* It has read what its next step depends on.
Noted(t) ==
    LET i == Head(todo[t]) IN
    /\ todo[t] # <<>>
    /\ i.op \in {"lower", "raise", "divide"} /\ Needed(i, stats[i.field])
    /\ todo' = [todo EXCEPT ![t] = <<[i EXCEPT !.seen = stats[i.field]]>> \o Tail(todo[t])]
    /\ UNCHANGED <<stats, calls, serial, torn, resetting, trapped, executors>>

LEMMA HeadAndTail ==
    ASSUME NEW p \in Seq(Instruction), p # <<>>
    PROVE  /\ Head(p) = p[1] /\ Head(p) \in Instruction
           /\ Len(p) \in Nat \ {0} /\ DOMAIN p = 1 .. Len(p) /\ 1 \in DOMAIN p
           /\ Tail(p) \in Seq(Instruction) /\ Len(Tail(p)) = Len(p) - 1
           /\ DOMAIN Tail(p) = 1 .. Len(p) - 1
           /\ \A j \in 1 .. Len(p) - 1 : Tail(p)[j] = p[j + 1] /\ j + 1 \in DOMAIN p
           /\ <<>> \o Tail(p) = Tail(p)
<1>1. Len(p) \in Nat \ {0} /\ DOMAIN p = 1 .. Len(p)
  BY EmptySeq, LenProperties
<1>2. 1 \in DOMAIN p /\ \A j \in 1 .. Len(p) - 1 : j + 1 \in DOMAIN p
  BY <1>1
<1>3. Head(p) = p[1] /\ Head(p) \in Instruction
  BY <1>1, <1>2, ElementOfSeq
<1>4. /\ Tail(p) \in Seq(Instruction) /\ Len(Tail(p)) = Len(p) - 1
      /\ \A j \in 1 .. Len(p) - 1 : Tail(p)[j] = p[j + 1]
  BY <1>1, HeadTailProperties
<1>5. DOMAIN Tail(p) = 1 .. Len(p) - 1
  BY <1>4, LenProperties
<1>6. <<>> \o Tail(p) = Tail(p)
  BY <1>4, ConcatEmptySeq
<1>. QED BY <1>1, <1>2, <1>3, <1>4, <1>5, <1>6

LEMMA HeadReplaced ==
    ASSUME NEW p \in Seq(Instruction), p # <<>>, NEW i \in Instruction, NEW q, q = <<i>> \o Tail(p)
    PROVE  /\ q \in Seq(Instruction) /\ q # <<>>
           /\ DOMAIN q = DOMAIN p
           /\ q[1] = i
           /\ \A j \in DOMAIN p : j # 1 => q[j] = p[j]
<1>. DEFINE s == <<i>>
            u == Tail(p)
<1>1. /\ Len(p) \in Nat \ {0} /\ DOMAIN p = 1 .. Len(p)
      /\ u \in Seq(Instruction) /\ Len(u) = Len(p) - 1
      /\ \A j \in 1 .. Len(p) - 1 : u[j] = p[j + 1]
  BY HeadAndTail
<1>2. s \in Seq(Instruction) /\ Len(s) = 1 /\ s[1] = i
  OBVIOUS
<1>. HIDE DEF s, u
<1>3. /\ q \in Seq(Instruction) /\ Len(q) = Len(s) + Len(u)
      /\ \A j \in 1 .. Len(s) + Len(u) : q[j] = IF j <= Len(s) THEN s[j] ELSE u[j - Len(s)]
  BY <1>1, <1>2, ConcatProperties DEF s, u
<1>4. Len(s) + Len(u) = Len(p)
  BY <1>1, <1>2
<1>5. q[1] = i
  BY <1>1, <1>2, <1>3, <1>4
<1>6. ASSUME NEW j \in DOMAIN p, j # 1 PROVE q[j] = p[j]
  <2>1. j - 1 \in 1 .. Len(p) - 1 /\ ~(j <= 1) /\ j \in 1 .. Len(p) /\ j - 1 + 1 = j
    BY <1>1, <1>6
  <2>2. q[j] = u[j - 1]
    BY <1>2, <1>3, <1>4, <2>1
  <2>. QED BY <1>1, <2>1, <2>2
<1>7. DOMAIN q = DOMAIN p
  BY <1>1, <1>3, <1>4, LenProperties
<1>8. q # <<>>
  <2>1. Len(q) # 0 /\ Len(<<>>) = 0
    BY <1>1, <1>3, <1>4
  <2>. QED BY <2>1
<1>. QED BY <1>3, <1>5, <1>6, <1>7, <1>8

LEMMA StepShape ==
    ASSUME TypeInv, NEW t \in Thread, Steps(t)
    PROVE  Done(t) \/ Noted(t)
<1>. DEFINE p == todo[t]
            i == Head(p)
            x == stats[i.field]
            noted == <<[i EXCEPT !.seen = x]>>
<1>0. p # <<>> /\ ~trapped
  BY DEF Steps, Write, Read, Exchange, Quotient, List, At, Busy
<1>1. p \in Seq(Instruction) /\ Program(t, p, t \in resetting) /\ executors \subseteq Executor
      /\ trapped \in BOOLEAN
  BY DEF TypeInv, Programs, TypeOK
<1>2. i = p[1] /\ 1 \in DOMAIN p /\ i \in Instruction /\ <<>> \o Tail(p) = Tail(p)
  BY <1>0, <1>1, HeadAndTail
<1>3. Sound(t, i, t \in resetting)
  BY <1>1, <1>2 DEF Program
<1>4. ASSUME Continue(t, <<>>)
      PROVE  /\ todo' = [todo EXCEPT ![t] = Tail(p)]
             /\ resetting' = IF Tail(p) = <<>> THEN resetting \ {t} ELSE resetting
  BY <1>2, <1>4 DEF Continue
<1>5. ASSUME Continue(t, noted), i.op \in {"lower", "raise", "divide"}
      PROVE  /\ todo' = [todo EXCEPT ![t] = noted \o Tail(p)]
             /\ resetting' = resetting
  <2>1. i.field \in Field
    BY <1>3, <1>5, FieldsNamed DEF Sound, Counts
  <2>2. x \in Values
    BY <2>1 DEF TypeInv, TypeOK
  <2>. HIDE DEF x
  <2>3. [i EXCEPT !.seen = x] \in Instruction
    BY <1>2, <2>2 DEF Instruction
  <2>4. noted \o Tail(p) # <<>>
    BY <1>0, <1>1, <2>3, HeadReplaced
  <2>. QED BY <1>5, <2>4 DEF Continue
<1>. HIDE DEF p, i
<1>6. CASE Write(t)
  BY <1>0, <1>1, <1>4, <1>6 DEF Write, Done, At, p, i
<1>7. CASE Read(t)
  <2>1. CASE Needed(i, x)
    <3>1. Continue(t, noted) /\ i.op \in {"lower", "raise", "divide"} /\ UNCHANGED <<stats, executors, calls, trapped, serial, torn>>
      BY <1>7, <2>1 DEF Read, At, p, i
    <3>. QED BY <1>0, <1>5, <2>1, <3>1 DEF Noted, p, i
  <2>2. CASE ~Needed(i, x)
    <3>1. Continue(t, <<>>) /\ i.op \in {"lower", "raise", "divide"} /\ UNCHANGED <<stats, executors, calls, trapped, serial, torn>>
      BY <1>7, <2>2 DEF Read, At, p, i
    <3>2. Whole(stats, i) = stats
      BY <2>2, <3>1 DEF Whole, TypeInv, TypeOK
    <3>. QED BY <1>0, <1>1, <1>4, <3>1, <3>2 DEF Done, p, i
  <2>. QED BY <2>1, <2>2
<1>8. CASE Exchange(t)
  <2>0. i.op \in {"lower", "raise"} /\ i.seen # NotRead /\ UNCHANGED <<executors, calls, trapped, serial, torn>>
    BY <1>8 DEF Exchange, At, p, i
  <2>1. CASE x = i.seen
    <3>1. stats' = [stats EXCEPT ![i.field] = i.value] /\ Continue(t, <<>>)
      BY <1>8, <2>1 DEF Exchange, At, p, i
    <3>2. Needed(i, x)
      BY <1>3, <2>0, <2>1 DEF Sound, Needed
    <3>3. Whole(stats, i) = [stats EXCEPT ![i.field] = i.value]
      BY <2>0, <3>2 DEF Whole
    <3>. QED BY <1>0, <1>1, <1>4, <2>0, <3>1, <3>3 DEF Done, p, i
  <2>2. CASE x # i.seen /\ Needed(i, x)
    <3>1. UNCHANGED stats /\ Continue(t, noted)
      BY <1>8, <2>2 DEF Exchange, At, p, i
    <3>. QED BY <1>0, <1>5, <2>0, <2>2, <3>1 DEF Noted, p, i
  <2>3. CASE x # i.seen /\ ~Needed(i, x)
    <3>1. UNCHANGED stats /\ Continue(t, <<>>)
      BY <1>8, <2>3 DEF Exchange, At, p, i
    <3>2. Whole(stats, i) = stats
      BY <2>0, <2>3 DEF Whole, TypeInv, TypeOK
    <3>. QED BY <1>0, <1>1, <1>4, <2>0, <3>1, <3>2 DEF Done, p, i
  <2>. QED BY <2>1, <2>2, <2>3
<1>9. CASE Quotient(t)
  <2>1. /\ i.op = "divide" /\ i.seen # NotRead /\ trapped' = (x = 0)
        /\ Continue(t, <<>>) /\ UNCHANGED <<stats, executors, calls, serial, torn>>
    BY <1>9 DEF Quotient, At, p, i
  <2>2. Whole(stats, i) = stats
    BY <2>1 DEF Whole
  <2>. QED BY <1>0, <1>1, <1>4, <2>1, <2>2 DEF Done, p, i
<1>10. CASE List(t)
  <2>1. /\ i.op \in {"enter", "clear"} /\ UNCHANGED <<stats, calls, trapped, serial, torn>>
        /\ executors' = IF i.op = "enter" THEN executors \cup {i.field} ELSE {}
        /\ Continue(t, <<>>)
    BY <1>10 DEF List, At, p, i
  <2>2. Whole(stats, i) = stats
    BY <2>1 DEF Whole
  <2>3. executors' \subseteq Executor
    BY <1>1, <1>3, <2>1 DEF Sound
  <2>. QED BY <1>0, <1>1, <1>4, <2>1, <2>2, <2>3 DEF Done, p, i
<1>. QED BY <1>6, <1>7, <1>8, <1>9, <1>10 DEF Steps

\* A thread's program in what follows a step.
LEMMA ProgramGoesOn ==
    ASSUME NEW t, NEW r, NEW p, Program(t, p, r), p # <<>>
    PROVE  /\ Program(t, Tail(p), r)
           /\ \A x \in Values : Needed(Head(p), x) /\ Head(p).op \in {"lower", "raise", "divide"} =>
                 Program(t, <<[Head(p) EXCEPT !.seen = x]>> \o Tail(p), r)
<1>. DEFINE n == Len(p)
            u == Tail(p)
            i == Head(p)
<1>1. p \in Seq(Instruction)
  BY DEF Program
<1>2. /\ i = p[1] /\ i \in Instruction /\ 1 \in DOMAIN p
      /\ n \in Nat \ {0} /\ DOMAIN p = 1 .. n
      /\ u \in Seq(Instruction) /\ DOMAIN u = 1 .. n - 1
      /\ \A j \in 1 .. n - 1 : u[j] = p[j + 1] /\ j + 1 \in DOMAIN p
  BY <1>1, HeadAndTail
<1>3. Program(t, u, r)
  <2>. HIDE DEF u, n
  <2>1. \A j \in DOMAIN u : Sound(t, u[j], r)
    BY <1>2 DEF Program
  <2>2. ASSUME NEW j \in DOMAIN u, NEW k \in DOMAIN u, NEW f \in Field, Writes(u[j], f), Writes(u[k], f)
        PROVE  j = k
    <3>1. j + 1 = k + 1
      BY <1>2, <2>2 DEF Program
    <3>. QED BY <1>2, <3>1
  <2>. QED BY <1>2, <2>1, <2>2 DEF Program
<1>4. ASSUME NEW x \in Values, Needed(i, x), i.op \in {"lower", "raise", "divide"}
      PROVE  Program(t, <<[i EXCEPT !.seen = x]>> \o u, r)
  <2>. DEFINE k == [i EXCEPT !.seen = x]
              q == <<k>> \o u
  <2>1. k \in Instruction /\ k.op = i.op /\ k.field = i.field /\ k.value = i.value /\ k.seen = x
    BY <1>2 DEF Instruction
  <2>2. Sound(t, i, r)
    BY <1>2 DEF Program
  <2>. HIDE DEF k, i
  <2>3. Sound(t, k, r)
    <3>1. k.op = "lower" => k.value < k.seen
      BY <1>4, <2>1 DEF Needed
    <3>2. k.op = "raise" => k.value > k.seen
      BY <1>4, <2>1 DEF Needed
    <3>. QED BY <1>4, <2>1, <2>2, <3>1, <3>2 DEF Sound
  <2>4. /\ q \in Seq(Instruction) /\ DOMAIN q = DOMAIN p /\ q[1] = k
        /\ \A j \in DOMAIN p : j # 1 => q[j] = p[j]
    BY <1>1, <2>1, HeadReplaced
  <2>. HIDE DEF q
  <2>5. \A j \in DOMAIN q : Sound(t, q[j], r)
    BY <2>3, <2>4 DEF Program
  <2>6. \A j \in DOMAIN p, f \in Field : Writes(q[j], f) => Writes(p[j], f)
    BY <1>2, <2>1, <2>4 DEF Writes, i
  <2>7. Program(t, q, r)
    BY <2>4, <2>5, <2>6 DEF Program
  <2>. QED BY <2>7 DEF q, k, i
<1>. QED BY <1>3, <1>4

LEMMA NoProgram == ASSUME NEW t, NEW r PROVE Program(t, <<>>, r)
  BY DEF Program

LEMMA DoneType == ASSUME TypeInv, NEW t \in Thread, Done(t) PROVE TypeInv'
<1>. DEFINE p == todo[t]
<1>1. /\ p # <<>> /\ Program(t, p, t \in resetting)
      /\ todo' = [todo EXCEPT ![t] = Tail(p)]
      /\ resetting' = IF Tail(p) = <<>> THEN resetting \ {t} ELSE resetting
      /\ todo \in [Thread -> Seq(Instruction)]
  BY DEF TypeInv, Programs, TypeOK, Done
<1>2. p \in Seq(Instruction) /\ Head(p) = p[1] /\ 1 \in DOMAIN p /\ Tail(p) \in Seq(Instruction)
  BY <1>1, HeadAndTail DEF Program
<1>3. Program(t, Tail(p), t \in resetting)
  BY <1>1, ProgramGoesOn
<1>. HIDE DEF p
<1>4. todo' \in [Thread -> Seq(Instruction)] /\ todo'[t] = Tail(p)
  BY <1>1, <1>2
<1>5. \A u \in Thread : u # t => todo'[u] = todo[u] /\ (u \in resetting' <=> u \in resetting)
  BY <1>1
<1>6. resetting' \in SUBSET {u \in Request : todo'[u] # <<>>}
  <2>1. resetting \in SUBSET {u \in Request : todo[u] # <<>>} /\ Request \subseteq Thread
    BY DEF TypeInv, TypeOK, Thread
  <2>2. ASSUME NEW u \in resetting' PROVE u \in Request /\ todo'[u] # <<>>
    <3>1. CASE u = t
      BY <1>1, <1>4, <2>1, <2>2, <3>1
    <3>2. CASE u # t
      <4>1. u \in Thread /\ u \in resetting
        BY <1>1, <2>1, <2>2, <3>2
      <4>. QED BY <1>5, <2>1, <3>2, <4>1
    <3>. QED BY <3>1, <3>2
  <2>. QED BY <2>2
<1>7. stats' \in [Field -> Values]
  <2>1. Sound(t, Head(p), t \in resetting)
    BY <1>1, <1>2 DEF Program, p
  <2>2. stats' = Whole(stats, Head(p)) /\ stats \in [Field -> Values]
    BY DEF Done, TypeInv, TypeOK, p
  <2>. QED BY <2>1, <2>2, WholeEffect
<1>8. TypeOK'
  <2>1. executors' \subseteq Executor /\ trapped' \in BOOLEAN /\ UNCHANGED <<calls, serial, torn>>
    BY DEF Done
  <2>2. serial' \in [Field -> Values] /\ calls' \in 0 .. MaxCalls /\ torn' \in BOOLEAN
    BY <2>1 DEF TypeInv, TypeOK
  <2>. QED BY <1>4, <1>6, <1>7, <2>1, <2>2 DEF TypeOK
<1>9. Programs'
  <2>1. \A u \in Thread : Program(u, todo[u], u \in resetting)
    BY DEF TypeInv, Programs
  <2>2. ASSUME NEW u \in Thread PROVE Program(u, todo'[u], u \in resetting')
    <3>1. CASE u # t
      <4>1. (u \in resetting') = (u \in resetting)
        BY <1>5, <3>1
      <4>. QED BY <1>5, <2>1, <3>1, <4>1
    <3>2. CASE u = t /\ Tail(p) = <<>>
      BY <1>4, <3>2, NoProgram
    <3>3. CASE u = t /\ Tail(p) # <<>>
      BY <1>1, <1>3, <1>4, <3>3
    <3>. QED BY <3>1, <3>2, <3>3
  <2>. QED BY <2>2 DEF Programs
<1>. QED BY <1>8, <1>9 DEF TypeInv

LEMMA NotedType ==
    ASSUME TypeInv, NEW t \in Thread, Noted(t)
    PROVE  /\ TypeInv'
           /\ LET i == Head(todo[t]) IN
              /\ DOMAIN todo[t]' = DOMAIN todo[t] /\ 1 \in DOMAIN todo[t] /\ todo[t][1] = i
              /\ todo[t]'[1] = [i EXCEPT !.seen = stats[i.field]]
              /\ i \in Instruction /\ i.field \in Field
              /\ \A j \in DOMAIN todo[t] : j # 1 => todo[t]'[j] = todo[t][j]
              /\ \A u \in Thread : u # t => todo[u]' = todo[u]
<1>. DEFINE p == todo[t]
            i == Head(p)
            x == stats[i.field]
            k == [i EXCEPT !.seen = x]
            q == <<k>> \o Tail(p)
<1>1. /\ p # <<>> /\ Program(t, p, t \in resetting)
      /\ todo' = [todo EXCEPT ![t] = q]
      /\ i.op \in {"lower", "raise", "divide"} /\ Needed(i, x)
      /\ todo \in [Thread -> Seq(Instruction)]
  BY DEF TypeInv, Programs, TypeOK, Noted
<1>2. p \in Seq(Instruction) /\ i = p[1] /\ 1 \in DOMAIN p /\ i \in Instruction
  BY <1>1, HeadAndTail DEF Program
<1>3. Sound(t, i, t \in resetting)
  BY <1>1, <1>2 DEF Program
<1>4. i.field \in Field
  BY <1>1, <1>3, FieldsNamed DEF Sound, Counts
<1>5. x \in Values
  BY <1>4 DEF TypeInv, TypeOK
<1>. HIDE DEF x, i
<1>6. k \in Instruction
  BY <1>2, <1>5 DEF Instruction
<1>7. Program(t, q, t \in resetting)
  BY <1>1, <1>5, ProgramGoesOn DEF i
<1>. HIDE DEF k, p
<1>8. /\ q \in Seq(Instruction) /\ q # <<>> /\ DOMAIN q = DOMAIN p /\ q[1] = k
      /\ \A j \in DOMAIN p : j # 1 => q[j] = p[j]
  BY <1>1, <1>2, <1>6, HeadReplaced
<1>. HIDE DEF q
<1>9. todo' \in [Thread -> Seq(Instruction)] /\ todo'[t] = q /\ \A u \in Thread : u # t => todo'[u] = todo[u]
  BY <1>1, <1>8
<1>10. UNCHANGED <<stats, calls, serial, torn, resetting, trapped, executors>>
  BY DEF Noted
<1>11. TypeOK'
  <2>1. resetting' \in SUBSET {u \in Request : todo'[u] # <<>>}
    <3>1. resetting' = resetting /\ Request \subseteq Thread /\ resetting \in SUBSET {u \in Request : todo[u] # <<>>}
      BY <1>10 DEF TypeInv, TypeOK, Thread
    <3>. QED BY <1>8, <1>9, <3>1
  <2>. QED BY <1>9, <1>10, <2>1 DEF TypeInv, TypeOK
<1>12. Programs'
  BY <1>7, <1>9, <1>10 DEF TypeInv, Programs
<1>. QED BY <1>2, <1>4, <1>8, <1>9, <1>11, <1>12 DEF TypeInv, p, k, i, x

LEMMA CallType ==
    ASSUME TypeInv, NEW t \in Thread, NEW p, NEW r \in BOOLEAN, Program(t, p, r), p # <<>>, Call(t, p),
           resetting' = (IF r THEN resetting \cup {t} ELSE resetting), r => t \in Request,
           torn' \in BOOLEAN
    PROVE  TypeInv'
<1>1. /\ todo[t] = <<>> /\ calls < MaxCalls /\ calls' = calls + 1
      /\ todo' = [todo EXCEPT ![t] = p] /\ serial' = AtOnce(serial, p)
      /\ UNCHANGED <<stats, executors, trapped>>
  BY DEF Call, Busy
<1>2. TypeOK /\ p \in Seq(Instruction)
  BY DEF TypeInv, Program
<1>3. /\ todo' \in [Thread -> Seq(Instruction)] /\ todo'[t] = p
      /\ \A u \in Thread : u # t => todo'[u] = todo[u]
  <2>1. todo \in [Thread -> Seq(Instruction)]
    BY <1>2 DEF TypeOK
  <2>. QED BY <1>1, <1>2, <2>1
<1>4. t \notin resetting
  BY <1>1, <1>2 DEF TypeOK
<1>5. serial' \in [Field -> Values]
  BY <1>1, <1>2, AtOnceEffect DEF TypeOK
<1>6. calls' \in 0 .. MaxCalls
  <2>1. calls \in 0 .. MaxCalls /\ MaxCalls \in Nat
    BY <1>2, StatsAssumption DEF TypeOK
  <2>. QED BY <1>1, <2>1
<1>7. resetting' \in SUBSET {u \in Request : todo'[u] # <<>>}
  <2>1. resetting \in SUBSET {u \in Request : todo[u] # <<>>} /\ Request \subseteq Thread
    BY <1>2 DEF TypeOK, Thread
  <2>2. ASSUME NEW u \in resetting' PROVE u \in Request /\ todo'[u] # <<>>
    <3>1. CASE u = t
      BY <1>3, <1>4, <2>2, <3>1
    <3>2. CASE u # t
      <4>1. u \in resetting /\ u \in Thread
        BY <2>1, <2>2, <3>2
      <4>. QED BY <1>3, <2>1, <3>2, <4>1
    <3>. QED BY <3>1, <3>2
  <2>. QED BY <2>2
<1>8. TypeOK'
  BY <1>1, <1>2, <1>3, <1>5, <1>6, <1>7 DEF TypeOK
<1>9. Programs'
  <2>1. ASSUME NEW u \in Thread PROVE Program(u, todo'[u], u \in resetting')
    <3>1. CASE u = t
      <4>1. (t \in resetting') = r
        BY <1>4
      <4>. QED BY <1>3, <3>1, <4>1
    <3>2. CASE u # t
      <4>1. (u \in resetting') = (u \in resetting)
        BY <3>2
      <4>. QED BY <1>3, <3>2, <4>1 DEF TypeInv, Programs
    <3>. QED BY <3>1, <3>2
  <2>. QED BY <2>1 DEF Programs
<1>. QED BY <1>8, <1>9 DEF TypeInv

LEMMA OrdinaryType == ASSUME TypeInv, NEW t \in Thread, Ordinary(t) PROVE TypeInv'
<1>1. PICK p : Update(t, p) /\ Program(t, p, FALSE) /\ Unread(p)
  BY DEF Ordinary
<1>2. /\ Call(t, p) /\ resetting' = resetting /\ p # <<>>
      /\ torn' = (torn \/ resetting # {})
  BY <1>1 DEF Update, Unread
<1>3. torn' \in BOOLEAN
  BY <1>2 DEF TypeInv, TypeOK
<1>4. FALSE \in BOOLEAN
  OBVIOUS
<1>. QED BY <1>1, <1>2, <1>3, <1>4, CallType

LEMMA ResetType == ASSUME TypeInv, NEW t \in Request, ResetAllStats(t) PROVE TypeInv'
<1>1. /\ Call(t, Everything) /\ resetting' = resetting \cup {t} /\ torn' = Others(t)
  BY DEF ResetAllStats, Everything
<1>2. Program(t, Everything, TRUE) /\ Everything # <<>> /\ t \in Thread
  BY ResetProgram DEF Unread, Thread
<1>3. torn' \in BOOLEAN
  BY <1>1 DEF Others
<1>4. TRUE \in BOOLEAN
  OBVIOUS
<1>. QED BY <1>1, <1>2, <1>3, <1>4, CallType

LEMMA TypeInvInit == Init => TypeInv
<1>. SUFFICES ASSUME Init PROVE TypeInv
  OBVIOUS
<1>1. Cleared \in [Field -> Values]
  BY ValueTypes DEF Cleared
<1>2. stats = Cleared /\ serial = Cleared /\ executors = {} /\ todo = [t \in Thread |-> <<>>]
      /\ calls = 0 /\ resetting = {}
  BY DEF Init
<1>3. todo \in [Thread -> Seq(Instruction)] /\ \A t \in Thread : todo[t] = <<>>
  BY <1>2
<1>4. calls \in 0 .. MaxCalls
  BY <1>2, StatsAssumption
<1>5. trapped \in BOOLEAN /\ torn \in BOOLEAN
  BY DEF Init
<1>6. TypeOK
  BY <1>1, <1>2, <1>3, <1>4, <1>5 DEF TypeOK
<1>7. Programs
  BY <1>3, NoProgram DEF Programs
<1>. QED BY <1>6, <1>7 DEF TypeInv

LEMMA UnchangedType == ASSUME TypeInv, UNCHANGED vars PROVE TypeInv'
  BY DEF TypeInv, Programs, TypeOK, vars

LEMMA TypeInvInductive == Spec => []TypeInv
<1>1. ASSUME TypeInv, [Next]_vars PROVE TypeInv'
  <2>1. CASE Next
    BY <1>1, <2>1, StepKinds, OrdinaryType, ResetType, StepShape, DoneType, NotedType
  <2>. QED BY <1>1, <2>1, UnchangedType
<1>. QED BY <1>1, TypeInvInit, PTL DEF Spec

(* The counters hold unsigned numbers of their width, whatever order the     *)
(* instructions come in, and every thread is within one of the calls it may  *)
(* make, a reset only while it has something left to do.                     *)
THEOREM TypeCorrect == Spec => []TypeOK
<1>1. TypeInv => TypeOK
  BY DEF TypeInv
<1>. QED BY <1>1, TypeInvInductive, PTL

-----------------------------------------------------------------------------
(* What is left of the calls                                                *)

Items(p) == {p[j] : j \in DOMAIN p}

\* One number for each time that a program will still add one to a field.
Due(p, f) ==
    {n \in Nat : \E i \in Items(p) : i.op = "plus" /\ i.field = f /\ n \in 1 .. (i.value % Modulus)}
Owed(a, f) == {x \in Thread \X Nat : x[2] \in Due(a[x[1]], f)}

LEMMA ItemsOf ==
    /\ Items(<<>>) = {}
    /\ \A p \in Seq(Instruction) : p # <<>> =>
          /\ Items(p) = Items(Tail(p)) \cup {Head(p)}
          /\ \A k \in Instruction : Items(<<k>> \o Tail(p)) = Items(Tail(p)) \cup {k}
<1>1. Items(<<>>) = {}
  BY DEF Items
<1>2. ASSUME NEW p \in Seq(Instruction), p # <<>>
      PROVE  Items(p) = Items(Tail(p)) \cup {Head(p)}
  <2>. DEFINE u == Tail(p)
              n == Len(p)
              i == Head(p)
  <2>1. /\ i = p[1] /\ n \in Nat \ {0} /\ DOMAIN p = 1 .. n /\ DOMAIN u = 1 .. n - 1
        /\ \A j \in 1 .. n - 1 : u[j] = p[j + 1] /\ j + 1 \in DOMAIN p
    BY <1>2, HeadAndTail
  <2>. HIDE DEF u, n, i
  <2>2. ASSUME NEW x \in Items(p) PROVE x \in Items(u) \cup {i}
    <3>1. PICK j \in DOMAIN p : x = p[j]
      BY <2>2 DEF Items
    <3>2. CASE j = 1
      BY <2>1, <3>1, <3>2
    <3>3. CASE j # 1
      <4>1. j - 1 \in 1 .. n - 1 /\ j - 1 + 1 = j
        BY <2>1, <3>3
      <4>2. u[j - 1] = x /\ j - 1 \in DOMAIN u
        BY <2>1, <3>1, <4>1
      <4>. QED BY <4>2 DEF Items
    <3>. QED BY <3>2, <3>3
  <2>3. ASSUME NEW x \in Items(u) \cup {i} PROVE x \in Items(p)
    <3>1. 1 \in DOMAIN p
      BY <2>1
    <3>. QED BY <2>1, <2>3, <3>1 DEF Items
  <2>4. Items(p) = Items(u) \cup {i}
    BY <2>2, <2>3
  <2>. QED BY <2>4 DEF u, i
<1>3. ASSUME NEW p \in Seq(Instruction), p # <<>>, NEW k \in Instruction
      PROVE  Items(<<k>> \o Tail(p)) = Items(Tail(p)) \cup {k}
  <2>. DEFINE u == Tail(p)
              n == Len(p)
              q == <<k>> \o u
  <2>1. /\ n \in Nat \ {0} /\ DOMAIN p = 1 .. n /\ DOMAIN u = 1 .. n - 1
        /\ \A j \in 1 .. n - 1 : u[j] = p[j + 1] /\ j + 1 \in DOMAIN p
    BY <1>3, HeadAndTail
  <2>2. q[1] = k /\ DOMAIN q = DOMAIN p /\ \A j \in DOMAIN p : j # 1 => q[j] = p[j]
    BY <1>3, HeadReplaced
  <2>. HIDE DEF u, n, q
  <2>3. ASSUME NEW x \in Items(q) PROVE x \in Items(u) \cup {k}
    <3>1. PICK j \in DOMAIN p : x = q[j]
      BY <2>2, <2>3 DEF Items
    <3>2. CASE j = 1
      BY <2>2, <3>1, <3>2
    <3>3. CASE j # 1
      <4>1. j - 1 \in 1 .. n - 1 /\ j - 1 + 1 = j
        BY <2>1, <3>3
      <4>2. u[j - 1] = x /\ j - 1 \in DOMAIN u
        BY <2>1, <2>2, <3>1, <3>3, <4>1
      <4>. QED BY <4>2 DEF Items
    <3>. QED BY <3>2, <3>3
  <2>4. ASSUME NEW x \in Items(u) \cup {k} PROVE x \in Items(q)
    <3>1. CASE x = k
      <4>1. 1 \in DOMAIN q
        BY <2>1, <2>2
      <4>. QED BY <2>2, <3>1, <4>1 DEF Items
    <3>2. CASE x \in Items(u)
      <4>1. PICK j \in 1 .. n - 1 : x = u[j]
        BY <2>1, <3>2 DEF Items
      <4>2. j + 1 \in DOMAIN p /\ j + 1 # 1 /\ u[j] = p[j + 1]
        BY <2>1
      <4>3. x = q[j + 1] /\ j + 1 \in DOMAIN q
        BY <2>2, <4>1, <4>2
      <4>. QED BY <4>3 DEF Items
    <3>. QED BY <2>4, <3>1, <3>2
  <2>5. Items(q) = Items(u) \cup {k}
    BY <2>3, <2>4
  <2>. QED BY <2>5 DEF u, q
<1>. QED BY <1>1, <1>2, <1>3

\* The same of a thread's program.
LEMMA ProgramItems ==
    ASSUME NEW t, NEW p, NEW r, Program(t, p, r)
    PROVE  /\ \A i \in Items(p) : Sound(t, i, r)
           /\ \A i, k \in Items(p), f \in Field : Writes(i, f) /\ Writes(k, f) => i = k
           /\ p # <<>> => /\ Sound(t, Head(p), r)
                          /\ Items(p) = Items(Tail(p)) \cup {Head(p)}
                          /\ \A f \in Field : Writes(Head(p), f) => \A k \in Items(Tail(p)) : ~Writes(k, f)
<1>1. \A i \in Items(p) : Sound(t, i, r)
  BY DEF Items, Program
<1>2. \A i, k \in Items(p), f \in Field : Writes(i, f) /\ Writes(k, f) => i = k
  BY DEF Items, Program
<1>3. p \in Seq(Instruction)
  BY DEF Program
<1>4. ASSUME p # <<>>
      PROVE  /\ Items(p) = Items(Tail(p)) \cup {Head(p)}
             /\ \A f \in Field : Writes(Head(p), f) => \A k \in Items(Tail(p)) : ~Writes(k, f)
  <2>. DEFINE u == Tail(p)
              n == Len(p)
              i == Head(p)
  <2>1. Items(p) = Items(u) \cup {i}
    BY <1>3, <1>4, ItemsOf
  <2>2. /\ i = p[1] /\ 1 \in DOMAIN p /\ n \in Nat \ {0} /\ DOMAIN p = 1 .. n /\ DOMAIN u = 1 .. n - 1
        /\ \A j \in 1 .. n - 1 : u[j] = p[j + 1] /\ j + 1 \in DOMAIN p
    BY <1>3, <1>4, HeadAndTail
  <2>. HIDE DEF u, n, i
  <2>3. ASSUME NEW f \in Field, Writes(i, f), NEW k \in Items(u), Writes(k, f) PROVE FALSE
    <3>1. PICK j \in 1 .. n - 1 : k = u[j]
      BY <2>2, <2>3 DEF Items
    <3>2. k = p[j + 1] /\ j + 1 \in DOMAIN p
      BY <2>2, <3>1
    <3>3. j + 1 = 1
      BY <2>2, <2>3, <3>2 DEF Program
    <3>. QED BY <3>3
  <2>4. \A f \in Field : Writes(i, f) => \A k \in Items(u) : ~Writes(k, f)
    BY <2>3
  <2>. QED BY <2>1, <2>4 DEF u, i
<1>. QED BY <1>1, <1>2, <1>4

\* What a program owes to a field is what the one instruction on it adds.
LEMMA DueOf ==
    ASSUME NEW t, NEW p, NEW r, Program(t, p, r), NEW f \in Field
    PROVE  /\ \A i \in Items(p) : i.op = "plus" /\ i.field = f =>
                 i.value % Modulus \in Nat /\ Due(p, f) = 1 .. (i.value % Modulus)
           /\ (\A i \in Items(p) : ~(i.op = "plus" /\ i.field = f)) => Due(p, f) = {}
<1>1. ASSUME NEW i \in Items(p), i.op = "plus", i.field = f
      PROVE  i.value % Modulus \in Nat /\ Due(p, f) = 1 .. (i.value % Modulus)
  <2>1. i.value % Modulus \in Nat
    <3>1. i.value \in Int
      BY ProgramItems, InstrTypes DEF Sound
    <3>2. i.value % Modulus \in Values
      BY <3>1, ModType
    <3>. QED BY <3>2, ValueTypes
  <2>2. \A k \in Items(p) : k.op = "plus" /\ k.field = f => k = i
    BY <1>1, ProgramItems DEF Writes, Writers
  <2>. QED BY <1>1, <2>1, <2>2 DEF Due
<1>2. (\A i \in Items(p) : ~(i.op = "plus" /\ i.field = f)) => Due(p, f) = {}
  BY DEF Due
<1>. QED BY <1>1, <1>2

\* By its program in b, and not in a, thread t owes n to a field.
Adds(a, b, t, f, n) ==
    /\ t \in Thread /\ n \in Nat
    /\ \A u \in Thread : u # t => a[u] = b[u]
    /\ Due(a[t], f) = {} /\ Due(b[t], f) = 1 .. n

LEMMA OwedChange ==
    ASSUME NEW a, NEW b, NEW t, NEW f, NEW n, Adds(a, b, t, f, n),
           IsFiniteSet(Owed(a, f)) \/ IsFiniteSet(Owed(b, f))
    PROVE  /\ IsFiniteSet(Owed(a, f)) /\ IsFiniteSet(Owed(b, f))
           /\ Cardinality(Owed(a, f)) \in Nat
           /\ Cardinality(Owed(b, f)) = Cardinality(Owed(a, f)) + n
<1>. DEFINE A == Owed(a, f)
            B == Owed(b, f)
            N == {t} \X (1 .. n)
<1>0. /\ t \in Thread /\ n \in Nat
      /\ \A u \in Thread : u # t => a[u] = b[u]
      /\ Due(a[t], f) = {} /\ Due(b[t], f) = 1 .. n
  BY DEF Adds
<1>1. B = A \cup N /\ A \cap N = {}
  <2>1. ASSUME NEW x \in Thread \X Nat PROVE (x \in B) = (x \in A \/ x \in N) /\ ~(x \in A /\ x \in N)
    <3>0. x[1] \in Thread /\ x[2] \in Nat /\ x = <<x[1], x[2]>>
      OBVIOUS
    <3>1. CASE x[1] = t
      <4>1. x \in A <=> FALSE
        BY <1>0, <3>1 DEF Owed
      <4>2. x \in B <=> x[2] \in 1 .. n
        BY <1>0, <3>1 DEF Owed
      <4>3. x \in N <=> x[2] \in 1 .. n
        BY <3>0, <3>1
      <4>. QED BY <4>1, <4>2, <4>3
    <3>2. CASE x[1] # t
      <4>1. x \in A <=> x \in B
        BY <1>0, <3>0, <3>2 DEF Owed
      <4>2. x \notin N
        BY <3>2
      <4>. QED BY <4>1, <4>2
    <3>. QED BY <3>1, <3>2
  <2>2. A \subseteq Thread \X Nat /\ B \subseteq Thread \X Nat /\ N \subseteq Thread \X Nat
    BY <1>0 DEF Owed
  <2>. HIDE DEF A, B, N
  <2>. QED BY <2>1, <2>2
<1>2. IsFiniteSet(N) /\ Cardinality(N) = n
  <2>1. IsFiniteSet({t}) /\ Cardinality({t}) = 1
    BY FS_Singleton
  <2>2. IsFiniteSet(1 .. n) /\ Cardinality(1 .. n) = n
    <3>1. /\ IsFiniteSet(1 .. n)
          /\ Cardinality(1 .. n) = IF 1 > n THEN 0 ELSE n - 1 + 1
      BY <1>0, FS_Interval
    <3>. QED BY <1>0, <3>1
  <2>3. IsFiniteSet(N) /\ Cardinality(N) = Cardinality({t}) * Cardinality(1 .. n)
    BY <2>1, <2>2, FS_Product, Zenon
  <2>. HIDE DEF N
  <2>. QED BY <1>0, <2>1, <2>2, <2>3
<1>. HIDE DEF A, B, N
<1>3. IsFiniteSet(A) /\ IsFiniteSet(B)
  <2>1. IsFiniteSet(A) \/ IsFiniteSet(B)
    BY DEF A, B
  <2>2. A \subseteq B
    BY <1>1
  <2>3. IsFiniteSet(A)
    BY <2>1, <2>2, FS_Subset
  <2>. QED BY <1>1, <1>2, <2>3, FS_Union
<1>4. Cardinality(A) \in Nat /\ Cardinality(B) \in Nat
  BY <1>3, FS_CardinalityType
<1>5. Cardinality(B) = Cardinality(A) + Cardinality(N) - Cardinality(A \cap N)
  BY <1>1, <1>2, <1>3, FS_Union
<1>6. Cardinality(A \cap N) = 0
  BY <1>1, FS_EmptySet
<1>7. Cardinality(B) = Cardinality(A) + n
  BY <1>0, <1>2, <1>4, <1>5, <1>6
<1>. QED BY <1>3, <1>4, <1>7 DEF A, B

LEMMA OwedSame ==
    ASSUME NEW a, NEW b, NEW f, \A u \in Thread : Due(a[u], f) = Due(b[u], f)
    PROVE  Owed(a, f) = Owed(b, f)
  BY DEF Owed

LEMMA OwedNothing ==
    ASSUME NEW a, NEW f, \A u \in Thread : Due(a[u], f) = {}
    PROVE  Owed(a, f) = {} /\ IsFiniteSet(Owed(a, f)) /\ Cardinality(Owed(a, f)) = 0
<1>1. Owed(a, f) = {}
  BY DEF Owed
<1>. QED BY <1>1, FS_EmptySet

LEMMA EveryItem ==
    ASSUME TypeInv, NEW t \in Thread
    PROVE  /\ \A i \in Items(todo[t]) : Sound(t, i, t \in resetting) /\ i \in Instruction
           /\ \A i, k \in Items(todo[t]), f \in Field : Writes(i, f) /\ Writes(k, f) => i = k
           /\ todo[t] = <<>> => Items(todo[t]) = {}
<1>1. Program(t, todo[t], t \in resetting)
  BY DEF TypeInv, Programs
<1>2. /\ \A i \in Items(todo[t]) : Sound(t, i, t \in resetting)
      /\ \A i, k \in Items(todo[t]), f \in Field : Writes(i, f) /\ Writes(k, f) => i = k
  BY <1>1, ProgramItems
<1>3. \A i \in Items(todo[t]) : i \in Instruction
  BY <1>2 DEF Sound
<1>4. todo[t] = <<>> => Items(todo[t]) = {}
  BY ItemsOf
<1>. QED BY <1>2, <1>3, <1>4

LEMMA DoneItems ==
    ASSUME TypeInv, NEW t \in Thread, Done(t)
    PROVE  LET i == Head(todo[t]) IN
           /\ i \in Items(todo[t]) /\ Sound(t, i, t \in resetting)
           /\ Items(todo[t]) = Items(todo'[t]) \cup {i}
           /\ \A f \in Field : Writes(i, f) => \A k \in Items(todo'[t]) : ~Writes(k, f)
           /\ \A f \in Field : stats'[f] = IF Writes(i, f) THEN Effect(i, stats[f]) ELSE stats[f]
           /\ \A u \in Thread : u # t => todo'[u] = todo[u]
           /\ resetting' \subseteq resetting
           /\ UNCHANGED <<calls, serial, torn>>
<1>. DEFINE p == todo[t]
            i == Head(p)
<1>1. /\ p # <<>> /\ Program(t, p, t \in resetting)
      /\ todo' = [todo EXCEPT ![t] = Tail(p)] /\ todo \in [Thread -> Seq(Instruction)]
      /\ resetting' = IF Tail(p) = <<>> THEN resetting \ {t} ELSE resetting
      /\ stats' = Whole(stats, i) /\ stats \in [Field -> Values]
      /\ UNCHANGED <<calls, serial, torn>>
  BY DEF TypeInv, Programs, TypeOK, Done
<1>. HIDE DEF p
<1>2. /\ Sound(t, i, t \in resetting) /\ Items(p) = Items(Tail(p)) \cup {i}
      /\ \A f \in Field : Writes(i, f) => \A k \in Items(Tail(p)) : ~Writes(k, f)
  BY <1>1, ProgramItems
<1>. HIDE DEF i
<1>3. todo'[t] = Tail(p) /\ \A u \in Thread : u # t => todo'[u] = todo[u]
  BY <1>1
<1>4. \A f \in Field : stats'[f] = IF Writes(i, f) THEN Effect(i, stats[f]) ELSE stats[f]
  BY <1>1, <1>2, WholeEffect
<1>. QED BY <1>1, <1>2, <1>3, <1>4 DEF p, i

LEMMA NotedItems ==
    ASSUME TypeInv, NEW t \in Thread, Noted(t)
    PROVE  LET i == Head(todo[t])
               k == [i EXCEPT !.seen = stats[i.field]]
               R == Items(Tail(todo[t]))
           IN  /\ Items(todo[t]) = R \cup {i} /\ Items(todo'[t]) = R \cup {k}
               /\ i \in Instruction /\ i.op \in {"lower", "raise", "divide"} /\ Needed(i, stats[i.field])
               /\ i.field \in Field
               /\ k.op = i.op /\ k.field = i.field /\ k.value = i.value
               /\ \A u \in Thread : u # t => todo'[u] = todo[u]
<1>. DEFINE p == todo[t]
            i == Head(p)
            k == [i EXCEPT !.seen = stats[i.field]]
<1>1. /\ p # <<>> /\ Program(t, p, t \in resetting)
      /\ todo' = [todo EXCEPT ![t] = <<k>> \o Tail(p)] /\ todo \in [Thread -> Seq(Instruction)]
      /\ i.op \in {"lower", "raise", "divide"} /\ Needed(i, stats[i.field])
  BY DEF TypeInv, Programs, TypeOK, Noted
<1>2. p \in Seq(Instruction) /\ i \in Instruction
  BY <1>1, HeadAndTail DEF Program
<1>3. i.field \in Field
  BY NotedType DEF i, p
<1>4. stats[i.field] \in Values
  BY <1>3 DEF TypeInv, TypeOK
<1>. HIDE DEF i, p
<1>5. k \in Instruction /\ k.op = i.op /\ k.field = i.field /\ k.value = i.value
  BY <1>2, <1>4 DEF Instruction
<1>6. Items(p) = Items(Tail(p)) \cup {i}
  BY <1>1, <1>2, ItemsOf DEF i
<1>. HIDE DEF k
<1>7. Items(<<k>> \o Tail(p)) = Items(Tail(p)) \cup {k}
  BY <1>1, <1>2, <1>5, ItemsOf
<1>8. todo'[t] = <<k>> \o Tail(p) /\ \A u \in Thread : u # t => todo'[u] = todo[u]
  BY <1>1
<1>. QED BY <1>1, <1>2, <1>3, <1>5, <1>6, <1>7, <1>8 DEF p, i, k

\* What the threads owe after the step of one of them.
LEMMA OwedDone ==
    ASSUME TypeInv, TypeInv', NEW t \in Thread, Done(t), NEW f \in Field, IsFiniteSet(Owed(todo, f))
    PROVE  LET i == Head(todo[t]) IN
           /\ IsFiniteSet(Owed(todo', f))
           /\ Cardinality(Owed(todo', f)) \in Nat
           /\ IF i.op = "plus" /\ i.field = f
              THEN /\ i.value % Modulus \in Nat
                   /\ Cardinality(Owed(todo, f)) = Cardinality(Owed(todo', f)) + (i.value % Modulus)
              ELSE Owed(todo', f) = Owed(todo, f)
<1>. DEFINE i == Head(todo[t])
<1>1. /\ i \in Items(todo[t]) /\ Items(todo[t]) = Items(todo'[t]) \cup {i}
      /\ Writes(i, f) => \A k \in Items(todo'[t]) : ~Writes(k, f)
      /\ \A u \in Thread : u # t => todo'[u] = todo[u]
  BY DoneItems
<1>. HIDE DEF i
<1>2. Program(t, todo[t], t \in resetting) /\ Program(t, todo'[t], t \in resetting')
  BY DEF TypeInv, Programs
<1>3. CASE i.op = "plus" /\ i.field = f
  <2>1. i.value % Modulus \in Nat /\ Due(todo[t], f) = 1 .. (i.value % Modulus)
    BY <1>1, <1>2, <1>3, DueOf
  <2>2. Due(todo'[t], f) = {}
    <3>1. \A k \in Items(todo'[t]) : ~(k.op = "plus" /\ k.field = f)
      BY <1>1, <1>3 DEF Writes, Writers
    <3>. QED BY <3>1 DEF Due
  <2>. DEFINE n == i.value % Modulus
              a == todo'
              b == todo
  <2>4. n \in Nat /\ Adds(a, b, t, f, n)
    BY <1>1, <2>1, <2>2 DEF Adds
  <2>. HIDE DEF n, a, b
  <2>5. IsFiniteSet(Owed(a, f)) \/ IsFiniteSet(Owed(b, f))
    BY DEF b
  <2>6. /\ IsFiniteSet(Owed(a, f)) /\ Cardinality(Owed(a, f)) \in Nat
        /\ Cardinality(Owed(b, f)) = Cardinality(Owed(a, f)) + n
    BY <2>4, <2>5, OwedChange
  <2>. QED BY <1>3, <2>4, <2>6 DEF n, a, b, i
<1>4. CASE ~(i.op = "plus" /\ i.field = f)
  <2>1. \A u \in Thread : Due(todo'[u], f) = Due(todo[u], f)
    <3>1. Due(todo'[t], f) = Due(todo[t], f)
      BY <1>1, <1>4 DEF Due
    <3>. QED BY <1>1, <3>1
  <2>2. Owed(todo', f) = Owed(todo, f)
    BY <2>1, OwedSame
  <2>3. Cardinality(Owed(todo', f)) \in Nat
    BY <2>2, FS_CardinalityType
  <2>. QED BY <1>4, <2>2, <2>3 DEF i
<1>. QED BY <1>3, <1>4

LEMMA OwedNoted ==
    ASSUME TypeInv, NEW t \in Thread, Noted(t), NEW f \in Field
    PROVE  Owed(todo', f) = Owed(todo, f)
<1>. DEFINE i == Head(todo[t])
            k == [i EXCEPT !.seen = stats[i.field]]
            R == Items(Tail(todo[t]))
<1>1. /\ Items(todo[t]) = R \cup {i} /\ Items(todo'[t]) = R \cup {k}
      /\ i.op \in {"lower", "raise", "divide"} /\ k.op = i.op
      /\ \A u \in Thread : u # t => todo'[u] = todo[u]
  BY NotedItems
<1>. HIDE DEF i, k, R
<1>2. Due(todo'[t], f) = Due(todo[t], f)
  BY <1>1 DEF Due
<1>3. \A u \in Thread : Due(todo'[u], f) = Due(todo[u], f)
  BY <1>1, <1>2
<1>. QED BY <1>3, OwedSame

LEMMA OwedCalled ==
    ASSUME TypeInv, NEW t \in Thread, NEW p, NEW r, Program(t, p, r), Call(t, p),
           NEW f \in Field, IsFiniteSet(Owed(todo, f))
    PROVE  /\ IsFiniteSet(Owed(todo', f))
           /\ Cardinality(Owed(todo', f)) \in Nat /\ Cardinality(Owed(todo, f)) \in Nat
           /\ \A i \in Items(p) : i.op = "plus" /\ i.field = f =>
                 /\ i.value % Modulus \in Nat
                 /\ Cardinality(Owed(todo', f)) = Cardinality(Owed(todo, f)) + (i.value % Modulus)
           /\ (\A i \in Items(p) : ~(i.op = "plus" /\ i.field = f)) => Owed(todo', f) = Owed(todo, f)
<1>1. /\ todo[t] = <<>> /\ todo' = [todo EXCEPT ![t] = p]
      /\ todo \in [Thread -> Seq(Instruction)]
  BY DEF Call, Busy, TypeInv, TypeOK
<1>2. todo'[t] = p /\ \A u \in Thread : u # t => todo'[u] = todo[u]
  BY <1>1
<1>3. Due(todo[t], f) = {}
  BY <1>1, ItemsOf DEF Due
<1>. DEFINE a == todo
            b == todo'
<1>4. \A u \in Thread : u # t => a[u] = b[u]
  BY <1>2
<1>5. Due(a[t], f) = {} /\ b[t] = p
  BY <1>2, <1>3
<1>6. IsFiniteSet(Owed(a, f)) \/ IsFiniteSet(Owed(b, f))
  OBVIOUS
<1>. HIDE DEF a, b
<1>7. ASSUME NEW i \in Items(p), i.op = "plus", i.field = f
      PROVE  /\ IsFiniteSet(Owed(b, f)) /\ Cardinality(Owed(b, f)) \in Nat /\ Cardinality(Owed(a, f)) \in Nat
             /\ i.value % Modulus \in Nat
             /\ Cardinality(Owed(b, f)) = Cardinality(Owed(a, f)) + (i.value % Modulus)
  <2>. DEFINE n == i.value % Modulus
  <2>0. n \in Nat /\ Due(b[t], f) = 1 .. n
    BY <1>5, <1>7, DueOf
  <2>1. n \in Nat /\ Adds(a, b, t, f, n)
    BY <1>4, <1>5, <2>0 DEF Adds
  <2>. HIDE DEF n
  <2>2. /\ IsFiniteSet(Owed(b, f)) /\ Cardinality(Owed(a, f)) \in Nat
        /\ Cardinality(Owed(b, f)) = Cardinality(Owed(a, f)) + n
    BY <1>6, <2>1, OwedChange
  <2>3. Cardinality(Owed(b, f)) \in Nat
    BY <2>1, <2>2
  <2>. QED BY <2>1, <2>2, <2>3 DEF n
<1>8. ASSUME \A i \in Items(p) : ~(i.op = "plus" /\ i.field = f)
      PROVE  /\ IsFiniteSet(Owed(b, f)) /\ Cardinality(Owed(b, f)) \in Nat /\ Cardinality(Owed(a, f)) \in Nat
             /\ Owed(b, f) = Owed(a, f)
  <2>1. Due(b[t], f) = {}
    BY <1>5, <1>8 DEF Due
  <2>2. Owed(a, f) = Owed(b, f)
    <3>1. \A u \in Thread : Due(a[u], f) = Due(b[u], f)
      BY <1>4, <1>5, <2>1
    <3>. QED BY <3>1, OwedSame
  <2>3. Cardinality(Owed(a, f)) \in Nat
    BY FS_CardinalityType DEF a
  <2>4. IsFiniteSet(Owed(a, f))
    BY DEF a
  <2>. QED BY <2>2, <2>3, <2>4
<1>. QED BY <1>7, <1>8 DEF a, b

-----------------------------------------------------------------------------
(* Divisions                                                                *)

\* A reset that has met no other call is alone.
Alone == ~torn => \A r \in resetting, u \in Thread : u # r => todo[u] = <<>>

\* What is owed can be counted.
Payable == \A f \in Field : IsFiniteSet(Owed(todo, f))

\* The counters that are divided by count calls: they do not wrap around.
Bounded == \A f \in Counts : stats[f] + Cardinality(Owed(todo, f)) <= calls

\* What was looked at before the division is still not zero.
Divisors ==
    ~torn => \A t \in Thread : \A i \in Items(todo[t]) :
                 i.op = "divide" /\ i.seen # NotRead => stats[i.field] # 0

CountInv == Alone /\ Payable /\ Bounded
TrapInv  == TypeInv /\ CountInv /\ Divisors /\ TrapsOnlyUnderReset

\* Who stores something has the process to himself, if no reset met a call.
LEMMA StoreAlone ==
    ASSUME TypeInv, Alone, ~torn, NEW t \in Thread, NEW i \in Items(todo[t]),
           i.op = "store", i.field # "scheduler_uptime"
    PROVE  /\ t \in resetting
           /\ \A u \in Thread : \A k \in Items(todo[u]) : u = t /\ k.op \in {"store", "clear"}
<1>1. Sound(t, i, t \in resetting)
  BY EveryItem
<1>2. t \in resetting
  BY <1>1 DEF Sound
<1>3. ASSUME NEW u \in Thread, NEW k \in Items(todo[u]) PROVE u = t /\ k.op \in {"store", "clear"}
  <2>1. u = t
    <3>1. CASE u # t
      <4>1. todo[u] = <<>>
        BY <1>2, <3>1 DEF Alone
      <4>. QED BY <4>1, EveryItem
    <3>. QED BY <3>1
  <2>2. Sound(u, k, u \in resetting)
    BY EveryItem
  <2>. QED BY <1>2, <2>1, <2>2 DEF Sound
<1>. QED BY <1>2, <1>3

LEMMA AloneKept ==
    ASSUME TypeInv, TypeInv', Alone, NEW t \in Thread,
           Ordinary(t) \/ (t \in Request /\ ResetAllStats(t)) \/ Done(t) \/ Noted(t)
    PROVE  Alone'
<1>1. CASE Ordinary(t)
  <2>1. torn' = (torn \/ resetting # {}) /\ resetting' = resetting
    BY <1>1 DEF Ordinary, Update
  <2>. QED BY <2>1 DEF Alone
<1>2. CASE t \in Request /\ ResetAllStats(t)
  <2>1. /\ torn' = Others(t) /\ resetting' = resetting \cup {t}
        /\ todo' = [todo EXCEPT ![t] = Everything] /\ todo[t] = <<>>
    BY <1>2 DEF ResetAllStats, Call, Everything, Busy
  <2>2. /\ todo \in [Thread -> Seq(Instruction)]
        /\ resetting \in SUBSET {u \in Request : todo[u] # <<>>} /\ Request \subseteq Thread
    BY DEF TypeInv, TypeOK, Thread
  <2>3. ASSUME ~torn' PROVE \A r \in resetting', u \in Thread : u # r => todo'[u] = <<>>
    <3>1. \A u \in Thread : u # t => todo[u] = <<>>
      BY <2>1, <2>3 DEF Others, Busy
    <3>2. resetting' = {t}
      BY <2>1, <2>2, <3>1
    <3>. QED BY <2>1, <2>2, <3>1, <3>2
  <2>. QED BY <2>3 DEF Alone
<1>3. CASE Done(t)
  <2>1. /\ torn' = torn /\ resetting' \subseteq resetting
        /\ todo[t] # <<>> /\ \A u \in Thread : u # t => todo'[u] = todo[u]
    BY <1>3, DoneItems DEF Done
  <2>2. ASSUME ~torn, NEW r \in resetting', NEW u \in Thread, u # r PROVE todo'[u] = <<>>
    <3>1. todo[u] = <<>>
      BY <2>1, <2>2 DEF Alone
    <3>. QED BY <2>1, <3>1
  <2>. QED BY <2>1, <2>2 DEF Alone
<1>4. CASE Noted(t)
  <2>1. /\ torn' = torn /\ resetting' = resetting
        /\ todo[t] # <<>> /\ \A u \in Thread : u # t => todo'[u] = todo[u]
    BY <1>4, NotedItems DEF Noted
  <2>. QED BY <2>1 DEF Alone
<1>. QED BY <1>1, <1>2, <1>3, <1>4

\* A field that is counted has room for what it is owed.
LEMMA CountRoom ==
    ASSUME MaxCalls < Modulus, TypeInv, CountInv, NEW f \in Counts
    PROVE  /\ f \in Field /\ stats[f] \in Nat /\ calls \in Nat /\ calls < Modulus /\ Modulus \in Nat
           /\ Cardinality(Owed(todo, f)) \in Nat /\ IsFiniteSet(Owed(todo, f))
           /\ stats[f] + Cardinality(Owed(todo, f)) <= calls
<1>1. f \in Field
  BY FieldsNamed DEF Counts
<1>2. stats[f] \in Nat /\ Modulus \in Nat
  BY <1>1, ValueTypes DEF TypeInv, TypeOK
<1>3. calls \in Nat /\ calls < Modulus
  <2>1. calls \in 0 .. MaxCalls /\ MaxCalls \in Nat
    BY StatsAssumption DEF TypeInv, TypeOK
  <2>. QED BY <1>2, <2>1
<1>4. IsFiniteSet(Owed(todo, f))
  BY <1>1 DEF CountInv, Payable
<1>5. Cardinality(Owed(todo, f)) \in Nat
  BY <1>4, FS_CardinalityType
<1>. QED BY <1>1, <1>2, <1>3, <1>4, <1>5 DEF CountInv, Bounded

LEMMA PayableKept ==
    ASSUME TypeInv, TypeInv', Payable, NEW t \in Thread,
           \/ \E p, r : Program(t, p, r) /\ Call(t, p)
           \/ Done(t) \/ Noted(t)
    PROVE  Payable'
<1>1. ASSUME NEW f \in Field PROVE IsFiniteSet(Owed(todo', f))
  <2>1. IsFiniteSet(Owed(todo, f))
    BY DEF Payable
  <2>2. CASE \E p, r : Program(t, p, r) /\ Call(t, p)
    BY <2>1, <2>2, OwedCalled
  <2>3. CASE Done(t)
    BY <2>1, <2>3, OwedDone
  <2>4. CASE Noted(t)
    <3>1. Owed(todo', f) = Owed(todo, f)
      BY <2>4, OwedNoted
    <3>. QED BY <2>1, <3>1
  <2>. QED BY <2>2, <2>3, <2>4
<1>. QED BY <1>1 DEF Payable

LEMMA OneMod == 1 % Modulus = 1 /\ 0 % Modulus = 0
  BY ModSmall, ValueTypes

\* What a step does to a counter that counts calls: it can become zero only by a store.
LEMMA CountStep ==
    ASSUME MaxCalls < Modulus, TypeInv, TypeInv', CountInv, NEW t \in Thread, Done(t), NEW f \in Counts
    PROVE  LET i == Head(todo[t]) IN
           /\ stats'[f] + Cardinality(Owed(todo', f)) <= calls'
           /\ stats'[f] = 0 /\ stats[f] # 0 => i.op = "store" /\ i.field = f
<1>. DEFINE i == Head(todo[t])
            s == stats[f]
            c == Cardinality(Owed(todo, f))
            d == Cardinality(Owed(todo', f))
<1>1. /\ f \in Field /\ s \in Nat /\ calls \in Nat /\ calls < Modulus /\ Modulus \in Nat
      /\ c \in Nat /\ s + c <= calls /\ IsFiniteSet(Owed(todo, f))
  BY CountRoom
<1>2. /\ Sound(t, i, t \in resetting)
      /\ stats'[f] = IF Writes(i, f) THEN Effect(i, s) ELSE s
      /\ calls' = calls
  BY <1>1, DoneItems
<1>3. /\ d \in Nat
      /\ IF i.op = "plus" /\ i.field = f THEN c = d + (i.value % Modulus) ELSE d = c
  BY <1>1, OwedDone
<1>. HIDE DEF i, s, c, d
<1>4. CASE i.op = "plus" /\ i.field = f
  <2>1. i.value = 1 /\ c = d + 1
    BY <1>2, <1>3, <1>4, OneMod DEF Sound
  <2>2. Writes(i, f) /\ Effect(i, s) = (s + 1) % Modulus
    BY <1>4, <2>1 DEF Writes, Writers, Effect
  <2>3. s + 1 \in Values
    BY <1>1, <1>3, <2>1 DEF Values
  <2>4. stats'[f] = s + 1
    BY <1>2, <2>2, <2>3, ModSmall
  <2>. QED BY <1>1, <1>2, <1>3, <2>1, <2>4 DEF i, s, c, d
<1>5. CASE ~(i.op = "plus" /\ i.field = f)
  <2>1. CASE Writes(i, f)
    <3>1. i.op = "store" /\ i.field = f
      BY <1>2, <1>5, <2>1 DEF Writes, Writers, Sound, Counts
    <3>2. i.value = 0
      BY <1>2, <3>1 DEF Sound, Counts, InitialValue
    <3>3. stats'[f] = 0
      BY <1>2, <2>1, <3>1, <3>2 DEF Effect
    <3>. QED BY <1>1, <1>2, <1>3, <1>5, <3>1, <3>3 DEF i, s, c, d
  <2>2. CASE ~Writes(i, f)
    <3>1. stats'[f] = s
      BY <1>2, <2>2
    <3>. QED BY <1>1, <1>2, <1>3, <1>5, <3>1 DEF i, s, c, d
  <2>. QED BY <2>1, <2>2
<1>. QED BY <1>4, <1>5

LEMMA BoundedKept ==
    ASSUME MaxCalls < Modulus, TypeInv, TypeInv', CountInv, NEW t \in Thread,
           \/ \E p, r : Program(t, p, r) /\ Call(t, p)
           \/ Done(t) \/ Noted(t)
    PROVE  Bounded'
<1>1. ASSUME NEW f \in Counts PROVE stats'[f] + Cardinality(Owed(todo', f)) <= calls'
  <2>1. CASE Done(t)
    BY <2>1, CountStep
  <2>2. CASE Noted(t)
    <3>1. Owed(todo', f) = Owed(todo, f) /\ f \in Field
      BY <2>2, OwedNoted, CountRoom
    <3>2. stats' = stats /\ calls' = calls
      BY <2>2 DEF Noted
    <3>. QED BY <3>1, <3>2 DEF CountInv, Bounded
  <2>3. CASE \E p, r : Program(t, p, r) /\ Call(t, p)
    <3>1. PICK p, r : Program(t, p, r) /\ Call(t, p)
      BY <2>3
    <3>. DEFINE s == stats[f]
                c == Cardinality(Owed(todo, f))
                d == Cardinality(Owed(todo', f))
    <3>2. /\ f \in Field /\ s \in Nat /\ calls \in Nat /\ c \in Nat /\ s + c <= calls
          /\ IsFiniteSet(Owed(todo, f))
      BY CountRoom
    <3>3. stats'[f] = s /\ calls' = calls + 1
      BY <3>1 DEF Call
    <3>4. d \in Nat /\ (d = c \/ d = c + 1)
      <4>1. CASE \E i \in Items(p) : i.op = "plus" /\ i.field = f
        <5>1. PICK i \in Items(p) : i.op = "plus" /\ i.field = f
          BY <4>1
        <5>2. i.value = 1
          BY <3>1, <5>1, ProgramItems DEF Sound
        <5>3. d \in Nat /\ d = c + (i.value % Modulus)
          BY <3>1, <3>2, <5>1, OwedCalled
        <5>. QED BY <5>2, <5>3, OneMod
      <4>2. CASE \A i \in Items(p) : ~(i.op = "plus" /\ i.field = f)
        BY <3>1, <3>2, <4>2, OwedCalled
      <4>. QED BY <4>1, <4>2
    <3>. HIDE DEF s, c, d
    <3>5. s + d <= calls + 1
      BY <3>2, <3>4
    <3>. QED BY <3>3, <3>5 DEF d
  <2>. QED BY <2>1, <2>2, <2>3
<1>. QED BY <1>1 DEF Bounded

\* The shapes of a call.
LEMMA CallShape ==
    ASSUME TypeInv, NEW t \in Thread
    PROVE  /\ \A p, r : Program(t, p, r) /\ Call(t, p) =>
                 /\ todo[t] = <<>> /\ todo'[t] = p /\ \A u \in Thread : u # t => todo'[u] = todo[u]
                 /\ ~trapped /\ calls' = calls + 1 /\ serial' = AtOnce(serial, p)
                 /\ UNCHANGED <<stats, executors, trapped>>
           /\ Ordinary(t) => \E p : /\ Program(t, p, FALSE) /\ Call(t, p) /\ Unread(p)
                                    /\ torn' = (torn \/ resetting # {}) /\ resetting' = resetting
           /\ ResetAllStats(t) => /\ Program(t, Everything, TRUE) /\ Call(t, Everything)
                                  /\ torn' = Others(t) /\ resetting' = resetting \cup {t}
<1>1. ASSUME NEW p, NEW r, Program(t, p, r), Call(t, p)
      PROVE  todo[t] = <<>> /\ todo'[t] = p /\ \A u \in Thread : u # t => todo'[u] = todo[u]
  <2>1. todo \in [Thread -> Seq(Instruction)]
    BY DEF TypeInv, TypeOK
  <2>2. todo[t] = <<>> /\ todo' = [todo EXCEPT ![t] = p]
    BY <1>1 DEF Call, Busy
  <2>. QED BY <2>1, <2>2
<1>2. \A p : Call(t, p) => /\ ~trapped /\ calls' = calls + 1 /\ serial' = AtOnce(serial, p)
                           /\ UNCHANGED <<stats, executors, trapped>>
  BY DEF Call
<1>3. Ordinary(t) => \E p : /\ Program(t, p, FALSE) /\ Call(t, p) /\ Unread(p)
                            /\ torn' = (torn \/ resetting # {}) /\ resetting' = resetting
  BY DEF Ordinary, Update
<1>4. ResetAllStats(t) => /\ Program(t, Everything, TRUE) /\ Call(t, Everything)
                          /\ torn' = Others(t) /\ resetting' = resetting \cup {t}
  BY ResetProgram DEF ResetAllStats, Everything
<1>. QED BY <1>1, <1>2, <1>3, <1>4

LEMMA DivisorsKept ==
    ASSUME MaxCalls < Modulus, TypeInv, TypeInv', CountInv, Divisors, NEW t \in Thread,
           Ordinary(t) \/ (t \in Request /\ ResetAllStats(t)) \/ Done(t) \/ Noted(t)
    PROVE  Divisors'
<1>1. CASE Ordinary(t)
  <2>1. PICK p : /\ Program(t, p, FALSE) /\ Call(t, p) /\ Unread(p)
                 /\ torn' = (torn \/ resetting # {}) /\ resetting' = resetting
    BY <1>1, CallShape
  <2>2. todo'[t] = p /\ (\A u \in Thread : u # t => todo'[u] = todo[u]) /\ stats' = stats
    BY <2>1, CallShape
  <2>3. \A i \in Items(p) : i.seen = NotRead
    BY <2>1 DEF Items, Unread
  <2>4. ASSUME ~torn', NEW u \in Thread, NEW i \in Items(todo'[u]), i.op = "divide", i.seen # NotRead
        PROVE  stats'[i.field] # 0
    <3>1. u # t
      BY <2>2, <2>3, <2>4
    <3>2. i \in Items(todo[u]) /\ ~torn
      BY <2>1, <2>2, <2>4, <3>1
    <3>. QED BY <2>2, <2>4, <3>2 DEF Divisors
  <2>. QED BY <2>4 DEF Divisors
<1>2. CASE t \in Request /\ ResetAllStats(t)
  <2>1. /\ Program(t, Everything, TRUE) /\ Call(t, Everything) /\ torn' = Others(t)
    BY <1>2, CallShape
  <2>2. todo'[t] = Everything /\ \A u \in Thread : u # t => todo'[u] = todo[u]
    BY <2>1, CallShape
  <2>3. ASSUME ~torn', NEW u \in Thread, NEW i \in Items(todo'[u]), i.op = "divide"
        PROVE  FALSE
    <3>1. CASE u = t
      <4>1. Sound(t, i, TRUE)
        BY <2>1, <2>2, <2>3, <3>1, ProgramItems
      <4>. QED BY <2>3, <4>1 DEF Sound
    <3>2. CASE u # t
      <4>1. todo[u] = <<>>
        BY <2>1, <2>3, <3>2 DEF Others, Busy
      <4>. QED BY <2>2, <2>3, <3>2, <4>1, ItemsOf
    <3>. QED BY <3>1, <3>2
  <2>. QED BY <2>3 DEF Divisors
<1>3. CASE Done(t)
  <2>1. /\ Items(todo'[t]) \subseteq Items(todo[t]) /\ torn' = torn
        /\ Head(todo[t]) \in Items(todo[t])
        /\ \A u \in Thread : u # t => todo'[u] = todo[u]
    BY <1>3, DoneItems
  <2>2. ASSUME ~torn', NEW u \in Thread, NEW i \in Items(todo'[u]), i.op = "divide", i.seen # NotRead
        PROVE  stats'[i.field] # 0
    <3>1. i \in Items(todo[u]) /\ ~torn
      BY <2>1, <2>2
    <3>2. stats[i.field] # 0
      BY <2>2, <3>1 DEF Divisors
    <3>3. i.field \in Counts
      BY <2>2, <3>1, EveryItem DEF Sound
    <3>4. ASSUME stats'[i.field] = 0 PROVE FALSE
      <4>. DEFINE k == Head(todo[t])
      <4>1. k.op = "store" /\ k.field = i.field /\ k \in Items(todo[t])
        BY <1>3, <2>1, <3>2, <3>3, <3>4, CountStep
      <4>2. k.field # "scheduler_uptime"
        BY <3>3, <4>1 DEF Counts
      <4>. HIDE DEF k
      <4>3. i.op \in {"store", "clear"}
        BY <3>1, <4>1, <4>2, StoreAlone DEF CountInv
      <4>. QED BY <2>2, <4>3
    <3>. QED BY <3>4
  <2>. QED BY <2>2 DEF Divisors
<1>4. CASE Noted(t)
  <2>. DEFINE i == Head(todo[t])
              k == [i EXCEPT !.seen = stats[i.field]]
              R == Items(Tail(todo[t]))
  <2>1. /\ Items(todo[t]) = R \cup {i} /\ Items(todo'[t]) = R \cup {k}
        /\ i.field \in Field /\ Needed(i, stats[i.field]) /\ k.op = i.op /\ k.field = i.field
        /\ \A u \in Thread : u # t => todo'[u] = todo[u]
    BY <1>4, NotedItems
  <2>2. stats' = stats /\ torn' = torn
    BY <1>4 DEF Noted
  <2>. HIDE DEF i, k, R
  <2>3. k.op = "divide" => stats[k.field] # 0
    <3>1. stats[i.field] \in Nat
      BY <2>1, ValueTypes DEF TypeInv, TypeOK
    <3>. QED BY <2>1, <3>1 DEF Needed
  <2>4. ASSUME ~torn', NEW u \in Thread, NEW m \in Items(todo'[u]), m.op = "divide", m.seen # NotRead
        PROVE  stats'[m.field] # 0
    <3>1. CASE u = t /\ m = k
      BY <2>2, <2>3, <2>4, <3>1
    <3>2. CASE ~(u = t /\ m = k)
      <4>1. m \in Items(todo[u])
        BY <2>1, <2>4, <3>2
      <4>. QED BY <2>2, <2>4, <4>1 DEF Divisors
    <3>. QED BY <3>1, <3>2
  <2>. QED BY <2>4 DEF Divisors
<1>. QED BY <1>1, <1>2, <1>3, <1>4

LEMMA TrapsKept ==
    ASSUME TypeInv, Divisors, TrapsOnlyUnderReset, NEW t \in Thread,
           Ordinary(t) \/ (t \in Request /\ ResetAllStats(t)) \/ Done(t) \/ Noted(t)
    PROVE  TrapsOnlyUnderReset'
<1>1. CASE Ordinary(t) \/ ResetAllStats(t)
  <2>1. trapped' = trapped /\ ~trapped
    BY <1>1, CallShape
  <2>. QED BY <2>1 DEF TrapsOnlyUnderReset
<1>2. CASE Done(t)
  <2>. DEFINE i == Head(todo[t])
  <2>1. i \in Items(todo[t]) /\ torn' = torn
    BY <1>2, DoneItems
  <2>2. trapped' => i.op = "divide" /\ i.seen # NotRead /\ stats[i.field] = 0
    BY <1>2 DEF Done
  <2>. HIDE DEF i
  <2>. QED BY <2>1, <2>2 DEF TrapsOnlyUnderReset, Divisors
<1>3. CASE Noted(t)
  BY <1>3 DEF Noted, TrapsOnlyUnderReset
<1>. QED BY <1>1, <1>2, <1>3

LEMMA StepOne ==
    ASSUME TypeInv, Next
    PROVE  /\ TypeInv'
           /\ \E t \in Thread : Ordinary(t) \/ (t \in Request /\ ResetAllStats(t)) \/ Done(t) \/ Noted(t)
<1>1. Request \subseteq Thread
  BY DEF Thread
<1>2. \E t \in Thread : Ordinary(t) \/ (t \in Request /\ ResetAllStats(t)) \/ Done(t) \/ Noted(t)
  BY <1>1, StepKinds, StepShape
<1>3. TypeInv'
  BY <1>2, OrdinaryType, ResetType, DoneType, NotedType
<1>. QED BY <1>2, <1>3

LEMMA IdleAtFirst ==
    ASSUME Init
    PROVE  /\ TypeInv /\ Alone /\ Payable
           /\ \A f : Owed(todo, f) = {} /\ Cardinality(Owed(todo, f)) = 0
           /\ \A t \in Thread : Items(todo[t]) = {}
<1>1. \A t \in Thread : todo[t] = <<>>
  BY DEF Init
<1>2. \A t \in Thread : Items(todo[t]) = {}
  BY <1>1, ItemsOf
<1>3. \A f : \A t \in Thread : Due(todo[t], f) = {}
  BY <1>2 DEF Due
<1>4. \A f : /\ Owed(todo, f) = {} /\ IsFiniteSet(Owed(todo, f)) /\ Cardinality(Owed(todo, f)) = 0
  BY <1>3, OwedNothing
<1>5. Alone
  BY DEF Init, Alone
<1>. QED BY <1>2, <1>4, <1>5, TypeInvInit DEF Payable

LEMMA TrapInvInit == Init => TrapInv
<1>. SUFFICES ASSUME Init PROVE TrapInv
  OBVIOUS
<1>1. Bounded
  <2>1. \A f \in Counts : f \in Field /\ stats[f] = 0 /\ calls = 0
    BY FieldsNamed DEF Init, Cleared, InitialValue, Counts
  <2>. QED BY <2>1, IdleAtFirst DEF Bounded
<1>2. Divisors
  BY IdleAtFirst DEF Divisors
<1>3. TrapsOnlyUnderReset
  BY DEF Init, TrapsOnlyUnderReset
<1>. QED BY <1>1, <1>2, <1>3, IdleAtFirst DEF TrapInv, CountInv

LEMMA TrapInvStep == ASSUME MaxCalls < Modulus, TrapInv, [Next]_vars PROVE TrapInv'
<1>1. CASE Next
  <2>1. TypeInv /\ CountInv /\ Alone /\ Payable /\ Divisors /\ TrapsOnlyUnderReset
    BY DEF TrapInv, CountInv
  <2>2. /\ TypeInv'
        /\ \E t \in Thread : Ordinary(t) \/ (t \in Request /\ ResetAllStats(t)) \/ Done(t) \/ Noted(t)
    BY <1>1, <2>1, StepOne
  <2>3. PICK t \in Thread : Ordinary(t) \/ (t \in Request /\ ResetAllStats(t)) \/ Done(t) \/ Noted(t)
    BY <2>2
  <2>4. (\E p, r : Program(t, p, r) /\ Call(t, p)) \/ Done(t) \/ Noted(t)
    BY <2>1, <2>3, CallShape
  <2>5. Alone'
    BY <2>1, <2>2, <2>3, AloneKept
  <2>6. Payable'
    BY <2>1, <2>2, <2>4, PayableKept
  <2>7. Bounded'
    BY <2>1, <2>2, <2>4, BoundedKept
  <2>8. Divisors'
    BY <2>1, <2>2, <2>3, DivisorsKept
  <2>9. TrapsOnlyUnderReset'
    BY <2>1, <2>3, TrapsKept
  <2>. QED BY <2>2, <2>5, <2>6, <2>7, <2>8, <2>9 DEF TrapInv, CountInv
<1>2. CASE UNCHANGED vars
  <2>1. TypeInv'
    BY <1>2, UnchangedType DEF TrapInv
  <2>2. UNCHANGED <<stats, todo, calls, resetting, trapped, torn>>
    BY <1>2 DEF vars
  <2>3. CountInv' /\ Divisors' /\ TrapsOnlyUnderReset'
    BY <2>2 DEF TrapInv, CountInv, Alone, Payable, Bounded, Divisors, TrapsOnlyUnderReset
  <2>. QED BY <2>1, <2>3 DEF TrapInv
<1>. QED BY <1>1, <1>2

(* A request for the statistics divides by zero only if it met a reset: as   *)
(* long as there are fewer calls than a counter has values, the number that  *)
(* an average divides by, once it is not zero, becomes zero by a reset only. *)
THEOREM DivisionSafe ==
    ASSUME MaxCalls < Modulus
    PROVE  Spec => []TrapsOnlyUnderReset
<1>1. TrapInv => TrapsOnlyUnderReset
  BY DEF TrapInv
<1>2. TrapInv /\ [Next]_vars => TrapInv'
  BY TrapInvStep
<1>. QED BY <1>1, <1>2, TrapInvInit, PTL DEF Spec

-----------------------------------------------------------------------------
(* No update is lost                                                        *)

Storing(a, f) == \E t \in Thread : \E i \in Items(a[t]) : i.op = "store" /\ i.field = f
Written(a, f) == \E t \in Thread : \E i \in Items(a[t]) : Writes(i, f)

\* A counter is what it would be, but for what is owed to it, or for the
\* instruction that will still write it.
Adding(f) ==
    serial[f] = IF Storing(todo, f) THEN 0
                ELSE (stats[f] + Cardinality(Owed(todo, f))) % Modulus
Settled(f) ==
    /\ \A t \in Thread : \A i \in Items(todo[t]) : Writes(i, f) => serial[f] = Effect(i, stats[f])
    /\ ~Written(todo, f) => serial[f] = stats[f]
Matches ==
    ~torn => /\ \A f \in Field \ Measured : Adding(f)
             /\ \A f \in Measured : Settled(f)

SerialInv == TypeInv /\ Alone /\ Payable /\ Matches

\* Only one thread writes a minimum, a maximum or the uptime, but for resets.
LEMMA OneWriter ==
    ASSUME NEW f \in Measured, NEW t, NEW u, NEW i, NEW k,
           Sound(t, i, FALSE), Sound(u, k, FALSE), Writes(i, f), Writes(k, f)
    PROVE  t = u
  BY DEF Sound, Writes, Writers, Measured

LEMMA MeasuredOwner ==
    ASSUME TypeInv, Alone, ~torn, NEW f \in Measured, NEW t \in Thread, NEW u \in Thread,
           NEW i \in Items(todo[t]), NEW k \in Items(todo[u]), Writes(i, f), Writes(k, f)
    PROVE  t = u
<1>1. Sound(t, i, t \in resetting) /\ Sound(u, k, u \in resetting)
  BY EveryItem
<1>2. todo[t] # <<>> /\ todo[u] # <<>>
  BY EveryItem
<1>3. CASE t \in resetting \/ u \in resetting
  BY <1>2, <1>3 DEF Alone
<1>4. CASE ~(t \in resetting \/ u \in resetting)
  <2>1. Sound(t, i, FALSE) /\ Sound(u, k, FALSE)
    BY <1>1, <1>4 DEF Sound
  <2>2. \A a, b, m, n : Sound(a, m, FALSE) /\ Sound(b, n, FALSE) /\ Writes(m, f) /\ Writes(n, f) => a = b
    BY OneWriter
  <2>. QED BY <2>1, <2>2, Zenon
<1>. QED BY <1>3, <1>4

\* What a call would do at once, item by item.
LEMMA SerialCall ==
    ASSUME TypeInv, NEW t, NEW p, NEW r, Program(t, p, r), NEW f \in Field
    PROVE  /\ \A i \in Items(p) : Writes(i, f) => AtOnce(serial, p)[f] = Effect(i, serial[f])
           /\ (\A i \in Items(p) : ~Writes(i, f)) => AtOnce(serial, p)[f] = serial[f]
<1>1. serial \in [Field -> Values]
  BY DEF TypeInv, TypeOK
<1>2. /\ \A j \in DOMAIN p : Writes(p[j], f) => AtOnce(serial, p)[f] = Effect(p[j], serial[f])
      /\ (\A j \in DOMAIN p : ~Writes(p[j], f)) => AtOnce(serial, p)[f] = serial[f]
  BY <1>1, AtOnceEffect
<1>. HIDE DEF AtOnce
<1>. QED BY <1>2 DEF Items

LEMMA MeasuredDone ==
    ASSUME TypeInv, TypeInv', Alone, ~torn, NEW t \in Thread, Done(t), NEW f \in Measured, Settled(f)
    PROVE  Settled(f)'
<1>. DEFINE i == Head(todo[t])
<1>0. f \in Field
  BY FieldsNamed DEF Measured
<1>1. /\ i \in Items(todo[t]) /\ Items(todo[t]) = Items(todo'[t]) \cup {i}
      /\ Writes(i, f) => \A k \in Items(todo'[t]) : ~Writes(k, f)
      /\ stats'[f] = IF Writes(i, f) THEN Effect(i, stats[f]) ELSE stats[f]
      /\ \A u \in Thread : u # t => todo'[u] = todo[u]
      /\ serial' = serial
  BY <1>0, DoneItems
<1>. HIDE DEF i
<1>2. CASE Writes(i, f)
  <2>1. serial'[f] = stats'[f]
    BY <1>1, <1>2 DEF Settled
  <2>2. ASSUME NEW u \in Thread, NEW k \in Items(todo'[u]), Writes(k, f) PROVE FALSE
    <3>1. u # t
      BY <1>1, <1>2, <2>2
    <3>2. k \in Items(todo[u])
      BY <1>1, <2>2, <3>1
    <3>. QED BY <1>1, <1>2, <2>2, <3>1, <3>2, MeasuredOwner
  <2>. QED BY <2>1, <2>2 DEF Settled
<1>3. CASE ~Writes(i, f)
  <2>1. stats'[f] = stats[f]
    BY <1>1, <1>3
  <2>2. \A u \in Thread : \A k : Writes(k, f) => (k \in Items(todo'[u]) <=> k \in Items(todo[u]))
    BY <1>1, <1>3
  <2>3. \A u \in Thread : \A k \in Items(todo'[u]) : Writes(k, f) => serial'[f] = Effect(k, stats'[f])
    BY <1>1, <2>1, <2>2 DEF Settled
  <2>4. Written(todo', f) <=> Written(todo, f)
    BY <2>2 DEF Written
  <2>5. ~Written(todo', f) => serial'[f] = stats'[f]
    BY <1>1, <2>1, <2>4 DEF Settled
  <2>. QED BY <2>3, <2>5 DEF Settled
<1>. QED BY <1>2, <1>3

LEMMA ZeroFields ==
    \A f \in Field \ Measured : InitialValue(f) = 0
  BY DEF Measured, InitialValue

LEMMA CountDone ==
    ASSUME TypeInv, TypeInv', Alone, Payable, ~torn, NEW t \in Thread, Done(t),
           NEW f \in Field \ Measured, Adding(f)
    PROVE  Adding(f)'
<1>. DEFINE i == Head(todo[t])
            s == stats[f]
            c == Cardinality(Owed(todo, f))
            d == Cardinality(Owed(todo', f))
<1>1. /\ i \in Items(todo[t]) /\ Items(todo[t]) = Items(todo'[t]) \cup {i}
      /\ Sound(t, i, t \in resetting)
      /\ Writes(i, f) => \A k \in Items(todo'[t]) : ~Writes(k, f)
      /\ stats'[f] = IF Writes(i, f) THEN Effect(i, s) ELSE s
      /\ \A u \in Thread : u # t => todo'[u] = todo[u]
      /\ serial' = serial
  BY DoneItems
<1>2. IsFiniteSet(Owed(todo, f)) /\ s \in Values /\ f # "scheduler_uptime"
  BY DEF Payable, TypeInv, TypeOK, Measured
<1>3. /\ d \in Nat /\ c \in Nat
      /\ IF i.op = "plus" /\ i.field = f
         THEN i.value % Modulus \in Nat /\ c = d + (i.value % Modulus)
         ELSE Owed(todo', f) = Owed(todo, f) /\ d = c
  BY <1>2, OwedDone, FS_CardinalityType
<1>. HIDE DEF i
<1>4. CASE Storing(todo, f)
  <2>1. PICK r \in Thread : \E k \in Items(todo[r]) : k.op = "store" /\ k.field = f
    BY <1>4 DEF Storing
  <2>2. PICK k \in Items(todo[r]) : k.op = "store" /\ k.field = f
    BY <2>1
  <2>3. /\ r \in resetting
        /\ \A u \in Thread : \A m \in Items(todo[u]) : u = r /\ m.op \in {"store", "clear"}
    BY <1>2, <2>2, StoreAlone
  <2>4. t = r /\ i.op \in {"store", "clear"}
    BY <1>1, <2>3
  <2>5. serial[f] = 0
    BY <1>4 DEF Adding
  <2>6. CASE Writes(i, f)
    <3>1. ~Storing(todo', f)
      BY <1>1, <2>3, <2>4, <2>6 DEF Storing, Writes, Writers
    <3>2. stats'[f] = 0
      <4>1. i.op = "store" /\ i.field = f
        BY <2>4, <2>6 DEF Writes, Writers
      <4>2. i.value = 0
        BY <1>1, <2>3, <2>4, <4>1, ZeroFields DEF Sound
      <4>. QED BY <1>1, <2>6, <4>1, <4>2 DEF Effect
    <3>3. d = 0
      <4>1. \A u \in Thread : Due(todo[u], f) = {}
        BY <2>3 DEF Due
      <4>2. Owed(todo', f) = Owed(todo, f)
        BY <1>3, <2>4
      <4>. QED BY <4>1, <4>2, OwedNothing
    <3>4. (0 + 0) % Modulus = 0
      BY OneMod
    <3>. QED BY <1>1, <2>5, <3>1, <3>2, <3>3, <3>4 DEF Adding
  <2>7. CASE ~Writes(i, f)
    <3>1. k # i
      BY <2>2, <2>7 DEF Writes, Writers
    <3>2. Storing(todo', f)
      BY <1>1, <2>2, <2>4, <3>1 DEF Storing
    <3>. QED BY <1>1, <2>5, <3>2 DEF Adding
  <2>. QED BY <2>6, <2>7
<1>5. CASE ~Storing(todo, f)
  <2>1. ~Storing(todo', f)
    BY <1>1, <1>5 DEF Storing
  <2>2. ~(i.op = "store" /\ i.field = f)
    BY <1>1, <1>5 DEF Storing
  <2>3. serial[f] = (s + c) % Modulus
    BY <1>5 DEF Adding
  <2>4. CASE i.op = "plus" /\ i.field = f
    <3>. DEFINE v == i.value
    <3>1. stats'[f] = (s + v) % Modulus
      BY <1>1, <2>4 DEF Writes, Writers, Effect
    <3>2. v \in Int /\ s \in Int
      <4>1. i \in Instruction
        BY <1>1 DEF Sound
      <4>2. v \in Int
        BY <4>1, InstrTypes
      <4>3. s \in Nat
        <5>1. s \in Values /\ Values \subseteq Nat
          BY <1>2, ValueTypes, Zenon
        <5>. QED BY <5>1
      <4>. HIDE DEF s, v
      <4>. QED BY <4>2, <4>3
    <3>. DEFINE w == v % Modulus
                y == s + v
                z == s + d
    <3>3. c = d + w /\ d \in Int /\ w \in Int
      BY <1>3, <2>4
    <3>4. y \in Int /\ z \in Int
      BY <3>2, <3>3
    <3>5. ((y % Modulus) + d) % Modulus = (y + d) % Modulus
      BY <3>3, <3>4, ModSum
    <3>6. (w + (z % Modulus)) % Modulus = (v + z) % Modulus
      BY <3>2, <3>4, ModSum
    <3>7. ((z % Modulus) + w) % Modulus = (z + w) % Modulus
      BY <3>3, <3>4, ModSum
    <3>8. (y + d) = v + z /\ s + c = z + w
      BY <3>2, <3>3
    <3>9. w + (z % Modulus) = (z % Modulus) + w
      <4>1. z % Modulus \in Int
        BY <3>4, ModType
      <4>. HIDE DEF w, z
      <4>. QED BY <3>3, <4>1
    <3>10. (stats'[f] + d) % Modulus = (s + c) % Modulus
      <4>. HIDE DEF w, y, z, s, c, d
      <4>1. (stats'[f] + d) % Modulus = (y + d) % Modulus
        BY <3>1, <3>5 DEF y
      <4>. QED BY <3>6, <3>7, <3>8, <3>9, <4>1
    <3>. QED BY <1>1, <2>1, <2>3, <3>10 DEF Adding
  <2>5. CASE ~(i.op = "plus" /\ i.field = f)
    <3>1. ~Writes(i, f)
      BY <1>1, <2>2, <2>5 DEF Writes, Writers, Sound, Measured
    <3>2. stats'[f] = s /\ Owed(todo', f) = Owed(todo, f)
      BY <1>1, <1>3, <2>5, <3>1
    <3>. QED BY <1>1, <2>1, <2>3, <3>2 DEF Adding
  <2>. QED BY <2>4, <2>5
<1>. QED BY <1>4, <1>5

LEMMA MatchesNoted ==
    ASSUME TypeInv, NEW t \in Thread, Noted(t), Matches
    PROVE  Matches'
<1>. DEFINE i == Head(todo[t])
            k == [i EXCEPT !.seen = stats[i.field]]
            R == Items(Tail(todo[t]))
<1>1. /\ Items(todo[t]) = R \cup {i} /\ Items(todo'[t]) = R \cup {k}
      /\ k.op = i.op /\ k.field = i.field /\ k.value = i.value
      /\ i.op \in {"lower", "raise", "divide"}
      /\ \A u \in Thread : u # t => todo'[u] = todo[u]
  BY NotedItems
<1>2. stats' = stats /\ serial' = serial /\ torn' = torn
  BY DEF Noted
<1>. HIDE DEF i, k, R
<1>3. \A f, x : (Writes(k, f) <=> Writes(i, f)) /\ Effect(k, x) = Effect(i, x)
  BY <1>1 DEF Writes, Effect, Needed
<1>4. ASSUME ~torn, NEW f \in Field \ Measured PROVE Adding(f)'
  <2>1. Owed(todo', f) = Owed(todo, f)
    BY OwedNoted DEF Noted
  <2>2. Storing(todo', f) <=> Storing(todo, f)
    BY <1>1 DEF Storing
  <2>3. Adding(f)
    BY <1>4 DEF Matches
  <2>. QED BY <1>2, <2>1, <2>2, <2>3 DEF Adding
<1>5. ASSUME ~torn, NEW f \in Measured PROVE Settled(f)'
  <2>1. Settled(f)
    BY <1>5 DEF Matches
  <2>2. ASSUME NEW u \in Thread, NEW m \in Items(todo'[u]), Writes(m, f)
        PROVE  \E n \in Items(todo[u]) : Writes(n, f) /\ \A x : Effect(m, x) = Effect(n, x)
    <3>1. CASE u = t /\ m = k
      <4>1. i \in Items(todo[u]) /\ Writes(i, f) /\ \A x : Effect(m, x) = Effect(i, x)
        BY <1>1, <1>3, <2>2, <3>1
      <4>. QED BY <4>1
    <3>2. CASE ~(u = t /\ m = k)
      <4>1. m \in Items(todo[u])
        BY <1>1, <2>2, <3>2
      <4>. QED BY <2>2, <4>1
    <3>. QED BY <3>1, <3>2
  <2>3. ASSUME NEW u \in Thread, NEW m \in Items(todo[u]), Writes(m, f)
        PROVE  \E n \in Items(todo'[u]) : Writes(n, f)
    BY <1>1, <1>3, <2>3
  <2>4. \A u \in Thread : \A m \in Items(todo'[u]) : Writes(m, f) => serial'[f] = Effect(m, stats'[f])
    BY <1>2, <2>1, <2>2 DEF Settled
  <2>5. Written(todo, f) => Written(todo', f)
    BY <2>3 DEF Written
  <2>6. ~Written(todo', f) => serial'[f] = stats'[f]
    BY <1>2, <2>1, <2>5 DEF Settled
  <2>. QED BY <2>4, <2>6 DEF Settled
<1>. QED BY <1>2, <1>4, <1>5 DEF Matches

LEMMA MatchesCalled ==
    ASSUME TypeInv, TypeInv', Alone, Payable, Matches, NEW t \in Thread, NEW p,
           Program(t, p, FALSE), Call(t, p), torn' = (torn \/ resetting # {})
    PROVE  Matches'
<1>. SUFFICES ASSUME ~torn, resetting = {}
              PROVE  /\ \A f \in Field \ Measured : Adding(f)'
                     /\ \A f \in Measured : Settled(f)'
  BY DEF Matches
<1>1. /\ todo[t] = <<>> /\ todo'[t] = p /\ \A u \in Thread : u # t => todo'[u] = todo[u]
      /\ serial' = AtOnce(serial, p) /\ stats' = stats
  BY CallShape
<1>2. Items(todo[t]) = {}
  BY <1>1, ItemsOf
<1>3. \A u \in Thread : \A k \in Items(todo[u]) : Sound(u, k, FALSE)
  <2>1. \A u \in Thread : (u \in resetting) = FALSE
    OBVIOUS
  <2>2. \A u \in Thread : \A k \in Items(todo[u]) : Sound(u, k, u \in resetting)
    BY EveryItem
  <2>. QED BY <2>1, <2>2 DEF Sound
<1>4. \A k \in Items(p) : Sound(t, k, FALSE)
  BY ProgramItems
<1>5. ASSUME NEW f \in Field \ Measured PROVE Adding(f)'
  <2>. DEFINE s == stats[f]
              c == Cardinality(Owed(todo, f))
              d == Cardinality(Owed(todo', f))
  <2>1. f # "scheduler_uptime" /\ f \in Field
    BY DEF Measured
  <2>2. ~Storing(todo, f)
    BY <1>3, <2>1 DEF Storing, Sound
  <2>3. ASSUME NEW u \in Thread, NEW k \in Items(todo'[u]), k.op = "store", k.field = f PROVE FALSE
    <3>1. Sound(u, k, FALSE)
      <4>1. CASE u = t
        BY <1>1, <1>4, <2>3, <4>1
      <4>2. CASE u # t
        BY <1>1, <1>3, <2>3, <4>2
      <4>. QED BY <4>1, <4>2
    <3>. QED BY <2>1, <2>3, <3>1 DEF Sound
  <2>4. ~Storing(todo', f)
    BY <2>3 DEF Storing
  <2>5. serial[f] = (s + c) % Modulus
    <3>1. Adding(f)
      BY DEF Matches
    <3>. QED BY <2>2, <3>1 DEF Adding
  <2>6. IsFiniteSet(Owed(todo, f))
    BY DEF Payable
  <2>7. s \in Nat
    <3>1. s \in Values /\ Values \subseteq Nat
      BY <2>1, ValueTypes DEF TypeInv, TypeOK
    <3>. QED BY <3>1
  <2>8. CASE \E i \in Items(p) : i.op = "plus" /\ i.field = f
    <3>1. PICK i \in Items(p) : i.op = "plus" /\ i.field = f
      BY <2>8
    <3>. DEFINE v == i.value
                w == v % Modulus
                z == s + c
    <3>2. v \in Int
      <4>1. i \in Instruction
        BY <1>4 DEF Sound
      <4>. QED BY <4>1, InstrTypes
    <3>3. w \in Nat /\ c \in Nat /\ d = c + w
      BY <2>6, <3>1, OwedCalled
    <3>4. serial'[f] = (serial[f] + v) % Modulus
      <4>1. Writes(i, f)
        BY <3>1 DEF Writes, Writers
      <4>2. AtOnce(serial, p)[f] = Effect(i, serial[f])
        BY <2>1, <4>1, SerialCall
      <4>3. Effect(i, serial[f]) = (serial[f] + v) % Modulus
        BY <3>1 DEF Effect
      <4>. QED BY <1>1, <4>2, <4>3
    <3>. HIDE DEF s, c, d, v
    <3>5. z \in Int
      BY <2>7, <3>3
    <3>6. ((z % Modulus) + v) % Modulus = (z + v) % Modulus
      BY <3>2, <3>5, ModSum
    <3>. HIDE DEF z
    <3>7. ((v % Modulus) + z) % Modulus = (v + z) % Modulus
      BY <3>2, <3>5, ModSum
    <3>8. z + v = v + z /\ s + d = w + z
      <4>. HIDE DEF w
      <4>. QED BY <2>7, <3>2, <3>3, <3>5 DEF z
    <3>9. serial'[f] = (s + d) % Modulus
      <4>1. serial'[f] = ((z % Modulus) + v) % Modulus
        BY <2>5, <3>4 DEF z
      <4>. QED BY <3>6, <3>7, <3>8, <4>1
    <3>. QED BY <1>1, <2>4, <3>9 DEF Adding, s, d
  <2>9. CASE \A i \in Items(p) : ~(i.op = "plus" /\ i.field = f)
    <3>1. Owed(todo', f) = Owed(todo, f)
      BY <2>6, <2>9, OwedCalled
    <3>2. \A i \in Items(p) : ~Writes(i, f)
      BY <1>4, <2>1, <2>9 DEF Sound, Writes, Writers, Measured
    <3>3. serial'[f] = serial[f]
      BY <1>1, <3>2, SerialCall
    <3>. QED BY <1>1, <2>4, <2>5, <3>1, <3>3 DEF Adding
  <2>. QED BY <2>8, <2>9
<1>6. ASSUME NEW f \in Measured PROVE Settled(f)'
  <2>1. f \in Field
    BY FieldsNamed DEF Measured
  <2>2. Settled(f)
    BY DEF Matches
  <2>3. CASE \E i \in Items(p) : Writes(i, f)
    <3>1. PICK i \in Items(p) : Writes(i, f)
      BY <2>3
    <3>2. Sound(t, i, FALSE)
      BY <1>4
    <3>3. ASSUME NEW u \in Thread, NEW k \in Items(todo[u]), Writes(k, f) PROVE FALSE
      <4>1. Sound(u, k, FALSE) /\ u # t
        BY <1>2, <1>3, <3>3
      <4>. QED BY <3>1, <3>2, <3>3, <4>1, OneWriter
    <3>4. serial[f] = stats[f]
      BY <2>2, <3>3 DEF Settled, Written
    <3>5. serial'[f] = Effect(i, stats'[f])
      BY <1>1, <2>1, <3>1, <3>4, SerialCall
    <3>6. ASSUME NEW u \in Thread, NEW k \in Items(todo'[u]), Writes(k, f) PROVE k = i
      <4>1. CASE u = t
        BY <1>1, <2>1, <3>1, <3>6, <4>1, ProgramItems
      <4>2. CASE u # t
        BY <1>1, <3>3, <3>6, <4>2
      <4>. QED BY <4>1, <4>2
    <3>7. Written(todo', f)
      BY <1>1, <3>1 DEF Written
    <3>. QED BY <3>5, <3>6, <3>7 DEF Settled
  <2>4. CASE \A i \in Items(p) : ~Writes(i, f)
    <3>1. serial'[f] = serial[f]
      BY <1>1, <2>1, <2>4, SerialCall
    <3>2. \A u \in Thread : \A k : Writes(k, f) => (k \in Items(todo'[u]) <=> k \in Items(todo[u]))
      BY <1>1, <1>2, <2>4
    <3>3. \A u \in Thread : \A k \in Items(todo'[u]) : Writes(k, f) => serial'[f] = Effect(k, stats'[f])
      BY <1>1, <2>2, <3>1, <3>2 DEF Settled
    <3>4. Written(todo', f) <=> Written(todo, f)
      BY <3>2 DEF Written
    <3>5. ~Written(todo', f) => serial'[f] = stats'[f]
      BY <1>1, <2>2, <3>1, <3>4 DEF Settled
    <3>. QED BY <3>3, <3>5 DEF Settled
  <2>. QED BY <2>3, <2>4
<1>. QED BY <1>5, <1>6

LEMMA MatchesReset ==
    ASSUME TypeInv, NEW t \in Request, ResetAllStats(t)
    PROVE  Matches'
<1>0. t \in Thread
  BY DEF Thread
<1>1. Program(t, Everything, TRUE) /\ Call(t, Everything) /\ torn' = Others(t)
  BY <1>0, CallShape
<1>2. /\ todo'[t] = Everything /\ \A u \in Thread : u # t => todo'[u] = todo[u]
      /\ serial' = AtOnce(serial, Everything) /\ stats' = stats
  BY <1>0, <1>1, CallShape
<1>. SUFFICES ASSUME ~Others(t)
              PROVE  /\ \A f \in Field \ Measured : Adding(f)'
                     /\ \A f \in Measured : Settled(f)'
  BY <1>1 DEF Matches
<1>3. ASSUME NEW f \in Field
      PROVE  /\ serial'[f] = InitialValue(f)
             /\ Storing(todo', f) /\ Written(todo', f)
             /\ \A u \in Thread : \A k \in Items(todo'[u]) : Writes(k, f) =>
                   \A x : Effect(k, x) = InitialValue(f)
  <2>1. PICK i \in Items(Everything) : Writes(i, f) /\ i.op = "store"
    BY ResetProgram DEF Items
  <2>2. ASSUME NEW u \in Thread, NEW k \in Items(todo'[u]), Writes(k, f), NEW x
        PROVE  Effect(k, x) = InitialValue(f)
    <3>1. u = t
      <4>1. CASE u # t
        <5>1. todo'[u] = <<>>
          BY <1>2, <4>1 DEF Others, Busy
        <5>. QED BY <2>2, <5>1, ItemsOf
      <4>. QED BY <4>1
    <3>2. Sound(t, k, TRUE)
      BY <1>1, <1>2, <2>2, <3>1, ProgramItems
    <3>3. k.op = "store" /\ k.value = InitialValue(f)
      BY <2>2, <3>2 DEF Sound, Writes, Writers
    <3>. QED BY <3>3 DEF Effect
  <2>3. Storing(todo', f) /\ Written(todo', f) /\ i \in Items(todo'[t])
    BY <1>0, <1>2, <2>1 DEF Storing, Written, Writes
  <2>4. serial'[f] = Effect(i, serial[f])
    BY <1>1, <1>2, <2>1, SerialCall
  <2>5. Effect(i, serial[f]) = InitialValue(f)
    BY <1>0, <2>1, <2>2, <2>3
  <2>. QED BY <2>2, <2>3, <2>4, <2>5
<1>4. ASSUME NEW f \in Field \ Measured PROVE Adding(f)'
  BY <1>3, ZeroFields DEF Adding
<1>5. ASSUME NEW f \in Measured PROVE Settled(f)'
  <2>1. f \in Field
    BY FieldsNamed DEF Measured
  <2>. QED BY <1>3, <2>1 DEF Settled
<1>. QED BY <1>4, <1>5

LEMMA SerialInvInit == Init => SerialInv
<1>. SUFFICES ASSUME Init PROVE SerialInv
  OBVIOUS
<1>1. ASSUME NEW f \in Field \ Measured PROVE Adding(f)
  <2>1. stats[f] = 0 /\ serial[f] = 0
    BY ZeroFields DEF Init, Cleared
  <2>2. ~Storing(todo, f) /\ Cardinality(Owed(todo, f)) = 0
    BY IdleAtFirst DEF Storing
  <2>3. (0 + 0) % Modulus = 0
    BY OneMod
  <2>. QED BY <2>1, <2>2, <2>3 DEF Adding
<1>2. ASSUME NEW f \in Measured PROVE Settled(f)
  BY IdleAtFirst DEF Settled, Init
<1>. QED BY <1>1, <1>2, IdleAtFirst DEF SerialInv, Matches

LEMMA SerialInvStep == ASSUME SerialInv, [Next]_vars PROVE SerialInv'
<1>0. TypeInv /\ Alone /\ Payable /\ Matches
  BY DEF SerialInv
<1>1. CASE Next
  <2>1. /\ TypeInv'
        /\ \E t \in Thread : Ordinary(t) \/ (t \in Request /\ ResetAllStats(t)) \/ Done(t) \/ Noted(t)
    BY <1>0, <1>1, StepOne
  <2>2. PICK t \in Thread : Ordinary(t) \/ (t \in Request /\ ResetAllStats(t)) \/ Done(t) \/ Noted(t)
    BY <2>1
  <2>3. (\E p, r : Program(t, p, r) /\ Call(t, p)) \/ Done(t) \/ Noted(t)
    BY <1>0, <2>2, CallShape
  <2>4. Alone'
    BY <1>0, <2>1, <2>2, AloneKept
  <2>5. Payable'
    BY <1>0, <2>1, <2>3, PayableKept
  <2>6. Matches'
    <3>1. CASE Ordinary(t)
      <4>1. PICK p : Program(t, p, FALSE) /\ Call(t, p) /\ torn' = (torn \/ resetting # {})
        BY <1>0, <3>1, CallShape
      <4>. QED BY <1>0, <2>1, <4>1, MatchesCalled
    <3>2. CASE t \in Request /\ ResetAllStats(t)
      BY <1>0, <3>2, MatchesReset
    <3>3. CASE Done(t)
      <4>1. torn' = torn
        BY <3>3 DEF Done
      <4>2. ASSUME ~torn, NEW f \in Field \ Measured PROVE Adding(f)'
        <5>1. Adding(f)
          BY <1>0, <4>2 DEF Matches
        <5>. QED BY <1>0, <2>1, <3>3, <4>2, <5>1, CountDone
      <4>3. ASSUME ~torn, NEW f \in Measured PROVE Settled(f)'
        <5>1. Settled(f)
          BY <1>0, <4>3 DEF Matches
        <5>. QED BY <1>0, <2>1, <3>3, <4>3, <5>1, MeasuredDone
      <4>. QED BY <4>1, <4>2, <4>3 DEF Matches
    <3>4. CASE Noted(t)
      BY <1>0, <3>4, MatchesNoted
    <3>. QED BY <2>2, <3>1, <3>2, <3>3, <3>4
  <2>. QED BY <2>1, <2>4, <2>5, <2>6 DEF SerialInv
<1>2. CASE UNCHANGED vars
  <2>1. TypeInv'
    BY <1>0, <1>2, UnchangedType
  <2>2. UNCHANGED <<stats, serial, todo, resetting, torn>>
    BY <1>2 DEF vars
  <2>3. Alone' /\ Payable'
    BY <1>0, <2>2 DEF Alone, Payable
  <2>4. Matches'
    BY <1>0, <2>2 DEF Matches, Adding, Settled
  <2>. QED BY <2>1, <2>3, <2>4 DEF SerialInv
<1>. QED BY <1>1, <1>2

LEMMA SerialInvQuiet == SerialInv => SerialWhenQuiet
<1>. SUFFICES ASSUME SerialInv, \A t \in Thread : ~Busy(t), ~torn PROVE stats = serial
  BY DEF SerialWhenQuiet
<1>0. TypeInv /\ Matches
  BY DEF SerialInv
<1>1. \A t \in Thread : Items(todo[t]) = {}
  BY ItemsOf DEF Busy
<1>2. stats \in [Field -> Values] /\ serial \in [Field -> Values]
  BY <1>0 DEF TypeInv, TypeOK
<1>3. ASSUME NEW f \in Field PROVE stats[f] = serial[f]
  <2>1. CASE f \in Measured
    <3>1. Settled(f)
      BY <1>0, <2>1 DEF Matches
    <3>. QED BY <1>1, <3>1 DEF Settled, Written
  <2>2. CASE f \notin Measured
    <3>1. Adding(f)
      BY <1>0, <2>2 DEF Matches
    <3>2. \A t \in Thread : Due(todo[t], f) = {}
      BY <1>1 DEF Due
    <3>3. Cardinality(Owed(todo, f)) = 0
      BY <3>2, OwedNothing
    <3>4. serial[f] = (stats[f] + 0) % Modulus
      BY <1>1, <3>1, <3>3 DEF Adding, Storing
    <3>5. stats[f] \in Values
      BY <1>2
    <3>6. stats[f] \in Nat
      BY <3>5, ValueTypes
    <3>7. stats[f] + 0 = stats[f]
      BY <3>6
    <3>. QED BY <3>4, <3>5, <3>7, ModSmall
  <2>. QED BY <2>1, <2>2
<1>. QED BY <1>2, <1>3

(* No update is lost, whatever the number of threads and the width of the    *)
(* counters: when no call is under way, every counter is what it would be    *)
(* had the calls been made one after the other, unless a reset met a call.   *)
THEOREM NothingLost == Spec => []SerialWhenQuiet
<1>1. SerialInv /\ [Next]_vars => SerialInv'
  BY SerialInvStep
<1>. QED BY <1>1, SerialInvInit, SerialInvQuiet, PTL DEF Spec
=============================================================================
