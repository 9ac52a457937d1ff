-------------------------- MODULE PeriodicJob_proofs --------------------------
(***************************************************************************)
(* What holds of a periodic job on every calendar, for every expression,   *)
(* every interval of the loop and however long executors take: what the    *)
(* parser reads, when the job is started, that an execution which has      *)
(* ended is not repeated and which minutes are missed.                     *)
(***************************************************************************)
EXTENDS PeriodicJob, FiniteSetTheorems, FunctionTheorems, SequenceTheorems, TLAPS

LEMMA LeastSet ==
    ASSUME NEW U, NEW C, C \subseteq FiniteSubsetsOf(U), C # {}
    PROVE  \E x \in C : \A y \in C : <<y, x>> \notin StrictSubsetOrdering(U)
<1> DEFINE R == StrictSubsetOrdering(U)
           F == FiniteSubsetsOf(U)
<1>1. IsWellFoundedOn(R, F)
  BY FS_StrictSubsetOrderingWellFounded
<1>2. C \subseteq F
  OBVIOUS
<1> HIDE DEF R, F
<1>3. \E x \in C : \A y \in C : ~ (<<y, x>> \in R)
  BY <1>1, <1>2, WFMin
<1> QED
  BY <1>3 DEF R

\* A set of times that is not empty has a first one, since finite sets are well
\* ordered by inclusion: the one before which there is least.
LEMMA FirstTime ==
    ASSUME NEW S \in SUBSET Nat, S # {}
    PROVE  \E t \in S : \A u \in S : t <= u
<1> DEFINE upTo == {0 .. t : t \in S}
<1>1. upTo \subseteq FiniteSubsetsOf(Nat)
  <2>1. \A t \in Nat : IsFiniteSet(0 .. t) /\ 0 .. t \in SUBSET Nat
    BY FS_Interval
  <2> QED
    BY <2>1 DEF FiniteSubsetsOf
<1>2. upTo # {}
  OBVIOUS
<1>3. \E x \in upTo : \A y \in upTo : <<y, x>> \notin StrictSubsetOrdering(Nat)
  <2> HIDE DEF upTo
  <2> QED
    BY <1>1, <1>2, LeastSet
<1>5. PICK t \in S : \A u \in S : <<0 .. u, 0 .. t>> \notin StrictSubsetOrdering(Nat)
  BY <1>3
<1>6. ASSUME NEW u \in S, u < t PROVE FALSE
  <2>1. 0 .. u \subseteq 0 .. t /\ t \in 0 .. t /\ t \notin 0 .. u
    BY <1>6
  <2>2. 0 .. u \in SUBSET Nat /\ 0 .. t \in SUBSET Nat /\ 0 .. u # 0 .. t
    BY <2>1
  <2>3. <<0 .. u, 0 .. t>> \in StrictSubsetOrdering(Nat)
    BY <2>1, <2>2 DEF StrictSubsetOrdering
  <2> QED
    BY <1>5, <2>3
<1> QED
  BY <1>6

\* getNext of an expression that matches again is at least a minute away.
LEMMA NextIsLater ==
    ASSUME NEW t \in Nat, ComesAgain(t)
    PROVE  /\ GetNext(Parse(cron), t) \in Nat
           /\ GetNext(Parse(cron), t) >= t + SecondsPerMinute
<1> DEFINE hits == {u \in t + SecondsPerMinute .. t + Year - 1 :
                       (u - t) % SecondsPerMinute = 0 /\ Matches(Parse(cron), u)}
<1>1. SecondsPerMinute \in Nat /\ Year \in Nat
  BY CalendarAssumption DEF Year
<1>2. hits # {}
  BY DEF ComesAgain
<1>3. hits \in SUBSET Nat
  BY <1>1
<1>4. \E u \in hits : \A v \in hits : u <= v
  BY <1>2, <1>3, FirstTime
<1>5. GetNext(Parse(cron), t) = CHOOSE u \in hits : \A v \in hits : u <= v
  BY <1>2 DEF GetNext
<1>6. GetNext(Parse(cron), t) \in hits
  BY <1>4, <1>5
<1> QED
  BY <1>1, <1>6

-----------------------------------------------------------------------------
(* Types                                                                    *)

Places == pc = "save" => Len(rows) < MaxRows

TypeInv == TypeOK /\ Places

LEMMA TypeInit == Init => TypeInv
<1> SUFFICES ASSUME Init PROVE TypeInv
  OBVIOUS
<1>1. now \in Nat
  BY TimingAssumption DEF Init
<1> QED
  BY <1>1, TimingAssumption DEF Init, TypeInv, TypeOK, Places, Row

LEMMA TypeNext == TypeInv /\ [Next]_vars => TypeInv'
<1> SUFFICES ASSUME TypeInv, [Next]_vars PROVE TypeInv'
  OBVIOUS
<1>0. /\ MaxRows \in Nat /\ Executors \in Nat /\ CheckInterval \in Nat /\ Delay \in Nat
      /\ Lead \in Nat /\ Duration \in Nat
  BY TimingAssumption
<1>00. /\ rows \in Seq(Row) /\ Len(rows) \in Nat /\ DOMAIN rows = 1 .. Len(rows)
       /\ now \in Nat /\ mark \in Nat
  BY LenProperties, <1>0 DEF TypeInv, TypeOK
<1> USE <1>0, <1>00 DEF TypeInv, TypeOK, Places, schedVars, dbVars
<1>1. CASE SubmitSave
  BY <1>1 DEF SubmitSave
<1>2. CASE SubmitPush
  BY <1>2 DEF SubmitPush
<1>3. CASE Fetch
  BY <1>3 DEF Fetch
<1>4. CASE DrainEnds
  BY <1>4 DEF DrainEnds
<1>5. CASE Skip
  BY <1>5 DEF Skip
<1>6. CASE Take
  BY <1>6 DEF Take
<1>7. CASE Save
  <2>1. [due |-> mark, trig |-> now, end |-> NoEnd] \in Row
    BY DEF Row
  <2>2. rows' \in Seq(Row) /\ Len(rows') = Len(rows) + 1
    BY <1>7, <2>1, AppendProperties DEF Save
  <2> QED
    BY <1>7, <2>2 DEF Save
<1>8. CASE Send
  BY <1>8 DEF Send
<1>9. CASE Receive
  BY <1>9 DEF Receive, Latest
<1>10. CASE WriteRow
  <2>1. handler \in 1 .. Len(rows) /\ rows[handler] \in Row /\ now \in Nat
    BY <1>10 DEF WriteRow
  <2>2. [rows[handler] EXCEPT !.end = now] \in Row
    BY <2>1 DEF Row
  <2>3. rows' = [rows EXCEPT ![handler] = [rows[handler] EXCEPT !.end = now]]
    BY <1>10 DEF WriteRow
  <2>4. rows' \in Seq(Row) /\ Len(rows') = Len(rows)
    BY <2>1, <2>2, <2>3, ExceptSeq
  <2> QED
    BY <1>10, <2>4 DEF WriteRow
<1>11. CASE Tick
  BY <1>11 DEF Tick
<1>12. CASE UNCHANGED vars
  BY <1>12 DEF vars
<1> QED
  BY <1>1, <1>2, <1>3, <1>4, <1>5, <1>6, <1>7, <1>8, <1>9, <1>10, <1>11, <1>12 DEF Next

(* The values of all variables are what the code may put there; above all   *)
(* no copy of the job is popped that is not in the queue.                   *)
THEOREM TypeCorrect == Spec => []TypeOK
<1>1. TypeInv => TypeOK
  BY DEF TypeInv
<1> QED
  BY <1>1, TypeInit, TypeNext, PTL DEF Spec

-----------------------------------------------------------------------------
(* Ended executions are not repeated.                                       *)

\* An execution ended before the moment t, shares its second with none and is
\* due again some day.
Settled(i, t) ==
    /\ rows[i].end \in 0 .. t - 1
    /\ \A k \in DOMAIN rows : rows[k].trig = rows[i].trig => k = i
    /\ ComesAgain(rows[i].end)

\* A moment at least a minute after such an execution.
Apart(i, t) == Settled(i, t) => t >= rows[i].end + SecondsPerMinute

\* Rows are in the order of their trigger times, and none is in the future.
Ordered ==
    /\ \A i \in DOMAIN rows : rows[i].trig <= now /\ rows[i].due <= now
    /\ \A i, k \in DOMAIN rows : i <= k => rows[i].trig <= rows[k].trig

\* What EndedNotRepeated says, and the same of the execution that the schedule
\* thread has decided on and not yet saved.
NotRepeated ==
    /\ \A i \in DOMAIN rows : i + 1 \in DOMAIN rows => Apart(i, rows[i + 1].due)
    /\ pc = "save" /\ rows # <<>> => Apart(Len(rows), mark)

EndInv == Ordered /\ NotRepeated

\* Steps that neither touch the table nor decide anything.
LEMMA EndFrame ==
    ASSUME TypeInv, EndInv, UNCHANGED <<rows, cron>>, now <= now', now' \in Nat,
           pc' = "save" => pc = "save" /\ mark' = mark
    PROVE  EndInv'
<1>1. DOMAIN rows = 1 .. Len(rows) /\ \A i \in DOMAIN rows : rows[i] \in Row
  BY DEF TypeInv, TypeOK
<1>2. \A i \in DOMAIN rows : rows[i].trig \in Nat /\ rows[i].due \in Nat
  BY <1>1 DEF Row
<1>3. now \in Nat
  BY DEF TypeInv, TypeOK
<1>4. \A t : ComesAgain(t)' <=> ComesAgain(t)
  BY DEF ComesAgain
<1>5. \A i, t : Apart(i, t)' <=> Apart(i, t)
  BY <1>4 DEF Apart, Settled
<1>6. Ordered'
  BY <1>2, <1>3 DEF EndInv, Ordered
<1>7. NotRepeated'
  BY <1>5 DEF EndInv, NotRepeated
<1> QED
  BY <1>6, <1>7 DEF EndInv

\* should_execute says yes: then the last execution, if it is settled, ended at
\* least a minute ago.
LEMMA TakeApart ==
    ASSUME TypeInv, EndInv, Take, rows # <<>>
    PROVE  Apart(Len(rows), now)
<1> DEFINE n == Len(rows)
<1>1. n \in DOMAIN rows /\ DOMAIN rows = 1 .. n /\ \A i \in DOMAIN rows : rows[i] \in Row
  BY EmptySeq, LenProperties DEF TypeInv, TypeOK
<1>2. \A i \in DOMAIN rows : rows[i].trig \in Nat
  BY <1>1 DEF Row
<1> SUFFICES ASSUME Settled(n, now) PROVE now >= rows[n].end + SecondsPerMinute
  BY DEF Apart
<1>3. PICK i \in Latest : ~Served(i)
  BY DEF Take, ShouldExecute
<1>4. i = n
  <2>1. i \in DOMAIN rows /\ rows[n].trig <= rows[i].trig
    BY <1>1, <1>3 DEF Latest
  <2>2. rows[i].trig <= rows[n].trig
    BY <1>1, <2>1 DEF EndInv, Ordered
  <2> QED
    BY <1>1, <1>2, <2>1, <2>2 DEF Settled
<1>5. rows[n].end \in Nat /\ now \in Nat
  BY DEF Settled, TypeInv, TypeOK
<1>6. ~ (now < GetNext(Parse(cron), rows[n].end))
  BY <1>3, <1>4, <1>5 DEF Served, NoEnd
<1>7. /\ GetNext(Parse(cron), rows[n].end) \in Nat
      /\ GetNext(Parse(cron), rows[n].end) >= rows[n].end + SecondsPerMinute
  BY <1>5, NextIsLater DEF Settled
<1>8. SecondsPerMinute \in Nat
  BY CalendarAssumption
<1> HIDE DEF n
<1> QED
  BY <1>5, <1>6, <1>7, <1>8

LEMMA TakeEnds == TypeInv /\ EndInv /\ Take => EndInv'
<1> SUFFICES ASSUME TypeInv, EndInv, Take PROVE EndInv'
  OBVIOUS
<1>1. UNCHANGED <<rows, cron, now>> /\ mark' = now
  BY DEF Take, dbVars
<1>2. \A i, t : Apart(i, t)' <=> Apart(i, t)
  BY <1>1 DEF Apart, Settled, ComesAgain
<1>3. rows # <<>> => Apart(Len(rows), mark')
  BY <1>1, TakeApart
<1>4. Ordered'
  BY <1>1 DEF EndInv, Ordered
<1>5. NotRepeated'
  BY <1>1, <1>2, <1>3 DEF EndInv, NotRepeated
<1> QED
  BY <1>4, <1>5 DEF EndInv

LEMMA SaveEnds == TypeInv /\ EndInv /\ Save => EndInv'
<1> SUFFICES ASSUME TypeInv, EndInv, Save PROVE EndInv'
  OBVIOUS
<1> DEFINE n == Len(rows)
           new == [due |-> mark, trig |-> now, end |-> NoEnd]
<1>1. /\ n \in Nat /\ DOMAIN rows = 1 .. n /\ \A i \in DOMAIN rows : rows[i] \in Row
      /\ mark \in Nat /\ now \in Nat /\ mark <= now
  BY LenProperties DEF TypeInv, TypeOK
<1>2. new \in Row /\ new.trig = now /\ new.due = mark
  BY <1>1 DEF Row
<1>3. UNCHANGED <<cron, now, mark>> /\ rows' = Append(rows, new) /\ pc' = "send"
  BY DEF Save
<1>4. /\ DOMAIN rows' = 1 .. n + 1
      /\ rows'[n + 1] = new
      /\ \A i \in DOMAIN rows : rows'[i] = rows[i]
  BY <1>1, <1>2, <1>3, AppendProperties, LenProperties
<1>5. \A i \in DOMAIN rows : rows[i].trig \in Nat /\ rows[i].due \in Nat
  BY <1>1 DEF Row
<1>6. Ordered'
  <2>1. \A i \in DOMAIN rows' : rows'[i].trig <= now /\ rows'[i].due <= now
    BY <1>1, <1>2, <1>4, <1>5 DEF EndInv, Ordered
  <2>2. \A i, k \in DOMAIN rows' : i <= k => rows'[i].trig <= rows'[k].trig
    BY <1>1, <1>2, <1>4, <1>5 DEF EndInv, Ordered
  <2> QED
    BY <1>3, <2>1, <2>2 DEF Ordered
<1>7. ASSUME NEW i \in DOMAIN rows, NEW t, Apart(i, t) PROVE Apart(i, t)'
  BY <1>1, <1>3, <1>4, <1>7 DEF Apart, Settled, ComesAgain
<1>8. \A i \in DOMAIN rows : i + 1 \in DOMAIN rows' => Apart(i, rows'[i + 1].due)
  BY <1>1, <1>2, <1>4 DEF EndInv, NotRepeated, Save
<1>9. NotRepeated'
  BY <1>1, <1>3, <1>4, <1>7, <1>8 DEF NotRepeated
<1> QED
  BY <1>6, <1>9 DEF EndInv

\* A result is written to the row that handle_result has read.
LEMMA RowWritten ==
    ASSUME TypeInv, WriteRow
    PROVE  /\ Len(rows') = Len(rows) /\ DOMAIN rows' = DOMAIN rows
           /\ \A i \in DOMAIN rows : /\ rows'[i].trig = rows[i].trig
                                     /\ rows'[i].due = rows[i].due
                                     /\ rows'[i].end = IF i = handler THEN now ELSE rows[i].end
<1>1. /\ rows \in Seq(Row) /\ handler \in 1 .. Len(rows) /\ now \in Nat
      /\ \A i \in 1 .. Len(rows) : rows[i] \in Row
  BY LenProperties DEF TypeInv, TypeOK, WriteRow
<1>2. rows[handler] \in Row /\ [rows[handler] EXCEPT !.end = now] \in Row
  BY <1>1 DEF Row
<1>3. rows' = [rows EXCEPT ![handler] = [rows[handler] EXCEPT !.end = now]]
  BY DEF WriteRow
<1>4. \A r \in Row : /\ [r EXCEPT !.end = now].trig = r.trig
                     /\ [r EXCEPT !.end = now].due = r.due
                     /\ [r EXCEPT !.end = now].end = now
  BY DEF Row
<1>5. Len(rows') = Len(rows) /\ rows' \in Seq(Row)
  BY <1>1, <1>2, <1>3, ExceptSeq
<1>6. \A i \in 1 .. Len(rows) :
         rows'[i] = IF i = handler THEN [rows[handler] EXCEPT !.end = now] ELSE rows[i]
  BY <1>1, <1>2, <1>3, ExceptSeq
<1>. QED BY <1>1, <1>2, <1>4, <1>5, <1>6, LenProperties

\* A result that comes in now makes its execution end later than any start.
LEMMA WriteEnds == TypeInv /\ EndInv /\ WriteRow => EndInv'
<1> SUFFICES ASSUME TypeInv, EndInv, WriteRow PROVE EndInv'
  OBVIOUS
<1> DEFINE n == Len(rows)
<1>1. /\ n \in Nat /\ DOMAIN rows = 1 .. n /\ \A i \in DOMAIN rows : rows[i] \in Row
      /\ mark \in Nat /\ now \in Nat /\ mark <= now /\ handler \in 1 .. n
  BY LenProperties DEF TypeInv, TypeOK, WriteRow
<1>2. UNCHANGED <<cron, now, mark, pc>>
  BY DEF WriteRow, schedVars
<1>3. /\ Len(rows') = n /\ DOMAIN rows' = DOMAIN rows
      /\ \A i \in DOMAIN rows : /\ rows'[i].trig = rows[i].trig
                                /\ rows'[i].due = rows[i].due
                                /\ rows'[i].end = IF i = handler THEN now ELSE rows[i].end
  BY RowWritten
<1>4. \A i \in DOMAIN rows : rows[i].trig \in Nat /\ rows[i].due \in Nat
  BY <1>1 DEF Row
<1>5. Ordered'
  BY <1>1, <1>2, <1>3 DEF EndInv, Ordered
<1>6. ASSUME NEW i \in DOMAIN rows, NEW t \in Nat, t <= now, Apart(i, t) PROVE Apart(i, t)'
  <2>1. CASE i = handler
    <3>1. rows'[i].end = now
      BY <1>3, <2>1
    <3>2. ~ (rows'[i].end \in 0 .. t - 1)
      BY <1>1, <1>6, <3>1
    <3> QED
      BY <1>2, <3>2 DEF Apart, Settled
  <2>2. CASE i # handler
    <3>1. rows'[i].end = rows[i].end
      BY <1>3, <2>2
    <3>2. ComesAgain(rows[i].end)' <=> ComesAgain(rows[i].end)
      BY <1>2, <3>1 DEF ComesAgain
    <3>3. Settled(i, t)' => Settled(i, t)
      BY <1>2, <1>3, <3>1, <3>2 DEF Settled, ComesAgain
    <3> QED
      BY <1>2, <1>6, <3>1, <3>3 DEF Apart
  <2> QED
    BY <2>1, <2>2
<1>7. NotRepeated'
  <2>1. ASSUME NEW i \in DOMAIN rows, i + 1 \in DOMAIN rows
        PROVE  Apart(i, rows[i + 1].due)'
    <3>1. rows'[i + 1].due = rows[i + 1].due
      BY <1>3, <2>1
    <3>2. rows[i + 1].due \in Nat /\ rows[i + 1].due <= now /\ Apart(i, rows[i + 1].due)
      BY <1>4, <2>1 DEF EndInv, Ordered, NotRepeated
    <3> QED
      BY <1>6, <3>1, <3>2, <2>1 DEF Apart, Settled
  <2>2. ASSUME pc = "save", rows # <<>> PROVE Apart(Len(rows), mark)'
    <3>1. Len(rows) \in DOMAIN rows /\ Apart(Len(rows), mark)
      BY <1>1, <2>2 DEF EndInv, NotRepeated
    <3> QED
      BY <1>1, <1>2, <1>3, <1>6, <3>1 DEF Apart, Settled
  <2>3. rows # <<>>
    BY <1>1
  <2> QED
    BY <1>2, <1>3, <2>1, <2>2, <2>3 DEF NotRepeated
<1> QED
  BY <1>5, <1>7 DEF EndInv

LEMMA EndNext == TypeInv /\ TypeInv' /\ EndInv /\ [Next]_vars => EndInv'
<1> SUFFICES ASSUME TypeInv, TypeInv', EndInv, [Next]_vars PROVE EndInv'
  OBVIOUS
<1>0. now \in Nat /\ now' \in Nat
  BY DEF TypeInv, TypeOK
<1> USE DEF schedVars, dbVars
<1>1. CASE Take
  BY <1>1, TakeEnds
<1>2. CASE Save
  BY <1>2, SaveEnds
<1>3. CASE WriteRow
  BY <1>3, WriteEnds
<1>4. CASE SubmitSave \/ SubmitPush
  BY <1>0, <1>4, EndFrame DEF SubmitSave, SubmitPush
<1>5. CASE Fetch \/ DrainEnds
  BY <1>0, <1>5, EndFrame DEF Fetch, DrainEnds
<1>6. CASE Skip \/ Send
  <2>1. UNCHANGED <<rows, cron, now>> /\ pc' # "save"
    BY <1>6 DEF Skip, Send
  <2> QED
    BY <1>0, <2>1, EndFrame
<1>7. CASE Receive
  BY <1>0, <1>7, EndFrame DEF Receive
<1>8. CASE Tick
  BY <1>0, <1>8, EndFrame DEF Tick
<1>9. CASE UNCHANGED vars
  BY <1>0, <1>9, EndFrame DEF vars
<1> QED
  BY <1>1, <1>2, <1>3, <1>4, <1>5, <1>6, <1>7, <1>8, <1>9 DEF Next

(* After an execution has ended, the next one is not begun within a minute: *)
(* on any calendar, with any number of executors and any delay between the  *)
(* moment should_execute looks and the moment the execution is saved.       *)
THEOREM NotStartedAgain == Spec => []EndedNotRepeated
<1>1. Init => EndInv
  BY DEF Init, EndInv, Ordered, NotRepeated
<1>2. EndInv => EndedNotRepeated
  BY DEF EndInv, NotRepeated, EndedNotRepeated, Apart, Settled
<1> QED
  BY <1>1, <1>2, TypeInit, TypeNext, EndNext, PTL DEF Spec

-----------------------------------------------------------------------------
(* The parser                                                               *)

\* A sign is looked for from the left.
LEMMA SignAt ==
    ASSUME NEW s \in Seq(Int), NEW sign \in Int, NEW k \in 1 .. Len(s),
           s[k] = sign, \A i \in 1 .. k - 1 : s[i] # sign
    PROVE  /\ Has(s, sign)
           /\ Before(s, sign) = SubSeq(s, 1, k - 1)
           /\ After(s, sign) = SubSeq(s, k + 1, Len(s))
<1>. DEFINE hits == {i \in 1 .. Len(s) : s[i] = sign}
<1>1. Len(s) \in Nat /\ k \in hits /\ \A i \in hits : k <= i
  OBVIOUS
<1>2. SelectInSeq(s, LAMBDA x : x = sign) = IF hits # {} THEN Min(hits) ELSE 0
  BY DEF SelectInSeq
<1>. HIDE DEF hits
<1>3. hits \subseteq Nat
  BY DEF hits
<1>4. Min(hits) = k
  <2>1. Min(hits) = CHOOSE x \in hits : \A y \in hits : x <= y
    BY DEF Min
  <2>2. \A x \in hits : (\A y \in hits : x <= y) => x = k
    BY <1>1, <1>3
  <2>. QED BY <1>1, <2>1, <2>2
<1>5. SelectInSeq(s, LAMBDA x : x = sign) = k
  BY <1>1, <1>2, <1>4
<1>6. Has(s, sign)
  BY <1>1 DEF Has, Contains
<1>. QED BY <1>5, <1>6 DEF Before, After

\* n divides a number: it is a multiple of n.
LEMMA Multiples ==
    ASSUME NEW x \in Nat, NEW n \in Nat \ {0}
    PROVE  x % n = 0 <=> \E i \in 0 .. x : x = i * n
<1>. DEFINE q == x \div n
            r == x % n
<1>1. q \in Int /\ r \in Int /\ x = n * q + r /\ 0 <= r /\ r < n
  OBVIOUS
<1>. HIDE DEF q, r
<1>2. ASSUME r = 0 PROVE q \in 0 .. x /\ x = q * n
  <2>1. x = n * q
    BY <1>1, <1>2
  <2>2. q >= 0
    BY <1>1, <2>1
  <2>3. q <= n * q
    BY <1>1, <2>2
  <2>. QED BY <1>1, <2>1, <2>2, <2>3
<1>3. ASSUME NEW i \in 0 .. x, x = i * n PROVE r = 0
  <2>1. r = n * (i - q)
    BY <1>1, <1>3
  <2>2. CASE i - q >= 1
    BY <1>1, <2>1, <2>2
  <2>3. CASE i - q <= -1
    BY <1>1, <2>1, <2>3
  <2>4. CASE i - q = 0
    BY <1>1, <2>1, <2>4
  <2>. QED BY <1>1, <2>2, <2>3, <2>4
<1>. QED BY <1>2, <1>3 DEF r

\* Every n-th value of an interval.
StartsAt(a, T) == \A v \in T : a <= v /\ a .. v \subseteq T

LEMMA EveryNthOf ==
    ASSUME NEW a \in Nat, NEW T \in SUBSET Nat, NEW n \in Nat \ {0}, StartsAt(a, T)
    PROVE  \A v : v \in EveryNth(T, n) <=> v \in T /\ \E i \in 0 .. v - a : v = a + i * n
<1>. SUFFICES ASSUME NEW v \in T
              PROVE  v \in EveryNth(T, n) <=> \E i \in 0 .. v - a : v = a + i * n
  BY DEF EveryNth
<1>0. \A u \in T : a <= u /\ a .. u \subseteq T
  BY DEF StartsAt
<1>1. {u \in T : u < v} = a .. v - 1
  <2>1. ASSUME NEW u \in T, u < v PROVE u \in a .. v - 1
    BY <1>0, <2>1
  <2>2. ASSUME NEW u \in a .. v - 1 PROVE u \in T /\ u < v
    <3>1. u \in a .. v /\ a .. v \subseteq T
      BY <1>0
    <3>. QED BY <3>1
  <2>. QED BY <2>1, <2>2
<1>2. Cardinality(a .. v - 1) = v - a
  <2>1. v \in Nat /\ a <= v /\ v - 1 \in Int
    BY <1>0
  <2>2. Cardinality(a .. v - 1) = IF a > v - 1 THEN 0 ELSE v - 1 - a + 1
    BY <2>1, FS_Interval
  <2>. QED BY <2>1, <2>2
<1>3. v \in EveryNth(T, n) <=> (v - a) % n = 0
  BY <1>1, <1>2 DEF EveryNth
<1>. DEFINE x == v - a
<1>4. x \in Nat
  BY <1>0
<1>. HIDE DEF x
<1>5. x % n = 0 <=> \E i \in 0 .. x : x = i * n
  BY <1>4, Multiples
<1>6. \A i \in 0 .. x : x = i * n <=> v = a + i * n
  BY <1>4 DEF x
<1>. QED BY <1>3, <1>5, <1>6 DEF x

\* A single token of a field.
LEMMA OneToken ==
    ASSUME NEW s \in Seq(Int), NEW i \in 1 .. Len(s)
    PROVE  SubSeq(s, i, i) = <<s[i]>>
<1>1. SubSeq(s, i, i) = <<s[i]>> \o SubSeq(s, i + 1, i)
  <2>1. i \in i .. Len(s)
    OBVIOUS
  <2>. QED BY <2>1, SubSeqRecursiveFirst
<1>2. SubSeq(s, i + 1, i) = <<>>
  BY SubSeqEmpty
<1>3. <<s[i]>> \in Seq(Int)
  <2>1. s[i] \in Int
    OBVIOUS
  <2>. QED BY <2>1
<1>. QED BY <1>1, <1>2, <1>3, ConcatEmptySeq

\* The values of every field are an interval.
LEMMA FieldIsInterval ==
    ASSUME NEW k \in 1 .. 5
    PROVE  \E lo, hi \in Nat : lo <= hi /\ FieldRange(FieldNames[k]) = lo .. hi
<1>1. /\ FieldRange("minute") = 0 .. MinutesPerHour - 1 /\ FieldRange("hour") = 0 .. HoursPerDay - 1
      /\ FieldRange("dayOfMonth") = 1 .. DaysPerMonth /\ FieldRange("month") = 1 .. MonthsPerYear
      /\ FieldRange("dayOfWeek") = 0 .. DaysPerWeek
  BY DEF FieldRange
<1>2. FieldNames[k] \in {"minute", "hour", "dayOfMonth", "month", "dayOfWeek"}
  BY DEF FieldNames
<1>3. /\ 0 \in Nat /\ 1 \in Nat
      /\ MinutesPerHour - 1 \in Nat /\ HoursPerDay - 1 \in Nat
      /\ DaysPerMonth \in Nat /\ MonthsPerYear \in Nat /\ DaysPerWeek \in Nat
      /\ 0 <= MinutesPerHour - 1 /\ 0 <= HoursPerDay - 1 /\ 1 <= DaysPerMonth
      /\ 1 <= MonthsPerYear /\ 0 <= DaysPerWeek
  BY CalendarAssumption
<1>. QED BY <1>1, <1>2, <1>3

LEMMA StarRead == ASSUME NEW values PROVE ParseField(<<Star>>, values) = values
  BY DEF ParseField

\* */n
LEMMA StepRead ==
    ASSUME NEW values, NEW n \in Nat \ {0}
    PROVE  ParseField(<<Star, Slash, n>>, values) = EveryNth(values, n)
<1>. DEFINE s == <<Star, Slash, n>>
<1>1. s \in Seq(Int) /\ Len(s) = 3 /\ s[1] = Star /\ s[2] = Slash /\ s[3] = n
  BY DEF Star, Slash
<1>2. s # <<Star>>
  <2>1. Len(<<Star>>) = 1
    OBVIOUS
  <2>. QED BY <1>1, <2>1
<1>. HIDE DEF s
<1>3. Slash \in Int /\ Star # Slash /\ \A i \in 1 .. 1 : i = 1
  BY DEF Star, Slash
<1>4. /\ Has(s, Slash)
      /\ Before(s, Slash) = SubSeq(s, 1, 1)
      /\ After(s, Slash) = SubSeq(s, 3, 3)
  <2>1. 2 \in 1 .. Len(s) /\ \A i \in 1 .. 2 - 1 : s[i] # Slash
    BY <1>1, <1>3
  <2>2. /\ Has(s, Slash) /\ Before(s, Slash) = SubSeq(s, 1, 2 - 1)
        /\ After(s, Slash) = SubSeq(s, 2 + 1, Len(s))
    BY <1>1, <1>3, <2>1, SignAt
  <2>. QED BY <1>1, <2>2
<1>5. SubSeq(s, 1, 1) = <<Star>> /\ SubSeq(s, 3, 3) = <<n>>
  <2>1. 1 \in 1 .. Len(s) /\ 3 \in 1 .. Len(s)
    BY <1>1
  <2>. QED BY <1>1, <2>1, OneToken
<1>6. ~Throws(<<n>>) /\ Stoi(<<n>>) = n
  BY DEF Throws, Stoi
<1>7. ParseField(s, values) = ParseStep(s, values)
  BY <1>2, <1>4 DEF ParseField
<1>8. ParseStep(s, values) = EveryNth(values, n)
  BY <1>4, <1>5, <1>6 DEF ParseStep
<1>. QED BY <1>7, <1>8 DEF s

LEMMA NoSign == /\ Dash \in Int /\ Slash \in Int /\ Star \in Int /\ Comma \in Int
                /\ \A n \in Nat : n # Dash /\ n # Slash /\ n # Star /\ n # Comma
                /\ Dash # Slash /\ Star # Slash /\ Star # Dash /\ Comma # Slash /\ Comma # Dash
                /\ Comma # Star
  BY DEF Star, Slash, Dash, Comma

\* a-b
LEMMA RangeRead ==
    ASSUME NEW values, NEW a \in Nat, NEW b \in Nat
    PROVE  /\ ParseRange(<<a, Dash, b>>, values) = {v \in values : a <= v /\ v <= b}
           /\ Has(<<a, Dash, b>>, Dash) /\ ~Has(<<a, Dash, b>>, Slash)
           /\ <<a, Dash, b>> # <<Star>>
<1>. DEFINE s == <<a, Dash, b>>
<1>1. s \in Seq(Int) /\ Len(s) = 3 /\ s[1] = a /\ s[2] = Dash /\ s[3] = b
  BY NoSign
<1>2. s # <<Star>>
  <2>1. Len(<<Star>>) = 1
    OBVIOUS
  <2>. QED BY <1>1, <2>1
<1>. HIDE DEF s
<1>3. ~Has(s, Slash)
  <2>1. \A i \in 1 .. 3 : i = 1 \/ i = 2 \/ i = 3
    OBVIOUS
  <2>. QED BY <1>1, <2>1, NoSign DEF Has, Contains
<1>4. /\ Has(s, Dash)
      /\ Before(s, Dash) = SubSeq(s, 1, 1)
      /\ After(s, Dash) = SubSeq(s, 3, 3)
  <2>1. 2 \in 1 .. Len(s) /\ \A i \in 1 .. 2 - 1 : s[i] # Dash
    BY <1>1, NoSign
  <2>2. /\ Has(s, Dash) /\ Before(s, Dash) = SubSeq(s, 1, 2 - 1)
        /\ After(s, Dash) = SubSeq(s, 2 + 1, Len(s))
    BY <1>1, NoSign, <2>1, SignAt
  <2>. QED BY <1>1, <2>2
<1>5. SubSeq(s, 1, 1) = <<a>> /\ SubSeq(s, 3, 3) = <<b>>
  <2>1. 1 \in 1 .. Len(s) /\ 3 \in 1 .. Len(s)
    BY <1>1
  <2>. QED BY <1>1, <2>1, OneToken
<1>6. ~Throws(<<a>>) /\ Stoi(<<a>>) = a /\ ~Throws(<<b>>) /\ Stoi(<<b>>) = b
  BY DEF Throws, Stoi
<1>7. ParseRange(s, values) = {v \in values : a <= v /\ v <= b}
  BY <1>4, <1>5, <1>6 DEF ParseRange
<1>. QED BY <1>2, <1>3, <1>4, <1>7 DEF s

LEMMA SpanRead ==
    ASSUME NEW values, NEW a \in Nat, NEW b \in Nat
    PROVE  ParseField(<<a, Dash, b>>, values) = {v \in values : a <= v /\ v <= b}
<1>. DEFINE s == <<a, Dash, b>>
<1>1. /\ ParseRange(s, values) = {v \in values : a <= v /\ v <= b}
      /\ Has(s, Dash) /\ ~Has(s, Slash) /\ s # <<Star>>
  BY RangeRead
<1>. HIDE DEF s
<1>2. ParseField(s, values) = {v \in values : a <= v /\ v <= b}
  BY <1>1 DEF ParseField
<1>. QED BY <1>2 DEF s

\* a-b/n
LEMMA StepInRangeRead ==
    ASSUME NEW values, NEW a \in Nat, NEW b \in Nat, NEW n \in Nat \ {0}
    PROVE  ParseField(<<a, Dash, b, Slash, n>>, values) =
               EveryNth({v \in values : a <= v /\ v <= b}, n)
<1>. DEFINE s == <<a, Dash, b, Slash, n>>
            base == <<a, Dash, b>>
<1>1. /\ s \in Seq(Int) /\ Len(s) = 5 /\ s[1] = a /\ s[2] = Dash /\ s[3] = b
      /\ s[4] = Slash /\ s[5] = n
  BY NoSign
<1>2. s # <<Star>>
  <2>1. Len(<<Star>>) = 1
    OBVIOUS
  <2>. QED BY <1>1, <2>1
<1>. HIDE DEF s
<1>3. /\ Has(s, Slash)
      /\ Before(s, Slash) = SubSeq(s, 1, 3)
      /\ After(s, Slash) = SubSeq(s, 5, 5)
  <2>1. \A i \in 1 .. 3 : i = 1 \/ i = 2 \/ i = 3
    OBVIOUS
  <2>2. 4 \in 1 .. Len(s) /\ \A i \in 1 .. 4 - 1 : s[i] # Slash
    BY <1>1, <2>1, NoSign
  <2>3. /\ Has(s, Slash) /\ Before(s, Slash) = SubSeq(s, 1, 4 - 1)
        /\ After(s, Slash) = SubSeq(s, 4 + 1, Len(s))
    BY <1>1, NoSign, <2>2, SignAt
  <2>. QED BY <1>1, <2>3
<1>4. SubSeq(s, 1, 3) = base /\ SubSeq(s, 5, 5) = <<n>>
  <2>1. 5 \in 1 .. Len(s)
    BY <1>1
  <2>2. SubSeq(s, 5, 5) = <<n>>
    BY <1>1, <2>1, OneToken
  <2>3. /\ base \in Seq(Int) /\ Len(base) = 3
        /\ base[1] = a /\ base[2] = Dash /\ base[3] = b
    BY NoSign
  <2>. HIDE DEF base
  <2>4. \A i \in 1 .. 3 : i = 1 \/ i = 2 \/ i = 3
    OBVIOUS
  <2>5. \A i \in 1 .. 3 : s[i] \in Int /\ s[i] = base[i]
    BY <1>1, <2>3, <2>4, NoSign
  <2>6. /\ SubSeq(s, 1, 3) \in Seq(Int) /\ Len(SubSeq(s, 1, 3)) = 3
        /\ \A i \in 1 .. 3 : SubSeq(s, 1, 3)[i] = s[i]
    <3>1. /\ SubSeq(s, 1, 3) \in Seq(Int)
          /\ Len(SubSeq(s, 1, 3)) = IF 1 <= 3 THEN 3 - 1 + 1 ELSE 0
          /\ \A i \in 1 .. 3 - 1 + 1 : SubSeq(s, 1, 3)[i] = s[1 + i - 1]
      BY <2>5, SubSeqProperties
    <3>. HIDE DEF s
    <3>2. \A i \in 1 .. 3 : 1 + i - 1 = i /\ i \in 1 .. 3 - 1 + 1
      OBVIOUS
    <3>. QED BY <3>1, <3>2
  <2>7. SubSeq(s, 1, 3) = base
    BY <2>3, <2>5, <2>6, SeqEqual
  <2>. QED BY <2>2, <2>7
<1>5. ~Throws(<<n>>) /\ Stoi(<<n>>) = n
  BY DEF Throws, Stoi
<1>6. /\ ParseRange(base, values) = {v \in values : a <= v /\ v <= b}
      /\ Has(base, Dash) /\ base # <<Star>>
  BY RangeRead
<1>. HIDE DEF base
<1>7. ParseField(s, values) = ParseStep(s, values)
  BY <1>2, <1>3 DEF ParseField
<1>8. ParseStep(s, values) = EveryNth(ParseRange(base, values), n)
  BY <1>3, <1>4, <1>5, <1>6 DEF ParseStep
<1>. QED BY <1>6, <1>7, <1>8 DEF s

\* An order of a finite set names every element of it.
LEMMA OrderNamesAll ==
    ASSUME NEW S, IsFiniteSet(S), NEW order \in SetToSeqs(S)
    PROVE  /\ Cardinality(S) \in Nat
           /\ order \in [1 .. Cardinality(S) -> S]
           /\ \A x \in S : \E k \in 1 .. Cardinality(S) : order[k] = x
<1>. DEFINE n == Cardinality(S)
<1>1. n \in Nat
  BY FS_CardinalityType
<1>2. order \in [1 .. n -> S] /\ \A i, j \in 1 .. n : i # j => order[i] # order[j]
  BY DEF SetToSeqs
<1>3. Cardinality(1 .. n) = n
  <2>1. Cardinality(1 .. n) = IF 1 > n THEN 0 ELSE n - 1 + 1
    BY <1>1, FS_Interval
  <2>. HIDE DEF n
  <2>. QED BY <1>1, <2>1
<1>4. order \in Injection(1 .. n, S)
  <2>1. \A i, j \in 1 .. n : order[i] = order[j] => i = j
    BY <1>2
  <2>. HIDE DEF n
  <2>. QED BY <1>2, <2>1, Fun_IsInj
<1>5. order \in Surjection(1 .. n, S)
  BY <1>3, <1>4, FS_Injection
<1>. QED BY <1>1, <1>2, <1>5, Fun_SurjectionProperties

\* The tokens of a list.
ListOf(order, n) ==
    [i \in 1 .. 2 * n - 1 |-> IF i % 2 = 1 THEN order[(i + 1) \div 2] ELSE Comma]

Tokens(c, order, n) ==
    /\ c \in Seq(Int) /\ Len(c) = IF n = 0 THEN 0 ELSE 2 * n - 1
    /\ DOMAIN c = 1 .. 2 * n - 1
    /\ \A k \in 1 .. n : 2 * k - 1 \in DOMAIN c /\ c[2 * k - 1] = order[k]
    /\ \A k \in 1 .. n - 1 : 2 * k \in DOMAIN c /\ c[2 * k] = Comma
    /\ \A i \in DOMAIN c : \/ \E k \in 1 .. n : i = 2 * k - 1
                           \/ \E k \in 1 .. n - 1 : i = 2 * k

LEMMA ListTokens ==
    ASSUME NEW n \in Nat, NEW order \in [1 .. n -> Nat], NEW c, c = ListOf(order, n)
    PROVE  Tokens(c, order, n)
<1>. DEFINE N == IF n = 0 THEN 0 ELSE 2 * n - 1
<1>1. N \in Nat /\ 1 .. N = 1 .. 2 * n - 1
  OBVIOUS
<1>. HIDE DEF N
<1>2. DOMAIN c = 1 .. 2 * n - 1
      /\ \A i \in DOMAIN c : c[i] = IF i % 2 = 1 THEN order[(i + 1) \div 2] ELSE Comma
  BY DEF ListOf
<1>3. ASSUME NEW i \in 1 .. 2 * n - 1
      PROVE  \/ i % 2 = 1 /\ \E k \in 1 .. n : i = 2 * k - 1 /\ (i + 1) \div 2 = k
             \/ i % 2 = 0 /\ \E k \in 1 .. n - 1 : i = 2 * k
  <2>. DEFINE q == i \div 2
              r == i % 2
  <2>1. q \in Int /\ r \in 0 .. 1 /\ i = 2 * q + r
    OBVIOUS
  <2>. HIDE DEF q, r
  <2>2. CASE r = 1
    <3>1. q + 1 \in 1 .. n /\ i = 2 * (q + 1) - 1 /\ (i + 1) \div 2 = q + 1
      BY <2>1, <2>2
    <3>. QED BY <2>2, <3>1 DEF r
  <2>3. CASE r = 0
    <3>1. q \in 1 .. n - 1 /\ i = 2 * q
      BY <2>1, <2>3
    <3>. QED BY <2>3, <3>1 DEF r
  <2>. QED BY <2>1, <2>2, <2>3
<1>4. \A k \in 1 .. n : 2 * k - 1 \in 1 .. 2 * n - 1 /\ (2 * k - 1) % 2 = 1
                        /\ ((2 * k - 1) + 1) \div 2 = k
  OBVIOUS
<1>5. \A k \in 1 .. n - 1 : 2 * k \in 1 .. 2 * n - 1 /\ (2 * k) % 2 # 1
  OBVIOUS
<1>6. \A i \in 1 .. 2 * n - 1 : c[i] \in Int
  BY <1>2, <1>3, NoSign
<1>7. c \in [1 .. N -> Int]
  BY <1>1, <1>2, <1>6 DEF ListOf
<1>8. c \in Seq(Int) /\ Len(c) = N
  <2>1. c \in Seq(Int)
    BY <1>1, <1>7, SeqDef
  <2>2. Len(c) \in Nat /\ DOMAIN c = 1 .. Len(c) /\ DOMAIN c = 1 .. N
    BY <1>1, <1>2, <2>1, LenProperties
  <2>3. ASSUME Len(c) < N PROVE FALSE
    <3>1. N \in 1 .. N /\ N \notin 1 .. Len(c)
      BY <1>1, <2>2, <2>3
    <3>. QED BY <2>2, <3>1
  <2>4. ASSUME N < Len(c) PROVE FALSE
    <3>1. Len(c) \in 1 .. Len(c) /\ Len(c) \notin 1 .. N
      BY <1>1, <2>2, <2>4
    <3>. QED BY <2>2, <3>1
  <2>5. Len(c) \in Nat /\ N \in Nat
    BY <1>1, <2>2
  <2>6. Len(c) = N
    <3>. DEFINE k == Len(c)
    <3>1. k \in Nat /\ ~(k < N) /\ ~(N < k)
      BY <2>3, <2>4, <2>5
    <3>. HIDE DEF k
    <3>2. k = N
      BY <2>5, <3>1
    <3>. QED BY <3>2 DEF k
  <2>. QED BY <2>1, <2>6
<1>. QED BY <1>2, <1>3, <1>4, <1>5, <1>8 DEF N, Tokens

\* Between the commas of a list are its numbers.
LEMMA ListItems ==
    ASSUME NEW n \in Nat, NEW order \in [1 .. n -> Nat], NEW c, c = ListOf(order, n)
    PROVE  Items(c) = {<<order[k]>> : k \in 1 .. n}
<1>. DEFINE L == Len(c)
            cut == {0, L + 1} \cup {i \in DOMAIN c : c[i] = Comma}
            Adjoin(q) == /\ q[1] < q[2] /\ q[1] < L
                         /\ \A x \in cut : x <= q[1] \/ x >= q[2]
<1>1. /\ c \in Seq(Int) /\ L = IF n = 0 THEN 0 ELSE 2 * n - 1
      /\ DOMAIN c = 1 .. 2 * n - 1
      /\ \A k \in 1 .. n : 2 * k - 1 \in DOMAIN c /\ c[2 * k - 1] = order[k]
      /\ \A k \in 1 .. n - 1 : 2 * k \in DOMAIN c /\ c[2 * k] = Comma
      /\ \A i \in DOMAIN c : \/ \E k \in 1 .. n : i = 2 * k - 1
                             \/ \E k \in 1 .. n - 1 : i = 2 * k
  <2>1. Tokens(c, order, n)
    BY ListTokens
  <2>. QED BY <2>1 DEF Tokens
<1>2. Items(c) = {SubSeq(c, p[1] + 1, p[2] - 1) : p \in {q \in cut \X cut : Adjoin(q)}}
  BY DEF Items
<1>3. \A k \in 1 .. n : order[k] \in Nat
  OBVIOUS
<1>4. ASSUME n = 0 PROVE Items(c) = {<<order[k]>> : k \in 1 .. n}
  <2>1. L = 0 /\ DOMAIN c = {}
    BY <1>1, <1>4
  <2>2. cut = {0, 1}
    BY <2>1
  <2>3. {q \in cut \X cut : Adjoin(q)} = {}
    BY <2>1, <2>2
  <2>4. Items(c) = {}
    BY <1>2, <2>3
  <2>5. 1 .. n = {}
    BY <1>4
  <2>. QED BY <2>4, <2>5
<1>5. ASSUME n # 0 PROVE Items(c) = {<<order[k]>> : k \in 1 .. n}
  <2>1. cut = {2 * j : j \in 0 .. n} /\ L = 2 * n - 1
    <3>1. ASSUME NEW i \in DOMAIN c, c[i] = Comma PROVE \E k \in 1 .. n - 1 : i = 2 * k
      BY <1>1, <1>3, <3>1, NoSign
    <3>2. {i \in DOMAIN c : c[i] = Comma} = {2 * j : j \in 1 .. n - 1}
      BY <1>1, <3>1
    <3>3. L = 2 * n - 1 /\ L + 1 = 2 * n
      BY <1>1, <1>5
    <3>. HIDE DEF L
    <3>4. ASSUME NEW x \in {2 * j : j \in 0 .. n}
          PROVE  x \in {0, 2 * n} \cup {2 * j : j \in 1 .. n - 1}
      <4>1. PICK j \in 0 .. n : x = 2 * j
        OBVIOUS
      <4>2. j = 0 \/ j = n \/ j \in 1 .. n - 1
        OBVIOUS
      <4>. QED BY <4>1, <4>2
    <3>5. 0 = 2 * 0 /\ 0 \in 0 .. n /\ n \in 0 .. n /\ 1 .. n - 1 \subseteq 0 .. n
      OBVIOUS
    <3>. QED BY <3>2, <3>3, <3>4, <3>5
  <2>. HIDE DEF L, cut
  <2>2. ASSUME NEW q \in cut \X cut, Adjoin(q)
        PROVE  \E k \in 1 .. n : q = <<2 * k - 2, 2 * k>>
    <3>1. PICK i \in 0 .. n, j \in 0 .. n : q[1] = 2 * i /\ q[2] = 2 * j
      BY <2>1
    <3>2. i < j /\ i + 1 \in 0 .. n
      BY <2>2, <3>1
    <3>3. 2 * (i + 1) \in cut
      BY <2>1, <3>2
    <3>4. j = i + 1
      BY <2>2, <3>1, <3>2, <3>3
    <3>5. j \in 1 .. n /\ q = <<q[1], q[2]>> /\ q[1] = 2 * j - 2 /\ q[2] = 2 * j
      BY <3>1, <3>2, <3>4
    <3>. QED BY <3>5
  <2>3. ASSUME NEW k \in 1 .. n
        PROVE  <<2 * k - 2, 2 * k>> \in cut \X cut /\ Adjoin(<<2 * k - 2, 2 * k>>)
    <3>1. 2 * k - 2 = 2 * (k - 1) /\ k - 1 \in 0 .. n /\ k \in 0 .. n
      OBVIOUS
    <3>2. 2 * k - 2 \in cut /\ 2 * k \in cut
      BY <2>1, <3>1
    <3>3. 2 * k - 2 < 2 * k /\ 2 * k - 2 < L
      BY <2>1
    <3>4. ASSUME NEW x \in cut PROVE x <= 2 * k - 2 \/ x >= 2 * k
      <4>1. PICK j \in 0 .. n : x = 2 * j
        BY <2>1
      <4>. QED BY <4>1
    <3>. QED BY <3>2, <3>3, <3>4
  <2>. HIDE DEF Adjoin
  <2>4. ASSUME NEW k \in 1 .. n
        PROVE  SubSeq(c, (2 * k - 2) + 1, 2 * k - 1) = <<order[k]>>
    <3>1. 2 * k - 1 \in 1 .. Len(c) /\ c[2 * k - 1] = order[k] /\ (2 * k - 2) + 1 = 2 * k - 1
      BY <1>1, <2>1 DEF L
    <3>2. SubSeq(c, 2 * k - 1, 2 * k - 1) = <<c[2 * k - 1]>>
      BY <1>1, <3>1, OneToken
    <3>. QED BY <3>1, <3>2
  <2>5. ASSUME NEW p \in {q \in cut \X cut : Adjoin(q)}
        PROVE  SubSeq(c, p[1] + 1, p[2] - 1) \in {<<order[k]>> : k \in 1 .. n}
    <3>1. PICK k \in 1 .. n : p = <<2 * k - 2, 2 * k>>
      BY <2>2
    <3>. QED BY <2>4, <3>1
  <2>6. ASSUME NEW k \in 1 .. n
        PROVE  <<order[k]>> \in {SubSeq(c, p[1] + 1, p[2] - 1) : p \in {q \in cut \X cut : Adjoin(q)}}
    <3>. DEFINE p == <<2 * k - 2, 2 * k>>
    <3>1. p \in {q \in cut \X cut : Adjoin(q)} /\ p[1] = 2 * k - 2 /\ p[2] = 2 * k
      BY <2>3
    <3>2. <<order[k]>> = SubSeq(c, p[1] + 1, p[2] - 1)
      BY <2>4, <3>1
    <3>. HIDE DEF p
    <3>. QED BY <3>1, <3>2
  <2>. QED BY <1>2, <2>5, <2>6
<1>. QED BY <1>4, <1>5

\* A list is read as the values it names.
LEMMA ListRead ==
    ASSUME NEW values, NEW S, S \subseteq Nat, IsFiniteSet(S), NEW order \in SetToSeqs(S)
    PROVE  ParseField(ListOf(order, Cardinality(S)), values) = values \cap S
<1>. DEFINE n == Cardinality(S)
            c == ListOf(order, n)
<1>1. /\ n \in Nat /\ order \in [1 .. n -> S]
      /\ \A x \in S : \E k \in 1 .. n : order[k] = x
  BY OrderNamesAll
<1>2. order \in [1 .. n -> Nat]
  BY <1>1
<1>. HIDE DEF n
<1>3. /\ c \in Seq(Int) /\ DOMAIN c = 1 .. Len(c)
      /\ \A k \in 1 .. n : 2 * k - 1 \in DOMAIN c /\ c[2 * k - 1] = order[k]
      /\ \A i \in DOMAIN c : c[i] \in Nat \/ c[i] = Comma
  <2>1. /\ c \in Seq(Int)
        /\ \A k \in 1 .. n : 2 * k - 1 \in DOMAIN c /\ c[2 * k - 1] = order[k]
        /\ \A k \in 1 .. n - 1 : 2 * k \in DOMAIN c /\ c[2 * k] = Comma
        /\ \A i \in DOMAIN c : \/ \E k \in 1 .. n : i = 2 * k - 1
                               \/ \E k \in 1 .. n - 1 : i = 2 * k
    <3>1. Tokens(c, order, n)
      BY <1>1, <1>2, ListTokens
    <3>. HIDE DEF c
    <3>. QED BY <3>1 DEF Tokens
  <2>. HIDE DEF c
  <2>2. DOMAIN c = 1 .. Len(c)
    BY <2>1, LenProperties
  <2>. QED BY <1>2, <2>1, <2>2
<1>4. Items(c) = {<<order[k]>> : k \in 1 .. n}
  BY <1>1, <1>2, ListItems
<1>. HIDE DEF c
<1>5. c # <<Star>> /\ ~Has(c, Slash) /\ ~Has(c, Dash)
  <2>1. \A i \in 1 .. Len(c) : c[i] # Slash /\ c[i] # Dash /\ c[i] # Star
    BY <1>3, NoSign
  <2>2. ASSUME c = <<Star>> PROVE FALSE
    <3>1. 1 \in 1 .. Len(c) /\ c[1] = Star
      BY <2>2
    <3>. QED BY <2>1, <3>1
  <2>. QED BY <2>1, <2>2 DEF Has, Contains
<1>6. ParseField(c, values) = ParseList(c, values)
  BY <1>5 DEF ParseField
<1>7. \A k \in 1 .. n : ~Throws(<<order[k]>>) /\ Stoi(<<order[k]>>) = order[k]
  BY <1>2 DEF Throws, Stoi
<1>8. ~\E item \in Items(c) : Throws(item)
  BY <1>4, <1>7
<1>9. {Stoi(item) : item \in Items(c)} = S
  <2>1. {Stoi(item) : item \in Items(c)} = {Stoi(<<order[k]>>) : k \in 1 .. n}
    BY <1>4
  <2>2. {Stoi(<<order[k]>>) : k \in 1 .. n} = {order[k] : k \in 1 .. n}
    BY <1>7
  <2>3. {order[k] : k \in 1 .. n} = S
    BY <1>1
  <2>. QED BY <2>1, <2>2, <2>3
<1>10. ParseList(c, values) = values \cap S
  BY <1>8, <1>9 DEF ParseList
<1>. QED BY <1>6, <1>10 DEF c, n

\* Every kind of field, in every way to write it down, is read as it is meant.
LEMMA StepMeant ==
    ASSUME NEW lo \in Nat, NEW hi \in Nat, lo <= hi, NEW n \in Nat \ {0}
    PROVE  EveryNth(lo .. hi, n) = Meaning(EveryStep(n), lo .. hi)
<1>. DEFINE values == lo .. hi
<1>1. StartsAt(lo, values)
  BY DEF StartsAt
<1>2. lo = CHOOSE v \in values : \A u \in values : v <= u
  <2>1. lo \in values /\ \A u \in values : lo <= u
    OBVIOUS
  <2>2. \A v \in values : (\A u \in values : v <= u) => v = lo
    OBVIOUS
  <2>. HIDE DEF values
  <2>. QED BY <2>1, <2>2
<1>3. Cardinality(values) = hi - lo + 1
  <2>1. Cardinality(lo .. hi) = IF lo > hi THEN 0 ELSE hi - lo + 1
    BY FS_Interval
  <2>. QED BY <2>1
<1>4. Meaning(EveryStep(n), values) = values \cap {lo + i * n : i \in 0 .. hi - lo + 1}
  <2>. HIDE DEF values
  <2>1. EveryStep(n).kind = "every" /\ EveryStep(n).step = n
    BY DEF EveryStep
  <2>. QED BY <1>2, <1>3, <2>1 DEF Meaning
<1>5. \A v : v \in EveryNth(values, n) <=> v \in values /\ \E i \in 0 .. v - lo : v = lo + i * n
  <2>1. values \in SUBSET Nat
    OBVIOUS
  <2>. HIDE DEF values
  <2>. QED BY <1>1, <2>1, EveryNthOf
<1>6. ASSUME NEW v \in values
      PROVE  (\E i \in 0 .. v - lo : v = lo + i * n) <=> \E i \in 0 .. hi - lo + 1 : v = lo + i * n
  <2>1. 0 .. v - lo \subseteq 0 .. hi - lo + 1
    OBVIOUS
  <2>2. ASSUME NEW i \in 0 .. hi - lo + 1, v = lo + i * n PROVE i \in 0 .. v - lo
    <3>1. i <= i * n
      OBVIOUS
    <3>2. i * n = v - lo
      BY <2>2
    <3>. QED BY <3>1, <3>2
  <2>. QED BY <2>1, <2>2
<1>. QED BY <1>4, <1>5, <1>6

LEMMA StepInRangeMeant ==
    ASSUME NEW lo \in Nat, NEW hi \in Nat, NEW a \in lo .. hi, NEW b \in Nat,
           NEW n \in Nat \ {0}
    PROVE  EveryNth({v \in lo .. hi : a <= v /\ v <= b}, n) = Meaning(EveryIn(a, b, n), lo .. hi)
<1>. DEFINE T == {v \in lo .. hi : a <= v /\ v <= b}
<1>1. T \in SUBSET Nat /\ a \in Nat /\ StartsAt(a, T)
  BY DEF StartsAt
<1>2. \A v : v \in EveryNth(T, n) <=> v \in T /\ \E i \in 0 .. v - a : v = a + i * n
  <2>. HIDE DEF T
  <2>. QED BY <1>1, EveryNthOf
<1>3. Meaning(EveryIn(a, b, n), lo .. hi) = (lo .. hi) \cap Progression(a, b, n)
  <2>1. /\ EveryIn(a, b, n).kind = "everyIn" /\ EveryIn(a, b, n).from = a
        /\ EveryIn(a, b, n).to = b /\ EveryIn(a, b, n).step = n
    BY DEF EveryIn
  <2>. QED BY <2>1 DEF Meaning
<1>4. ASSUME NEW v \in T
      PROVE  (\E i \in 0 .. v - a : v = a + i * n) <=> v \in {a + i * n : i \in 0 .. b - a}
  <2>1. 0 .. v - a \subseteq 0 .. b - a
    OBVIOUS
  <2>2. ASSUME NEW i \in 0 .. b - a, v = a + i * n PROVE i \in 0 .. v - a
    <3>1. i <= i * n
      OBVIOUS
    <3>2. i * n = v - a
      BY <2>2
    <3>. QED BY <3>1, <3>2
  <2>. QED BY <2>1, <2>2
<1>5. \A v \in lo .. hi : v \in T <=> v \in a .. b
  OBVIOUS
<1>. QED BY <1>2, <1>3, <1>4, <1>5 DEF Progression

LEMMA FieldRead ==
    ASSUME NEW lo \in Nat, NEW hi \in Nat, lo <= hi,
           NEW m, Writable(m, lo .. hi), NEW s \in Written(m)
    PROVE  ParseField(s, lo .. hi) = Meaning(m, lo .. hi)
<1>. DEFINE values == lo .. hi
<1>1. CASE m.kind = "any"
  <2>1. s = <<Star>>
    BY <1>1 DEF Written
  <2>. HIDE DEF values
  <2>2. Meaning(m, values) = values
    BY <1>1 DEF Meaning
  <2>. QED BY <2>1, <2>2, StarRead DEF values
<1>2. CASE m.kind = "every"
  <2>1. s = <<Star, Slash, m.step>> /\ m.step \in Nat \ {0}
    BY <1>2 DEF Written, Writable
  <2>2. Meaning(m, values) = Meaning(EveryStep(m.step), values)
    <3>. HIDE DEF values
    <3>1. EveryStep(m.step).kind = "every" /\ EveryStep(m.step).step = m.step
      BY DEF EveryStep
    <3>. QED BY <1>2, <3>1 DEF Meaning
  <2>3. ParseField(s, values) = EveryNth(values, m.step)
    <3>. HIDE DEF values
    <3>. QED BY <2>1, StepRead
  <2>. QED BY <2>1, <2>2, <2>3, StepMeant
<1>3. CASE m.kind = "span"
  <2>1. s = <<m.from, Dash, m.to>> /\ m.from \in Nat /\ m.to \in Nat
    BY <1>3 DEF Written, Writable
  <2>2. Meaning(m, values) = values \cap (m.from .. m.to)
    <3>. HIDE DEF values
    <3>. QED BY <1>3 DEF Meaning
  <2>3. ParseField(s, values) = {v \in values : m.from <= v /\ v <= m.to}
    <3>. HIDE DEF values
    <3>1. \A a, b \in Nat : ParseField(<<a, Dash, b>>, values) = {v \in values : a <= v /\ v <= b}
      BY SpanRead
    <3>. QED BY <2>1, <3>1
  <2>4. {v \in values : m.from <= v /\ v <= m.to} = values \cap (m.from .. m.to)
    BY <2>1
  <2>. QED BY <2>2, <2>3, <2>4
<1>4. CASE m.kind = "everyIn"
  <2>1. /\ s = <<m.from, Dash, m.to, Slash, m.step>>
        /\ m.from \in values /\ m.to \in Nat /\ m.step \in Nat \ {0}
    BY <1>4 DEF Written, Writable
  <2>2. m.from \in Nat
    BY <2>1
  <2>3. Meaning(m, values) = Meaning(EveryIn(m.from, m.to, m.step), values)
    <3>. HIDE DEF values
    <3>. DEFINE e == EveryIn(m.from, m.to, m.step)
    <3>1. e.kind = "everyIn" /\ e.from = m.from /\ e.to = m.to /\ e.step = m.step
      BY DEF EveryIn
    <3>. HIDE DEF e
    <3>2. Meaning(e, values) = values \cap Progression(e.from, e.to, e.step)
      BY <3>1 DEF Meaning
    <3>3. Meaning(m, values) = values \cap Progression(m.from, m.to, m.step)
      BY <1>4 DEF Meaning
    <3>. QED BY <3>1, <3>2, <3>3 DEF e
  <2>4. ParseField(s, values) = EveryNth({v \in values : m.from <= v /\ v <= m.to}, m.step)
    <3>. HIDE DEF values
    <3>. QED BY <2>1, <2>2, StepInRangeRead
  <2>5. EveryNth({v \in lo .. hi : m.from <= v /\ v <= m.to}, m.step)
            = Meaning(EveryIn(m.from, m.to, m.step), lo .. hi)
    BY <2>1, StepInRangeMeant
  <2>. QED BY <2>3, <2>4, <2>5
<1>5. CASE m.kind = "values"
  <2>. DEFINE n == Cardinality(m.set)
  <2>1. m.set \subseteq Nat /\ IsFiniteSet(m.set)
    BY <1>5 DEF Writable
  <2>2. Meaning(m, values) = values \cap m.set
    <3>. HIDE DEF values
    <3>. QED BY <1>5 DEF Meaning
  <2>3. PICK order \in SetToSeqs(m.set) : s = ListOf(order, n)
    <3>1. Written(m) = {ListOf(order, n) : order \in SetToSeqs(m.set)}
      BY <1>5 DEF Written, ListOf
    <3>. QED BY <3>1
  <2>. HIDE DEF values
  <2>. QED BY <2>1, <2>2, <2>3, ListRead DEF values
<1>. QED BY <1>1, <1>2, <1>3, <1>4, <1>5 DEF Writable

-----------------------------------------------------------------------------
(* The expression and what it means                                         *)

\* The job still has the expression that its user wrote, for what he meant.
Kept ==
    /\ DOMAIN meant = {FieldNames[i] : i \in 1 .. 5}
    /\ \A f \in DOMAIN meant : Writable(meant[f], FieldRange(f))
    /\ Len(cron) = 5
    /\ \A i \in 1 .. 5 : cron[i] \in Written(meant[FieldNames[i]])

LEMMA KeptInit == Init => Kept
<1>. SUFFICES ASSUME Init PROVE Kept
  OBVIOUS
<1>1. PICK s \in Scenarios : meant = s.meant
  BY DEF Init
<1>2. /\ DOMAIN meant = {FieldNames[i] : i \in 1 .. 5}
      /\ \A f \in DOMAIN meant : Writable(meant[f], FieldRange(f))
  BY <1>1, MeaningAssumption
<1>3. /\ cron \in [1 .. 5 -> UNION {Written(meant[f]) : f \in DOMAIN meant}]
      /\ \A i \in 1 .. 5 : cron[i] \in Written(meant[FieldNames[i]])
  BY DEF Init
<1>4. Len(cron) = 5
  BY <1>3
<1>. QED BY <1>2, <1>3, <1>4 DEF Kept

\* The parser finds in every field what is meant by it.
LEMMA EveryFieldRead ==
    ASSUME Kept, NEW i \in 1 .. 5
    PROVE  ParseField(cron[i], FieldRange(FieldNames[i])) = MeantIn(FieldNames[i])
<1>1. PICK lo \in Nat, hi \in Nat : lo <= hi /\ FieldRange(FieldNames[i]) = lo .. hi
  BY FieldIsInterval
<1>2. /\ Writable(meant[FieldNames[i]], lo .. hi)
      /\ cron[i] \in Written(meant[FieldNames[i]])
  BY <1>1 DEF Kept
<1>3. ParseField(cron[i], lo .. hi) = Meaning(meant[FieldNames[i]], lo .. hi)
  BY <1>1, <1>2, FieldRead
<1>. QED BY <1>1, <1>3 DEF MeantIn

LEMMA EveryFieldParsed ==
    ASSUME Kept
    PROVE  /\ DOMAIN Parse(cron) = DOMAIN meant
           /\ \A f \in DOMAIN meant : Parse(cron)[f] = MeantIn(f)
<1>1. DOMAIN Parse(cron) = DOMAIN meant
  BY DEF Kept, Parse
<1>2. ASSUME NEW f \in DOMAIN meant PROVE Parse(cron)[f] = MeantIn(f)
  <2>. DEFINE i == CHOOSE k \in 1 .. 5 : FieldNames[k] = f
  <2>1. i \in 1 .. 5 /\ FieldNames[i] = f
    <3>1. \E k \in 1 .. 5 : FieldNames[k] = f
      BY DEF Kept
    <3>. QED BY <3>1
  <2>2. Parse(cron)[f] = ParseField(cron[i], FieldRange(f))
    <3>1. f \in {FieldNames[k] : k \in 1 .. 5} /\ ~(Len(cron) # 5)
      BY DEF Kept
    <3>. QED BY <3>1 DEF Parse
  <2>. HIDE DEF i
  <2>. QED BY <2>1, <2>2, EveryFieldRead
<1>. QED BY <1>1, <1>2

LEMMA NamesOfFields ==
    ASSUME Kept
    PROVE  /\ "dayOfWeek" \in DOMAIN meant
           /\ \A f \in DOMAIN meant : f \in {"minute", "hour", "dayOfMonth", "month", "dayOfWeek"}
<1>1. \A i \in 1 .. 5 : FieldNames[i] \in {"minute", "hour", "dayOfMonth", "month", "dayOfWeek"}
  BY DEF FieldNames
<1>2. 5 \in 1 .. 5 /\ FieldNames[5] = "dayOfWeek"
  BY DEF FieldNames
<1>. QED BY <1>1, <1>2 DEF Kept

\* A moment that matches is one that is meant.
LEMMA MatchIsMeant ==
    ASSUME Kept, NEW t \in Nat, Matches(Parse(cron), t)
    PROVE  Due(t)
<1>. DEFINE d == Tm(t).dayOfWeek
            tm == [Tm(t) EXCEPT !.dayOfWeek = IF @ = 0 THEN DaysPerWeek ELSE @]
<1>1. \A f \in DOMAIN Parse(cron) : tm[f] \in Parse(cron)[f]
  BY DEF Matches
<1>2. \A f \in DOMAIN meant : tm[f] \in MeantIn(f)
  <2>. HIDE DEF tm
  <2>. QED BY <1>1, EveryFieldParsed
<1>3. \A f \in DOMAIN meant : f \in {"minute", "hour", "dayOfMonth", "month", "dayOfWeek"}
  BY NamesOfFields
<1>4. "dayOfWeek" \in DOMAIN meant
  BY NamesOfFields
<1>5. /\ tm.minute = Tm(t).minute /\ tm.hour = Tm(t).hour
      /\ tm.dayOfMonth = Tm(t).dayOfMonth /\ tm.month = Tm(t).month
      /\ tm.dayOfWeek = IF d = 0 THEN DaysPerWeek ELSE d
  BY DEF Tm
<1>6. d \in 0 .. DaysPerWeek - 1
  <2>1. SecondsPerMinute \in Nat \ {0} /\ MinutesPerHour * HoursPerDay \in Nat \ {0}
        /\ DaysPerWeek \in Nat \ {0}
    BY CalendarAssumption
  <2>2. MinuteOf(t) \in Nat
    BY <2>1 DEF MinuteOf
  <2>3. DayOf(t) \in Nat
    <3>. DEFINE m == MinuteOf(t)
                k == MinutesPerHour * HoursPerDay
    <3>1. m \in Nat /\ k \in Nat \ {0}
      BY <2>1, <2>2
    <3>. HIDE DEF m, k
    <3>2. m \div k \in Nat
      BY <3>1
    <3>. QED BY <3>2 DEF m, k, DayOf
  <2>4. DayOf(t) % DaysPerWeek \in 0 .. DaysPerWeek - 1
    BY <2>1, <2>3
  <2>. QED BY <2>4 DEF Tm
<1>. HIDE DEF tm, d
<1>7. \A f \in DOMAIN meant \ {"dayOfWeek"} : Tm(t)[f] \in MeantIn(f)
  <2>. SUFFICES ASSUME NEW f \in DOMAIN meant \ {"dayOfWeek"} PROVE Tm(t)[f] = tm[f]
    BY <1>2
  <2>. QED BY <1>3, <1>5
<1>8. \E e \in MeantIn("dayOfWeek") : d = e % DaysPerWeek
  <2>1. DaysPerWeek \in Nat \ {0} /\ tm.dayOfWeek \in MeantIn("dayOfWeek")
    BY <1>2, <1>4, CalendarAssumption
  <2>2. CASE d = 0
    <3>1. tm.dayOfWeek = DaysPerWeek /\ DaysPerWeek % DaysPerWeek = 0
      BY <1>5, <2>1, <2>2
    <3>. QED BY <2>1, <2>2, <3>1
  <2>3. CASE d # 0
    <3>1. tm.dayOfWeek = d /\ d % DaysPerWeek = d
      BY <1>5, <1>6, <2>1, <2>3
    <3>. QED BY <2>1, <3>1
  <2>. QED BY <2>2, <2>3
<1>. QED BY <1>7, <1>8 DEF Due, d

(* Every form of field that the parser knows is read as users mean it: all  *)
(* numbers, spans, steps and lists in any order, on every calendar.         *)
THEOREM FieldsReadAsMeant == Spec => []ParsedAsMeant
<1>1. Kept /\ [Next]_vars => Kept'
  <2>. SUFFICES ASSUME Kept, [Next]_vars PROVE Kept'
    OBVIOUS
  <2>1. UNCHANGED <<cron, meant>>
    BY DEF Next, vars, SubmitSave, SubmitPush, Fetch, DrainEnds, Skip, Take, Save, Send,
           Receive, WriteRow, Tick
  <2>. QED BY <2>1 DEF Kept
<1>2. Kept => ParsedAsMeant
  BY EveryFieldRead DEF ParsedAsMeant
<1>. QED BY <1>1, <1>2, KeptInit, PTL DEF Spec

-----------------------------------------------------------------------------
(* Starts                                                                   *)

\* What the schedule thread is about to save was due when it looked, which is
\* not long ago.
DueWhenTaken == pc = "save" => Due(mark) /\ now - mark \in 0 .. Delay

StartInv == Kept /\ DueWhenTaken

LEMMA StartNext == TypeInv /\ StartInv /\ [Next]_vars => StartInv'
<1>. SUFFICES ASSUME TypeInv, StartInv, [Next]_vars PROVE StartInv'
  OBVIOUS
<1>1. now \in Nat /\ mark \in Nat /\ mark <= now /\ Delay \in Nat
  BY TimingAssumption DEF TypeInv, TypeOK
<1>2. UNCHANGED <<cron, meant>>
  BY DEF Next, vars, SubmitSave, SubmitPush, Fetch, DrainEnds, Skip, Take, Save, Send,
         Receive, WriteRow, Tick
<1>3. Kept'
  BY <1>2 DEF StartInv, Kept
<1>4. ASSUME mark' = mark PROVE Due(mark)' <=> Due(mark)
  BY <1>2, <1>4 DEF Due, MeantIn
<1>5. CASE Take
  <2>1. mark' = now /\ now' = now
    BY <1>5 DEF Take
  <2>2. Matches(Parse(cron), now)
    BY <1>5 DEF Take, ShouldExecute
  <2>3. Due(now)
    BY <1>1, <2>2, MatchIsMeant DEF StartInv
  <2>4. Due(mark)'
    BY <1>2, <2>1, <2>3 DEF Due, MeantIn
  <2>5. now' - mark' \in 0 .. Delay
    BY <1>1, <2>1
  <2>. QED BY <1>3, <2>4, <2>5 DEF StartInv, DueWhenTaken
<1>6. CASE Tick
  <2>1. pc' = pc /\ mark' = mark /\ now' = now + 1
    BY <1>6 DEF Tick, schedVars
  <2>2. ASSUME pc = "save" PROVE Due(mark)' /\ now' - mark' \in 0 .. Delay
    <3>1. now < mark + Delay
      BY <1>6, <2>2 DEF Tick
    <3>2. Due(mark)
      BY <2>2 DEF StartInv, DueWhenTaken
    <3>3. now' - mark' \in 0 .. Delay
      BY <1>1, <2>1, <3>1
    <3>. QED BY <1>4, <2>1, <3>2, <3>3
  <2>. QED BY <1>3, <2>1, <2>2 DEF StartInv, DueWhenTaken
<1>7. ASSUME pc' = "save" => pc = "save", UNCHANGED <<now, mark>> PROVE StartInv'
  BY <1>3, <1>4, <1>7 DEF StartInv, DueWhenTaken
<1>8. CASE DrainEnds \/ Fetch \/ Save \/ Send
  <2>1. pc' # "save"
    BY <1>8 DEF DrainEnds, Fetch, Save, Send
  <2>. QED BY <1>3, <2>1 DEF StartInv, DueWhenTaken
<1>9. CASE SubmitSave \/ SubmitPush \/ Skip
  BY <1>7, <1>9 DEF SubmitSave, SubmitPush, Skip, schedVars
<1>10. CASE Receive \/ WriteRow \/ UNCHANGED vars
  BY <1>7, <1>10 DEF Receive, WriteRow, vars, schedVars
<1>. QED BY <1>5, <1>6, <1>8, <1>9, <1>10 DEF Next

\* A row is only added by the schedule thread.
LEMMA RowAdded ==
    ASSUME TypeInv, StartInv, [Next]_vars, NEW i \in DOMAIN rows' \ DOMAIN rows
    PROVE  Due(rows'[i].due) /\ rows'[i].trig - rows'[i].due \in 0 .. Delay
<1>1. rows \in Seq(Row) /\ DOMAIN rows = 1 .. Len(rows) /\ Len(rows) \in Nat
  BY LenProperties DEF TypeInv, TypeOK
<1>2. CASE Save
  <2>. DEFINE new == [due |-> mark, trig |-> now, end |-> NoEnd]
  <2>1. new \in Row /\ new.due = mark /\ new.trig = now
    BY DEF Row, TypeInv, TypeOK
  <2>2. rows' = Append(rows, new) /\ pc = "save"
    BY <1>2 DEF Save
  <2>. HIDE DEF new
  <2>3. DOMAIN rows' = 1 .. Len(rows) + 1 /\ rows'[Len(rows) + 1] = new
    BY <1>1, <2>1, <2>2, AppendProperties, LenProperties
  <2>4. i = Len(rows) + 1
    BY <1>1, <2>3
  <2>. QED BY <2>1, <2>2, <2>3, <2>4 DEF StartInv, DueWhenTaken
<1>3. CASE WriteRow
  BY <1>3 DEF WriteRow
<1>4. CASE ~(Save \/ WriteRow)
  <2>1. rows' = rows
    BY <1>4 DEF Next, vars, dbVars, SubmitSave, SubmitPush, Fetch, DrainEnds, Skip, Take, Send,
           Receive, Tick
  <2>. QED BY <2>1
<1>. QED BY <1>2, <1>3, <1>4

(* The job is started when the user means it to be, whatever he means, on   *)
(* every calendar: no other moment matches, and an execution is saved at    *)
(* most Delay after the moment that did.                                    *)
THEOREM StartedWhenMeant == Spec => StartsWhenMeant
<1>1. Init => StartInv
  BY KeptInit DEF Init, StartInv, DueWhenTaken
<1>2. TypeInv /\ StartInv /\ [Next]_vars =>
          [\A i \in DOMAIN rows' \ DOMAIN rows :
              /\ Due(rows'[i].due)
              /\ rows'[i].trig - rows'[i].due \in 0 .. Delay]_vars
  BY RowAdded
<1>. QED BY <1>1, <1>2, TypeInit, TypeNext, StartNext, PTL DEF Spec, StartsWhenMeant

-----------------------------------------------------------------------------
(* Minutes                                                                  *)

SecondOf(t) == t % SecondsPerMinute

LEMMA MinuteParts ==
    ASSUME NEW t \in Nat
    PROVE  /\ MinuteOf(t) \in Nat
           /\ SecondOf(t) \in 0 .. SecondsPerMinute - 1
           /\ t = MinuteOf(t) * SecondsPerMinute + SecondOf(t)
<1>. DEFINE S == SecondsPerMinute
<1>1. S \in Nat \ {0}
  BY CalendarAssumption
<1>. HIDE DEF S
<1>. DEFINE q == t \div S
            r == t % S
<1>2. q \in Int /\ r \in Int /\ t = S * q + r /\ 0 <= r /\ r < S
  BY <1>1
<1>. HIDE DEF q, r
<1>3. q >= 0
  <2>1. CASE q <= -1
    <3>1. S * q <= -S
      BY <1>1, <1>2, <2>1
    <3>. QED BY <1>1, <1>2, <3>1
  <2>. QED BY <1>2, <2>1
<1>4. q \in Nat /\ r \in 0 .. S - 1 /\ t = q * S + r
  BY <1>1, <1>2, <1>3
<1>5. MinuteOf(t) = q /\ SecondOf(t) = r /\ SecondsPerMinute = S
  BY DEF S, q, r, MinuteOf, SecondOf
<1>. QED BY <1>4, <1>5

LEMMA MinuteIs ==
    ASSUME NEW m \in Nat, NEW r \in 0 .. SecondsPerMinute - 1
    PROVE  /\ m * SecondsPerMinute + r \in Nat
           /\ MinuteOf(m * SecondsPerMinute + r) = m
           /\ SecondOf(m * SecondsPerMinute + r) = r
<1>. DEFINE S == SecondsPerMinute
            t == m * S + r
            q == MinuteOf(t)
            p == SecondOf(t)
<1>1. S \in Nat \ {0} /\ r \in 0 .. S - 1
  BY CalendarAssumption
<1>2. t \in Nat
  <2>. HIDE DEF S
  <2>1. m * S \in Nat
    BY <1>1
  <2>. QED BY <1>1, <2>1
<1>3. q \in Nat /\ p \in 0 .. S - 1 /\ t = q * S + p
  <2>. HIDE DEF t
  <2>. QED BY <1>2, MinuteParts
<1>4. (q - m) * S = r - p
  <2>. HIDE DEF S, q, p
  <2>1. m * S + r = q * S + p
    BY <1>3
  <2>2. (q - m) * S = q * S - m * S /\ m * S \in Int /\ q * S \in Int
    BY <1>1, <1>3
  <2>. QED BY <1>1, <1>3, <2>1, <2>2
<1>. HIDE DEF S, t, q, p
<1>5. q - m = 0
  <2>1. CASE q - m >= 1
    <3>1. (q - m) * S >= S
      BY <1>1, <1>3, <2>1
    <3>. QED BY <1>1, <1>3, <1>4, <3>1
  <2>2. CASE q - m <= -1
    <3>1. (q - m) * S <= -S
      BY <1>1, <1>3, <2>2
    <3>. QED BY <1>1, <1>3, <1>4, <3>1
  <2>. QED BY <1>3, <2>1, <2>2
<1>6. q = m /\ r = p
  BY <1>1, <1>3, <1>4, <1>5
<1>. QED BY <1>2, <1>6 DEF t, q, p, S

\* An earlier minute is over before a later one begins.
LEMMA MinuteGap ==
    ASSUME NEW a \in Nat, NEW b \in Nat, a < b
    PROVE  a * SecondsPerMinute + SecondsPerMinute <= b * SecondsPerMinute
<1>. DEFINE S == SecondsPerMinute
<1>1. S \in Nat
  BY CalendarAssumption
<1>. HIDE DEF S
<1>2. (b - a - 1) * S >= 0
  BY <1>1
<1>3. (b - a - 1) * S = b * S - a * S - S
  BY <1>1
<1>4. a * S \in Nat /\ b * S \in Nat
  BY <1>1
<1>. QED BY <1>1, <1>2, <1>3, <1>4 DEF S

LEMMA MinuteOrder ==
    ASSUME NEW t \in Nat, NEW u \in Nat, t <= u
    PROVE  MinuteOf(t) <= MinuteOf(u)
<1>. DEFINE S == SecondsPerMinute
            a == MinuteOf(t)
            b == MinuteOf(u)
<1>1. S \in Nat /\ a \in Nat /\ b \in Nat
  BY MinuteParts, CalendarAssumption
<1>2. b < a => b * S + S <= a * S
  BY <1>1, MinuteGap
<1>. DEFINE v == SecondOf(t)
            w == SecondOf(u)
            x == a * S
            y == b * S
<1>3. v \in 0 .. S - 1 /\ w \in 0 .. S - 1 /\ t = x + v /\ u = y + w
  <2>1. v \in 0 .. S - 1 /\ t = x + v
    BY MinuteParts
  <2>2. w \in 0 .. S - 1 /\ u = y + w
    BY MinuteParts
  <2>. QED BY <2>1, <2>2
<1>4. x \in Int /\ y \in Int
  <2>. HIDE DEF S, a, b
  <2>. QED BY <1>1
<1>5. b < a => y + S <= x
  BY <1>2
<1>. HIDE DEF S, a, b, v, w, x, y
<1>6. ~(b < a)
  BY <1>1, <1>3, <1>4, <1>5
<1>7. a <= b
  BY <1>1, <1>6
<1>. QED BY <1>7 DEF a, b

\* Whether a moment is meant is the same all minute long.
LEMMA DueInMinute ==
    ASSUME NEW t, NEW u, MinuteOf(t) = MinuteOf(u)
    PROVE  Due(t) <=> Due(u)
<1>1. Tm(t) = Tm(u)
  BY DEF Tm, DayOf
<1>. QED BY <1>1 DEF Due

\* Who means the first day of a week, Sunday, writes it as the last one, too.
SundayWritten(m) ==
    LET days == Meaning(m["dayOfWeek"], FieldRange("dayOfWeek"))
    IN  0 \in days => DaysPerWeek \in days

LEMMA MeaningWithin ==
    ASSUME NEW values, NEW m, Writable(m, values)
    PROVE  Meaning(m, values) \subseteq values
<1>1. m.kind = "any" \/ m.kind = "values" \/ m.kind = "span" \/ m.kind = "every" \/ m.kind = "everyIn"
  BY DEF Writable
<1>. QED BY <1>1 DEF Meaning

\* A moment that is meant matches.
LEMMA MeantMatches ==
    ASSUME Kept, SundayWritten(meant), NEW t, Due(t)
    PROVE  Matches(Parse(cron), t)
<1>. DEFINE d == Tm(t).dayOfWeek
            tm == [Tm(t) EXCEPT !.dayOfWeek = IF @ = 0 THEN DaysPerWeek ELSE @]
<1>1. /\ tm.minute = Tm(t).minute /\ tm.hour = Tm(t).hour
      /\ tm.dayOfMonth = Tm(t).dayOfMonth /\ tm.month = Tm(t).month
      /\ tm.dayOfWeek = IF d = 0 THEN DaysPerWeek ELSE d
  BY DEF Tm
<1>2. PICK e \in MeantIn("dayOfWeek") : d = e % DaysPerWeek
  BY DEF Due
<1>3. DaysPerWeek \in Nat \ {0} /\ e \in 0 .. DaysPerWeek
  <2>1. Writable(meant["dayOfWeek"], FieldRange("dayOfWeek"))
    BY NamesOfFields DEF Kept
  <2>2. MeantIn("dayOfWeek") \subseteq FieldRange("dayOfWeek")
    BY <2>1, MeaningWithin DEF MeantIn
  <2>3. FieldRange("dayOfWeek") = 0 .. DaysPerWeek
    BY DEF FieldRange
  <2>. QED BY <2>2, <2>3, CalendarAssumption
<1>4. \A f \in DOMAIN meant \ {"dayOfWeek"} : Tm(t)[f] \in MeantIn(f)
  BY DEF Due
<1>. HIDE DEF tm, d
<1>5. tm.dayOfWeek \in MeantIn("dayOfWeek")
  <2>1. CASE e = DaysPerWeek
    <3>1. d = 0
      BY <1>2, <1>3, <2>1
    <3>. QED BY <1>1, <2>1, <3>1
  <2>2. CASE e # DaysPerWeek
    <3>1. d = e
      BY <1>2, <1>3, <2>2
    <3>2. d = 0 => DaysPerWeek \in MeantIn("dayOfWeek")
      BY <3>1 DEF SundayWritten, MeantIn
    <3>. QED BY <1>1, <3>1, <3>2
  <2>. QED BY <2>1, <2>2
<1>6. ASSUME NEW f \in DOMAIN meant PROVE tm[f] \in MeantIn(f)
  <2>1. CASE f = "dayOfWeek"
    BY <1>5, <2>1
  <2>2. CASE f # "dayOfWeek"
    <3>1. tm[f] = Tm(t)[f]
      BY <1>1, <2>2, NamesOfFields
    <3>. QED BY <1>4, <2>2, <3>1
  <2>. QED BY <2>1, <2>2
<1>7. \A f \in DOMAIN Parse(cron) : tm[f] \in Parse(cron)[f]
  BY <1>6, EveryFieldParsed
<1>. QED BY <1>7 DEF Matches, tm

\* An execution that ended in an earlier minute serves a minute that is meant
\* no longer than up to the second it ended in.
LEMMA ServedUntil ==
    ASSUME Kept, SundayWritten(meant), NEW end \in Nat, NEW e \in Nat,
           end <= e, e < GetNext(Parse(cron), end),
           NEW t \in Nat, Due(t), MinuteOf(end) < MinuteOf(t)
    PROVE  e < MinuteOf(t) * SecondsPerMinute + SecondOf(end)
<1>. DEFINE S == SecondsPerMinute
            u == MinuteOf(t) * S + SecondOf(end)
            hits == {v \in end + S .. end + Year - 1 : (v - end) % S = 0 /\ Matches(Parse(cron), v)}
            next == GetNext(Parse(cron), end)
<1>1. S \in Nat \ {0} /\ Year \in Nat
  BY CalendarAssumption DEF Year
<1>2. /\ MinuteOf(end) \in Nat /\ SecondOf(end) \in 0 .. S - 1
      /\ end = MinuteOf(end) * S + SecondOf(end)
      /\ MinuteOf(t) \in Nat
  BY MinuteParts
<1>3. u \in Nat /\ MinuteOf(u) = MinuteOf(t)
  BY <1>2, MinuteIs
<1>4. Due(u)
  BY <1>3, DueInMinute
<1>5. Matches(Parse(cron), u)
  BY <1>4, MeantMatches
<1>6. u >= end + S /\ (u - end) % S = 0
  <2>. DEFINE a == MinuteOf(end)
              b == MinuteOf(t)
              r == SecondOf(end)
  <2>1. a * S + S <= b * S
    BY <1>2, MinuteGap
  <2>2. a \in Nat /\ b \in Nat /\ r \in Nat /\ end = a * S + r /\ u = b * S + r
    BY <1>1, <1>2
  <2>. HIDE DEF S, a, b, r, u
  <2>3. a * S \in Int /\ b * S \in Int /\ (b - a) * S = b * S - a * S /\ b - a \in Int
    BY <1>1, <2>2
  <2>4. u >= end + S /\ u - end = (b - a) * S
    BY <1>1, <2>1, <2>2, <2>3
  <2>5. b - a \in Nat
    BY <1>1, <2>1, <2>2, MinuteGap DEF a, b
  <2>6. u - end \in Nat /\ \E i \in 0 .. u - end : u - end = i * S
    <3>1. b - a <= (b - a) * S
      BY <1>1, <2>5
    <3>. QED BY <1>1, <2>4, <2>5, <3>1
  <2>7. (u - end) % S = 0
    <3>. DEFINE x == u - end
    <3>1. x \in Nat /\ \E i \in 0 .. x : x = i * S
      BY <2>6
    <3>. HIDE DEF x
    <3>2. x % S = 0
      BY <1>1, <3>1, Multiples
    <3>. QED BY <3>2 DEF x
  <2>. QED BY <2>4, <2>7
<1>7. next = IF hits = {} THEN end ELSE CHOOSE v \in hits : \A w \in hits : v <= w
  BY DEF GetNext
<1>8. hits # {}
  BY <1>7
<1>9. hits \in SUBSET Nat
  BY <1>1
<1>10. next \in hits /\ \A w \in hits : next <= w
  <2>1. \E v \in hits : \A w \in hits : v <= w
    <3>. HIDE DEF hits
    <3>. QED BY <1>8, <1>9, FirstTime
  <2>. HIDE DEF hits, next
  <2>. QED BY <1>7, <1>8, <2>1
<1>11. next \in Nat /\ next <= end + Year - 1
  BY <1>1, <1>9, <1>10
<1>12. next <= u
  <2>1. CASE u <= end + Year - 1
    <3>1. u \in end + S .. end + Year - 1
      BY <1>1, <1>3, <1>6, <2>1
    <3>2. u \in hits
      BY <1>5, <1>6, <3>1
    <3>. HIDE DEF hits, next
    <3>. QED BY <1>10, <3>2
  <2>2. CASE ~(u <= end + Year - 1)
    <3>. HIDE DEF hits, next, u
    <3>. QED BY <1>1, <1>3, <1>11, <2>2
  <2>. QED BY <2>1, <2>2
<1>13. e < u
  <2>1. e < next
    OBVIOUS
  <2>. HIDE DEF next, u
  <2>. QED BY <1>3, <1>11, <1>12, <2>1
<1>. QED BY <1>13 DEF u, S

-----------------------------------------------------------------------------
(* Minutes that are missed                                                  *)

Ended == \A i \in DOMAIN rows : rows[i].end # NoEnd => rows[i].end <= now

\* A message that is about to be sent is about an execution on record.
Sent == pc = "send" => now - mark \in 0 .. Delay /\ \E i \in DOMAIN rows : rows[i].due = mark

\* At the moment e the job counted as served by an execution that had ended, if
\* it has not ended since, in the minute that it is now.
Excused(e) ==
    \E i \in Latest :
        /\ rows[i].end # NoEnd
        /\ MinuteOf(rows[i].end) = MinuteOf(now) \/ e < GetNext(Parse(cron), rows[i].end)

\* The job should have been started in this minute and has not been yet.
Missable ==
    /\ Due(now)
    /\ job # "new" /\ MinuteOf(since) < MinuteOf(now)
    /\ ~StartsIn(MinuteOf(now))

\* Then there is a reason for it, unless the job is still to be looked at: also
\* when the look began in an earlier minute and took until this one.
Draining == pc = "drain" /\ Missable => copies > 0 \/ Excused(now) \/ SecondOf(now) < Delay
Waiting  == pc = "wait" /\ Missable /\ MinuteOf(mark) = MinuteOf(now)
                => Excused(mark) \/ SecondOf(mark) < Delay

MissInv == SundayWritten(meant) /\ Ended /\ Sent /\ Draining /\ Waiting

LEMMA SameTable ==
    ASSUME UNCHANGED <<rows, cron, meant>>, MinuteOf(now') = MinuteOf(now)
    PROVE  /\ Due(now)' <=> Due(now)
           /\ StartsIn(MinuteOf(now))' <=> StartsIn(MinuteOf(now))
           /\ \A e : Excused(e)' <=> Excused(e)
<1>1. Tm(now') = Tm(now)
  BY DEF Tm, DayOf
<1>2. Due(now)' <=> Due(now)
  BY <1>1 DEF Due, MeantIn
<1>3. StartsIn(MinuteOf(now))' <=> StartsIn(MinuteOf(now))
  BY DEF StartsIn
<1>4. \A e : Excused(e)' <=> Excused(e)
  BY DEF Excused, Latest
<1>. QED BY <1>2, <1>3, <1>4

LEMMA MissInit == (\A s \in Scenarios : SundayWritten(s.meant)) /\ Init => MissInv
<1>. SUFFICES ASSUME \A s \in Scenarios : SundayWritten(s.meant), Init PROVE MissInv
  OBVIOUS
<1>1. SundayWritten(meant)
  BY DEF Init
<1>2. Ended /\ Sent /\ Draining /\ Waiting
  BY DEF Init, Ended, Sent, Draining, Waiting, Missable
<1>. QED BY <1>1, <1>2 DEF MissInv

LEMMA SkipExcused ==
    ASSUME TypeInv, Kept, MissInv, Skip, Due(now)
    PROVE  Excused(now)
<1>1. Matches(Parse(cron), now)
  BY MeantMatches DEF MissInv
<1>2. FALSE \in ShouldExecute
  BY DEF Skip
<1>3. FALSE \in {~Served(i) : i \in Latest}
  BY <1>1, <1>2 DEF ShouldExecute
<1>4. PICK i \in Latest : Served(i)
  BY <1>3
<1>. QED BY <1>4 DEF Served, Excused

LEMMA SendLate ==
    ASSUME TypeInv, MissInv, Send
    PROVE  StartsIn(MinuteOf(now)) \/ SecondOf(now) < Delay
<1>. DEFINE S == SecondsPerMinute
            a == MinuteOf(mark)
            b == MinuteOf(now)
            v == SecondOf(mark)
            w == SecondOf(now)
<1>1. now \in Nat /\ mark \in Nat /\ mark <= now
  BY DEF TypeInv, TypeOK
<1>2. now - mark \in 0 .. Delay /\ \E i \in DOMAIN rows : rows[i].due = mark
  BY DEF MissInv, Sent, Send
<1>3. a = b => StartsIn(b)
  BY <1>2 DEF StartsIn
<1>4. ASSUME a # b PROVE w < Delay
  <2>1. a \in Nat /\ b \in Nat /\ a <= b
    BY <1>1, MinuteParts, MinuteOrder
  <2>2. a * S + S <= b * S
    BY <1>4, <2>1, MinuteGap
  <2>3. /\ v \in 0 .. S - 1 /\ mark = a * S + v
        /\ w \in 0 .. S - 1 /\ now = b * S + w
    BY <1>1, MinuteParts
  <2>4. S \in Nat /\ Delay \in Nat
    BY CalendarAssumption, TimingAssumption
  <2>5. a * S \in Int /\ b * S \in Int
    <3>. HIDE DEF S, a, b
    <3>. QED BY <2>1, <2>4
  <2>. DEFINE x == a * S
              y == b * S
  <2>6. x \in Int /\ y \in Int /\ x + S <= y /\ mark = x + v /\ now = y + w
    BY <2>2, <2>3, <2>5
  <2>. HIDE DEF x, y, a, b, v, w, S
  <2>. QED BY <1>1, <1>2, <2>3, <2>4, <2>6
<1>. QED BY <1>3, <1>4

LEMMA WriteExcuses ==
    ASSUME TypeInv, WriteRow, NEW e, Excused(e)
    PROVE  Excused(e)'
<1>1. UNCHANGED <<cron, now>> /\ now \in Nat
  BY DEF WriteRow, TypeInv, TypeOK
<1>2. Latest' = Latest
  BY RowWritten DEF Latest
<1>3. PICK i \in Latest :
          /\ rows[i].end # NoEnd
          /\ MinuteOf(rows[i].end) = MinuteOf(now) \/ e < GetNext(Parse(cron), rows[i].end)
  BY DEF Excused
<1>4. rows'[i].end = IF i = handler THEN now ELSE rows[i].end
  BY <1>3, RowWritten DEF Latest
<1>5. now # NoEnd
  BY <1>1 DEF NoEnd
<1>6. /\ rows'[i].end # NoEnd
      /\ MinuteOf(rows'[i].end) = MinuteOf(now') \/ e < GetNext(Parse(cron'), rows'[i].end)
  BY <1>1, <1>3, <1>4, <1>5
<1>. QED BY <1>2, <1>6 DEF Excused

LEMMA WriteMiss == TypeInv /\ Kept /\ MissInv /\ WriteRow => MissInv'
<1>. SUFFICES ASSUME TypeInv, Kept, MissInv, WriteRow PROVE MissInv'
  OBVIOUS
<1>1. UNCHANGED <<cron, meant, now, copies, pc, mark, job, since>>
  BY DEF WriteRow, schedVars
<1>2. SundayWritten(meant)'
  BY <1>1 DEF MissInv
<1>3. Ended'
  BY <1>1, RowWritten DEF MissInv, Ended, TypeInv, TypeOK
<1>4. Sent'
  BY <1>1, RowWritten DEF MissInv, Sent
<1>5. Missable' => Missable
  <2>1. Due(now)' <=> Due(now)
    BY <1>1 DEF Due, MeantIn
  <2>2. StartsIn(MinuteOf(now))' <=> StartsIn(MinuteOf(now))
    BY <1>1, RowWritten DEF StartsIn
  <2>. QED BY <1>1, <2>1, <2>2 DEF Missable
<1>6. Draining'
  BY <1>1, <1>5, WriteExcuses DEF MissInv, Draining
<1>7. Waiting'
  BY <1>1, <1>5, WriteExcuses DEF MissInv, Waiting
<1>. QED BY <1>2, <1>3, <1>4, <1>6, <1>7 DEF MissInv

LEMMA SaveMiss == TypeInv /\ StartInv /\ MissInv /\ Save => MissInv'
<1>. SUFFICES ASSUME TypeInv, StartInv, MissInv, Save PROVE MissInv'
  OBVIOUS
<1>. DEFINE new == [due |-> mark, trig |-> now, end |-> NoEnd]
<1>1. /\ rows \in Seq(Row) /\ DOMAIN rows = 1 .. Len(rows) /\ Len(rows) \in Nat
      /\ new \in Row /\ new.due = mark /\ new.end = NoEnd
  BY LenProperties DEF TypeInv, TypeOK, Row
<1>2. /\ rows' = Append(rows, new) /\ pc = "save" /\ pc' = "send"
      /\ UNCHANGED <<meant, now, mark>>
  BY DEF Save
<1>. HIDE DEF new
<1>3. /\ DOMAIN rows' = 1 .. Len(rows) + 1 /\ rows'[Len(rows) + 1] = new
      /\ \A i \in DOMAIN rows : rows'[i] = rows[i]
  BY <1>1, <1>2, AppendProperties, LenProperties
<1>4. Ended'
  <2>1. \A i \in DOMAIN rows' : i \in DOMAIN rows \/ i = Len(rows) + 1
    BY <1>1, <1>3
  <2>. QED BY <1>1, <1>2, <1>3, <2>1 DEF MissInv, Ended
<1>5. Sent'
  <2>1. Len(rows) + 1 \in DOMAIN rows'
    BY <1>1, <1>3
  <2>. QED BY <1>1, <1>2, <1>3, <2>1 DEF Sent, StartInv, DueWhenTaken
<1>6. Draining' /\ Waiting' /\ SundayWritten(meant)'
  BY <1>2 DEF Draining, Waiting, MissInv
<1>. QED BY <1>4, <1>5, <1>6 DEF MissInv

LEMMA TickMiss == TypeInv /\ MissInv /\ Tick => MissInv'
<1>. SUFFICES ASSUME TypeInv, MissInv, Tick PROVE MissInv'
  OBVIOUS
<1>1. /\ UNCHANGED <<rows, cron, meant, copies, pc, mark, job, since>> /\ now' = now + 1
      /\ \/ pc = "wait"
         \/ pc \in {"save", "send"} /\ now < mark + Delay
  BY DEF Tick, schedVars, dbVars
<1>2. now \in Nat /\ mark \in Nat /\ mark <= now /\ Delay \in Nat /\ rows \in Seq(Row)
  BY TimingAssumption DEF TypeInv, TypeOK
<1>3. Ended'
  <2>1. ASSUME NEW i \in DOMAIN rows, rows[i].end # NoEnd PROVE rows[i].end <= now + 1
    <3>1. rows[i].end <= now
      BY <2>1 DEF MissInv, Ended
    <3>2. rows[i] \in Row
      BY <1>2, <2>1, LenProperties
    <3>3. rows[i].end \in Nat
      BY <2>1, <3>2 DEF Row
    <3>. QED BY <1>2, <3>1, <3>3
  <2>. QED BY <1>1, <2>1 DEF Ended
<1>4. Sent'
  <2>1. ASSUME pc = "send" PROVE now' - mark \in 0 .. Delay /\ \E i \in DOMAIN rows : rows[i].due = mark
    BY <1>1, <1>2, <2>1 DEF MissInv, Sent
  <2>. QED BY <1>1, <2>1 DEF Sent
<1>5. Draining'
  BY <1>1 DEF Draining
<1>6. Waiting'
  <2>1. CASE MinuteOf(now') = MinuteOf(now)
    <3>1. Missable' => Missable
      BY <1>1, <2>1, SameTable DEF Missable
    <3>2. Excused(mark) => Excused(mark)'
      BY <1>1, <2>1, SameTable
    <3>. QED BY <1>1, <2>1, <3>1, <3>2 DEF MissInv, Waiting
  <2>2. CASE MinuteOf(now') # MinuteOf(now)
    <3>1. /\ MinuteOf(mark) \in Nat /\ MinuteOf(now) \in Nat /\ MinuteOf(now') \in Nat
          /\ MinuteOf(mark) <= MinuteOf(now) /\ MinuteOf(now) <= MinuteOf(now')
      <4>1. now' \in Nat /\ now <= now'
        BY <1>1, <1>2
      <4>2. MinuteOf(mark) \in Nat /\ MinuteOf(now) \in Nat /\ MinuteOf(now') \in Nat
        <5>1. \A t \in Nat : MinuteOf(t) \in Nat
          BY MinuteParts
        <5>. QED BY <1>2, <4>1, <5>1
      <4>3. MinuteOf(mark) <= MinuteOf(now)
        BY <1>2, MinuteOrder
      <4>4. MinuteOf(now) <= MinuteOf(now')
        BY <1>2, <4>1, MinuteOrder
      <4>. QED BY <4>2, <4>3, <4>4
    <3>2. MinuteOf(mark) # MinuteOf(now')
      BY <2>2, <3>1
    <3>. QED BY <1>1, <3>2 DEF Waiting
  <2>. QED BY <2>1, <2>2
<1>7. SundayWritten(meant)'
  BY <1>1 DEF MissInv
<1>. QED BY <1>3, <1>4, <1>5, <1>6, <1>7 DEF MissInv

LEMMA MissNext == TypeInv /\ StartInv /\ MissInv /\ [Next]_vars => MissInv'
<1>. SUFFICES ASSUME TypeInv, StartInv, MissInv, [Next]_vars PROVE MissInv'
  OBVIOUS
<1>1. Kept /\ now \in Nat /\ copies \in Nat /\ MinuteOf(now) \in Nat
  BY MinuteParts DEF StartInv, TypeInv, TypeOK
<1>2. CASE WriteRow
  BY <1>1, <1>2, WriteMiss
<1>3. CASE Save
  BY <1>3, SaveMiss
<1>4. CASE Tick
  BY <1>4, TickMiss
<1>5. ASSUME UNCHANGED <<rows, cron, meant, now>>
      PROVE  /\ Ended' /\ SundayWritten(meant)'
             /\ Due(now)' <=> Due(now)
             /\ StartsIn(MinuteOf(now))' <=> StartsIn(MinuteOf(now))
             /\ \A e : Excused(e)' <=> Excused(e)
             /\ UNCHANGED <<job, since>> => (Missable' <=> Missable)
  <2>1. Ended' /\ SundayWritten(meant)'
    BY <1>5 DEF MissInv, Ended
  <2>. QED BY <1>5, <2>1, SameTable DEF Missable
<1>6. CASE SubmitSave
  <2>1. UNCHANGED <<rows, cron, meant, now, pc, mark, copies>> /\ since' = now
    BY <1>6 DEF SubmitSave, schedVars
  <2>2. ~Missable'
    BY <1>1, <2>1 DEF Missable
  <2>3. Sent' /\ Draining' /\ Waiting'
    BY <2>1, <2>2 DEF MissInv, Sent, Draining, Waiting
  <2>. QED BY <1>5, <2>1, <2>3 DEF MissInv
<1>7. CASE SubmitPush
  <2>1. /\ UNCHANGED <<rows, cron, meant, now, pc, mark, since>> /\ copies' = copies + 1
        /\ job = "saved" /\ job' = "queued"
    BY <1>7 DEF SubmitPush
  <2>2. Missable' => Missable
    BY <1>5, <2>1 DEF Missable
  <2>3. Sent' /\ Draining'
    BY <1>1, <2>1 DEF MissInv, Sent, Draining
  <2>4. Waiting'
    BY <1>5, <2>1, <2>2 DEF MissInv, Waiting
  <2>. QED BY <1>5, <2>1, <2>3, <2>4 DEF MissInv
<1>8. CASE Fetch
  <2>1. /\ UNCHANGED <<rows, cron, meant, now, job, since>> /\ pc' = "drain"
        /\ job # "new" => copies' = copies + 1
    BY <1>8 DEF Fetch, dbVars
  <2>2. Sent' /\ Draining' /\ Waiting'
    BY <1>1, <2>1 DEF Sent, Draining, Waiting, Missable
  <2>. QED BY <1>5, <2>1, <2>2 DEF MissInv
<1>9. CASE DrainEnds
  <2>1. /\ UNCHANGED <<rows, cron, meant, now, job, since>> /\ pc = "drain" /\ pc' = "wait"
        /\ copies = 0 /\ mark' = now
    BY <1>9 DEF DrainEnds, dbVars
  <2>2. ASSUME Missable' PROVE (Excused(mark) \/ SecondOf(mark) < Delay)'
    <3>1. Excused(now) \/ SecondOf(now) < Delay
      BY <1>5, <2>1, <2>2 DEF MissInv, Draining
    <3>2. Excused(now) => Excused(mark)'
      <4>1. Excused(now)' <=> Excused(now)
        BY <1>5, <2>1
      <4>2. Excused(mark)' <=> Excused(now)'
        BY <2>1 DEF Excused
      <4>. QED BY <4>1, <4>2
    <3>. QED BY <2>1, <3>1, <3>2
  <2>3. Sent' /\ Draining' /\ Waiting'
    BY <2>1, <2>2 DEF Sent, Draining, Waiting
  <2>. QED BY <1>5, <2>1, <2>3 DEF MissInv
<1>10. CASE Skip
  <2>1. UNCHANGED <<rows, cron, meant, now, job, since, pc, mark>> /\ pc = "drain"
    BY <1>10 DEF Skip, dbVars
  <2>2. ASSUME Missable' PROVE Excused(now)'
    <3>1. Due(now)
      BY <1>5, <2>1, <2>2 DEF Missable
    <3>2. Excused(now)
      BY <1>1, <1>10, <3>1, SkipExcused
    <3>3. Excused(now)' <=> Excused(now)
      BY <2>1 DEF Excused, Latest
    <3>. QED BY <3>2, <3>3
  <2>3. Sent' /\ Draining' /\ Waiting'
    BY <2>1, <2>2 DEF Sent, Draining, Waiting
  <2>. QED BY <1>5, <2>1, <2>3 DEF MissInv
<1>11. CASE Take
  <2>1. UNCHANGED <<rows, cron, meant, now>> /\ pc' = "save"
    BY <1>11 DEF Take, dbVars
  <2>2. Sent' /\ Draining' /\ Waiting'
    BY <2>1 DEF Sent, Draining, Waiting
  <2>. QED BY <1>5, <2>1, <2>2 DEF MissInv
<1>12. CASE Send
  <2>1. UNCHANGED <<rows, cron, meant, now, job, since>> /\ pc' = "drain"
    BY <1>12 DEF Send, dbVars
  <2>2. StartsIn(MinuteOf(now)) \/ SecondOf(now) < Delay
    BY <1>12, SendLate
  <2>3. Missable' => ~StartsIn(MinuteOf(now))
    BY <1>5, <2>1 DEF Missable
  <2>4. Sent' /\ Draining' /\ Waiting'
    BY <2>1, <2>2, <2>3 DEF Sent, Draining, Waiting
  <2>. QED BY <1>5, <2>1, <2>4 DEF MissInv
<1>13. CASE Receive \/ UNCHANGED vars
  <2>1. UNCHANGED <<rows, cron, meant, now, job, since, pc, mark, copies>>
    BY <1>13 DEF Receive, vars, dbVars, schedVars
  <2>2. Sent' /\ (Missable' <=> Missable)
    BY <1>5, <2>1 DEF MissInv, Sent
  <2>3. Draining'
    <3>1. Excused(now)' <=> Excused(now)
      BY <2>1 DEF Excused, Latest
    <3>. QED BY <2>1, <2>2, <3>1 DEF MissInv, Draining
  <2>4. Waiting'
    <3>1. Excused(mark)' <=> Excused(mark)
      BY <2>1 DEF Excused, Latest
    <3>. QED BY <2>1, <2>2, <3>1 DEF MissInv, Waiting
  <2>. QED BY <1>5, <2>1, <2>2, <2>3, <2>4 DEF MissInv
<1>. QED BY <1>2, <1>3, <1>4, <1>6, <1>7, <1>8, <1>9, <1>10, <1>11, <1>12, <1>13 DEF Next

\* The clock leaves a minute in which the job was not started: then it waits
\* since a moment of that minute, and did not begin to wait early in it.
LEMMA LastWait ==
    ASSUME Delay + CheckInterval <= SecondsPerMinute, TypeInv, [Next]_vars,
           MinuteOf(now') # MinuteOf(now), pc = "wait"
    PROVE  LET s == MinuteOf(now) * SecondsPerMinute IN
           /\ mark >= s + SecondsPerMinute - CheckInterval
           /\ mark >= s
           /\ MinuteOf(mark) = MinuteOf(now) /\ ~(SecondOf(mark) < Delay)
<1>. DEFINE S == SecondsPerMinute
            m == MinuteOf(now)
            w == SecondOf(now)
            s == m * S
            k == mark - s
<1>1. /\ S \in Nat \ {0} /\ CheckInterval \in Nat \ {0} /\ Delay \in Nat
      /\ Delay + CheckInterval <= S
  BY CalendarAssumption, TimingAssumption
<1>2. now \in Nat /\ mark \in Nat /\ mark <= now
  BY DEF TypeInv, TypeOK
<1>3. now' = now + 1 /\ now < mark + CheckInterval
  <2>1. ASSUME UNCHANGED now PROVE FALSE
    BY <2>1
  <2>2. Tick
    BY <2>1 DEF Next, vars, SubmitSave, SubmitPush, Fetch, DrainEnds, Skip, Take, Save, Send,
           Receive, WriteRow
  <2>. QED BY <2>2 DEF Tick
<1>4. m \in Nat /\ w \in 0 .. S - 1 /\ now = s + w
  BY <1>2, MinuteParts
<1>5. s \in Nat
  <2>. HIDE DEF m, S
  <2>. QED BY <1>1, <1>4
<1>6. w = S - 1
  <2>1. ASSUME w # S - 1 PROVE FALSE
    <3>1. w + 1 \in 0 .. S - 1
      <4>. HIDE DEF w, S
      <4>. QED BY <1>1, <1>4, <2>1
    <3>2. MinuteOf(s + (w + 1)) = m
      BY <1>4, <3>1, MinuteIs
    <3>3. s + (w + 1) = now + 1
      <4>. HIDE DEF w, s
      <4>. QED BY <1>1, <1>2, <1>4, <1>5
    <3>. QED BY <1>3, <3>2, <3>3
  <2>. QED BY <2>1
<1>7. k \in S - CheckInterval .. S - 1 /\ k \in 0 .. S - 1 /\ ~(k < Delay) /\ mark = s + k
  <2>. HIDE DEF w, s, S
  <2>. QED BY <1>1, <1>2, <1>3, <1>4, <1>5, <1>6
<1>8. MinuteOf(s + k) = m /\ SecondOf(s + k) = k
  <2>. HIDE DEF k
  <2>. QED BY <1>4, <1>7, MinuteIs
<1>9. MinuteOf(mark) = m /\ ~(SecondOf(mark) < Delay)
  <2>. HIDE DEF k, s
  <2>. QED BY <1>7, <1>8
<1>10. mark >= s + S - CheckInterval /\ mark >= s
  <2>. HIDE DEF s, S
  <2>. QED BY <1>1, <1>2, <1>5, <1>7
<1>. QED BY <1>9, <1>10

LEMMA MissedStep ==
    ASSUME Delay + CheckInterval <= SecondsPerMinute, TypeInv, StartInv, MissInv, [Next]_vars,
           MinuteOf(now') # MinuteOf(now), Due(now), job # "new",
           MinuteOf(since) < MinuteOf(now), ~StartsIn(MinuteOf(now)), pc = "wait"
    PROVE  \E i \in Latest :
             LET end == rows[i].end IN
             /\ end # NoEnd
             /\ \/ MinuteOf(end) = MinuteOf(now)
                \/ /\ end % SecondsPerMinute > SecondsPerMinute - CheckInterval
                   /\ \A t \in end + SecondsPerMinute .. now : Due(t) => MinuteOf(t) = MinuteOf(now)
<1>. DEFINE S == SecondsPerMinute
            m == MinuteOf(now)
            s == m * S
<1>1. /\ mark >= s + S - CheckInterval /\ mark >= s
      /\ MinuteOf(mark) = MinuteOf(now) /\ ~(SecondOf(mark) < Delay)
  BY LastWait
<1>2. Excused(mark)
  BY <1>1 DEF MissInv, Waiting, Missable
<1>3. PICK i \in Latest :
          /\ rows[i].end # NoEnd
          /\ MinuteOf(rows[i].end) = MinuteOf(now) \/ mark < GetNext(Parse(cron), rows[i].end)
  BY <1>2 DEF Excused
<1>. DEFINE end == rows[i].end
<1>4. /\ S \in Nat \ {0} /\ CheckInterval \in Nat
      /\ now \in Nat /\ mark \in Nat /\ mark <= now
      /\ Kept /\ SundayWritten(meant)
  BY CalendarAssumption, TimingAssumption DEF TypeInv, TypeOK, StartInv, MissInv
<1>5. end \in Nat /\ end <= now
  <2>1. i \in DOMAIN rows /\ rows[i] \in Row
    BY <1>3, LenProperties DEF Latest, TypeInv, TypeOK
  <2>2. rows[i].end \in Nat
    BY <1>3, <2>1 DEF Row
  <2>3. rows[i].end <= now
    BY <1>3, <2>1 DEF MissInv, Ended
  <2>. QED BY <2>2, <2>3
<1>6. CASE MinuteOf(end) = m
  BY <1>3, <1>6
<1>7. CASE MinuteOf(end) # m
  <2>. DEFINE a == MinuteOf(end)
              r == SecondOf(end)
  <2>1. mark < GetNext(Parse(cron), end)
    BY <1>3, <1>7
  <2>2. m \in Nat /\ a \in Nat /\ r \in 0 .. S - 1 /\ end = a * S + r
    BY <1>4, <1>5, MinuteParts
  <2>3. a < m
    <3>1. a <= m
      BY <1>4, <1>5, MinuteOrder
    <3>2. a # m
      BY <1>7
    <3>. HIDE DEF a, m
    <3>. QED BY <2>2, <3>1, <3>2
  <2>4. a * S \in Nat /\ s \in Nat /\ a * S + S <= s
    <3>1. a * S + S <= s
      BY <2>2, <2>3, MinuteGap
    <3>2. a * S \in Nat /\ s \in Nat
      <4>. HIDE DEF a, m, S
      <4>. QED BY <1>4, <2>2
    <3>. QED BY <3>1, <3>2
  <2>5. end <= mark
    <3>. DEFINE x == a * S
    <3>1. x \in Nat /\ x + S <= s /\ end = x + r
      BY <2>2, <2>4
    <3>. HIDE DEF x, s, S, a, r, end
    <3>. QED BY <1>1, <1>4, <1>5, <2>2, <2>4, <3>1
  <2>6. mark < s + r
    <3>. HIDE DEF end
    <3>. QED BY <1>4, <1>5, <2>1, <2>3, <2>5, ServedUntil
  <2>7. r > S - CheckInterval
    <3>. HIDE DEF s, S, r
    <3>. QED BY <1>1, <1>4, <2>2, <2>4, <2>6
  <2>8. ASSUME NEW t \in end + S .. now, Due(t) PROVE MinuteOf(t) = m
    <3>. DEFINE b == MinuteOf(t)
                v == SecondOf(t)
                y == b * S
                x == a * S
    <3>1. t \in Nat /\ t <= now /\ end + S <= t
      <4>. HIDE DEF end, S
      <4>. QED BY <1>4, <1>5, <2>8
    <3>2. b \in Nat /\ v \in 0 .. S - 1 /\ t = y + v /\ b <= m
      <4>1. b \in Nat /\ v \in 0 .. S - 1 /\ t = y + v
        BY <3>1, MinuteParts
      <4>2. b <= m
        BY <1>4, <3>1, MinuteOrder
      <4>. QED BY <4>1, <4>2
    <3>3. x \in Nat /\ y \in Nat /\ end = x + r
      <4>1. y \in Nat
        <5>. HIDE DEF b, S
        <5>. QED BY <1>4, <3>2
      <4>. QED BY <2>2, <2>4, <4>1
    <3>4. a < b
      <4>1. CASE b = a
        <5>1. y = x
          BY <4>1
        <5>. HIDE DEF x, y, S, end, v, r
        <5>. QED BY <1>4, <1>5, <2>2, <3>1, <3>2, <3>3, <5>1
      <4>2. a <= b
        <5>1. end <= t
          <6>. HIDE DEF end, S
          <6>. QED BY <1>4, <1>5, <3>1
        <5>. QED BY <1>5, <3>1, <5>1, MinuteOrder
      <4>. HIDE DEF a, b
      <4>. QED BY <2>2, <3>2, <4>1, <4>2
    <3>5. ASSUME b < m PROVE FALSE
      <4>1. mark < y + r
        <5>. HIDE DEF end
        <5>. QED BY <1>4, <1>5, <2>1, <2>5, <2>8, <3>1, <3>4, ServedUntil
      <4>2. y + S <= s
        BY <2>2, <3>2, <3>5, MinuteGap
      <4>. HIDE DEF y, s, S, r
      <4>. QED BY <1>1, <1>4, <2>2, <2>4, <3>3, <4>1, <4>2
    <3>. HIDE DEF b, m
    <3>. QED BY <2>2, <3>2, <3>5 DEF b
  <2>9. end % SecondsPerMinute > SecondsPerMinute - CheckInterval
    BY <2>7 DEF SecondOf
  <2>. QED BY <1>3, <2>8, <2>9
<1>. QED BY <1>6, <1>7

(* A minute that the user means is missed only if a result came in that     *)
(* very minute, or late in an earlier one.  Of a dispatch and a wait that   *)
(* fit into a minute, and of users who write Sunday as the last day of the  *)
(* week: a look that began in one minute may otherwise last all through the *)
(* next one, and the first day of the week never matches.                   *)
THEOREM MissedOnlyAfterLateResult ==
    ASSUME Delay + CheckInterval <= SecondsPerMinute,
           \A s \in Scenarios : SundayWritten(s.meant)
    PROVE  Spec => MissedOnlyAfterLateEnd
<1>1. Init => StartInv /\ MissInv
  BY KeptInit, MissInit DEF Init, StartInv, DueWhenTaken
<1>2. TypeInv /\ StartInv /\ MissInv /\ [Next]_vars =>
       [LET m == MinuteOf(now) IN
       (/\ MinuteOf(now') # m
        /\ Due(now)
        /\ job # "new" /\ MinuteOf(since) < m
        /\ ~StartsIn(m) /\ pc = "wait")
       => \E i \in Latest :
             LET end == rows[i].end IN
             /\ end # NoEnd
             /\ \/ MinuteOf(end) = m
                \/ /\ end % SecondsPerMinute > SecondsPerMinute - CheckInterval
                   /\ \A t \in end + SecondsPerMinute .. now : Due(t) => MinuteOf(t) = m]_vars
  BY MissedStep
<1>. QED BY <1>1, <1>2, TypeInit, TypeNext, StartNext, MissNext, PTL DEF Spec, MissedOnlyAfterLateEnd
=============================================================================
