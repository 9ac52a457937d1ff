----------------------------- MODULE CronParser -----------------------------
(***************************************************************************)
(* Cron expressions (common/src/cron_parser.cpp) on a calendar that can be *)
(* scaled down.  Time is counted in seconds from a Sunday that begins a    *)
(* year.  All months have the same length and a year is never a leap year. *)
(*                                                                         *)
(* A field is written as the sequence of its tokens: a number stands for   *)
(* itself, one of the four signs for a negative number.  A field that the  *)
(* parser throws an exception at has no values: in both cases the job that *)
(* carries it is never due (should_execute catches the exception).         *)
(*                                                                         *)
(* A definition Op_fault is a faulty variant of Op that no specification   *)
(* uses: it is what the properties are validated against.                  *)
(***************************************************************************)
EXTENDS Integers, Sequences, SequencesExt

CONSTANTS SecondsPerMinute, MinutesPerHour, HoursPerDay,     \* 60, 60, 24
          DaysPerWeek, DaysPerMonth, MonthsPerYear           \* 7, 31, 12

ASSUME CalendarAssumption ==
    /\ SecondsPerMinute \in Nat \ {0} /\ MinutesPerHour \in Nat \ {0}
    /\ HoursPerDay \in Nat \ {0} /\ DaysPerWeek \in Nat \ {0}
    /\ DaysPerMonth \in Nat \ {0} /\ MonthsPerYear \in Nat \ {0}

Star  == -1
Slash == -2
Dash  == -3
Comma == -4

\* The fields in the order they are written in, with their ranges.
FieldNames == <<"minute", "hour", "dayOfMonth", "month", "dayOfWeek">>
FieldRange(f) ==
    CASE f = "minute"     -> 0 .. MinutesPerHour - 1
      [] f = "hour"       -> 0 .. HoursPerDay - 1
      [] f = "dayOfMonth" -> 1 .. DaysPerMonth
      [] f = "month"      -> 1 .. MonthsPerYear
      [] f = "dayOfWeek"  -> 0 .. DaysPerWeek

-----------------------------------------------------------------------------
(* The parser                                                               *)

Has(s, sign)    == Contains(s, sign)
Before(s, sign) == SubSeq(s, 1, SelectInSeq(s, LAMBDA x : x = sign) - 1)
After(s, sign)  == SubSeq(s, SelectInSeq(s, LAMBDA x : x = sign) + 1, Len(s))

\* std::stoi reads the number a text begins with and ignores the rest.  (A
\* number is not signed here.)
Throws(s) == s = <<>> \/ Head(s) < 0
Stoi(s)   == Head(s)

\* What std::getline finds between commas: nothing after a comma at the end.
Items(s) ==
    LET cut == {0, Len(s) + 1} \cup {i \in DOMAIN s : s[i] = Comma}
    IN  {SubSeq(s, p[1] + 1, p[2] - 1) :
            p \in {q \in cut \X cut : /\ q[1] < q[2] /\ q[1] < Len(s)
                                      /\ \A c \in cut : c <= q[1] \/ c >= q[2]}}

\* The bounds are those around the first dash.
ParseRange(s, values) ==
    LET from == Before(s, Dash)
        to   == After(s, Dash)
    IN  IF Throws(from) \/ Throws(to) THEN {}
        ELSE {v \in values : Stoi(from) <= v /\ v <= Stoi(to)}

\* Every n-th value counted from the least: n is not 0, a step that is never
\* taken.
EveryNth(values, n) == {v \in values : Cardinality({u \in values : u < v}) % n = 0}

\* */n and a-b/n; a step of anything else has no values.
ParseStep(s, values) ==
    LET base == Before(s, Slash)
        step == After(s, Slash)
    IN  IF Throws(step) THEN {}
        ELSE IF base = <<Star>> THEN EveryNth(values, Stoi(step))
        ELSE IF Has(base, Dash) THEN EveryNth(ParseRange(base, values), Stoi(step))
        ELSE {}

ParseList(s, values) ==
    IF \E item \in Items(s) : Throws(item) THEN {}
    ELSE values \cap {Stoi(item) : item \in Items(s)}

ParseField_rangeFirst(s, values) ==
    IF s = <<Star>> THEN values
    ELSE IF Has(s, Dash)  THEN ParseRange(s, values)
    ELSE IF Has(s, Slash) THEN ParseStep(s, values)
    ELSE ParseList(s, values)
\* The signs are looked for in this order; a number alone is a list of one.
ParseField(s, values) ==
    IF s = <<Star>> THEN values
    ELSE IF Has(s, Slash) THEN ParseStep(s, values)
    ELSE IF Has(s, Dash)  THEN ParseRange(s, values)
    ELSE ParseList(s, values)

\* The constructor: the values of each field, or no time at all for an
\* expression that does not have five fields.
Parse(expression) ==
    [f \in {FieldNames[i] : i \in 1 .. 5} |->
        IF Len(expression) # 5 THEN {}
        ELSE ParseField(expression[CHOOSE i \in 1 .. 5 : FieldNames[i] = f], FieldRange(f))]

-----------------------------------------------------------------------------
(* Times                                                                    *)

MinuteOf(t) == t \div SecondsPerMinute
DayOf(t)    == MinuteOf(t) \div (MinutesPerHour * HoursPerDay)
Year        == DaysPerMonth * MonthsPerYear * HoursPerDay * MinutesPerHour * SecondsPerMinute

\* localtime; the weekday counts from 0, a Sunday.
Tm(t) ==
    [minute     |-> MinuteOf(t) % MinutesPerHour,
     hour       |-> (MinuteOf(t) \div MinutesPerHour) % HoursPerDay,
     dayOfMonth |-> 1 + (DayOf(t) % DaysPerMonth),
     month      |-> 1 + ((DayOf(t) \div DaysPerMonth) % MonthsPerYear),
     dayOfWeek  |-> DayOf(t) % DaysPerWeek]

Matches_sundayIsZero(cron, t) == \A f \in DOMAIN cron : Tm(t)[f] \in cron[f]
\* Sunday is looked up as the last day of the week.
Matches(cron, t) ==
    LET tm == [Tm(t) EXCEPT !.dayOfWeek = IF @ = 0 THEN DaysPerWeek ELSE @]
    IN  \A f \in DOMAIN cron : tm[f] \in cron[f]

GetNext_fromNow(cron, from) ==
    LET hits == {t \in from .. from + Year - 1 :
                    (t - from) % SecondsPerMinute = 0 /\ Matches(cron, t)}
    IN  IF hits = {} THEN from ELSE CHOOSE t \in hits : \A u \in hits : t <= u
\* The first time a whole number of minutes after from, and less than a year
\* after it, that matches; from itself when there is none.
GetNext(cron, from) ==
    LET hits == {t \in from + SecondsPerMinute .. from + Year - 1 :
                    (t - from) % SecondsPerMinute = 0 /\ Matches(cron, t)}
    IN  IF hits = {} THEN from ELSE CHOOSE t \in hits : \A u \in hits : t <= u

-----------------------------------------------------------------------------
(* What users mean by a field, whatever the parser does                     *)

AnyValue     == [kind |-> "any"]
Values(S)    == [kind |-> "values", set |-> S]
Span(a, b)   == [kind |-> "span", from |-> a, to |-> b]
EveryStep(n) == [kind |-> "every", step |-> n]
EveryIn(a, b, n) == [kind |-> "everyIn", from |-> a, to |-> b, step |-> n]

\* What can be written down: numbers, spans between numbers, a step that is
\* taken, and counted from a value of the field.
Writable(m, values) ==
    \/ m.kind = "any"
    \/ m.kind = "values" /\ m.set \subseteq Nat /\ IsFiniteSet(m.set)
    \/ m.kind = "span" /\ m.from \in Nat /\ m.to \in Nat
    \/ m.kind = "every" /\ m.step \in Nat \ {0}
    \/ m.kind = "everyIn" /\ m.from \in values /\ m.to \in Nat /\ m.step \in Nat \ {0}

\* a, then a + n, a + 2n, ... up to b.
Progression(a, b, n) == {a + i * n : i \in 0 .. b - a} \cap (a .. b)

\* The ways to write it down: a list in any order.
Written(m) ==
    CASE m.kind = "any"     -> {<<Star>>}
      [] m.kind = "every"   -> {<<Star, Slash, m.step>>}
      [] m.kind = "span"    -> {<<m.from, Dash, m.to>>}
      [] m.kind = "everyIn" -> {<<m.from, Dash, m.to, Slash, m.step>>}
      [] m.kind = "values"  ->
            {[i \in 1 .. 2 * Cardinality(m.set) - 1 |->
                 IF i % 2 = 1 THEN order[(i + 1) \div 2] ELSE Comma] :
                order \in SetToSeqs(m.set)}

Meaning(m, values) ==
    CASE m.kind = "any"     -> values
      [] m.kind = "every"   -> LET least == CHOOSE v \in values : \A u \in values : v <= u
                               IN  values \cap {least + i * m.step : i \in 0 .. Cardinality(values)}
      [] m.kind = "span"    -> values \cap (m.from .. m.to)
      [] m.kind = "everyIn" -> values \cap Progression(m.from, m.to, m.step)
      [] m.kind = "values"  -> values \cap m.set
=============================================================================
