---------------------------- MODULE MCPeriodicJob ----------------------------
(* An instance of PeriodicJob for TLC: minutes of four seconds, hours of    *)
(* three minutes, days of two hours, weeks of two and months of three days, *)
(* years of two months.  A day has 24 seconds and a month 72.               *)
EXTENDS PeriodicJob

\* "* * * * *" but for some fields, and a start shortly before these matter.
From(start, fields) ==
    [start |-> start,
     meant |-> [f \in {FieldNames[i] : i \in 1 .. 5} |->
                   IF f \in DOMAIN fields THEN fields[f] ELSE AnyValue]]

MCScenarios ==
    {From(0, [minute |-> m]) : m \in {AnyValue, Values({1}), Values({0, 2}), Span(1, 2),
                                      EveryStep(2), EveryIn(0, 2, 2)}}
    \cup {From(8,  [minute |-> Values({0}), hour |-> Values({1})]),
          From(40, [minute |-> Values({1}), dayOfMonth |-> EveryStep(2)]),
          From(20, [hour |-> EveryIn(0, 1, 1), dayOfMonth |-> Values({2, 3})]),
          From(20, [minute |-> Span(0, 1), dayOfWeek |-> Values({1})]),
          From(44, [month |-> Span(1, 2), dayOfWeek |-> Values({2})]),
          From(66, [month |-> Values({1}), dayOfWeek |-> Span(1, 2)])}
=============================================================================
