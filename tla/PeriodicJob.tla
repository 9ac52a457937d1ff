----------------------------- MODULE PeriodicJob -----------------------------
(***************************************************************************)
(* One PERIODIC job in the process that leads, with the clock that         *)
(* JobScheduler leaves out: when should_execute finds the job due, from    *)
(* its cron expression and the execution on record.  The process, the      *)
(* database, Kafka and the executors do not fail here (JobScheduler has    *)
(* their failures) and an executor is available.                           *)
(*                                                                         *)
(* The schedule thread waits for check_interval seconds, fetches the job,  *)
(* pops every copy from the queue and dispatches those that are due.  Its  *)
(* steps take no time but for a dispatch, which may take Delay seconds.    *)
(* submit_job and handle_result run in other threads at any moment.  Every *)
(* executor answers every message, a moment or a long time later.          *)
(*                                                                         *)
(* A definition Op_fault is a faulty variant of Op, never part of Next: it *)
(* is what the properties are validated against.                           *)
(***************************************************************************)
EXTENDS CronParser

CONSTANTS CheckInterval,   \* scheduler.check_interval, in seconds
          Delay,           \* seconds a dispatch may take
          Executors,       \* how many executors answer a message
          Scenarios,       \* what a user means by each field, and a start
          Lead, Duration, MaxRows  \* bounds: time from the start to submit_job and
                           \* from there to the end, which MaxRows brings too

ASSUME TimingAssumption ==
    /\ CheckInterval \in Nat \ {0} /\ Delay \in Nat
    /\ Executors \in Nat
    /\ Lead \in Nat /\ Duration \in Nat /\ MaxRows \in Nat
    /\ \A s \in Scenarios : s.start \in Nat

ASSUME MeaningAssumption ==
    \A s \in Scenarios :
        /\ DOMAIN s.meant = {FieldNames[i] : i \in 1 .. 5}
        /\ \A f \in DOMAIN s.meant : Writable(s.meant[f], FieldRange(f))

VARIABLES cron,      \* the expression of the job as it is written
          meant,     \* what the user means by it
          now,       \* the clock, in seconds
          job,       \* "new", "saved" by submit_job, "queued" by it
          since,     \* when it was saved, or the start
          copies,    \* entries of the job in job_queue_
          pc,        \* schedule thread: "wait", "drain", "save", "send"
          mark,      \* when it began to wait, or found the job due
          rows,      \* its executions in the order of insertion
          awaited,   \* results that executors are still to send
          handler    \* the row handle_result has read and not written, or 0

schedVars == <<copies, pc, mark>>
dbVars    == <<job, since, rows>>
vars == <<cron, meant, now, schedVars, dbVars, awaited, handler>>

NoEnd == -1

\* due is not in the table: when should_execute said yes.
Row == [due : Nat, trig : Nat, end : Nat \cup {NoEnd}]

TypeOK ==
    /\ now \in Nat
    /\ job \in {"new", "saved", "queued"}
    /\ since \in 0 .. now
    /\ copies \in Nat
    /\ pc \in {"wait", "drain", "save", "send"} /\ mark \in 0 .. now
    /\ rows \in Seq(Row) /\ Len(rows) <= MaxRows
    /\ awaited \in Nat
    /\ handler \in 0 .. Len(rows)

\* The user writes down what he means, in one of the ways to do so.
Init ==
    /\ \E s \in Scenarios : meant = s.meant /\ now = s.start
    /\ cron \in {c \in [1 .. 5 -> UNION {Written(meant[f]) : f \in DOMAIN meant}] :
                    \A i \in 1 .. 5 : c[i] \in Written(meant[FieldNames[i]])}
    /\ job = "new" /\ since = now
    /\ copies = 0
    /\ pc = "wait" /\ mark = now
    /\ rows = <<>>
    /\ awaited = 0 /\ handler = 0

-----------------------------------------------------------------------------
(* submit_job                                                               *)

SubmitSave ==
    /\ job = "new"
    /\ job' = "saved" /\ since' = now
    /\ UNCHANGED <<cron, meant, now, schedVars, rows, awaited, handler>>

SubmitPush ==
    /\ job = "saved"
    /\ job' = "queued"
    /\ copies' = copies + 1
    /\ UNCHANGED <<cron, meant, now, since, pc, mark, rows, awaited, handler>>

-----------------------------------------------------------------------------
(* schedule_loop                                                            *)

\* wait_for returns when its time is over, or before it if the queue has an
\* entry; then getPendingJobs, which finds the job if it is saved.
Fetch ==
    /\ pc = "wait"
    /\ now >= mark + CheckInterval \/ copies > 0
    /\ copies' = IF job = "new" THEN copies ELSE copies + 1
    /\ pc' = "drain"
    /\ UNCHANGED <<cron, meant, now, mark, dbVars, awaited, handler>>

DrainEnds ==
    /\ pc = "drain" /\ copies = 0
    /\ pc' = "wait" /\ mark' = now
    /\ UNCHANGED <<cron, meant, now, copies, dbVars, awaited, handler>>

\* ORDER BY trigger_time DESC LIMIT 1: any of the rows of the last second.
Latest == {i \in DOMAIN rows : \A k \in DOMAIN rows : rows[k].trig <= rows[i].trig}

\* end_time is NULL while no result has come in, which reads as the epoch: the
\* first match after it has long been.
Served(i) == rows[i].end # NoEnd /\ now < GetNext(Parse(cron), rows[i].end)

\* should_execute: the answer may differ with the row that the query returns.
ShouldExecute_anyMinute ==
    IF rows = <<>> THEN {TRUE} ELSE {~Served(i) : i \in Latest}
ShouldExecute ==
    IF ~Matches(Parse(cron), now) THEN {FALSE}
    ELSE IF rows = <<>> THEN {TRUE}
    ELSE {~Served(i) : i \in Latest}

Skip_empty ==
    /\ pc = "drain"
    /\ FALSE \in ShouldExecute
    /\ copies' = copies - 1
    /\ UNCHANGED <<cron, meant, now, pc, mark, dbVars, awaited, handler>>
Skip ==
    /\ pc = "drain" /\ copies > 0
    /\ FALSE \in ShouldExecute
    /\ copies' = copies - 1
    /\ UNCHANGED <<cron, meant, now, pc, mark, dbVars, awaited, handler>>

Take ==
    /\ pc = "drain" /\ copies > 0
    /\ TRUE \in ShouldExecute
    /\ Len(rows) < MaxRows
    /\ copies' = copies - 1
    /\ pc' = "save" /\ mark' = now
    /\ UNCHANGED <<cron, meant, now, dbVars, awaited, handler>>

\* dispatch_job: saveExecution, then sendJob to every executor.
Save ==
    /\ pc = "save"
    /\ rows' = Append(rows, [due |-> mark, trig |-> now, end |-> NoEnd])
    /\ pc' = "send"
    /\ UNCHANGED <<cron, meant, now, job, since, copies, mark, awaited, handler>>

Send ==
    /\ pc = "send"
    /\ awaited' = awaited + Executors
    /\ pc' = "drain"
    /\ UNCHANGED <<cron, meant, now, copies, mark, dbVars, handler>>

-----------------------------------------------------------------------------
(* handle_result                                                            *)

Receive ==
    /\ handler = 0
    /\ awaited > 0
    /\ awaited' = awaited - 1
    /\ handler' \in Latest
    /\ UNCHANGED <<cron, meant, now, schedVars, dbVars>>

\* end_time = CURRENT_TIMESTAMP, whether the row had one or not.
WriteRow ==
    /\ handler # 0
    /\ rows' = [rows EXCEPT ![handler].end = now]
    /\ handler' = 0
    /\ UNCHANGED <<cron, meant, now, schedVars, job, since, awaited>>

-----------------------------------------------------------------------------
(* The clock: a wait ends on time and a dispatch takes at most Delay.       *)

Tick ==
    /\ now < since + (IF job = "new" THEN Lead ELSE Duration)
    /\ Len(rows) < MaxRows
    /\ \/ pc = "wait" /\ now < mark + CheckInterval
       \/ pc \in {"save", "send"} /\ now < mark + Delay
    /\ now' = now + 1
    /\ UNCHANGED <<cron, meant, schedVars, dbVars, awaited, handler>>

Next ==
    \/ SubmitSave \/ SubmitPush
    \/ Fetch \/ DrainEnds \/ Skip \/ Take \/ Save \/ Send
    \/ Receive \/ WriteRow
    \/ Tick

Spec == Init /\ [][Next]_vars

-----------------------------------------------------------------------------
(* Properties                                                               *)

MeantIn(f) == Meaning(meant[f], FieldRange(f))
\* A moment the user means.  Sunday is the first and the last day of a week.
Due(t) ==
    /\ \A f \in DOMAIN meant \ {"dayOfWeek"} : Tm(t)[f] \in MeantIn(f)
    /\ Tm(t).dayOfWeek \in {d % DaysPerWeek : d \in MeantIn("dayOfWeek")}

\* The expression matches again within the year that getNext looks through.
ComesAgain(t) ==
    \E u \in t + SecondsPerMinute .. t + Year - 1 :
        (u - t) % SecondsPerMinute = 0 /\ Matches(Parse(cron), u)

(* The job is started when the user means it to be: an execution is only    *)
(* saved if it was found due at a moment that his expression names, however *)
(* he wrote it, whatever day of the week or month it is and wherever the    *)
(* minute falls in the queue's work, and at most Delay after that moment.   *)
StartsWhenMeant ==
    [][\A i \in DOMAIN rows' \ DOMAIN rows :
            /\ Due(rows'[i].due)
            /\ rows'[i].trig - rows'[i].due \in 0 .. Delay]_vars

(* "Check whether it has been executed already" (should_execute): after an  *)
(* execution has ended, the next one is not begun within a minute, although *)
(* the job goes on to match and is fetched every few seconds, perhaps twice *)
(* at once.  Said of an execution that shares its trigger_time with none,   *)
(* and of expressions that match again within a year.                       *)
EndedNotRepeated ==
    \A i \in DOMAIN rows :
        (/\ i + 1 \in DOMAIN rows
         /\ rows[i].end \in 0 .. rows[i + 1].due - 1
         /\ \A k \in DOMAIN rows : rows[k].trig = rows[i].trig => k = i
         /\ ComesAgain(rows[i].end))
        => rows[i + 1].due >= rows[i].end + SecondsPerMinute

StartsIn(m) == \E i \in DOMAIN rows : MinuteOf(rows[i].due) = m

(* A minute that the user means passes without a start only if a result     *)
(* came in that very minute, or less than CheckInterval before the end of   *)
(* an earlier one, with no such minute in between: getNext counts whole     *)
(* minutes from the end of the last execution, and the loop may not look    *)
(* again before the minute is over.  So no two in a row are missed unless   *)
(* results keep coming late.  Said of a dispatch and a wait that fit into   *)
(* one minute, since a look may else last all through the next one, and of  *)
(* users who write Sunday as the last day of the week.                      *)
MissedOnlyAfterLateEnd ==
    [][LET m == MinuteOf(now) IN
       (/\ MinuteOf(now') # m
        /\ Due(now)
        /\ job # "new" /\ MinuteOf(since) < m
        /\ ~StartsIn(m) /\ pc = "wait")
       => \E i \in Latest :
             LET end == rows[i].end IN
             /\ end # NoEnd
             /\ \/ MinuteOf(end) = m
                \/ /\ end % SecondsPerMinute > SecondsPerMinute - CheckInterval
                   /\ \A t \in end + SecondsPerMinute .. now : Due(t) => MinuteOf(t) = m]_vars

(* Every form of field that the parser knows is read as users mean it.      *)
(* (Neither changes later: it is said of the job that is to be submitted.)  *)
ParsedAsMeant ==
    job = "new" => \A i \in 1 .. 5 :
        LET f == FieldNames[i] IN ParseField(cron[i], FieldRange(f)) = MeantIn(f)

-----------------------------------------------------------------------------
(* What a comment says and the code does not do                             *)

(* A minute starts the job once ("check whether it has been executed        *)
(* already"): not while the execution has no end yet.                       *)
OncePerMinute ==
    \A i, k \in DOMAIN rows : MinuteOf(rows[i].due) = MinuteOf(rows[k].due) => i = k
==============================================================================
