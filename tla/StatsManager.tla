---------------------------- MODULE StatsManager ----------------------------
(***************************************************************************)
(* The statistics of a process (common/src/stats_manager.cpp): unsigned    *)
(* counters that all threads of the scheduler change without a lock, one   *)
(* atomic instruction after the other, and a list of executors that has a  *)
(* mutex.  An operation is the sequence of its instructions; a step is one *)
(* instruction of one thread.                                              *)
(*                                                                         *)
(* The schedule thread and the Kafka consumer thread make one call at a    *)
(* time; the API server has a thread for every request.  Nobody calls      *)
(* updateSystemStats.  Reads whose values are only printed are left out.   *)
(*                                                                         *)
(* A definition Op_fault is a faulty variant of Op that no step uses: it   *)
(* is what the properties are validated against.                           *)
(***************************************************************************)
EXTENDS Integers, Sequences, SequencesExt

CONSTANTS Request,       \* threads of the API server
          Executor,      \* executor ids
          Modulus,       \* 2^64 in the code: counters wrap around
          Times,         \* milliseconds, or seconds, that are measured
          MaxCalls       \* bound: calls of all threads

ASSUME StatsAssumption ==
    /\ Modulus \in Nat /\ Modulus > 1
    /\ Times \subseteq 0 .. Modulus - 1
    /\ MaxCalls \in Nat
    /\ {"schedule", "handler"} \cap Request = {}

Thread == {"schedule", "handler"} \cup Request

\* In the order in which the two reset() clear them.
JobFields    == <<"total_jobs", "pending_jobs", "running_jobs", "completed_jobs",
                  "failed_jobs", "timeout_jobs", "cancelled_jobs", "once_jobs",
                  "periodic_jobs", "total_execution_time", "min_execution_time",
                  "max_execution_time", "retry_count">>
SystemFields == <<"scheduler_uptime", "db_query_count", "db_query_time",
                  "kafka_msg_sent", "kafka_msg_received", "scheduler_cycles">>
Field == ToSet(JobFields) \cup ToSet(SystemFields)

InitialValue(f) == IF f = "min_execution_time" THEN Modulus - 1 ELSE 0
Cleared == [f \in Field |-> InitialValue(f)]

-----------------------------------------------------------------------------
(* Instructions.  seen is what the first of two reads returned.             *)

NotRead == -1
Instr(op, f, n) == [op |-> op, field |-> f, value |-> n, seen |-> NotRead]

Plus(f, n)  == Instr("plus", f, n)
Store(f, n) == Instr("store", f, n)
\* load, then compare_exchange_weak until it succeeds or is not needed any more.
Lower(f, n) == Instr("lower", f, n)
Raise(f, n) == Instr("raise", f, n)
\* Divides by a counter after a look at it: the counter is read twice.
Divide(f)   == Instr("divide", f, 0)
\* On executorStats_, with its mutex held.
Enter(e)    == Instr("enter", e, 0)
ClearList   == Instr("clear", "total_jobs", 0)

Needed(i, x) == CASE i.op = "lower"  -> i.value < x
                  [] i.op = "raise"  -> i.value > x
                  [] i.op = "divide" -> x > 0

Whole_signed(s, i) ==
    CASE i.op = "plus"  -> [s EXCEPT ![i.field] = @ + i.value]
      [] i.op = "store" -> [s EXCEPT ![i.field] = i.value]
      [] i.op \in {"lower", "raise"} ->
            [s EXCEPT ![i.field] = IF Needed(i, @) THEN i.value ELSE @]
      [] OTHER -> s
\* What an instruction does to the counters if nothing comes between its reads
\* and its write.
Whole(s, i) ==
    CASE i.op = "plus"  -> [s EXCEPT ![i.field] = (@ + i.value) % Modulus]
      [] i.op = "store" -> [s EXCEPT ![i.field] = i.value]
      [] i.op \in {"lower", "raise"} ->
            [s EXCEPT ![i.field] = IF Needed(i, @) THEN i.value ELSE @]
      [] OTHER -> s

\* A call that nothing comes between.
AtOnce(s, program) ==
    LET after[k \in 0 .. Len(program)] ==
          IF k = 0 THEN s ELSE Whole(after[k - 1], program[k])
    IN  after[Len(program)]

-----------------------------------------------------------------------------

VARIABLES stats,       \* the counters
          executors,   \* ids in executorStats_
          todo,        \* instructions left of the call each thread is in
          calls,       \* how many calls have been made
          resetting,   \* threads in resetAllStats
          trapped,     \* the process has divided by zero and is gone
          serial,      \* the counters, had every call been made in one step
          torn         \* a reset has met another call since one was last alone

vars == <<stats, executors, todo, calls, resetting, trapped, serial, torn>>

Values == 0 .. Modulus - 1
Instruction == [op : {"plus", "store", "lower", "raise", "divide", "enter", "clear"},
                field : Field \cup Executor, value : -1 .. Modulus - 1,
                seen : Values \cup {NotRead}]

TypeOK ==
    /\ stats \in [Field -> Values] /\ serial \in [Field -> Values]
    /\ executors \subseteq Executor
    /\ todo \in [Thread -> Seq(Instruction)]
    /\ calls \in 0 .. MaxCalls
    /\ resetting \in SUBSET {t \in Request : todo[t] # <<>>}
    /\ trapped \in BOOLEAN /\ torn \in BOOLEAN

Init ==
    /\ stats = Cleared /\ serial = Cleared
    /\ executors = {}
    /\ todo = [t \in Thread |-> <<>>]
    /\ calls = 0
    /\ resetting = {}
    /\ trapped = FALSE /\ torn = FALSE

Busy(t)   == todo[t] # <<>>
Others(t) == \E u \in Thread \ {t} : Busy(u)

-----------------------------------------------------------------------------
(* Calls                                                                    *)

Call(t, program) ==
    /\ ~trapped /\ ~Busy(t)
    /\ calls < MaxCalls
    /\ calls' = calls + 1
    /\ todo' = [todo EXCEPT ![t] = program]
    /\ serial' = AtOnce(serial, program)
    /\ UNCHANGED <<stats, executors, trapped>>

Update(t, program) ==
    /\ Call(t, program)
    /\ torn' = (torn \/ resetting # {})
    /\ UNCHANGED resetting

\* submit_job counts a job that waits, dispatch_job one that runs.
UpdateJobStats(t, type, status) ==
    Update(t, <<Plus("total_jobs", 1), Plus(type, 1), Plus(status, 1)>>)

\* The statuses that end a job; the switch has no default.
Ended == {"completed_jobs", "failed_jobs", "timeout_jobs"}

\* executionTime in milliseconds, which is not negative.
UpdateJobResultStats(status, time) ==
    LET times == <<Plus("total_execution_time", time),
                   Lower("min_execution_time", time),
                   Raise("max_execution_time", time)>>
    IN  Update("handler", IF status \in Ended
                          THEN <<Plus(status, 1), Plus("running_jobs", -1)>> \o times
                          ELSE times)

UpdateExecutorStats(e) == Update("handler", <<Enter(e)>>)

\* Every thread makes statements.
AddDbQuery(t, time) ==
    Update(t, <<Plus("db_query_count", 1), Plus("db_query_time", time)>>)

AddKafkaMessage(t, direction) == Update(t, <<Plus(direction, 1)>>)

\* The uptime is any time: startTime_ is not atomic and a reset writes it.
AddSchedulerCycle(uptime) ==
    Update("schedule", <<Plus("scheduler_cycles", 1), Store("scheduler_uptime", uptime)>>)

IncrementCancelledJobs(t) == Update(t, <<Plus("cancelled_jobs", 1)>>)

Stores(fields) == [i \in DOMAIN fields |-> Store(fields[i], InitialValue(fields[i]))]
ResetAllStats(t) ==
    /\ Call(t, Stores(JobFields) \o <<ClearList>> \o Stores(SystemFields))
    /\ resetting' = resetting \cup {t}
    /\ torn' = Others(t)

\* The reads that divide: the average times.
ExportStatsAsJson(t) == Update(t, <<Divide("completed_jobs"), Divide("db_query_count")>>)

-----------------------------------------------------------------------------
(* Steps of a thread in a call                                              *)

\* The thread goes on with these instructions instead of the current one.
Continue(t, instructions) ==
    LET rest == instructions \o Tail(todo[t]) IN
    /\ todo' = [todo EXCEPT ![t] = rest]
    /\ resetting' = IF rest = <<>> THEN resetting \ {t} ELSE resetting

At(t, ops) == ~trapped /\ Busy(t) /\ Head(todo[t]).op \in ops

Write_plain(t) ==
    LET i == Head(todo[t]) IN
    /\ At(t, {"plus", "store"})
    /\ IF i.seen = NotRead
       THEN Continue(t, <<[i EXCEPT !.seen = stats[i.field]]>>) /\ UNCHANGED stats
       ELSE /\ stats' = Whole([stats EXCEPT ![i.field] = i.seen], i)
            /\ Continue(t, <<>>)
    /\ UNCHANGED <<executors, calls, trapped, serial, torn>>
Write(t) ==
    /\ At(t, {"plus", "store"})
    /\ stats' = Whole(stats, Head(todo[t]))
    /\ Continue(t, <<>>)
    /\ UNCHANGED <<executors, calls, trapped, serial, torn>>

Read_unchecked(t) ==
    LET i == Head(todo[t]) IN
    /\ At(t, {"lower", "raise", "divide"})
    /\ i.seen = NotRead
    /\ Continue(t, <<[i EXCEPT !.seen = stats[i.field]]>>)
    /\ UNCHANGED <<stats, executors, calls, trapped, serial, torn>>
Read(t) ==
    LET i == Head(todo[t])
        x == stats[i.field]
    IN  /\ At(t, {"lower", "raise", "divide"})
        /\ i.seen = NotRead
        /\ Continue(t, IF Needed(i, x) THEN <<[i EXCEPT !.seen = x]>> ELSE <<>>)
        /\ UNCHANGED <<stats, executors, calls, trapped, serial, torn>>

\* A failed exchange has read the counter again.
Exchange(t) ==
    LET i == Head(todo[t])
        x == stats[i.field]
    IN  /\ At(t, {"lower", "raise"})
        /\ i.seen # NotRead
        /\ IF x = i.seen
           THEN /\ stats' = [stats EXCEPT ![i.field] = i.value]
                /\ Continue(t, <<>>)
           ELSE /\ UNCHANGED stats
                /\ Continue(t, IF Needed(i, x) THEN <<[i EXCEPT !.seen = x]>> ELSE <<>>)
        /\ UNCHANGED <<executors, calls, trapped, serial, torn>>

Quotient(t) ==
    LET i == Head(todo[t]) IN
    /\ At(t, {"divide"})
    /\ i.seen # NotRead
    /\ trapped' = (stats[i.field] = 0)
    /\ Continue(t, <<>>)
    /\ UNCHANGED <<stats, executors, calls, serial, torn>>

List(t) ==
    LET i == Head(todo[t]) IN
    /\ At(t, {"enter", "clear"})
    /\ executors' = IF i.op = "enter" THEN executors \cup {i.field} ELSE {}
    /\ Continue(t, <<>>)
    /\ UNCHANGED <<stats, calls, trapped, serial, torn>>

Steps(t) == Write(t) \/ Read(t) \/ Exchange(t) \/ Quotient(t) \/ List(t)

ScheduleThread ==
    \/ \E uptime \in Times : AddSchedulerCycle(uptime)
    \/ \E type \in {"once_jobs", "periodic_jobs"} :
          UpdateJobStats("schedule", type, "running_jobs")
    \/ \E time \in Times : AddDbQuery("schedule", time)
    \/ AddKafkaMessage("schedule", "kafka_msg_sent")

HandlerThread ==
    \/ AddKafkaMessage("handler", "kafka_msg_received")
    \/ \E status \in Ended \cup {"other"}, time \in Times : UpdateJobResultStats(status, time)
    \/ \E e \in Executor : UpdateExecutorStats(e)
    \/ \E time \in Times : AddDbQuery("handler", time)

RequestThread(t) ==
    \/ \E type \in {"once_jobs", "periodic_jobs"} : UpdateJobStats(t, type, "pending_jobs")
    \/ AddKafkaMessage(t, "kafka_msg_sent")
    \/ IncrementCancelledJobs(t)
    \/ \E time \in Times : AddDbQuery(t, time)
    \/ ResetAllStats(t)
    \/ ExportStatsAsJson(t)

Next ==
    \/ ScheduleThread \/ HandlerThread
    \/ \E t \in Request : RequestThread(t)
    \/ \E t \in Thread : Steps(t)

Spec == Init /\ [][Next]_vars

-----------------------------------------------------------------------------
(* Properties                                                               *)

(* No update is lost: when no call is under way, every counter is what it   *)
(* would be, had the calls been made one after the other, the extremes of   *)
(* the execution times included.  A reset that met another call leaves a    *)
(* mixture of both, until the next one that is alone.                       *)
SerialWhenQuiet == (\A t \in Thread : ~Busy(t)) /\ ~torn => stats = serial

(* A request for the statistics brings the scheduler down only if it met a  *)
(* reset: the averages divide by counters that they read twice.             *)
TrapsOnlyUnderReset == trapped => torn

-----------------------------------------------------------------------------
(* What the comments say and the code does not do                           *)

(* running_jobs is the number of jobs that run: it does not wrap around,    *)
(* although every result lowers it and only a dispatch raises it.           *)
RunningNotNegative == stats["running_jobs"] < Modulus - 1

(* A request for the statistics never brings the scheduler down.            *)
NeverTraps == ~trapped
=============================================================================
