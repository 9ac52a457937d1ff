----------------------------- MODULE JobExecutor -----------------------------
(***************************************************************************)
(* The executor processes (executor/src/executor.cpp) on the topics        *)
(* job-submit, job-cancel and job-result.  A process has four threads:     *)
(*   main      start(), then sleeps; the signal handler runs stop() on it  *)
(*   consumer  the Kafka thread: queues jobs, runs cancel_job              *)
(*   exec      execute_loop: takes a job, checks it, runs it, reports      *)
(*   beat      heartbeat_loop                                              *)
(* The row of a process in executor_node is what the scheduler chooses by; *)
(* the REST API of the scheduler may change its status at any time.        *)
(* Every start draws a new executor id, hence a new consumer group, and    *)
(* auto.offset.reset is "earliest": a process reads both topics from their *)
(* beginning, every process reads all of them, and no offset is ever used  *)
(* again.  A member of Executor is one life of a process.                  *)
(*                                                                         *)
(* A step ends where another thread can come between: at the two locks of  *)
(* cancel_job, between taking a job and asking whether it is cancelled,    *)
(* and around the command.  An entry of job-submit is the job with the     *)
(* executor that dispatch_job chose, which the message does not carry;     *)
(* entries are named by their index in the topic.  A queue is filled in    *)
(* the order of the topic and emptied from the front, so that it is the set*)
(* of its entries, the smallest one first.                                 *)
(*                                                                         *)
(* A definition Op_fault is a faulty variant of Op, never part of Next: it *)
(* is what the properties are validated against.                           *)
(***************************************************************************)
EXTENDS Integers, Sequences, FiniteSets

CONSTANTS Executor, Job,
          MaxSubmit, MaxCancel,    \* bounds: messages on the two topics
          MaxFault,                \* bound: results that are lost, updates that fail, crashes
          MaxOrder                 \* bound: changes of a status through the API

ASSUME ExecutorAssumption ==
    MaxSubmit \in Nat /\ MaxCancel \in Nat /\ MaxFault \in Nat /\ MaxOrder \in Nat

VARIABLES
    submitTopic, cancelTopic, resultTopic,
    main,                    \* where the main thread is
    queue,                   \* job_queue_: indices into submitTopic, the smallest first
    cancelled,               \* cancelled_jobs_
    consumer, read,          \* the Kafka thread, and how far it has read
    exec, beat,              \* the other threads
    row,                     \* executor_node: the status, and whether last_heartbeat is recent
    orders,                  \* changes of a status through the API
    faults

topicVars == <<submitTopic, cancelTopic, resultTopic>>
rowVars   == <<row, orders>>
procVars  == <<main, queue, cancelled, consumer, read, exec, beat, rowVars>>
vars == <<topicVars, procVars, faults>>

Stopping == {"joinExec", "joinBeat", "stopConsume", "unregister"}
MainPC   == {"new", "start", "up", "stuck", "stopped", "dead"} \cup Stopping
Status   == {"SUCCESS", "FAILED"}

\* started: the check of cancelled_jobs_ let the job pass; doomed: the job was
\* already cancelled when it was taken; overdue: the timeout has passed.
ExecState == [pc : {"off", "wait", "check", "run", "report", "exited"}, msg : Nat,
              status : Status, doomed : BOOLEAN, overdue : BOOLEAN]
ConsumerState == [pc : {"off", "poll", "remove"}, job : Job \cup {"none"}]
Row    == [status : {"none", "ONLINE", "OFFLINE"}, fresh : BOOLEAN]
Result == [by : Executor, msg : Nat, status : Status, overdue : BOOLEAN]

ExecOff     == [pc |-> "off", msg |-> 0, status |-> "FAILED", doomed |-> FALSE, overdue |-> FALSE]
ExecWait    == [ExecOff EXCEPT !.pc = "wait"]
ConsumerOff == [pc |-> "off", job |-> "none"]
Poll        == [pc |-> "poll", job |-> "none"]

TypeOK ==
    /\ submitTopic \in Seq(Job \X Executor) /\ cancelTopic \in Seq(Job)
    /\ resultTopic \in Seq(Result)
    /\ main \in [Executor -> MainPC]
    /\ queue \in [Executor -> SUBSET (1 .. Len(submitTopic))]
    /\ cancelled \in [Executor -> SUBSET Job]
    /\ consumer \in [Executor -> ConsumerState]
    /\ read \in [Executor -> [submit : 0 .. Len(submitTopic), cancel : 0 .. Len(cancelTopic)]]
    /\ exec \in [Executor -> ExecState]
    /\ \A e \in Executor : exec[e].msg \in 0 .. Len(submitTopic)
    /\ beat \in [Executor -> BOOLEAN] /\ row \in [Executor -> Row]
    /\ orders \in 0 .. MaxOrder /\ faults \in 0 .. MaxFault

Init ==
    /\ submitTopic = <<>> /\ cancelTopic = <<>> /\ resultTopic = <<>>
    /\ main = [e \in Executor |-> "new"]
    /\ queue = [e \in Executor |-> {}]
    /\ cancelled = [e \in Executor |-> {}]
    /\ consumer = [e \in Executor |-> ConsumerOff]
    /\ read = [e \in Executor |-> [submit |-> 0, cancel |-> 0]]
    /\ exec = [e \in Executor |-> ExecOff]
    /\ beat = [e \in Executor |-> FALSE]
    /\ row = [e \in Executor |-> [status |-> "none", fresh |-> FALSE]]
    /\ orders = 0 /\ faults = 0

JobOf(i)   == submitTopic[i][1]
Running(e) == main[e] \in {"start", "up"}     \* running_

Fault == faults < MaxFault /\ faults' = faults + 1

\* sendJobResult, whose result nobody looks at.
Send(e, i, status, overdue) ==
    \/ /\ resultTopic' = Append(resultTopic,
             [by |-> e, msg |-> i, status |-> status, overdue |-> overdue])
       /\ UNCHANGED faults
    \/ Fault /\ UNCHANGED resultTopic

-----------------------------------------------------------------------------
(* main: start() and stop()                                                 *)

\* updateExecutorStatus: whoever is set ONLINE has had a heartbeat just now.
Marked(r, online) == IF online THEN [status |-> "ONLINE", fresh |-> TRUE]
                               ELSE [r EXCEPT !.status = "OFFLINE"]

\* start() holds mutex_ from the registration, whose result nobody looks at,
\* until the threads run.
Start(e) ==
    /\ main[e] = "new"
    /\ main' = [main EXCEPT ![e] = "start"]
    /\ \/ row' = [row EXCEPT ![e] = Marked(@, TRUE)] /\ UNCHANGED faults
       \/ Fault /\ UNCHANGED row
    /\ UNCHANGED <<topicVars, queue, cancelled, consumer, read, exec, beat, orders>>

StartThreads(e) ==
    /\ main[e] = "start"
    /\ main' = [main EXCEPT ![e] = "up"]
    /\ exec' = [exec EXCEPT ![e] = ExecWait]
    /\ beat' = [beat EXCEPT ![e] = TRUE]
    /\ consumer' = [consumer EXCEPT ![e] = Poll]
    /\ UNCHANGED <<topicVars, queue, cancelled, read, rowVars, faults>>

\* The handler runs on the main thread, which inside start() owns mutex_.
Signal(e) ==
    /\ Running(e)
    /\ main' = [main EXCEPT ![e] = IF @ = "up" THEN "joinExec" ELSE "stuck"]
    /\ UNCHANGED <<topicVars, queue, cancelled, consumer, read, exec, beat, rowVars, faults>>

JoinExec(e) ==
    /\ main[e] = "joinExec" /\ exec[e].pc = "exited"
    /\ main' = [main EXCEPT ![e] = "joinBeat"]
    /\ UNCHANGED <<topicVars, queue, cancelled, consumer, read, exec, beat, rowVars, faults>>

JoinBeat(e) ==
    /\ main[e] = "joinBeat" /\ ~beat[e]
    /\ main' = [main EXCEPT ![e] = "stopConsume"]
    /\ UNCHANGED <<topicVars, queue, cancelled, consumer, read, exec, beat, rowVars, faults>>

StopConsume(e) ==
    /\ main[e] = "stopConsume" /\ consumer[e].pc = "poll"
    /\ main' = [main EXCEPT ![e] = "unregister"]
    /\ consumer' = [consumer EXCEPT ![e] = ConsumerOff]
    /\ UNCHANGED <<topicVars, queue, cancelled, read, exec, beat, rowVars, faults>>

Unregister_early(e) ==
    /\ main[e] \in {"joinBeat", "stopConsume", "unregister"}
    /\ main' = [main EXCEPT ![e] = IF @ = "unregister" THEN "stopped" ELSE @]
    /\ row' = [row EXCEPT ![e] = Marked(@, FALSE)]
    /\ UNCHANGED <<topicVars, queue, cancelled, consumer, read, exec, beat, orders, faults>>
\* An update of a row that is not there changes nothing; one that fails leaves
\* the row to run out of heartbeats.
Unregister(e) ==
    /\ main[e] = "unregister"
    /\ main' = [main EXCEPT ![e] = "stopped"]
    /\ \/ /\ row' = IF row[e].status = "none" THEN row ELSE [row EXCEPT ![e] = Marked(@, FALSE)]
          /\ UNCHANGED faults
       \/ Fault /\ UNCHANGED row
    /\ UNCHANGED <<topicVars, queue, cancelled, consumer, read, exec, beat, orders>>

Crash(e) ==
    /\ main[e] \in {"start", "up"} \cup Stopping
    /\ Fault
    /\ main' = [main EXCEPT ![e] = "dead"]
    /\ queue' = [queue EXCEPT ![e] = {}]
    /\ exec' = [exec EXCEPT ![e] = ExecOff]
    /\ consumer' = [consumer EXCEPT ![e] = ConsumerOff]
    /\ beat' = [beat EXCEPT ![e] = FALSE]
    /\ UNCHANGED <<topicVars, cancelled, read, rowVars>>

-----------------------------------------------------------------------------
(* heartbeat_loop, and the row in executor_node                             *)

\* An update that finds no row changes nothing; nobody registers it again.
Beat(e) ==
    /\ beat[e] /\ row[e].status # "none" /\ ~row[e].fresh
    /\ row' = [row EXCEPT ![e].fresh = TRUE]
    /\ UNCHANGED <<topicVars, main, queue, cancelled, consumer, read, exec, beat, orders, faults>>

\* The updates fail for five minutes; the loop goes on.
BeatFails(e) ==
    /\ beat[e] /\ row[e].fresh /\ Fault
    /\ row' = [row EXCEPT ![e].fresh = FALSE]
    /\ UNCHANGED <<topicVars, main, queue, cancelled, consumer, read, exec, beat, orders>>

BeatEnds(e) ==
    /\ beat[e] /\ ~Running(e)
    /\ beat' = [beat EXCEPT ![e] = FALSE]
    /\ UNCHANGED <<topicVars, main, queue, cancelled, consumer, read, exec, rowVars, faults>>

\* Five minutes without a heartbeat, whatever the process does meanwhile; the
\* registration and the first heartbeat are moments apart.
Expire(e) ==
    /\ row[e].fresh /\ ~beat[e] /\ main[e] # "start"
    /\ row' = [row EXCEPT ![e].fresh = FALSE]
    /\ UNCHANGED <<topicVars, main, queue, cancelled, consumer, read, exec, beat, orders, faults>>

\* ExecutorApiHandler::updateExecutorStatus, which asks for the row first.
SetStatus(e, online) ==
    /\ orders < MaxOrder /\ orders' = orders + 1
    /\ row[e].status # "none"
    /\ row' = [row EXCEPT ![e] = Marked(@, online)]
    /\ UNCHANGED <<topicVars, main, queue, cancelled, consumer, read, exec, beat, faults>>

-----------------------------------------------------------------------------
(* consumer                                                                 *)

ConsumeSubmit_pastEnd(e) ==
    /\ consumer[e] = Poll
    /\ read[e].submit <= Len(submitTopic)
    /\ read' = [read EXCEPT ![e].submit = @ + 1]
    /\ queue' = [queue EXCEPT ![e] = @ \cup {read[e].submit + 1}]
    /\ UNCHANGED <<topicVars, main, cancelled, consumer, exec, beat, rowVars, faults>>
ConsumeSubmit(e) ==
    /\ consumer[e] = Poll
    /\ read[e].submit < Len(submitTopic)
    /\ read' = [read EXCEPT ![e].submit = @ + 1]
    /\ queue' = [queue EXCEPT ![e] = @ \cup {read[e].submit + 1}]
    /\ UNCHANGED <<topicVars, main, cancelled, consumer, exec, beat, rowVars, faults>>

\* cancel_job up to its second lock.
ConsumeCancel(e) ==
    LET j == cancelTopic[read[e].cancel + 1] IN
    /\ consumer[e] = Poll
    /\ read[e].cancel < Len(cancelTopic)
    /\ read' = [read EXCEPT ![e].cancel = @ + 1]
    /\ cancelled' = [cancelled EXCEPT ![e] = @ \cup {j}]
    /\ consumer' = [consumer EXCEPT ![e] = [pc |-> "remove", job |-> j]]
    /\ UNCHANGED <<topicVars, main, queue, exec, beat, rowVars, faults>>

Queued(e, j) == {i \in queue[e] : JobOf(i) = j}

RemoveQueued_silent(e) ==
    LET j == consumer[e].job IN
    /\ consumer[e].pc = "remove"
    /\ queue' = [queue EXCEPT ![e] = @ \ Queued(e, j)]
    /\ consumer' = [consumer EXCEPT ![e] = Poll]
    /\ UNCHANGED <<topicVars, main, cancelled, read, exec, beat, rowVars, faults>>
RemoveQueued_inHandToo(e) ==
    LET j == consumer[e].job
        mine == {i \in {exec[e].msg} \ {0} : JobOf(i) = j}
    IN
    /\ consumer[e].pc = "remove"
    /\ queue' = [queue EXCEPT ![e] = @ \ Queued(e, j)]
    /\ \/ /\ Queued(e, j) \cup mine = {}
          /\ UNCHANGED <<resultTopic, faults>>
       \/ \E i \in Queued(e, j) \cup mine : Send(e, i, "FAILED", FALSE)
    /\ consumer' = [consumer EXCEPT ![e] = Poll]
    /\ UNCHANGED <<submitTopic, cancelTopic, main, cancelled, read, exec, beat, rowVars>>
\* Every entry of the job leaves the queue; one answer is sent for all of them.
RemoveQueued(e) ==
    LET j == consumer[e].job IN
    /\ consumer[e].pc = "remove"
    /\ queue' = [queue EXCEPT ![e] = @ \ Queued(e, j)]
    /\ \/ /\ Queued(e, j) = {}
          /\ UNCHANGED <<resultTopic, faults>>
       \/ \E i \in Queued(e, j) :
             /\ \A k \in Queued(e, j) : i <= k
             /\ Send(e, i, "FAILED", FALSE)
    /\ consumer' = [consumer EXCEPT ![e] = Poll]
    /\ UNCHANGED <<submitTopic, cancelTopic, main, cancelled, read, exec, beat, rowVars>>

-----------------------------------------------------------------------------
(* exec                                                                     *)

Take(e) ==
    /\ exec[e].pc = "wait" /\ Running(e)
    /\ \E i \in queue[e] :
          /\ \A k \in queue[e] : i <= k
          /\ queue' = [queue EXCEPT ![e] = @ \ {i}]
          /\ exec' = [exec EXCEPT ![e] = [ExecOff EXCEPT !.pc = "check", !.msg = i,
                                             !.doomed = JobOf(i) \in cancelled[e]]]
    /\ UNCHANGED <<topicVars, main, cancelled, consumer, read, beat, rowVars, faults>>

Check_dropped(e) ==
    /\ exec[e].pc = "check"
    /\ exec' = [exec EXCEPT ![e].pc = "run"]
    /\ UNCHANGED <<topicVars, main, queue, cancelled, consumer, read, beat, rowVars, faults>>
Check_silent(e) ==
    /\ exec[e].pc = "check"
    /\ exec' = [exec EXCEPT ![e] = IF JobOf(@.msg) \in cancelled[e] THEN ExecWait
                                   ELSE [@ EXCEPT !.pc = "run"]]
    /\ UNCHANGED <<topicVars, main, queue, cancelled, consumer, read, beat, rowVars, faults>>
Check(e) ==
    /\ exec[e].pc = "check"
    /\ \/ /\ JobOf(exec[e].msg) \in cancelled[e]
          /\ Send(e, exec[e].msg, "FAILED", FALSE)
          /\ exec' = [exec EXCEPT ![e] = ExecWait]
       \/ /\ JobOf(exec[e].msg) \notin cancelled[e]
          /\ exec' = [exec EXCEPT ![e].pc = "run"]
          /\ UNCHANGED <<resultTopic, faults>>
    /\ UNCHANGED <<submitTopic, cancelTopic, main, queue, cancelled, consumer, read, beat, rowVars>>

\* The command runs longer than the job's timeout.
Overrun(e) ==
    /\ exec[e].pc = "run" /\ ~exec[e].overdue
    /\ exec' = [exec EXCEPT ![e].overdue = TRUE]
    /\ UNCHANGED <<topicVars, main, queue, cancelled, consumer, read, beat, rowVars, faults>>

\* A line of output: only now timeout and cancellation are looked at, and
\* pclose waits for the command.
Interrupt(e) ==
    /\ exec[e].pc = "run"
    /\ exec[e].overdue \/ JobOf(exec[e].msg) \in cancelled[e]
    /\ exec' = [exec EXCEPT ![e].pc = "report", ![e].status = "FAILED"]
    /\ UNCHANGED <<topicVars, main, queue, cancelled, consumer, read, beat, rowVars, faults>>

\* The output ends: the exit status decides.
Finish(e) ==
    /\ exec[e].pc = "run"
    /\ \E status \in Status :
          exec' = [exec EXCEPT ![e].pc = "report", ![e].status = status]
    /\ UNCHANGED <<topicVars, main, queue, cancelled, consumer, read, beat, rowVars, faults>>

Report(e) ==
    /\ exec[e].pc = "report"
    /\ Send(e, exec[e].msg, exec[e].status, exec[e].overdue)
    /\ exec' = [exec EXCEPT ![e] = ExecWait]
    /\ UNCHANGED <<submitTopic, cancelTopic, main, queue, cancelled, consumer, read, beat, rowVars>>

\* running_ is false: what is left in the queue stays there.
ExecEnds(e) ==
    /\ exec[e].pc = "wait" /\ ~Running(e)
    /\ exec' = [exec EXCEPT ![e] = [ExecOff EXCEPT !.pc = "exited"]]
    /\ UNCHANGED <<topicVars, main, queue, cancelled, consumer, read, beat, rowVars, faults>>

-----------------------------------------------------------------------------
(* The scheduler, which this module leaves open                             *)

Submit(j, e) ==
    /\ Len(submitTopic) < MaxSubmit
    /\ submitTopic' = Append(submitTopic, <<j, e>>)
    /\ UNCHANGED <<cancelTopic, resultTopic, procVars, faults>>

Cancel(j) ==
    /\ Len(cancelTopic) < MaxCancel
    /\ cancelTopic' = Append(cancelTopic, j)
    /\ UNCHANGED <<submitTopic, resultTopic, procVars, faults>>

Main(e)    == \/ StartThreads(e) \/ JoinExec(e) \/ JoinBeat(e)
              \/ StopConsume(e) \/ Unregister(e)
RowMoves(e) == \/ Beat(e) \/ BeatFails(e) \/ Expire(e)
               \/ \E online \in BOOLEAN : SetStatus(e, online)
Consume(e) == ConsumeSubmit(e) \/ ConsumeCancel(e) \/ RemoveQueued(e)
Execute(e) == Take(e) \/ Check(e) \/ Interrupt(e) \/ Finish(e) \/ Report(e) \/ ExecEnds(e)

Next ==
    \/ \E e \in Executor :
          \/ Start(e) \/ Signal(e) \/ Crash(e) \/ Main(e)
          \/ BeatEnds(e) \/ RowMoves(e)
          \/ Consume(e) \/ Execute(e) \/ Overrun(e)
    \/ \E j \in Job, e \in Executor : Submit(j, e)
    \/ \E j \in Job : Cancel(j)

Spec == Init /\ [][Next]_vars

\* Threads run, commands end and time passes; nothing forces a start, a signal, a
\* crash, a message, an order, a heartbeat that was late or a command to be slow.
Fairness ==
    \A e \in Executor :
        /\ WF_vars(Main(e)) /\ WF_vars(BeatEnds(e)) /\ WF_vars(Expire(e))
        /\ WF_vars(Consume(e)) /\ WF_vars(Execute(e))

FairSpec == Spec /\ Fairness
-----------------------------------------------------------------------------
(* Properties                                                               *)

JobAnswered(e, j) ==
    \E k \in DOMAIN resultTopic : resultTopic[k].by = e /\ JobOf(resultTopic[k].msg) = j
Answers(e, i) == {k \in DOMAIN resultTopic : resultTopic[k].by = e /\ resultTopic[k].msg = i}

(* A job that a process has read is in its queue, in the hands of its exec   *)
(* thread, or answered for, as long as no message was lost and the process   *)
(* did not crash: cancel_job, which rebuilds the queue while the exec thread *)
(* takes from it, loses nothing.                                             *)
NothingForgotten ==
    \A e \in Executor : \A i \in 1 .. read[e].submit :
        \/ faults > 0
        \/ i \in queue[e]
        \/ exec[e].msg = i
        \/ JobAnswered(e, JobOf(i))

(* A process answers a message at most once, and none that it still has:    *)
(* a job cancelled while it is taken or run is answered by the exec thread  *)
(* alone.                                                                   *)
AnsweredOnce ==
    \A e \in Executor : \A i \in 1 .. Len(submitTopic) :
        Cardinality(Answers(e, i)) + (IF exec[e].msg = i THEN 1 ELSE 0) <= 1

(* A job whose cancellation a process had seen when it took the job from    *)
(* its queue is not run, in whatever order the two messages came.           *)
CancelledNotRun ==
    \A e \in Executor : exec[e].pc \in {"run", "report"} => ~exec[e].doomed

\* Nothing of the process is at work.
Idle(e) == exec[e].pc \in {"off", "exited"} /\ consumer[e].pc = "off" /\ ~beat[e]

(* But for an order through the API, a row changes from ONLINE to OFFLINE    *)
(* only when nothing of its process is at work any more: stop() unregisters  *)
(* after the last of the threads that it waits for.                          *)
WithdrawnIsIdle ==
    [][\A e \in Executor :
          row[e].status = "ONLINE" /\ row'[e].status = "OFFLINE" /\ orders' = orders
              => Idle(e)]_vars

\* What getOnlineExecutors asks for: the scheduler may choose e.
Online(e) == row[e].status = "ONLINE" /\ row[e].fresh


(* A running process answers every job that it is sent, or some job was     *)
(* lost, or it is stopped.                                                  *)
SubmittedIsAnswered ==
    \A e \in Executor : \A i \in 1 .. MaxSubmit :
        main[e] = "up" /\ Len(submitTopic) >= i
            ~> \/ main[e] # "up" \/ faults > 0
               \/ i \in 1 .. Len(submitTopic) /\ JobAnswered(e, JobOf(i))
-----------------------------------------------------------------------------
(* What the documents say and the code does not do                          *)

(* A process shows by its heartbeat that it is active: while it runs a job   *)
(* its row does not run out of heartbeats, not even when stop() waits for    *)
(* the job.                                                                  *)
ActiveStaysFresh ==
    [][\A e \in Executor : exec[e].pc = "run" /\ row[e].fresh => row'[e].fresh]_vars

(* A job that outlives its timeout is not a success.                        *)
OverdueFails ==
    \A k \in DOMAIN resultTopic : resultTopic[k].overdue => resultTopic[k].status = "FAILED"

(* A job is run by the executor that the scheduler chose for it.            *)
RunsWhereSent ==
    \A e \in Executor : exec[e].pc = "run" => submitTopic[exec[e].msg][2] = e
=============================================================================
