---------------------------- MODULE JobScheduler ----------------------------
(***************************************************************************)
(* The scheduler processes (scheduler/src/scheduler.cpp) with the database *)
(* and the Kafka topics they share.  A process runs four threads:          *)
(*   schedule  schedule_loop: fetch pending jobs, drain the queue, dispatch*)
(*   api       submit_job / executeJob, deleteJob with cancel_job,         *)
(*             updateJob; one request at a time per process                *)
(*   handler   the Kafka consumer thread in handle_result                  *)
(*   election  leader_election_loop, whose verdict comes from ZooKeeper    *)
(*             and is left open here                                       *)
(* main() starts these, then the API server, and waits for a signal.       *)
(* A step ends where another thread or process can come between: at every  *)
(* database or Kafka call that others can see.  mutex_ is held by the      *)
(* schedule thread in "push" and "drain" and given up around dispatch_job; *)
(* it excludes the election thread and stop().                             *)
(*                                                                         *)
(* Faults: a failing database or Kafka call (the code logs and goes on), a *)
(* crash of a process, the loss of the leader's role, an executor that     *)
(* comes or goes.  budget bounds how often each of them happens.           *)
(*                                                                         *)
(* A definition Op_fault is a faulty variant of Op, never part of Next: it *)
(* is what the properties are validated against.                           *)
(***************************************************************************)
EXTENDS Integers, Sequences, SequencesExt, JobDAO

CONSTANTS Node,          \* scheduler processes
          Job,           \* job ids generate_uuid may hand out
          Executor,      \* executor ids
          NoJob, NoExecutor, NoNode,
          Once,          \* the jobs of type ONCE; the others are PERIODIC
          Priority,      \* job -> priority
          Strategy,      \* executor selection strategy
          MaxLoad,       \* max_load of every executor
          PendingLimit,  \* limit passed to getPendingJobs (10 in the code)
          Bound,         \* bounds: how many of each kind of event may happen
          MaxDispatch    \* bound: dispatches of one job

Kinds == {"fault", "crash", "stop", "stepDown", "edit", "result", "executor"}

ASSUME JobAssumption ==
    /\ IsFiniteSet(Job)
    /\ NoJob \notin Job
    /\ Once \subseteq Job
    /\ Priority \in [Job -> Int]
    /\ Job \cap Executor = {}
ASSUME NodeAssumption ==
    /\ IsFiniteSet(Node)
    /\ NoNode \notin Node /\ NoExecutor \notin Executor
ASSUME LimitAssumption ==
    /\ Strategy \in {"RANDOM", "ROUND_ROBIN", "LEAST_LOAD"}
    /\ MaxLoad \in Nat
    /\ PendingLimit \in Nat
    /\ MaxDispatch \in Nat
    /\ Bound \in [Kinds -> Nat]

VARIABLES
    jobInfo, jobExecution, executorNode,       \* the tables, see JobDAO
    issued,                                    \* ids handed out by generate_uuid
    submitTopic, cancelTopic, resultTopic,     \* logs of the Kafka topics
    owner, offset, committed,                  \* consumer group scheduler-group
    main,                                      \* where main() of the process is
    running, leader,                           \* running_, is_leader_
    queue,                                     \* job_queue_
    sched, api, handler,                       \* state of the threads
    lateSends,                                 \* dispatches since the node lost its role
    budget                                     \* what is left of Bound

dbVars    == <<jobInfo, jobExecution, executorNode, issued>>
topicVars == <<submitTopic, cancelTopic, resultTopic, owner, offset, committed>>
nodeVars  == <<main, running, leader, queue, sched, api, handler, lateSends>>
vars == <<dbVars, topicVars, nodeVars, budget>>

Dispatching == {"pick", "save", "load", "send"}
SchedPC     == {"stopped", "wait", "push", "drain"} \cup Dispatching

Stopped    == [pc |-> "stopped", job |-> NoJob, executor |-> NoExecutor, pending |-> {}]
IdleApi    == [op |-> "idle", job |-> NoJob, rev |-> 0]
IdleHandle == [pc |-> "idle", job |-> NoJob, row |-> 0, status |-> "FAILED", rev |-> 0]

ExecutionRow == [executor : Executor, status : ExecStatus, trig : Nat]
ExecutorRow  == [online : BOOLEAN, load : Nat]
Result       == [job : Job, status : Terminal]
SchedState   == [pc : SchedPC, job : Job \cup {NoJob},
                 executor : Executor \cup {NoExecutor}, pending : SUBSET Job]
ApiState     == [op : {"idle", "push", "cancel", "write", "delete"},
                 job : Job \cup {NoJob}, rev : Nat]
HandlerState == [pc : {"idle", "row", "job"}, job : Job \cup {NoJob},
                 row : Nat, status : Terminal, rev : Nat]

TablesOK ==
    /\ jobInfo \in [Job -> Nat \cup {NoRow}]
    /\ jobExecution \in [Job -> Seq(ExecutionRow)]
    /\ executorNode \in [Executor -> ExecutorRow]
    /\ issued \in SUBSET Job

TopicsOK ==
    /\ submitTopic \in Seq(Job) /\ cancelTopic \in Seq(Job)
    /\ resultTopic \in Seq(Result)
    /\ owner \in Node \cup {NoNode}
    /\ offset \in 0 .. Len(resultTopic) /\ committed \in 0 .. Len(resultTopic)

FlagsOK ==
    /\ main \in [Node -> {"quiet", "serving", "stuck"}]
    /\ running \in [Node -> BOOLEAN] /\ leader \in [Node -> BOOLEAN]
    /\ queue \in [Node -> Seq(Job)]
    /\ lateSends \in [Node -> Nat]

\* A thread that is at work has a job to work on.
SchedOK ==
    /\ sched \in [Node -> SchedState]
    /\ \A n \in Node :
         /\ sched[n].pc \in Dispatching => sched[n].job \in Job
         /\ sched[n].pc \in {"save", "load", "send"} => sched[n].executor \in Executor
ApiOK ==
    /\ api \in [Node -> ApiState]
    /\ \A n \in Node : api[n].op # "idle" => api[n].job \in Job
HandlerOK ==
    /\ handler \in [Node -> HandlerState]
    /\ \A n \in Node : handler[n].pc # "idle" => handler[n].job \in Job

ThreadsOK == FlagsOK /\ SchedOK /\ ApiOK /\ HandlerOK

BudgetOK ==
    /\ budget \in [Kinds -> Nat]
    /\ \A k \in Kinds : budget[k] <= Bound[k]

TypeOK == TablesOK /\ TopicsOK /\ ThreadsOK /\ BudgetOK

Init ==
    /\ jobInfo = [j \in Job |-> NoRow]
    /\ jobExecution = [j \in Job |-> <<>>]
    /\ executorNode = [e \in Executor |-> [online |-> TRUE, load |-> 0]]
    /\ issued = {}
    /\ submitTopic = <<>> /\ cancelTopic = <<>> /\ resultTopic = <<>>
    /\ owner = NoNode /\ offset = 0 /\ committed = 0
    /\ main = [n \in Node |-> "quiet"]
    /\ running = [n \in Node |-> FALSE] /\ leader = [n \in Node |-> FALSE]
    /\ queue = [n \in Node |-> <<>>]
    /\ sched = [n \in Node |-> Stopped]
    /\ api = [n \in Node |-> IdleApi]
    /\ handler = [n \in Node |-> IdleHandle]
    /\ lateSends = [n \in Node |-> 0]
    /\ budget = Bound

-----------------------------------------------------------------------------
(* Helpers                                                                  *)

Spend(kind) == budget[kind] > 0 /\ budget' = [budget EXCEPT ![kind] = @ - 1]
Spent(kind) == Bound[kind] - budget[kind]
Fault == Spend("fault")

\* A call either takes effect or fails, which costs a fault.
Try(effect, noEffect) ==
    \/ effect /\ UNCHANGED budget
    \/ Fault /\ noEffect

Count(s, j) == Cardinality({i \in DOMAIN s : s[i] = j})

\* std::sort by descending priority: stable or not, it says nothing of the
\* order of equal priorities.
Sorted(q) == \A i, k \in DOMAIN q : i < k => Priority[q[i]] >= Priority[q[k]]

\* The queues that JobQueue::push of the jobs in S can leave.
Merged(q, S) ==
    {r \in [1 .. Len(q) + Cardinality(S) -> Job] :
        /\ Sorted(r)
        /\ \A j \in Job : Count(r, j) = Count(q, j) + (IF j \in S THEN 1 ELSE 0)}

\* What JobQueue::remove leaves: the queue without the first entry of the job.
Removed(q, j) ==
    IF \E i \in DOMAIN q : q[i] = j
    THEN {RemoveAt(q, i) : i \in {k \in DOMAIN q : q[k] = j /\ \A h \in 1 .. k - 1 : q[h] # j}}
    ELSE {q}

Available_full(nodes) == OnlineExecutors(nodes)
\* getAvailableExecutor: LEAST_LOAD takes one of the least loaded and gives up
\* when that one is full; RANDOM and ROUND_ROBIN take any that is online.
Available(nodes) ==
    LET online == OnlineExecutors(nodes)
    IN  IF Strategy = "LEAST_LOAD"
        THEN {e \in online : /\ \A f \in online : nodes[e].load <= nodes[f].load
                             /\ nodes[e].load < MaxLoad}
        ELSE online

Active(n)    == running[n] /\ leader[n]
Serving(n)   == main[n] # "quiet"      \* the API server listens
MutexFree(n) == sched[n].pc \notin {"push", "drain"}

-----------------------------------------------------------------------------
(* REST requests: submit_job (also executeJob), cancel_job and deleteJob,   *)
(* updateJob.                                                               *)

SubmitSave(n, j) ==
    /\ Serving(n) /\ api[n] = IdleApi
    /\ j \notin issued
    /\ issued' = issued \cup {j}
    /\ Try(/\ jobInfo' = SaveJob(jobInfo, j)
           /\ api' = [api EXCEPT ![n] = [op |-> "push", job |-> j, rev |-> 0]],
           UNCHANGED <<jobInfo, api>>)
    /\ UNCHANGED <<jobExecution, executorNode, topicVars,
                   main, running, leader, queue, sched, handler, lateSends>>

SubmitPush(n) ==
    /\ api[n].op = "push"
    /\ \E q \in Merged(queue[n], {api[n].job}) : queue' = [queue EXCEPT ![n] = q]
    /\ api' = [api EXCEPT ![n] = IdleApi]
    /\ UNCHANGED <<dbVars, topicVars, main, running, leader, sched, handler, lateSends, budget>>

CancelGet(n, j) ==
    /\ Serving(n) /\ api[n] = IdleApi
    /\ Exists(jobInfo, j)
    /\ api' = [api EXCEPT ![n] = [op |-> "cancel", job |-> j, rev |-> jobInfo[j]]]
    /\ UNCHANGED <<dbVars, topicVars, main, running, leader, queue, sched, handler, lateSends, budget>>

\* The message to the executors, and the first entry of the job in the queue.
CancelQueue(n) ==
    LET j == api[n].job IN
    /\ api[n].op = "cancel"
    /\ \/ j \in Once /\ Try(cancelTopic' = Append(cancelTopic, j), UNCHANGED cancelTopic)
       \/ j \notin Once /\ UNCHANGED <<cancelTopic, budget>>
    /\ \E q \in Removed(queue[n], j) : queue' = [queue EXCEPT ![n] = q]
    /\ api' = [api EXCEPT ![n].op = "write"]
    /\ UNCHANGED <<dbVars, submitTopic, resultTopic, owner, offset, committed,
                   main, running, leader, sched, handler, lateSends>>

\* The row read by getJob is written back.
CancelWrite(n) ==
    /\ api[n].op = "write"
    /\ Try(jobInfo' = UpdateJob(jobInfo, api[n].job, api[n].rev), UNCHANGED jobInfo)
    /\ api' = [api EXCEPT ![n].op = "delete"]
    /\ UNCHANGED <<jobExecution, executorNode, issued, topicVars,
                   main, running, leader, queue, sched, handler, lateSends>>

DeleteRow(n) ==
    /\ api[n].op = "delete"
    /\ Try(/\ jobInfo' = DeleteJob(jobInfo, api[n].job)
           /\ jobExecution' = CascadeDelete(jobExecution, api[n].job),
           UNCHANGED <<jobInfo, jobExecution>>)
    /\ api' = [api EXCEPT ![n] = IdleApi]
    /\ UNCHANGED <<executorNode, issued, topicVars,
                   main, running, leader, queue, sched, handler, lateSends>>

\* Every edit writes a revision of its own.
EditJob(n, j) ==
    /\ Serving(n) /\ api[n] = IdleApi
    /\ Exists(jobInfo, j)
    /\ Spend("edit")
    /\ jobInfo' = UpdateJob(jobInfo, j, Spent("edit") + 1)
    /\ UNCHANGED <<jobExecution, executorNode, issued, topicVars, nodeVars>>

-----------------------------------------------------------------------------
(* schedule_loop                                                            *)

Goto(n, pc) == sched' = [sched EXCEPT ![n].pc = pc]

Fetch_afterStop(n) ==
    /\ sched[n].pc = "wait"
    /\ leader[n]
    /\ Try(\E S \in PendingJobs(jobInfo, Priority, PendingLimit) :
              sched' = [sched EXCEPT ![n].pc = "push", ![n].pending = S],
           Goto(n, "push"))
    /\ UNCHANGED <<dbVars, topicVars, main, running, leader, queue, api, handler, lateSends>>
\* wait_for has returned, by notification or after check_interval, with the
\* process still the leader: whether the queue is empty does not matter.
Fetch(n) ==
    /\ sched[n].pc = "wait"
    /\ Active(n)
    /\ Try(\E S \in PendingJobs(jobInfo, Priority, PendingLimit) :
              sched' = [sched EXCEPT ![n].pc = "push", ![n].pending = S],
           Goto(n, "push"))
    /\ UNCHANGED <<dbVars, topicVars, main, running, leader, queue, api, handler, lateSends>>

Push(n) ==
    /\ sched[n].pc = "push"
    /\ \E q \in Merged(queue[n], sched[n].pending) : queue' = [queue EXCEPT ![n] = q]
    /\ sched' = [sched EXCEPT ![n].pc = "drain", ![n].pending = {}]
    /\ UNCHANGED <<dbVars, topicVars, main, running, leader, api, handler, lateSends, budget>>

DrainEnds(n) ==
    /\ sched[n].pc = "drain"
    /\ ~Active(n) \/ queue[n] = <<>>
    /\ Goto(n, "wait")
    /\ UNCHANGED <<dbVars, topicVars, main, running, leader, queue, api, handler, lateSends, budget>>

Pop_anyState(n) ==
    /\ sched[n].pc = "drain"
    /\ queue[n] # <<>>
    /\ queue' = [queue EXCEPT ![n] = Tail(@)]
Pop(n) ==
    /\ sched[n].pc = "drain"
    /\ Active(n)
    /\ queue[n] # <<>>
    /\ queue' = [queue EXCEPT ![n] = Tail(@)]

\* should_execute said no: the cron expression of a PERIODIC job does not
\* match or has been served, or there is no executor for it.  (A job that was
\* sent MaxDispatch times is skipped: the bound.)
Skip(n) ==
    /\ Pop(n)
    /\ \/ Head(queue[n]) \notin Once
       \/ Count(submitTopic, Head(queue[n])) >= MaxDispatch
    /\ UNCHANGED <<dbVars, topicVars, main, running, leader, sched, api, handler, lateSends, budget>>

\* should_execute said yes: always for a ONCE job.  mutex_ is given up.
Take(n) ==
    /\ Pop(n)
    /\ \/ Head(queue[n]) \in Once
       \/ Available(executorNode) # {}
    /\ Count(submitTopic, Head(queue[n])) < MaxDispatch
    /\ sched' = [sched EXCEPT ![n].pc = "pick", ![n].job = Head(queue[n])]
    /\ UNCHANGED <<dbVars, topicVars, main, running, leader, api, handler, lateSends, budget>>

Pick_unchecked(n) ==
    /\ sched[n].pc = "pick"
    /\ \E e \in Available(executorNode) \cup {NoExecutor} :
          sched' = [sched EXCEPT ![n].pc = "save", ![n].executor = e]
    /\ UNCHANGED <<dbVars, topicVars, main, running, leader, queue, api, handler, lateSends, budget>>
\* dispatch_job: the executor chosen, or nobody available and the job dropped.
Pick(n) ==
    /\ sched[n].pc = "pick"
    /\ \/ /\ \E e \in Available(executorNode) :
                sched' = [sched EXCEPT ![n].pc = "save", ![n].executor = e]
          /\ UNCHANGED budget
       \/ /\ (Available(executorNode) = {} /\ UNCHANGED budget) \/ Fault
          /\ sched' = [sched EXCEPT ![n].pc = "drain", ![n].job = NoJob]
    /\ UNCHANGED <<dbVars, topicVars, main, running, leader, queue, api, handler, lateSends>>

Save_skipped(n) ==
    /\ sched[n].pc = "save"
    /\ Goto(n, "load")
    /\ UNCHANGED <<dbVars, topicVars, main, running, leader, queue, api, handler, lateSends, budget>>
Save(n) ==
    LET j == sched[n].job IN
    /\ sched[n].pc = "save"
    /\ Try(\E t \in TriggerTimes(jobExecution[j]) :
              jobExecution' = SaveExecution(jobInfo, jobExecution, j, sched[n].executor, t),
           UNCHANGED jobExecution)
    /\ Goto(n, "load")
    /\ UNCHANGED <<jobInfo, executorNode, issued, topicVars,
                   main, running, leader, queue, api, handler, lateSends>>

Load(n) ==
    /\ sched[n].pc = "load"
    /\ Try(executorNode' = IncrementExecutorLoad(executorNode, sched[n].executor),
           UNCHANGED executorNode)
    /\ Goto(n, "send")
    /\ UNCHANGED <<jobInfo, jobExecution, issued, topicVars,
                   main, running, leader, queue, api, handler, lateSends>>

\* sendJob, whose result nobody looks at; then mutex_ is taken again.
Send(n) ==
    /\ sched[n].pc = "send"
    /\ Try(submitTopic' = Append(submitTopic, sched[n].job), UNCHANGED submitTopic)
    /\ sched' = [sched EXCEPT ![n] = [Stopped EXCEPT !.pc = "drain"]]
    /\ lateSends' = [lateSends EXCEPT ![n] = IF Active(n) THEN @ ELSE @ + 1]
    /\ UNCHANGED <<dbVars, cancelTopic, resultTopic, owner, offset, committed,
                   main, running, leader, queue, api, handler>>

\* The loop sees that the process is stopping.
Terminate(n) ==
    /\ sched[n].pc = "wait"
    /\ ~running[n]
    /\ Goto(n, "stopped")
    /\ UNCHANGED <<dbVars, topicVars, main, running, leader, queue, api, handler, lateSends, budget>>

-----------------------------------------------------------------------------
(* handle_result.  The consumer's offset is stored when the message is      *)
(* handed over and committed in the background.                             *)

Receive_again(n) ==
    LET m == resultTopic[offset + 1] IN
    /\ owner = n /\ handler[n] = IdleHandle
    /\ offset < Len(resultTopic)
    /\ \/ /\ \E i \in LatestExecutions(jobExecution[m.job]) :
                handler' = [handler EXCEPT ![n] =
                   [pc |-> "row", job |-> m.job, row |-> i, status |-> m.status, rev |-> 0]]
          /\ UNCHANGED <<offset, budget>>
       \/ /\ (jobExecution[m.job] = <<>> /\ UNCHANGED budget) \/ Fault
          /\ offset' = offset + 1
          /\ UNCHANGED handler
    /\ UNCHANGED <<dbVars, submitTopic, cancelTopic, resultTopic, owner, committed,
                   main, running, leader, queue, sched, api, lateSends>>
\* getJobExecutions: an execution of the last second, or none and the result
\* is dropped.
Receive(n) ==
    LET m == resultTopic[offset + 1] IN
    /\ owner = n /\ handler[n] = IdleHandle
    /\ offset < Len(resultTopic)
    /\ offset' = offset + 1
    /\ \/ /\ \E i \in LatestExecutions(jobExecution[m.job]) :
                handler' = [handler EXCEPT ![n] =
                   [pc |-> "row", job |-> m.job, row |-> i, status |-> m.status, rev |-> 0]]
          /\ UNCHANGED budget
       \/ /\ (jobExecution[m.job] = <<>> /\ UNCHANGED budget) \/ Fault
          /\ UNCHANGED handler
    /\ UNCHANGED <<dbVars, submitTopic, cancelTopic, resultTopic, owner, committed,
                   main, running, leader, queue, sched, api, lateSends>>

\* updateExecutionResult, whose failure is ignored, and getJob.
WriteRow(n) ==
    LET h == handler[n] IN
    /\ h.pc = "row"
    /\ Try(jobExecution' = UpdateExecutionResult(jobExecution, h.job, h.row, h.status),
           UNCHANGED jobExecution)
    /\ handler' = [handler EXCEPT ![n] =
                     IF Exists(jobInfo, h.job)
                     THEN [h EXCEPT !.pc = "job", !.rev = jobInfo[h.job]]
                     ELSE IdleHandle]
    /\ UNCHANGED <<jobInfo, executorNode, issued, topicVars,
                   main, running, leader, queue, sched, api, lateSends>>

\* The executor's account is settled under the job's id, which no executor
\* bears: executor_node is only changed in name.
Account(nodes, execs, j, i) ==
    IF i \in DOMAIN execs[j] /\ HasExecutor(nodes, j)
    THEN DecrementExecutorLoad(nodes, j)
    ELSE nodes

\* The row of the job is written back as it was read.
WriteJob(n) ==
    LET h == handler[n] IN
    /\ h.pc = "job"
    /\ Try(jobInfo' = UpdateJob(jobInfo, h.job, h.rev), UNCHANGED jobInfo)
    /\ executorNode' = Account(executorNode, jobExecution, h.job, h.row)
    /\ handler' = [handler EXCEPT ![n] = IdleHandle]
    /\ UNCHANGED <<jobExecution, issued, topicVars,
                   main, running, leader, queue, sched, api, lateSends>>

-----------------------------------------------------------------------------
(* Life of a process                                                        *)

Start(n) ==
    /\ sched[n].pc = "stopped" /\ ~running[n]
    /\ owner # n /\ handler[n] = IdleHandle
    /\ running' = [running EXCEPT ![n] = TRUE]
    /\ leader' = [leader EXCEPT ![n] = FALSE]
    /\ queue' = [queue EXCEPT ![n] = <<>>]
    /\ sched' = [sched EXCEPT ![n].pc = "wait"]
    /\ lateSends' = [lateSends EXCEPT ![n] = 0]
    /\ UNCHANGED <<dbVars, topicVars, main, api, handler, budget>>

\* main() goes on to start the API server, whose listen() returns at once if the
\* port is taken: only then, or before, does a signal lead to stop().
Serve(n) ==
    /\ running[n] /\ main[n] = "quiet"
    /\ main' = [main EXCEPT ![n] = "serving"]
    /\ UNCHANGED <<dbVars, topicVars, running, leader, queue, sched, api, handler,
                   lateSends, budget>>

\* signalHandler: ApiServer::stop joins a thread that is inside listen(), and
\* nobody tells the server to stop.  All the other threads go on.
Signal(n) ==
    /\ main[n] = "serving"
    /\ Spend("stop")
    /\ main' = [main EXCEPT ![n] = "stuck"]
    /\ UNCHANGED <<dbVars, topicVars, running, leader, queue, sched, api, handler, lateSends>>

\* signalHandler without an API server, or the destructor: stop().
Stop(n) ==
    /\ running[n] /\ MutexFree(n)
    /\ main[n] = "quiet"
    /\ Spend("stop")
    /\ running' = [running EXCEPT ![n] = FALSE]
    /\ UNCHANGED <<dbVars, topicVars, main, leader, queue, sched, api, handler, lateSends>>

\* After the schedule thread is joined: stopConsume, which commits.
StopConsume(n) ==
    /\ sched[n].pc = "stopped" /\ owner = n
    /\ handler[n] = IdleHandle
    /\ owner' = NoNode
    /\ committed' = offset
    /\ UNCHANGED <<dbVars, submitTopic, cancelTopic, resultTopic, offset, nodeVars, budget>>

Crash(n) ==
    /\ running[n]
    /\ Spend("crash")
    /\ main' = [main EXCEPT ![n] = "quiet"]
    /\ running' = [running EXCEPT ![n] = FALSE]
    /\ leader' = [leader EXCEPT ![n] = FALSE]
    /\ queue' = [queue EXCEPT ![n] = <<>>]
    /\ sched' = [sched EXCEPT ![n] = Stopped]
    /\ api' = [api EXCEPT ![n] = IdleApi]
    /\ handler' = [handler EXCEPT ![n] = IdleHandle]
    /\ owner' = IF owner = n THEN NoNode ELSE owner
    /\ UNCHANGED <<dbVars, submitTopic, cancelTopic, resultTopic, offset, committed, lateSends>>

\* A round of leader_election_loop that won, or that lost.
Elect(n) ==
    /\ running[n] /\ ~leader[n] /\ MutexFree(n)
    /\ leader' = [leader EXCEPT ![n] = TRUE]
    /\ lateSends' = [lateSends EXCEPT ![n] = 0]
    /\ UNCHANGED <<dbVars, topicVars, main, running, queue, sched, api, handler, budget>>

StepDown(n) ==
    /\ running[n] /\ leader[n] /\ MutexFree(n)
    /\ Spend("stepDown")
    /\ leader' = [leader EXCEPT ![n] = FALSE]
    /\ UNCHANGED <<dbVars, topicVars, main, running, queue, sched, api, handler, lateSends>>

-----------------------------------------------------------------------------
(* Environment: Kafka and the executors                                     *)

\* The group's partition goes to a process, from the committed offset on.
Assign(n) ==
    /\ owner = NoNode /\ running[n]
    /\ owner' = n
    /\ offset' = committed
    /\ UNCHANGED <<dbVars, submitTopic, cancelTopic, resultTopic, committed, nodeVars, budget>>

CommitOffset ==
    /\ owner # NoNode /\ committed # offset
    /\ committed' = offset
    /\ UNCHANGED <<dbVars, submitTopic, cancelTopic, resultTopic, owner, offset, nodeVars, budget>>

\* An executor answers a job it was sent; every executor does, maybe twice.
ExecutorReports(j, status) ==
    /\ Count(submitTopic, j) > 0
    /\ Spend("result")
    /\ resultTopic' = Append(resultTopic, [job |-> j, status |-> status])
    /\ UNCHANGED <<dbVars, submitTopic, cancelTopic, owner, offset, committed, nodeVars>>

\* An executor stops or misses its heartbeats, or is back; or a request for a
\* change of its status, which finds the executor's row and writes it.
ExecutorChanges(e) ==
    /\ Spend("executor")
    /\ executorNode' = UpdateExecutorStatus(executorNode, e, ~executorNode[e].online)
    /\ UNCHANGED <<jobInfo, jobExecution, issued, topicVars, nodeVars>>

Schedule(n) == \/ Fetch(n) \/ Push(n) \/ DrainEnds(n) \/ Skip(n) \/ Take(n)
               \/ Pick(n) \/ Save(n) \/ Load(n) \/ Send(n) \/ Terminate(n)
Request(n)  == \/ \E j \in Job : SubmitSave(n, j) \/ CancelGet(n, j) \/ EditJob(n, j)
               \/ SubmitPush(n) \/ CancelQueue(n) \/ CancelWrite(n) \/ DeleteRow(n)
Handle(n)   == Receive(n) \/ WriteRow(n) \/ WriteJob(n)
Process(n)  == \/ Start(n) \/ Serve(n) \/ Signal(n) \/ Stop(n) \/ StopConsume(n) \/ Crash(n)
               \/ Elect(n) \/ StepDown(n) \/ Assign(n)

Next ==
    \/ \E n \in Node : Schedule(n) \/ Request(n) \/ Handle(n) \/ Process(n)
    \/ CommitOffset
    \/ \E j \in Job, status \in Terminal : ExecutorReports(j, status)
    \/ \E e \in Executor : ExecutorChanges(e)

Spec == Init /\ [][Next]_vars

\* Threads run; a process that is down is started again; the election loop
\* retries every 5 seconds; the group always gets a consumer.  Nothing forces
\* a request, a crash, a stop or an executor to change.
Fairness ==
    \A n \in Node :
        /\ WF_vars(Schedule(n))
        /\ WF_vars(SubmitPush(n)) /\ WF_vars(CancelQueue(n))
        /\ WF_vars(CancelWrite(n)) /\ WF_vars(DeleteRow(n))
        /\ WF_vars(Handle(n))
        /\ WF_vars(Start(n)) /\ WF_vars(StopConsume(n))
        /\ WF_vars(Elect(n)) /\ WF_vars(Assign(n))

FairSpec == Spec /\ Fairness

-----------------------------------------------------------------------------
(* Properties                                                               *)

(* The queue is in order of priority at every moment, whatever submit_job,  *)
(* cancel_job and the schedule thread do to it at once.                     *)
QueueOrdered == \A n \in Node : Sorted(queue[n])

(* A job is on record before it is sent: as many executions in the table as *)
(* messages on job-submit, but for database calls that failed.              *)
RecordedBeforeSent ==
    \A j \in Rows(jobInfo) :
        Count(submitTopic, j) <= Len(jobExecution[j]) + Spent("fault")

(* A result that was consumed is on record, unless a call failed, a process *)
(* crashed or the job was deleted: the dispatch it answers was saved first, *)
(* so that handle_result always finds an execution to put it in.            *)
ResultRecorded ==
    \A k \in 1 .. offset :
        LET j == resultTopic[k].job IN
        \/ Spent("fault") + Spent("crash") > 0
        \/ ~Exists(jobInfo, j)
        \/ \E i \in DOMAIN jobExecution[j] : jobExecution[j][i].status \in Terminal
        \/ \E n \in Node : handler[n].job = j /\ handler[n].pc = "row"

(* A process that is stopped or loses the leader's role in the middle of a  *)
(* batch sends at most the one job it had already taken from its queue.     *)
AtMostOneLateSend == \A n \in Node : lateSends[n] <= 1

\* How the tables and topics stand for the state of JobLife.
Stages == [j \in Job |-> IF j \notin issued THEN "new"
                         ELSE IF Exists(jobInfo, j) THEN "saved" ELSE "gone"]
Sent    == {submitTopic[i] : i \in DOMAIN submitTopic}
Reports == {<<resultTopic[i].job, resultTopic[i].status>> : i \in DOMAIN resultTopic}
Records == [j \in Job |-> [i \in DOMAIN jobExecution[j] |->
               IF jobExecution[j][i].status \in Terminal
               THEN jobExecution[j][i].status ELSE "open"]]

Life == INSTANCE JobLife WITH Outcome <- Terminal, life <- Stages, sent <- Sent,
                              reports <- Reports, records <- Records

(* All processes together implement JobLife, through crashes, takeovers    *)
(* and stale write-backs: a deleted job does not come back, although       *)
(* cancel_job and handle_result write back rows they read before; no       *)
(* execution outlives its job, although the job may be deleted while it is *)
(* dispatched; and an execution that has ended did so as an executor said  *)
(* of that very job.                                                       *)
LifeOfJob == Life!Spec

(* A ONCE job that was saved is sent to the executors or deleted, through   *)
(* lost messages, failed calls, crashes, stops and changes of leader: what  *)
(* the queue forgets, getPendingJobs finds again.                           *)
SavedIsDispatched ==
    \A j \in Once : Exists(jobInfo, j) ~> Count(submitTopic, j) > 0 \/ ~Exists(jobInfo, j)

(* With LEAST_LOAD and one leader, no executor is ever booked beyond         *)
(* max_load: the load is read again after should_execute, and only the       *)
(* schedule thread raises it.                                                *)
LoadWithinMax == \A e \in Executor : executorNode[e].load <= MaxLoad

(* stop() returns: the schedule thread notices running_ wherever it is.     *)
StopReturns == \A n \in Node : ~running[n] ~> sched[n].pc = "stopped"

(* Every result that is sent is consumed, through crashes and restarts.     *)
ResultsConsumed ==
    \A k \in 1 .. Bound["result"] : Len(resultTopic) >= k ~> offset >= k
-----------------------------------------------------------------------------
(* What the documents say and the code does not do                          *)

(* current_load is the number of tasks running on the executor: said of the  *)
(* moments when no result is being handled, as long as no job was deleted    *)
(* and no call failed.                                                       *)
LoadIsRunning ==
    (/\ \A n \in Node : handler[n] = IdleHandle
     /\ issued = Rows(jobInfo) /\ Spent("fault") = 0)
    => \A e \in Executor :
          executorNode[e].load <=
            Cardinality({r \in Job \X (1 .. MaxDispatch) :
                /\ r[2] \in DOMAIN jobExecution[r[1]]
                /\ jobExecution[r[1]][r[2]].executor = e
                /\ jobExecution[r[1]][r[2]].status = "WAITING"})

(* A process that is told to stop, by Ctrl+C, stops.                        *)
SignalStops == \A n \in Node : main[n] = "stuck" ~> ~running[n]

(* A ONCE job is sent to the executors once.                                *)
OnceSentOnce == \A j \in Once : Count(submitTopic, j) <= 1

(* What updateJob wrote stays until the next update.                        *)
EditStays ==
    [][\A j \in Job : Exists(jobInfo, j) /\ Exists(jobInfo', j) => jobInfo'[j] >= jobInfo[j]]_vars
=============================================================================
