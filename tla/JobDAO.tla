------------------------------- MODULE JobDAO -------------------------------
(***************************************************************************)
(* The statements of common/src/job_dao.cpp on the tables job_info,        *)
(* job_execution and executor_node, as functions of the table's contents.  *)
(* Each method is one SQL statement, hence atomic; a caller that makes two *)
(* calls makes two steps.  A call that fails leaves the table as it is.    *)
(*                                                                         *)
(* job_info       function from every job id to the revision of its row,   *)
(*                or NoRow: what the columns hold is abstracted to which   *)
(*                write of the row they come from.                         *)
(* job_execution  function from every job id to the sequence of its rows   *)
(*                in the order of insertion; <<job, index>> stands for     *)
(*                execution_id.  trigger_time has a resolution of one      *)
(*                second: trig counts the distinct seconds of a job's rows.*)
(* executor_node  function from executor id to its row.                    *)
(*                                                                         *)
(* A definition Op_fault is a faulty variant of Op that no specification   *)
(* uses: it is what the properties are validated against.                  *)
(***************************************************************************)
EXTENDS Integers, Sequences, FiniteSets

NoRow == -1

ExecStatus == {"WAITING", "SUCCESS", "FAILED"}
Terminal   == {"SUCCESS", "FAILED"}

Exists(jobs, j) == jobs[j] # NoRow
Rows(jobs) == {j \in DOMAIN jobs : Exists(jobs, j)}

\* INSERT INTO job_info: submit_job hands in an id no row ever had.
SaveJob(jobs, j) == [jobs EXCEPT ![j] = 0]

\* UPDATE job_info ... WHERE job_id = j: no row, no effect.
UpdateJob(jobs, j, rev) ==
    IF Exists(jobs, j) THEN [jobs EXCEPT ![j] = rev] ELSE jobs

\* DELETE FROM job_info, and the executions of the job by ON DELETE CASCADE.
DeleteJob(jobs, j) == [jobs EXCEPT ![j] = NoRow]
CascadeDelete(execs, j) == [execs EXCEPT ![j] = <<>>]

PendingJobs_none(jobs, priority, limit) == {{}}
\* Jobs without a RUNNING execution, the highest priorities first, at most
\* limit of them.  No code sets an execution RUNNING: that leaves every job.
\* create_time, the second sort key, is left open.
PendingJobs(jobs, priority, limit) ==
    {S \in SUBSET Rows(jobs) :
        /\ Cardinality(S) <= limit
        /\ S = Rows(jobs) \/ Cardinality(S) = limit
        /\ \A j \in S, k \in Rows(jobs) \ S : priority[j] >= priority[k]}

SaveExecution_noForeignKey(jobs, execs, j, e, trig) ==
    [execs EXCEPT ![j] = Append(@, [executor |-> e, status |-> "WAITING", trig |-> trig])]
\* INSERT INTO job_execution: refused by the foreign key without a job row.
SaveExecution(jobs, execs, j, e, trig) ==
    IF Exists(jobs, j)
    THEN [execs EXCEPT ![j] =
             Append(@, [executor |-> e, status |-> "WAITING", trig |-> trig])]
    ELSE execs

\* The trigger_time a row inserted now may get: the last one's, or later.
TriggerTimes(rows) ==
    IF rows = <<>> THEN {0} ELSE {rows[Len(rows)].trig, rows[Len(rows)].trig + 1}

\* SELECT ... ORDER BY trigger_time DESC LIMIT 1: any row of the last second.
LatestExecutions(rows) == {i \in DOMAIN rows : \A k \in DOMAIN rows : rows[k].trig <= rows[i].trig}

UpdateExecutionResult_offByOne(execs, j, i, status) ==
    IF i + 1 \in DOMAIN execs[j] THEN [execs EXCEPT ![j][i + 1].status = status] ELSE execs
\* UPDATE job_execution SET status ... WHERE execution_id = <<j, i>>.
UpdateExecutionResult(execs, j, i, status) ==
    IF i \in DOMAIN execs[j] THEN [execs EXCEPT ![j][i].status = status] ELSE execs

\* SELECT ... FROM executor_node WHERE status = 'ONLINE' AND the heartbeat is
\* fresh: both make the flag online.
OnlineExecutors(nodes) == {e \in DOMAIN nodes : nodes[e].online}

\* UPDATE executor_node SET status ...: ONLINE refreshes the heartbeat as well.
UpdateExecutorStatus(nodes, e, on) == [nodes EXCEPT ![e].online = on]

IncrementExecutorLoad(nodes, e) == [nodes EXCEPT ![e].load = @ + 1]
DecrementExecutorLoad(nodes, e) ==
    [nodes EXCEPT ![e].load = IF @ > 0 THEN @ - 1 ELSE 0]

\* getExecutorInfo(id) finds a row.
HasExecutor(nodes, id) == id \in DOMAIN nodes
=============================================================================
