------------------------- MODULE JobScheduler_proofs -------------------------
(***************************************************************************)
(* What holds of the scheduler for any number of processes, jobs and       *)
(* executors, any priorities and any bounds.                               *)
(***************************************************************************)
EXTENDS JobScheduler, FiniteSetTheorems, SequenceTheorems, TLAPS

-----------------------------------------------------------------------------
(* The operations of JobQueue keep a queue a queue, keep it in order, and   *)
(* put nothing into it but what is pushed.                                  *)

Entries(q) == {q[i] : i \in DOMAIN q}

LEMMA MergedQueue ==
    ASSUME NEW q \in Seq(Job), NEW S \in SUBSET Job, NEW r \in Merged(q, S)
    PROVE  /\ r \in Seq(Job) /\ Sorted(r)
           /\ Entries(r) \subseteq Entries(q) \cup S
<1>1. Cardinality(S) \in Nat
  BY JobAssumption, FS_Subset, FS_CardinalityType
<1>2. Len(q) + Cardinality(S) \in Nat
  BY <1>1, LenProperties
<1>3. r \in [1 .. Len(q) + Cardinality(S) -> Job] /\ Sorted(r)
  BY DEF Merged
<1>4. r \in Seq(Job)
  BY <1>2, <1>3, SeqDef
<1>5. ASSUME NEW j \in Entries(r), j \notin S PROVE j \in Entries(q)
  <2>. DEFINE At(s) == {i \in DOMAIN s : s[i] = j}
  <2>1. Count(r, j) = Count(q, j)
    <3>1. j \in Job
      BY <1>3 DEF Entries
    <3>2. Count(r, j) = Count(q, j) + 0
      BY <1>5, <3>1 DEF Merged
    <3>3. IsFiniteSet(At(q))
      BY LenProperties, FS_Interval, FS_Subset
    <3>4. Count(q, j) \in Nat
      BY <3>3, FS_CardinalityType DEF Count
    <3>. QED  BY <3>2, <3>4
  <2>2. IsFiniteSet(At(r)) /\ IsFiniteSet(At(q))
    <3>1. DOMAIN r = 1 .. Len(r) /\ DOMAIN q = 1 .. Len(q) /\ Len(r) \in Nat /\ Len(q) \in Nat
      BY <1>4, LenProperties
    <3>2. IsFiniteSet(1 .. Len(r)) /\ IsFiniteSet(1 .. Len(q))
      BY <3>1, FS_Interval
    <3>3. At(r) \in SUBSET (1 .. Len(r)) /\ At(q) \in SUBSET (1 .. Len(q))
      BY <3>1
    <3>. QED  BY <3>2, <3>3, FS_Subset
  <2>3. At(r) # {}
    BY DEF Entries
  <2>4. At(q) # {}
    BY <2>1, <2>2, <2>3, FS_EmptySet DEF Count
  <2>. QED  BY <2>4 DEF Entries
<1>. QED  BY <1>3, <1>4, <1>5

LEMMA TailQueue ==
    ASSUME NEW q \in Seq(Job), q # <<>>
    PROVE  /\ Tail(q) \in Seq(Job) /\ Head(q) \in Job
           /\ Sorted(q) => Sorted(Tail(q))
           /\ Head(q) \in Entries(q) /\ Entries(Tail(q)) \subseteq Entries(q)
<1>1. /\ Tail(q) \in Seq(Job) /\ Head(q) \in Job /\ Len(q) \in Nat
      /\ Len(Tail(q)) = Len(q) - 1
      /\ \A i \in 1 .. Len(Tail(q)) : Tail(q)[i] = q[i + 1]
  BY HeadTailProperties, LenProperties
<1>2. ASSUME Sorted(q) PROVE Sorted(Tail(q))
  <2>. SUFFICES ASSUME NEW i \in 1 .. Len(Tail(q)), NEW k \in 1 .. Len(Tail(q)), i < k
                PROVE  Priority[Tail(q)[i]] >= Priority[Tail(q)[k]]
    BY <1>1, LenProperties DEF Sorted
  <2>1. i + 1 \in DOMAIN q /\ k + 1 \in DOMAIN q /\ i + 1 < k + 1
    BY <1>1, LenProperties
  <2>. QED  BY <1>1, <1>2, <2>1 DEF Sorted
<1>3. Head(q) \in Entries(q)
  BY EmptySeq, LenProperties DEF Entries
<1>4. Entries(Tail(q)) \subseteq Entries(q)
  <2>. SUFFICES ASSUME NEW i \in 1 .. Len(Tail(q)) PROVE Tail(q)[i] \in Entries(q)
    BY <1>1, LenProperties DEF Entries
  <2>1. i + 1 \in DOMAIN q
    BY <1>1, LenProperties
  <2>. QED  BY <1>1, <2>1 DEF Entries
<1>. QED  BY <1>1, <1>2, <1>3, <1>4

LEMMA RemovedQueue ==
    ASSUME NEW q \in Seq(Job), NEW j, NEW r \in Removed(q, j)
    PROVE  /\ r \in Seq(Job)
           /\ Sorted(q) => Sorted(r)
           /\ Entries(r) \subseteq Entries(q)
<1>1. CASE r = q
  BY <1>1
<1>2. CASE \E p \in DOMAIN q : r = RemoveAt(q, p)
  <2>1. PICK p \in 1 .. Len(q) : r = RemoveAt(q, p)
    BY <1>2
  <2>2. Len(q) \in Nat /\ p - 1 \in 0 .. Len(q) /\ p + 1 \in 1 .. Len(q) + 1
    OBVIOUS
  <2>. DEFINE a == SubSeq(q, 1, p - 1)
              b == SubSeq(q, p + 1, Len(q))
  <2>3. /\ a \in Seq(Job) /\ Len(a) = p - 1
        /\ \A i \in 1 .. p - 1 : a[i] = q[i]
    BY <2>2, SubSeqProperties
  <2>4. /\ b \in Seq(Job) /\ Len(b) = Len(q) - p
        /\ \A i \in 1 .. Len(q) - p : b[i] = q[p + i]
    BY <2>2, SubSeqProperties
  <2>5. r = a \o b
    BY <2>1 DEF RemoveAt
  <2>6. /\ r \in Seq(Job) /\ Len(r) = Len(q) - 1
        /\ \A i \in 1 .. Len(r) : r[i] = IF i < p THEN q[i] ELSE q[i + 1]
    <3>. HIDE DEF a, b
    <3>1. /\ r \in Seq(Job) /\ Len(r) = Len(a) + Len(b)
          /\ \A i \in 1 .. Len(a) + Len(b) :
                r[i] = IF i <= Len(a) THEN a[i] ELSE b[i - Len(a)]
      BY <2>3, <2>4, <2>5, ConcatProperties
    <3>. QED  BY <2>2, <2>3, <2>4, <3>1
  <2>7. ASSUME Sorted(q) PROVE Sorted(r)
    <3>. SUFFICES ASSUME NEW i \in 1 .. Len(r), NEW k \in 1 .. Len(r), i < k
                  PROVE  Priority[r[i]] >= Priority[r[k]]
      BY <2>6 DEF Sorted
    <3>. DEFINE u == IF i < p THEN i ELSE i + 1
                v == IF k < p THEN k ELSE k + 1
    <3>1. u \in DOMAIN q /\ v \in DOMAIN q /\ u < v /\ r[i] = q[u] /\ r[k] = q[v]
      BY <2>2, <2>6
    <3>. QED  BY <2>7, <3>1 DEF Sorted
  <2>8. Entries(r) \subseteq Entries(q)
    <3>. SUFFICES ASSUME NEW i \in 1 .. Len(r) PROVE r[i] \in Entries(q)
      BY <2>6, LenProperties DEF Entries
    <3>. DEFINE u == IF i < p THEN i ELSE i + 1
    <3>1. u \in DOMAIN q /\ r[i] = q[u]
      BY <2>2, <2>6
    <3>. QED  BY <3>1 DEF Entries
  <2>. QED  BY <2>6, <2>7, <2>8
<1>. QED  BY <1>1, <1>2 DEF Removed

-----------------------------------------------------------------------------
(* Type correctness                                                         *)

(* The steps that write the tables.                                         *)
LEMMA TablesFrame ==
    ASSUME [Next]_vars
    PROVE  \/ UNCHANGED dbVars
           \/ \E n \in Node :
                \/ \E j \in Job : SubmitSave(n, j) \/ EditJob(n, j)
                \/ CancelWrite(n) \/ DeleteRow(n) \/ Save(n) \/ Load(n)
                \/ WriteRow(n) \/ WriteJob(n)
           \/ \E e \in Executor : ExecutorChanges(e)
<1>. DEFINE Writes(n) == \/ \E j \in Job : SubmitSave(n, j) \/ EditJob(n, j)
                         \/ CancelWrite(n) \/ DeleteRow(n) \/ Save(n) \/ Load(n)
                         \/ WriteRow(n) \/ WriteJob(n)
<1>1. ASSUME NEW n \in Node, Schedule(n) PROVE UNCHANGED dbVars \/ Writes(n)
  BY <1>1 DEF Schedule, Fetch, Push, DrainEnds, Skip, Take, Pick, Send, Terminate
<1>2. ASSUME NEW n \in Node, Request(n) PROVE UNCHANGED dbVars \/ Writes(n)
  BY <1>2 DEF Request, CancelGet, SubmitPush, CancelQueue
<1>3. ASSUME NEW n \in Node, Handle(n) PROVE UNCHANGED dbVars \/ Writes(n)
  BY <1>3 DEF Handle, Receive
<1>4. ASSUME NEW n \in Node, Process(n) PROVE UNCHANGED dbVars
  BY <1>4 DEF Process, Start, Serve, Signal, Stop, StopConsume, Crash, Elect, StepDown, Assign
<1>5. ASSUME CommitOffset \/ \E j \in Job, status \in Terminal : ExecutorReports(j, status)
      PROVE  UNCHANGED dbVars
  BY <1>5 DEF CommitOffset, ExecutorReports
<1>. QED  BY <1>1, <1>2, <1>3, <1>4, <1>5 DEF Next, vars

(* The statements of JobDAO keep the tables well-formed.                    *)
LEMMA RowsAdded ==
    ASSUME TablesOK, NEW j \in Job, NEW e \in Executor, NEW t \in TriggerTimes(jobExecution[j])
    PROVE  SaveExecution(jobInfo, jobExecution, j, e, t) \in [Job -> Seq(ExecutionRow)]
<1>1. jobExecution \in [Job -> Seq(ExecutionRow)] /\ jobExecution[j] \in Seq(ExecutionRow)
  BY DEF TablesOK
<1>2. t \in Nat
  <2>1. CASE jobExecution[j] = <<>>
    BY <2>1 DEF TriggerTimes
  <2>2. CASE jobExecution[j] # <<>>
    <3>1. jobExecution[j][Len(jobExecution[j])] \in ExecutionRow
      BY <1>1, <2>2, EmptySeq, LenProperties, ElementOfSeq
    <3>. QED  BY <2>2, <3>1 DEF TriggerTimes, ExecutionRow
  <2>. QED  BY <2>1, <2>2
<1>3. Append(jobExecution[j], [executor |-> e, status |-> "WAITING", trig |-> t]) \in Seq(ExecutionRow)
  BY <1>1, <1>2, AppendProperties DEF ExecStatus, ExecutionRow
<1>. QED  BY <1>1, <1>3 DEF SaveExecution

LEMMA RowsUpdated ==
    ASSUME TablesOK, NEW j \in Job, NEW i, NEW status \in Terminal
    PROVE  UpdateExecutionResult(jobExecution, j, i, status) \in [Job -> Seq(ExecutionRow)]
<1>. DEFINE rows == jobExecution[j]
            row  == [rows[i] EXCEPT !.status = status]
<1>1. jobExecution \in [Job -> Seq(ExecutionRow)] /\ rows \in Seq(ExecutionRow)
  BY DEF TablesOK
<1>2. CASE i \in DOMAIN rows
  <2>1. rows[i] \in ExecutionRow
    BY <1>1, <1>2, LenProperties, ElementOfSeq
  <2>2. row \in ExecutionRow
    BY <2>1 DEF ExecutionRow, ExecStatus, Terminal
  <2>3. [rows EXCEPT ![i] = row] \in Seq(ExecutionRow)
    BY <1>1, <1>2, <2>2, ExceptSeq
  <2>4. [jobExecution EXCEPT ![j][i].status = status]
           = [jobExecution EXCEPT ![j] = [rows EXCEPT ![i] = row]]
    BY Zenon
  <2>. QED  BY <1>1, <1>2, <2>3, <2>4 DEF UpdateExecutionResult
<1>. QED  BY <1>1, <1>2 DEF UpdateExecutionResult

LEMMA LoadChanged ==
    ASSUME TablesOK, NEW e \in Executor
    PROVE  /\ IncrementExecutorLoad(executorNode, e) \in [Executor -> ExecutorRow]
           /\ UpdateExecutorStatus(executorNode, e, ~executorNode[e].online) \in [Executor -> ExecutorRow]
<1>1. executorNode \in [Executor -> ExecutorRow] /\ executorNode[e] \in ExecutorRow
  BY DEF TablesOK
<1>2. [executorNode[e] EXCEPT !.load = executorNode[e].load + 1] \in ExecutorRow
  BY <1>1 DEF ExecutorRow
<1>3. [executorNode[e] EXCEPT !.online = ~executorNode[e].online] \in ExecutorRow
  BY <1>1, Zenon DEF ExecutorRow
<1>. QED  BY <1>1, <1>2, <1>3, Zenon DEF IncrementExecutorLoad, UpdateExecutorStatus

LEMMA TablesPreserved == ASSUME TypeOK, [Next]_vars PROVE TablesOK'
<1>. USE DEF TypeOK
<1>0. CASE UNCHANGED dbVars
  BY <1>0 DEF dbVars, TablesOK
<1>1. ASSUME NEW n \in Node, NEW j \in Job, SubmitSave(n, j) PROVE TablesOK'
  <2>1. jobInfo' = [jobInfo EXCEPT ![j] = 0] \/ jobInfo' = jobInfo
    BY <1>1, Zenon DEF SubmitSave, Try, SaveJob
  <2>2. issued' = issued \cup {j} /\ UNCHANGED <<jobExecution, executorNode>>
    BY <1>1 DEF SubmitSave
  <2>3. jobInfo' \in [Job -> Nat \cup {NoRow}]
    BY <2>1 DEF TablesOK
  <2>. QED  BY <2>2, <2>3 DEF TablesOK
<1>2. ASSUME NEW n \in Node, NEW j \in Job, EditJob(n, j) PROVE TablesOK'
  <2>1. Spent("edit") + 1 \in Nat
    BY LimitAssumption DEF BudgetOK, Spent, Kinds
  <2>. QED  BY <1>2, <2>1 DEF EditJob, UpdateJob, TablesOK
<1>3. ASSUME NEW n \in Node, CancelWrite(n) PROVE TablesOK'
  <2>1. api[n].job \in Job /\ api[n].rev \in Nat
    BY <1>3 DEF CancelWrite, ThreadsOK, SchedOK, ApiOK, HandlerOK, ApiState
  <2>2. jobInfo' \in [Job -> Nat \cup {NoRow}]
    BY <1>3, <2>1 DEF CancelWrite, Try, UpdateJob, TablesOK
  <2>. QED  BY <1>3, <2>2 DEF CancelWrite, TablesOK
<1>4. ASSUME NEW n \in Node, DeleteRow(n) PROVE TablesOK'
  <2>1. jobInfo' \in [Job -> Nat \cup {NoRow}]
    BY <1>4 DEF DeleteRow, Try, DeleteJob, TablesOK
  <2>2. jobExecution' \in [Job -> Seq(ExecutionRow)]
    <3>1. \/ jobExecution' = [jobExecution EXCEPT ![api[n].job] = <<>>]
          \/ jobExecution' = jobExecution
      BY <1>4, Zenon DEF DeleteRow, Try, CascadeDelete
    <3>2. jobExecution \in [Job -> Seq(ExecutionRow)]
      BY Zenon DEF TablesOK
    <3>. QED  BY <3>1, <3>2, EmptySeq, Zenon
  <2>. QED  BY <1>4, <2>1, <2>2 DEF DeleteRow, TablesOK
<1>5. ASSUME NEW n \in Node, Save(n) PROVE TablesOK'
  <2>1. sched[n].job \in Job /\ sched[n].executor \in Executor
    BY <1>5 DEF Save, ThreadsOK, SchedOK, ApiOK, HandlerOK, Dispatching
  <2>2. \/ jobExecution' = jobExecution
        \/ \E t \in TriggerTimes(jobExecution[sched[n].job]) :
             jobExecution' = SaveExecution(jobInfo, jobExecution, sched[n].job, sched[n].executor, t)
    BY <1>5 DEF Save, Try
  <2>3. jobExecution' \in [Job -> Seq(ExecutionRow)]
    BY <2>1, <2>2, RowsAdded DEF TablesOK
  <2>. QED  BY <1>5, <2>3 DEF Save, TablesOK
<1>6. ASSUME NEW n \in Node, Load(n) PROVE TablesOK'
  <2>1. sched[n].executor \in Executor
    BY <1>6 DEF Load, ThreadsOK, SchedOK, ApiOK, HandlerOK
  <2>2. executorNode' \in [Executor -> ExecutorRow]
    BY <1>6, <2>1, LoadChanged DEF Load, Try, TablesOK
  <2>. QED  BY <1>6, <2>2 DEF Load, TablesOK
<1>7. ASSUME NEW n \in Node, WriteRow(n) PROVE TablesOK'
  <2>1. handler[n].job \in Job /\ handler[n].status \in Terminal
    BY <1>7 DEF WriteRow, ThreadsOK, SchedOK, ApiOK, HandlerOK, HandlerState
  <2>2. jobExecution' \in [Job -> Seq(ExecutionRow)]
    BY <1>7, <2>1, RowsUpdated DEF WriteRow, Try, TablesOK
  <2>. QED  BY <1>7, <2>2 DEF WriteRow, TablesOK
<1>8. ASSUME NEW n \in Node, WriteJob(n) PROVE TablesOK'
  <2>1. handler[n].job \in Job /\ handler[n].rev \in Nat
    BY <1>8 DEF WriteJob, ThreadsOK, SchedOK, ApiOK, HandlerOK, HandlerState
  <2>2. jobInfo' \in [Job -> Nat \cup {NoRow}]
    BY <1>8, <2>1 DEF WriteJob, Try, UpdateJob, TablesOK
  <2>3. handler[n].job \notin DOMAIN executorNode
    BY <2>1, JobAssumption DEF TablesOK
  <2>4. executorNode' = executorNode
    BY <1>8, <2>3 DEF WriteJob, Account, HasExecutor
  <2>. QED  BY <1>8, <2>2, <2>4 DEF WriteJob, TablesOK
<1>9. ASSUME NEW e \in Executor, ExecutorChanges(e) PROVE TablesOK'
  BY <1>9, LoadChanged DEF ExecutorChanges, TablesOK
<1>. QED  BY <1>0, <1>1, <1>2, <1>3, <1>4, <1>5, <1>6, <1>7, <1>8, <1>9, TablesFrame

(* The steps that write the topics and the consumer group.                  *)
LEMMA TopicsFrame ==
    ASSUME [Next]_vars
    PROVE  \/ UNCHANGED topicVars
           \/ \E n \in Node : \/ CancelQueue(n) \/ Send(n) \/ Receive(n)
                             \/ StopConsume(n) \/ Crash(n) \/ Assign(n)
           \/ CommitOffset
           \/ \E j \in Job, status \in Terminal : ExecutorReports(j, status)
<1>1. ASSUME NEW n \in Node, Schedule(n) PROVE UNCHANGED topicVars \/ Send(n)
  BY <1>1 DEF Schedule, Fetch, Push, DrainEnds, Skip, Take, Pick, Save, Load, Terminate
<1>2. ASSUME NEW n \in Node, Request(n) PROVE UNCHANGED topicVars \/ CancelQueue(n)
  BY <1>2 DEF Request, SubmitSave, CancelGet, EditJob, SubmitPush, CancelWrite, DeleteRow
<1>3. ASSUME NEW n \in Node, Handle(n) PROVE UNCHANGED topicVars \/ Receive(n)
  BY <1>3 DEF Handle, WriteRow, WriteJob
<1>4. ASSUME NEW n \in Node, Process(n)
      PROVE  UNCHANGED topicVars \/ StopConsume(n) \/ Crash(n) \/ Assign(n)
  BY <1>4 DEF Process, Start, Serve, Signal, Stop, Elect, StepDown
<1>5. ASSUME \E e \in Executor : ExecutorChanges(e) PROVE UNCHANGED topicVars
  BY <1>5 DEF ExecutorChanges
<1>. QED  BY <1>1, <1>2, <1>3, <1>4, <1>5 DEF Next, vars

LEMMA TopicsPreserved == ASSUME TypeOK, [Next]_vars PROVE TopicsOK'
<1>0. TopicsOK /\ ThreadsOK
  BY DEF TypeOK
<1>1. CASE UNCHANGED topicVars
  BY <1>0, <1>1 DEF TopicsOK, topicVars
<1>2. ASSUME NEW n \in Node, CancelQueue(n) PROVE TopicsOK'
  <2>1. api[n].job \in Job
    BY <1>0, <1>2 DEF CancelQueue, ThreadsOK, SchedOK, ApiOK, HandlerOK
  <2>2. cancelTopic' \in Seq(Job)
    <3>1. cancelTopic' = cancelTopic \/ cancelTopic' = Append(cancelTopic, api[n].job)
      BY <1>2, Zenon DEF CancelQueue, Try
    <3>. QED  BY <1>0, <2>1, <3>1, AppendProperties DEF TopicsOK
  <2>. QED  BY <1>0, <1>2, <2>2 DEF CancelQueue, TopicsOK
<1>3. ASSUME NEW n \in Node, Send(n) PROVE TopicsOK'
  <2>1. sched[n].job \in Job
    BY <1>0, <1>3 DEF Send, ThreadsOK, SchedOK, ApiOK, HandlerOK, Dispatching
  <2>2. submitTopic' \in Seq(Job)
    <3>1. submitTopic' = submitTopic \/ submitTopic' = Append(submitTopic, sched[n].job)
      BY <1>3, Zenon DEF Send, Try
    <3>. QED  BY <1>0, <2>1, <3>1, AppendProperties, SMTT(30) DEF TopicsOK
  <2>. QED  BY <1>0, <1>3, <2>2 DEF Send, TopicsOK
<1>4. ASSUME NEW n \in Node, Receive(n) PROVE TopicsOK'
  BY <1>0, <1>4, LenProperties DEF Receive, TopicsOK
<1>5. ASSUME NEW n \in Node, StopConsume(n) PROVE TopicsOK'
  BY <1>0, <1>5 DEF StopConsume, TopicsOK
<1>6. ASSUME NEW n \in Node, Crash(n) PROVE TopicsOK'
  BY <1>0, <1>6 DEF Crash, TopicsOK
<1>7. ASSUME NEW n \in Node, Assign(n) PROVE TopicsOK'
  BY <1>0, <1>7 DEF Assign, TopicsOK
<1>8. CASE CommitOffset
  BY <1>0, <1>8 DEF CommitOffset, TopicsOK
<1>9. ASSUME NEW j \in Job, NEW status \in Terminal, ExecutorReports(j, status) PROVE TopicsOK'
  <2>1. [job |-> j, status |-> status] \in Result
    BY DEF Result
  <2>2. resultTopic' \in Seq(Result) /\ Len(resultTopic') = Len(resultTopic) + 1
    BY <1>0, <1>9, <2>1, AppendProperties DEF ExecutorReports, TopicsOK
  <2>3. offset \in 0 .. Len(resultTopic') /\ committed \in 0 .. Len(resultTopic')
    BY <1>0, <2>2, LenProperties DEF TopicsOK
  <2>. QED  BY <1>0, <1>9, <2>2, <2>3 DEF ExecutorReports, TopicsOK
<1>. QED  BY <1>1, <1>2, <1>3, <1>4, <1>5, <1>6, <1>7, <1>8, <1>9, TopicsFrame

\* What a step does to the bounds.
LEMMA BudgetFrame ==
    ASSUME [Next]_vars
    PROVE  UNCHANGED budget \/ \E kind \in Kinds : Spend(kind)
<1>. DEFINE B == UNCHANGED budget \/ \E kind \in Kinds : Spend(kind)
<1>0. Fault => B
  BY DEF Fault, Kinds
<1>1. ASSUME NEW n \in Node, Schedule(n) PROVE B
  BY <1>0, <1>1 DEF Schedule, Fetch, Push, DrainEnds, Skip, Take, Pick, Save, Load, Send,
                    Terminate, Try
<1>2. ASSUME NEW n \in Node, Request(n) PROVE B
  BY <1>0, <1>2 DEF Request, SubmitSave, CancelGet, EditJob, SubmitPush, CancelQueue,
                    CancelWrite, DeleteRow, Try, Kinds, nodeVars, topicVars
<1>3. ASSUME NEW n \in Node, Handle(n) PROVE B
  BY <1>0, <1>3 DEF Handle, Receive, WriteRow, WriteJob, Try
<1>4. ASSUME NEW n \in Node, Process(n) PROVE B
  BY <1>4 DEF Process, Start, Serve, Signal, Stop, StopConsume, Crash, Elect, StepDown, Assign, Kinds
<1>5. ASSUME \/ CommitOffset
             \/ \E j \in Job, status \in Terminal : ExecutorReports(j, status)
             \/ \E e \in Executor : ExecutorChanges(e)
      PROVE  B
  BY <1>5 DEF CommitOffset, ExecutorReports, ExecutorChanges, Kinds
<1>. QED  BY <1>1, <1>2, <1>3, <1>4, <1>5 DEF Next, vars

LEMMA BudgetPreserved == ASSUME TypeOK, [Next]_vars PROVE BudgetOK'
BY BudgetFrame, LimitAssumption DEF TypeOK, BudgetOK, Spend

\* What was spent is never regained.
LEMMA SpentGrows ==
    ASSUME TypeOK, [Next]_vars, NEW kind \in Kinds
    PROVE  /\ Spent(kind) \in Nat /\ Spent(kind)' \in Nat
           /\ Spent(kind)' >= Spent(kind)
           /\ Spend(kind) => Spent(kind)' = Spent(kind) + 1
<1>1. budget \in [Kinds -> Nat] /\ Bound \in [Kinds -> Nat] /\ budget[kind] <= Bound[kind]
  BY LimitAssumption DEF TypeOK, BudgetOK
<1>2. budget'[kind] \in Nat /\ budget'[kind] <= budget[kind]
  BY <1>1, BudgetFrame DEF Spend
<1>. QED  BY <1>1, <1>2 DEF Spent, Spend

LEMMA FlagsPreserved == ASSUME TypeOK, [Next]_vars PROVE FlagsOK'
<1>0. FlagsOK /\ SchedOK /\ ApiOK
  BY DEF TypeOK, ThreadsOK
<1>. DEFINE Same == UNCHANGED <<main, running, leader, queue, lateSends>>
<1>1. ASSUME Same PROVE FlagsOK'
  BY <1>0, <1>1 DEF FlagsOK
<1>2. ASSUME NEW n \in Node, Schedule(n) PROVE FlagsOK'
  <2>1. CASE Fetch(n) \/ DrainEnds(n) \/ Pick(n) \/ Save(n) \/ Load(n) \/ Terminate(n)
    <3>. Same
      BY <2>1 DEF Fetch, DrainEnds, Pick, Save, Load, Terminate
    <3>. QED  BY <1>1
  <2>2. CASE Push(n)
    <3>1. sched[n].pending \in SUBSET Job
      BY <1>0 DEF SchedOK, SchedState
    <3>2. PICK q \in Merged(queue[n], sched[n].pending) : queue' = [queue EXCEPT ![n] = q]
      BY <2>2 DEF Push
    <3>3. q \in Seq(Job)
      BY <1>0, <3>1, MergedQueue DEF FlagsOK
    <3>. QED  BY <1>0, <2>2, <3>2, <3>3 DEF Push, FlagsOK
  <2>3. CASE Skip(n) \/ Take(n)
    <3>1. Tail(queue[n]) \in Seq(Job) /\ queue' = [queue EXCEPT ![n] = Tail(queue[n])]
      BY <1>0, <2>3, TailQueue DEF Skip, Take, Pop, FlagsOK
    <3>2. UNCHANGED <<main, running, leader, lateSends>>
      BY <2>3 DEF Skip, Take
    <3>. QED  BY <1>0, <3>1, <3>2 DEF FlagsOK
  <2>4. CASE Send(n)
    <3>1. UNCHANGED <<main, running, leader, queue>> /\ lateSends' \in [Node -> Nat]
      BY <1>0, <2>4 DEF Send, FlagsOK
    <3>. QED  BY <1>0, <3>1 DEF FlagsOK
  <2>. QED  BY <1>2, <2>1, <2>2, <2>3, <2>4 DEF Schedule
<1>3. ASSUME NEW n \in Node, Request(n) PROVE FlagsOK'
  <2>1. CASE SubmitPush(n)
    <3>1. api[n].job \in Job /\ queue[n] \in Seq(Job)
      BY <1>0, <2>1 DEF SubmitPush, ApiOK, FlagsOK
    <3>2. PICK q \in Merged(queue[n], {api[n].job}) : queue' = [queue EXCEPT ![n] = q]
      BY <2>1 DEF SubmitPush
    <3>3. q \in Seq(Job)
      BY <3>1, <3>2, MergedQueue
    <3>. QED  BY <1>0, <2>1, <3>2, <3>3 DEF SubmitPush, FlagsOK
  <2>2. CASE CancelQueue(n)
    <3>1. PICK q \in Removed(queue[n], api[n].job) : queue' = [queue EXCEPT ![n] = q]
      BY <2>2 DEF CancelQueue
    <3>2. q \in Seq(Job)
      BY <1>0, <3>1, RemovedQueue DEF FlagsOK
    <3>. QED  BY <1>0, <2>2, <3>1, <3>2 DEF CancelQueue, FlagsOK
  <2>3. CASE \/ \E j \in Job : SubmitSave(n, j) \/ CancelGet(n, j) \/ EditJob(n, j)
             \/ CancelWrite(n) \/ DeleteRow(n)
    <3>. Same
      BY <2>3 DEF SubmitSave, CancelGet, EditJob, CancelWrite, DeleteRow, nodeVars
    <3>. QED  BY <1>1
  <2>. QED  BY <1>3, <2>1, <2>2, <2>3 DEF Request
<1>4. ASSUME NEW n \in Node, Handle(n) PROVE FlagsOK'
  <2>. Same
    BY <1>4 DEF Handle, Receive, WriteRow, WriteJob
  <2>. QED  BY <1>1
<1>5. ASSUME NEW n \in Node, Process(n) PROVE FlagsOK'
  <2>1. CASE Start(n)
    BY <1>0, <2>1, EmptySeq DEF Start, FlagsOK
  <2>2. CASE Stop(n)
    BY <1>0, <2>2 DEF Stop, FlagsOK
  <2>3. CASE Crash(n)
    BY <1>0, <2>3, EmptySeq DEF Crash, FlagsOK
  <2>4. CASE Elect(n)
    BY <1>0, <2>4 DEF Elect, FlagsOK
  <2>5. CASE StepDown(n)
    BY <1>0, <2>5 DEF StepDown, FlagsOK
  <2>6. CASE StopConsume(n) \/ Assign(n)
    <3>. Same
      BY <2>6 DEF StopConsume, Assign, nodeVars
    <3>. QED  BY <1>1
  <2>7. CASE Serve(n) \/ Signal(n)
    <3>1. PICK m \in {"serving", "stuck"} : main' = [main EXCEPT ![n] = m]
      BY <2>7 DEF Serve, Signal
    <3>2. UNCHANGED <<running, leader, queue, lateSends>>
      BY <2>7 DEF Serve, Signal
    <3>. QED  BY <1>0, <3>1, <3>2 DEF FlagsOK
  <2>. QED  BY <1>5, <2>1, <2>2, <2>3, <2>4, <2>5, <2>6, <2>7 DEF Process
<1>6. ASSUME \/ CommitOffset
             \/ \E j \in Job, status \in Terminal : ExecutorReports(j, status)
             \/ \E e \in Executor : ExecutorChanges(e)
             \/ UNCHANGED vars
      PROVE  FlagsOK'
  <2>. Same
    BY <1>6 DEF CommitOffset, ExecutorReports, ExecutorChanges, vars, nodeVars
  <2>. QED  BY <1>1
<1>. QED  BY <1>2, <1>3, <1>4, <1>5, <1>6 DEF Next

-----------------------------------------------------------------------------
(* A thread that moves to a well-formed state leaves the threads well-formed.*)

\* The state of every thread at rest.
LEMMA RestStates == IdleApi \in ApiState /\ IdleHandle \in HandlerState /\ Stopped \in SchedState
BY DEF IdleApi, ApiState, IdleHandle, HandlerState, Terminal, Stopped, SchedState, SchedPC

LEMMA SchedMoves ==
    ASSUME SchedOK, NEW n \in Node, NEW s \in SchedState,
           s.pc \in Dispatching => s.job \in Job,
           s.pc \in {"save", "load", "send"} => s.executor \in Executor,
           sched' = [sched EXCEPT ![n] = s]
    PROVE  SchedOK'
BY DEF SchedOK

LEMMA SchedGoto ==
    ASSUME NEW s \in SchedState, NEW pc \in SchedPC
    PROVE  /\ [s EXCEPT !.pc = pc] \in SchedState
           /\ [s EXCEPT !.pc = pc].pc = pc
           /\ [s EXCEPT !.pc = pc].job = s.job
           /\ [s EXCEPT !.pc = pc].executor = s.executor
           /\ [s EXCEPT !.pc = pc].pending = s.pending
BY DEF SchedState

LEMMA SchedSets ==
    ASSUME NEW s \in SchedState
    PROVE  /\ \A S \in SUBSET Job : /\ [s EXCEPT !.pending = S] \in SchedState
                                    /\ [s EXCEPT !.pending = S].pc = s.pc
           /\ \A j \in Job \cup {NoJob} : /\ [s EXCEPT !.job = j] \in SchedState
                                         /\ [s EXCEPT !.job = j].job = j
                                         /\ [s EXCEPT !.job = j].pc = s.pc
           /\ \A e \in Executor : /\ [s EXCEPT !.executor = e] \in SchedState
                                 /\ [s EXCEPT !.executor = e].executor = e
                                 /\ [s EXCEPT !.executor = e].job = s.job
                                 /\ [s EXCEPT !.executor = e].pc = s.pc
BY DEF SchedState

LEMMA SchedPreserved == ASSUME TypeOK, [Next]_vars PROVE SchedOK'
<1>0. SchedOK /\ \A n \in Node : sched[n] \in SchedState
  BY DEF TypeOK, ThreadsOK, SchedOK
<1>1. CASE UNCHANGED sched
  BY <1>0, <1>1 DEF SchedOK
<1>2. ASSUME NEW n \in Node, Schedule(n) PROVE SchedOK'
  <2>. DEFINE To(s, pc) == [s EXCEPT !.pc = pc]
  <2>0. sched[n] \in SchedState
    BY <1>0
  <2>1. CASE \/ Fetch(n) \/ Push(n)
    <3>1. \/ \E S \in SUBSET Job : sched' = [sched EXCEPT ![n] = [To(sched[n], "push") EXCEPT !.pending = S]]
          \/ sched' = [sched EXCEPT ![n] = To(sched[n], "push")]
          \/ sched' = [sched EXCEPT ![n] = [To(sched[n], "drain") EXCEPT !.pending = {}]]
      <4>1. CASE Fetch(n)
        <5>1. \/ \E S \in PendingJobs(jobInfo, Priority, PendingLimit) :
                    sched' = [sched EXCEPT ![n].pc = "push", ![n].pending = S]
              \/ sched' = [sched EXCEPT ![n].pc = "push"]
          BY <4>1, Zenon DEF Fetch, Try, Goto
        <5>2. PendingJobs(jobInfo, Priority, PendingLimit) \subseteq SUBSET Job
          BY DEF PendingJobs, Rows, TypeOK, TablesOK
        <5>. QED  BY <5>1, <5>2, Zenon
      <4>2. CASE Push(n)
        BY <4>2, Zenon DEF Push
      <4>. QED  BY <2>1, <4>1, <4>2
    <3>2. To(sched[n], "push") \in SchedState /\ To(sched[n], "push").pc = "push"
      BY <2>0, SchedGoto DEF SchedPC
    <3>3. To(sched[n], "drain") \in SchedState /\ To(sched[n], "drain").pc = "drain"
      BY <2>0, SchedGoto DEF SchedPC
    <3>. HIDE DEF To
    <3>4. ASSUME NEW S \in SUBSET Job,
                 sched' = [sched EXCEPT ![n] = [To(sched[n], "push") EXCEPT !.pending = S]]
          PROVE  SchedOK'
      <4>1. /\ [To(sched[n], "push") EXCEPT !.pending = S] \in SchedState
            /\ [To(sched[n], "push") EXCEPT !.pending = S].pc = "push"
        BY <3>2, SchedSets
      <4>. QED  BY <1>0, <3>4, <4>1, SchedMoves DEF Dispatching
    <3>5. CASE sched' = [sched EXCEPT ![n] = To(sched[n], "push")]
      BY <1>0, <3>2, <3>5, SchedMoves DEF Dispatching
    <3>6. CASE sched' = [sched EXCEPT ![n] = [To(sched[n], "drain") EXCEPT !.pending = {}]]
      <4>1. /\ [To(sched[n], "drain") EXCEPT !.pending = {}] \in SchedState
            /\ [To(sched[n], "drain") EXCEPT !.pending = {}].pc = "drain"
        BY <3>3, SchedSets
      <4>. QED  BY <1>0, <3>6, <4>1, SchedMoves DEF Dispatching
    <3>. QED  BY <3>1, <3>4, <3>5, <3>6
  <2>2. CASE DrainEnds(n) \/ Terminate(n)
    <3>1. \E pc \in {"wait", "stopped"} : sched' = [sched EXCEPT ![n] = To(sched[n], pc)]
      BY <2>2, Zenon DEF DrainEnds, Terminate, Goto
    <3>2. \A pc \in {"wait", "stopped"} : To(sched[n], pc) \in SchedState /\ To(sched[n], pc).pc = pc
      BY <2>0, SchedGoto DEF SchedPC
    <3>. HIDE DEF To
    <3>. QED  BY <1>0, <3>1, <3>2, SchedMoves DEF Dispatching
  <2>3. CASE Skip(n)
    BY <1>1, <2>3 DEF Skip
  <2>4. CASE Take(n)
    <3>1. Head(queue[n]) \in Job
      BY <2>4, TailQueue DEF Take, Pop, TypeOK, ThreadsOK, FlagsOK
    <3>2. sched' = [sched EXCEPT ![n] = [To(sched[n], "pick") EXCEPT !.job = Head(queue[n])]]
      BY <2>4, Zenon DEF Take
    <3>3. To(sched[n], "pick") \in SchedState /\ To(sched[n], "pick").pc = "pick"
      BY <2>0, SchedGoto DEF SchedPC, Dispatching
    <3>. DEFINE s == [To(sched[n], "pick") EXCEPT !.job = Head(queue[n])]
    <3>4. s \in SchedState /\ s.job \in Job /\ s.pc = "pick"
      <4>. HIDE DEF To
      <4>. QED  BY <3>1, <3>3, SchedSets
    <3>5. sched' = [sched EXCEPT ![n] = s]
      BY <3>2
    <3>. HIDE DEF s
    <3>. QED  BY <1>0, <3>4, <3>5, SchedMoves
  <2>5. CASE Pick(n)
    <3>0. sched[n].job \in Job
      BY <1>0, <2>5 DEF Pick, SchedOK, Dispatching
    <3>1. \/ \E e \in Executor :
               sched' = [sched EXCEPT ![n] = [To(sched[n], "save") EXCEPT !.executor = e]]
          \/ sched' = [sched EXCEPT ![n] = [To(sched[n], "drain") EXCEPT !.job = NoJob]]
      <4>1. \/ \E e \in Available(executorNode) :
                 sched' = [sched EXCEPT ![n].pc = "save", ![n].executor = e]
            \/ sched' = [sched EXCEPT ![n].pc = "drain", ![n].job = NoJob]
        BY <2>5, Zenon DEF Pick
      <4>2. Available(executorNode) \subseteq Executor
        BY DEF Available, OnlineExecutors, TypeOK, TablesOK
      <4>. QED  BY <4>1, <4>2, Zenon
    <3>2. /\ To(sched[n], "save") \in SchedState /\ To(sched[n], "save").pc = "save"
          /\ To(sched[n], "save").job = sched[n].job
      BY <2>0, SchedGoto DEF SchedPC, Dispatching
    <3>3. To(sched[n], "drain") \in SchedState /\ To(sched[n], "drain").pc = "drain"
      BY <2>0, SchedGoto DEF SchedPC
    <3>. HIDE DEF To
    <3>4. ASSUME NEW e \in Executor,
                 sched' = [sched EXCEPT ![n] = [To(sched[n], "save") EXCEPT !.executor = e]]
          PROVE  SchedOK'
      <4>1. /\ [To(sched[n], "save") EXCEPT !.executor = e] \in SchedState
            /\ [To(sched[n], "save") EXCEPT !.executor = e].job \in Job
            /\ [To(sched[n], "save") EXCEPT !.executor = e].executor \in Executor
        BY <3>0, <3>2, SchedSets
      <4>. DEFINE s == [To(sched[n], "save") EXCEPT !.executor = e]
      <4>2. s \in SchedState /\ s.job \in Job /\ s.executor \in Executor
        BY <4>1
      <4>3. sched' = [sched EXCEPT ![n] = s]
        BY <3>4
      <4>. HIDE DEF s
      <4>. QED  BY <1>0, <4>2, <4>3, SchedMoves
    <3>5. CASE sched' = [sched EXCEPT ![n] = [To(sched[n], "drain") EXCEPT !.job = NoJob]]
      <4>1. /\ [To(sched[n], "drain") EXCEPT !.job = NoJob] \in SchedState
            /\ [To(sched[n], "drain") EXCEPT !.job = NoJob].pc = "drain"
        BY <3>3, SchedSets
      <4>. QED  BY <1>0, <3>5, <4>1, SchedMoves DEF Dispatching
    <3>. QED  BY <3>1, <3>4, <3>5
  <2>6. CASE Save(n) \/ Load(n)
    <3>0. sched[n].job \in Job /\ sched[n].executor \in Executor
      BY <1>0, <2>6 DEF Save, Load, SchedOK, Dispatching
    <3>1. \E pc \in {"load", "send"} : sched' = [sched EXCEPT ![n] = To(sched[n], pc)]
      BY <2>6, Zenon DEF Save, Load, Goto
    <3>2. \A pc \in {"load", "send"} : /\ To(sched[n], pc) \in SchedState
                                      /\ To(sched[n], pc).job = sched[n].job
                                      /\ To(sched[n], pc).executor = sched[n].executor
      BY <2>0, SchedGoto DEF SchedPC, Dispatching
    <3>3. PICK pc \in {"load", "send"} : sched' = [sched EXCEPT ![n] = To(sched[n], pc)]
      BY <3>1
    <3>4. /\ To(sched[n], pc) \in SchedState
          /\ To(sched[n], pc).job \in Job /\ To(sched[n], pc).executor \in Executor
      BY <3>0, <3>2
    <3>. HIDE DEF To
    <3>. QED  BY <1>0, <3>3, <3>4, SchedMoves
  <2>7. CASE Send(n)
    <3>1. sched' = [sched EXCEPT ![n] = To(Stopped, "drain")]
      BY <2>7, Zenon DEF Send
    <3>2. To(Stopped, "drain") \in SchedState /\ To(Stopped, "drain").pc = "drain"
      BY SchedGoto, RestStates DEF SchedPC
    <3>. HIDE DEF To
    <3>. QED  BY <1>0, <3>1, <3>2, SchedMoves DEF Dispatching
  <2>. QED  BY <1>2, <2>1, <2>2, <2>3, <2>4, <2>5, <2>6, <2>7 DEF Schedule
<1>3. ASSUME NEW n \in Node, Request(n) \/ Handle(n) PROVE UNCHANGED sched
  BY <1>3 DEF Request, SubmitSave, CancelGet, EditJob, SubmitPush, CancelQueue, CancelWrite,
              DeleteRow, Handle, Receive, WriteRow, WriteJob, nodeVars
<1>4. ASSUME NEW n \in Node, Process(n) PROVE SchedOK'
  <2>1. CASE Start(n)
    <3>1. sched' = [sched EXCEPT ![n] = [sched[n] EXCEPT !.pc = "wait"]]
      BY <2>1, Zenon DEF Start
    <3>2. /\ [sched[n] EXCEPT !.pc = "wait"] \in SchedState
          /\ [sched[n] EXCEPT !.pc = "wait"].pc = "wait"
      BY <1>0, SchedGoto DEF SchedPC
    <3>. QED  BY <1>0, <3>1, <3>2, SchedMoves DEF Dispatching
  <2>2. CASE Crash(n)
    <3>1. sched' = [sched EXCEPT ![n] = Stopped] /\ Stopped.pc = "stopped"
      BY <2>2 DEF Crash, Stopped
    <3>. QED  BY <1>0, <3>1, SchedMoves, RestStates DEF Dispatching
  <2>3. CASE \/ Serve(n) \/ Signal(n) \/ Stop(n) \/ StopConsume(n)
             \/ Elect(n) \/ StepDown(n) \/ Assign(n)
    BY <1>1, <2>3 DEF Serve, Signal, Stop, StopConsume, Elect, StepDown, Assign, nodeVars
  <2>. QED  BY <1>4, <2>1, <2>2, <2>3 DEF Process
<1>5. ASSUME \/ CommitOffset
             \/ \E j \in Job, status \in Terminal : ExecutorReports(j, status)
             \/ \E e \in Executor : ExecutorChanges(e)
             \/ UNCHANGED vars
      PROVE  UNCHANGED sched
  BY <1>5 DEF CommitOffset, ExecutorReports, ExecutorChanges, vars, nodeVars
<1>. QED  BY <1>1, <1>2, <1>3, <1>4, <1>5 DEF Next

LEMMA ApiMoves ==
    ASSUME ApiOK, NEW n \in Node, NEW a \in ApiState, a.op # "idle" => a.job \in Job,
           api' = [api EXCEPT ![n] = a]
    PROVE  ApiOK'
BY DEF ApiOK

LEMMA ApiPreserved == ASSUME TypeOK, [Next]_vars PROVE ApiOK'
<1>0. ApiOK /\ \A n \in Node : api[n] \in ApiState
  BY DEF TypeOK, ThreadsOK, ApiOK
<1>1. CASE UNCHANGED api
  BY <1>0, <1>1 DEF ApiOK
<1>2. ASSUME NEW n \in Node, api' = [api EXCEPT ![n] = IdleApi] PROVE ApiOK'
  BY <1>0, <1>2, RestStates, ApiMoves DEF IdleApi
<1>3. ASSUME NEW n \in Node, Request(n) PROVE ApiOK'
  <2>1. ASSUME NEW j \in Job, SubmitSave(n, j) PROVE ApiOK'
    <3>. DEFINE a == [op |-> "push", job |-> j, rev |-> 0]
    <3>1. api' = [api EXCEPT ![n] = a] \/ api' = api
      BY <2>1, Zenon DEF SubmitSave, Try
    <3>2. a \in ApiState /\ a.job \in Job
      BY DEF ApiState
    <3>. HIDE DEF a
    <3>. QED  BY <1>0, <1>1, <3>1, <3>2, ApiMoves
  <2>2. ASSUME NEW j \in Job, CancelGet(n, j) PROVE ApiOK'
    <3>. DEFINE a == [op |-> "cancel", job |-> j, rev |-> jobInfo[j]]
    <3>1. api' = [api EXCEPT ![n] = a]
      BY <2>2 DEF CancelGet
    <3>2. jobInfo[j] \in Nat
      BY <2>2 DEF CancelGet, Exists, TypeOK, TablesOK
    <3>3. a \in ApiState /\ a.job \in Job
      BY <3>2 DEF ApiState
    <3>. HIDE DEF a
    <3>. QED  BY <1>0, <3>1, <3>3, ApiMoves
  <2>3. ASSUME CancelQueue(n) \/ CancelWrite(n) PROVE ApiOK'
    <3>1. PICK op \in {"write", "delete"} : api' = [api EXCEPT ![n] = [api[n] EXCEPT !.op = op]]
      BY <2>3, Zenon DEF CancelQueue, CancelWrite
    <3>2. api[n].job \in Job
      BY <1>0, <2>3 DEF CancelQueue, CancelWrite, ApiOK
    <3>. DEFINE a == [api[n] EXCEPT !.op = op]
    <3>3. a \in ApiState /\ a.job \in Job
      BY <1>0, <3>2 DEF ApiState
    <3>4. api' = [api EXCEPT ![n] = a]
      BY <3>1
    <3>. HIDE DEF a
    <3>. QED  BY <1>0, <3>3, <3>4, ApiMoves
  <2>4. CASE SubmitPush(n) \/ DeleteRow(n)
    BY <1>2, <2>4 DEF SubmitPush, DeleteRow
  <2>5. CASE \E j \in Job : EditJob(n, j)
    BY <1>1, <2>5 DEF EditJob, nodeVars
  <2>. QED  BY <1>3, <2>1, <2>2, <2>3, <2>4, <2>5 DEF Request
<1>4. ASSUME NEW n \in Node, Schedule(n) \/ Handle(n) PROVE UNCHANGED api
  BY <1>4 DEF Schedule, Fetch, Push, DrainEnds, Skip, Take, Pick, Save, Load, Send, Terminate,
              Handle, Receive, WriteRow, WriteJob
<1>5. ASSUME NEW n \in Node, Process(n)
      PROVE  UNCHANGED api \/ api' = [api EXCEPT ![n] = IdleApi]
  BY <1>5 DEF Process, Start, Serve, Signal, Stop, StopConsume, Crash, Elect, StepDown, Assign, nodeVars
<1>6. ASSUME \/ CommitOffset
             \/ \E j \in Job, status \in Terminal : ExecutorReports(j, status)
             \/ \E e \in Executor : ExecutorChanges(e)
             \/ UNCHANGED vars
      PROVE  UNCHANGED api
  BY <1>6 DEF CommitOffset, ExecutorReports, ExecutorChanges, vars, nodeVars
<1>. QED  BY <1>1, <1>2, <1>3, <1>4, <1>5, <1>6 DEF Next

LEMMA HandlerMoves ==
    ASSUME HandlerOK, NEW n \in Node, NEW h \in HandlerState, h.pc # "idle" => h.job \in Job,
           handler' = [handler EXCEPT ![n] = h]
    PROVE  HandlerOK'
BY DEF HandlerOK

LEMMA HandlerPreserved == ASSUME TypeOK, [Next]_vars PROVE HandlerOK'
<1>0. HandlerOK /\ \A n \in Node : handler[n] \in HandlerState
  BY DEF TypeOK, ThreadsOK, HandlerOK
<1>1. CASE UNCHANGED handler
  BY <1>0, <1>1 DEF HandlerOK
<1>2. ASSUME NEW n \in Node, handler' = [handler EXCEPT ![n] = IdleHandle] PROVE HandlerOK'
  BY <1>0, <1>2, RestStates, HandlerMoves DEF IdleHandle
<1>3. ASSUME NEW n \in Node, Handle(n) PROVE HandlerOK'
  <2>1. CASE Receive(n)
    <3>. DEFINE m == resultTopic[offset + 1]
                h(i) == [pc |-> "row", job |-> m.job, row |-> i, status |-> m.status, rev |-> 0]
    <3>1. m \in Result
      BY <2>1, LenProperties, ElementOfSeq DEF Receive, TypeOK, TopicsOK
    <3>2. m.job \in Job /\ m.status \in Terminal
      BY <3>1 DEF Result
    <3>3. \/ \E i \in LatestExecutions(jobExecution[m.job]) : handler' = [handler EXCEPT ![n] = h(i)]
          \/ handler' = handler
      BY <2>1, Zenon DEF Receive
    <3>4. LatestExecutions(jobExecution[m.job]) \subseteq Nat
      BY <3>2, LenProperties DEF LatestExecutions, TypeOK, TablesOK
    <3>5. \A i \in Nat : h(i) \in HandlerState /\ h(i).job \in Job
      BY <3>2 DEF HandlerState
    <3>. HIDE DEF h
    <3>. QED  BY <1>0, <1>1, <3>3, <3>4, <3>5, HandlerMoves
  <2>2. CASE WriteRow(n)
    <3>0. handler[n].job \in Job
      BY <1>0, <2>2 DEF WriteRow, HandlerOK
    <3>. DEFINE h == [handler[n] EXCEPT !.pc = "job", !.rev = jobInfo[handler[n].job]]
    <3>1. \/ Exists(jobInfo, handler[n].job) /\ handler' = [handler EXCEPT ![n] = h]
          \/ handler' = [handler EXCEPT ![n] = IdleHandle]
      BY <2>2, Zenon DEF WriteRow
    <3>2. ASSUME Exists(jobInfo, handler[n].job) PROVE h \in HandlerState /\ h.job \in Job
      <4>1. jobInfo[handler[n].job] \in Nat
        BY <3>0, <3>2 DEF Exists, TypeOK, TablesOK
      <4>2. handler[n] \in HandlerState
        BY <1>0
      <4>. QED  BY <3>0, <4>1, <4>2 DEF HandlerState
    <3>. HIDE DEF h
    <3>. QED  BY <1>0, <1>2, <3>1, <3>2, HandlerMoves
  <2>3. CASE WriteJob(n)
    BY <1>2, <2>3 DEF WriteJob
  <2>. QED  BY <1>3, <2>1, <2>2, <2>3 DEF Handle
<1>4. ASSUME NEW n \in Node, Schedule(n) \/ Request(n) PROVE UNCHANGED handler
  BY <1>4 DEF Schedule, Fetch, Push, DrainEnds, Skip, Take, Pick, Save, Load, Send, Terminate,
              Request, SubmitSave, CancelGet, EditJob, SubmitPush, CancelQueue, CancelWrite,
              DeleteRow, nodeVars
<1>5. ASSUME NEW n \in Node, Process(n)
      PROVE  UNCHANGED handler \/ handler' = [handler EXCEPT ![n] = IdleHandle]
  BY <1>5 DEF Process, Start, Serve, Signal, Stop, StopConsume, Crash, Elect, StepDown, Assign, nodeVars
<1>6. ASSUME \/ CommitOffset
             \/ \E j \in Job, status \in Terminal : ExecutorReports(j, status)
             \/ \E e \in Executor : ExecutorChanges(e)
             \/ UNCHANGED vars
      PROVE  UNCHANGED handler
  BY <1>6 DEF CommitOffset, ExecutorReports, ExecutorChanges, vars, nodeVars
<1>. QED  BY <1>1, <1>2, <1>3, <1>4, <1>5, <1>6 DEF Next

LEMMA InitType == Init => TypeOK
<1>. SUFFICES ASSUME Init PROVE TypeOK
  OBVIOUS
<1>1. TablesOK
  BY EmptySeq DEF Init, TablesOK, ExecutorRow
<1>2. TopicsOK
  BY EmptySeq, LenProperties DEF Init, TopicsOK
<1>3. FlagsOK
  BY EmptySeq DEF Init, FlagsOK
<1>4. SchedOK /\ ApiOK /\ HandlerOK
  <2>1. Stopped.pc = "stopped" /\ IdleApi.op = "idle" /\ IdleHandle.pc = "idle"
    BY DEF Stopped, IdleApi, IdleHandle
  <2>. QED  BY <2>1, RestStates DEF Init, SchedOK, ApiOK, HandlerOK, Dispatching
<1>5. BudgetOK
  BY LimitAssumption DEF Init, BudgetOK
<1>. QED  BY <1>1, <1>2, <1>3, <1>4, <1>5 DEF TypeOK, ThreadsOK

LEMMA NextType == TypeOK /\ [Next]_vars => TypeOK'
BY TablesPreserved, TopicsPreserved, FlagsPreserved, SchedPreserved, ApiPreserved,
   HandlerPreserved, BudgetPreserved DEF TypeOK, ThreadsOK

(* Every variable of the scheduler keeps its type; in particular a thread   *)
(* that is at work always has a job, and dispatch_job an executor.          *)
THEOREM TypeCorrect == Spec => []TypeOK
BY InitType, NextType, PTL DEF Spec

-----------------------------------------------------------------------------
(* The queue                                                                *)

\* The jobs the threads of a process may put into its queue.
Offered(n) == (IF sched[n].pc = "push" THEN sched[n].pending ELSE {})
                 \cup (IF api[n].op = "push" THEN {api[n].job} ELSE {})

\* The steps that write the queue: each keeps an ordered queue so, and adds
\* nothing that was not offered.
LEMMA QueueFrame ==
    ASSUME TypeOK, [Next]_vars
    PROVE  \/ UNCHANGED queue
           \/ \E n \in Node, q \in Seq(Job) :
                 /\ queue' = [queue EXCEPT ![n] = q]
                 /\ Sorted(queue[n]) => Sorted(q)
                 /\ Entries(q) \subseteq Entries(queue[n]) \cup Offered(n)
<1>. DEFINE Kept(n) == \E q \in Seq(Job) :
                 /\ queue' = [queue EXCEPT ![n] = q]
                 /\ Sorted(queue[n]) => Sorted(q)
                 /\ Entries(q) \subseteq Entries(queue[n]) \cup Offered(n)
<1>0. /\ queue \in [Node -> Seq(Job)] /\ SchedOK /\ ApiOK
  BY DEF TypeOK, ThreadsOK, FlagsOK
<1>1. ASSUME NEW n \in Node, Push(n) PROVE Kept(n)
  <2>1. sched[n].pending \in SUBSET Job
    BY <1>0 DEF SchedOK, SchedState
  <2>2. PICK q \in Merged(queue[n], sched[n].pending) : queue' = [queue EXCEPT ![n] = q]
    BY <1>1 DEF Push
  <2>3. sched[n].pending \subseteq Offered(n)
    BY <1>1 DEF Push, Offered
  <2>4. q \in Seq(Job) /\ Sorted(q) /\ Entries(q) \subseteq Entries(queue[n]) \cup sched[n].pending
    BY <1>0, <2>1, <2>2, MergedQueue
  <2>. QED  BY <2>2, <2>3, <2>4
<1>2. ASSUME NEW n \in Node, SubmitPush(n) PROVE Kept(n)
  <2>1. {api[n].job} \in SUBSET Job
    BY <1>0, <1>2 DEF SubmitPush, ApiOK
  <2>2. PICK q \in Merged(queue[n], {api[n].job}) : queue' = [queue EXCEPT ![n] = q]
    BY <1>2 DEF SubmitPush
  <2>3. {api[n].job} \subseteq Offered(n)
    BY <1>2 DEF SubmitPush, Offered
  <2>4. q \in Seq(Job) /\ Sorted(q) /\ Entries(q) \subseteq Entries(queue[n]) \cup {api[n].job}
    BY <1>0, <2>1, <2>2, MergedQueue
  <2>. QED  BY <2>2, <2>3, <2>4
<1>3. ASSUME NEW n \in Node, CancelQueue(n) PROVE Kept(n)
  <2>1. PICK q \in Removed(queue[n], api[n].job) : queue' = [queue EXCEPT ![n] = q]
    BY <1>3 DEF CancelQueue
  <2>. QED  BY <1>0, <2>1, RemovedQueue
<1>4. ASSUME NEW n \in Node, Skip(n) \/ Take(n) PROVE Kept(n)
  <2>1. queue[n] # <<>> /\ queue' = [queue EXCEPT ![n] = Tail(queue[n])]
    BY <1>4 DEF Skip, Take, Pop
  <2>. QED  BY <1>0, <2>1, TailQueue
<1>5. ASSUME NEW n \in Node, Start(n) \/ Crash(n) PROVE Kept(n)
  <2>1. queue' = [queue EXCEPT ![n] = <<>>] /\ Sorted(<<>>) /\ Entries(<<>>) = {}
    BY <1>5 DEF Start, Crash, Sorted, Entries
  <2>. QED  BY <2>1, EmptySeq
<1>6. ASSUME NEW n \in Node, Schedule(n) PROVE UNCHANGED queue \/ Kept(n)
  BY <1>1, <1>4, <1>6 DEF Schedule, Fetch, DrainEnds, Pick, Save, Load, Send, Terminate
<1>7. ASSUME NEW n \in Node, Request(n) PROVE UNCHANGED queue \/ Kept(n)
  BY <1>2, <1>3, <1>7 DEF Request, SubmitSave, CancelGet, EditJob, CancelWrite, DeleteRow, nodeVars
<1>8. ASSUME NEW n \in Node, Handle(n) PROVE UNCHANGED queue
  BY <1>8 DEF Handle, Receive, WriteRow, WriteJob
<1>9. ASSUME NEW n \in Node, Process(n) PROVE UNCHANGED queue \/ Kept(n)
  BY <1>5, <1>9 DEF Process, Serve, Signal, Stop, StopConsume, Elect, StepDown, Assign, nodeVars
<1>10. ASSUME \/ CommitOffset
              \/ \E j \in Job, status \in Terminal : ExecutorReports(j, status)
              \/ \E e \in Executor : ExecutorChanges(e)
              \/ UNCHANGED vars
       PROVE  UNCHANGED queue
  BY <1>10 DEF CommitOffset, ExecutorReports, ExecutorChanges, vars, nodeVars
<1>. HIDE DEF Kept
<1>11. UNCHANGED queue \/ \E n \in Node : Kept(n)
  BY <1>6, <1>7, <1>8, <1>9, <1>10 DEF Next
<1>. QED  BY <1>11 DEF Kept

(* The queue is in order of priority at every moment: JobQueue sorts what it *)
(* pushes, and pop and remove take entries out without disturbing the rest. *)
THEOREM QueueStaysOrdered == Spec => []QueueOrdered
<1>1. Init => QueueOrdered
  BY DEF Init, QueueOrdered, Sorted
<1>2. TypeOK /\ QueueOrdered /\ [Next]_vars => QueueOrdered'
  <2>. SUFFICES ASSUME TypeOK, QueueOrdered, [Next]_vars PROVE QueueOrdered'
    OBVIOUS
  <2>1. queue \in [Node -> Seq(Job)]
    BY DEF TypeOK, ThreadsOK, FlagsOK
  <2>2. CASE UNCHANGED queue
    BY <2>2 DEF QueueOrdered, Sorted
  <2>3. CASE ~UNCHANGED queue
    <3>1. PICK n \in Node : \E q \in Seq(Job) : /\ queue' = [queue EXCEPT ![n] = q]
                                                /\ Sorted(queue[n]) => Sorted(q)
      BY <2>3, QueueFrame
    <3>2. PICK q \in Seq(Job) : queue' = [queue EXCEPT ![n] = q] /\ (Sorted(queue[n]) => Sorted(q))
      BY <3>1
    <3>3. \A m \in Node : Sorted(queue'[m])
      BY <2>1, <3>2 DEF QueueOrdered
    <3>. QED  BY <3>3 DEF QueueOrdered, Sorted
  <2>. QED  BY <2>2, <2>3
<1>. QED  BY <1>1, <1>2, TypeCorrect, PTL DEF Spec

-----------------------------------------------------------------------------
(* Sends by a process that is no longer the leader                          *)

\* The strengthening: an active process has sent nothing late, and neither has
\* one that is dispatching, since it took its job while it was active.
NoneLateYet(n) == Active(n) \/ sched[n].pc \in Dispatching => lateSends[n] = 0
LateInv == \A n \in Node : lateSends[n] <= 1 /\ NoneLateYet(n)

LEMMA LateInvInductive == ASSUME TypeOK, LateInv, [Next]_vars PROVE LateInv'
<1>. USE DEF NoneLateYet, Active
<1>0. /\ running \in [Node -> BOOLEAN] /\ leader \in [Node -> BOOLEAN]
      /\ lateSends \in [Node -> Nat] /\ sched \in [Node -> SchedState]
  BY DEF TypeOK, ThreadsOK, FlagsOK, SchedOK
<1>1. ASSUME UNCHANGED <<running, leader, lateSends, sched>> PROVE LateInv'
  BY <1>1 DEF LateInv
<1>2. ASSUME NEW n \in Node, Schedule(n) PROVE LateInv'
  <2>1. CASE Fetch(n) \/ Push(n) \/ DrainEnds(n) \/ Terminate(n)
    <3>1. UNCHANGED <<running, leader, lateSends>>
      BY <2>1 DEF Fetch, Push, DrainEnds, Terminate
    <3>2. /\ sched'[n].pc \notin Dispatching
          /\ \A m \in Node \ {n} : sched'[m] = sched[m]
      BY <1>0, <2>1 DEF Fetch, Push, DrainEnds, Terminate, Try, Goto, Dispatching, SchedState
    <3>. QED  BY <3>1, <3>2 DEF LateInv
  <2>2. CASE Skip(n)
    BY <1>1, <2>2 DEF Skip
  <2>3. CASE Take(n) \/ Pick(n) \/ Save(n) \/ Load(n)
    <3>1. UNCHANGED <<running, leader, lateSends>>
      BY <2>3 DEF Take, Pick, Save, Load
    <3>2. lateSends[n] = 0
      BY <2>3 DEF Take, Pop, Pick, Save, Load, LateInv, Dispatching
    <3>3. \A m \in Node \ {n} : sched'[m] = sched[m]
      BY <1>0, <2>3 DEF Take, Pick, Save, Load, Goto
    <3>. QED  BY <3>1, <3>2, <3>3 DEF LateInv
  <2>4. CASE Send(n)
    <3>1. UNCHANGED <<running, leader>> /\ lateSends[n] = 0
      BY <2>4 DEF Send, LateInv, Dispatching
    <3>2. /\ lateSends'[n] = IF Active(n) THEN 0 ELSE 1
          /\ \A m \in Node \ {n} : lateSends'[m] = lateSends[m] /\ sched'[m] = sched[m]
      BY <1>0, <2>4, <3>1 DEF Send
    <3>3. sched'[n].pc \notin Dispatching
      BY <1>0, <2>4 DEF Send, Stopped, Dispatching
    <3>. QED  BY <3>1, <3>2, <3>3 DEF LateInv
  <2>. QED  BY <1>2, <2>1, <2>2, <2>3, <2>4 DEF Schedule
<1>3. ASSUME NEW n \in Node, Request(n) \/ Handle(n) PROVE LateInv'
  <2>. UNCHANGED <<running, leader, lateSends, sched>>
    BY <1>3 DEF Request, SubmitSave, CancelGet, EditJob, SubmitPush, CancelQueue, CancelWrite,
                DeleteRow, Handle, Receive, WriteRow, WriteJob, nodeVars
  <2>. QED  BY <1>1
<1>4. ASSUME NEW n \in Node, Process(n) PROVE LateInv'
  <2>1. CASE Start(n)
    <3>1. sched'[n].pc = "wait" /\ \A m \in Node \ {n} : sched'[m] = sched[m]
      BY <1>0, <2>1 DEF Start, SchedState
    <3>. QED  BY <1>0, <2>1, <3>1 DEF Start, LateInv
  <2>2. CASE Stop(n) \/ StepDown(n)
    BY <1>0, <2>2 DEF Stop, StepDown, LateInv
  <2>3. CASE Crash(n)
    <3>1. sched'[n].pc \notin Dispatching /\ \A m \in Node \ {n} : sched'[m] = sched[m]
      BY <1>0, <2>3 DEF Crash, Stopped, Dispatching
    <3>. QED  BY <1>0, <2>3, <3>1 DEF Crash, LateInv
  <2>4. CASE Elect(n)
    BY <1>0, <2>4 DEF Elect, LateInv
  <2>5. CASE Serve(n) \/ Signal(n) \/ StopConsume(n) \/ Assign(n)
    BY <1>1, <2>5 DEF Serve, Signal, StopConsume, Assign, nodeVars
  <2>. QED  BY <1>4, <2>1, <2>2, <2>3, <2>4, <2>5 DEF Process
<1>5. ASSUME \/ CommitOffset
             \/ \E j \in Job, status \in Terminal : ExecutorReports(j, status)
             \/ \E e \in Executor : ExecutorChanges(e)
             \/ UNCHANGED vars
      PROVE  LateInv'
  <2>. UNCHANGED <<running, leader, lateSends, sched>>
    BY <1>5 DEF CommitOffset, ExecutorReports, ExecutorChanges, vars, nodeVars
  <2>. QED  BY <1>1
<1>. QED  BY <1>2, <1>3, <1>4, <1>5 DEF Next

(* A process that loses the leader's role, or is stopped, in the middle of a *)
(* batch sends at most the one job it had taken: schedule_loop looks at both *)
(* flags before every pop, and dispatch_job looks at neither.               *)
THEOREM OneLateSend == Spec => []AtMostOneLateSend
<1>1. Init => LateInv
  BY DEF Init, LateInv, NoneLateYet
<1>2. LateInv => AtMostOneLateSend
  BY DEF LateInv, AtMostOneLateSend
<1>. QED  BY <1>1, <1>2, LateInvInductive, TypeCorrect, PTL DEF Spec

-----------------------------------------------------------------------------
(* The life of a job                                                        *)

\* What a step does to the rows of job_info: a row appears for an id handed out
\* in the step, and no other step makes a row of nothing.
LEMMA RowsAppear ==
    ASSUME TypeOK, [Next]_vars, NEW j \in Job, ~Exists(jobInfo, j), Exists(jobInfo', j)
    PROVE  j \notin issued /\ j \in issued'
<1>0. jobInfo \in [Job -> Nat \cup {NoRow}]
  BY DEF TypeOK, TablesOK
<1>1. CASE UNCHANGED dbVars
  BY <1>1 DEF dbVars, Exists
<1>2. ASSUME NEW n \in Node, NEW k \in Job, SubmitSave(n, k)
      PROVE  j \notin issued /\ j \in issued'
  <2>1. k \notin issued /\ k \in issued'
    BY <1>2 DEF SubmitSave
  <2>2. jobInfo' = [jobInfo EXCEPT ![k] = 0] \/ jobInfo' = jobInfo
    BY <1>2, Zenon DEF SubmitSave, Try, SaveJob
  <2>. QED  BY <1>0, <2>1, <2>2 DEF Exists
<1>3. ASSUME NEW k, NEW rev, jobInfo' = UpdateJob(jobInfo, k, rev) PROVE FALSE
  BY <1>0, <1>3 DEF UpdateJob, Exists
<1>4. ASSUME NEW n \in Node, NEW k \in Job, EditJob(n, k) PROVE FALSE
  BY <1>3, <1>4 DEF EditJob
<1>5. ASSUME NEW n \in Node, CancelWrite(n) \/ WriteJob(n) PROVE FALSE
  <2>1. \/ \E k, rev : jobInfo' = UpdateJob(jobInfo, k, rev)
        \/ jobInfo' = jobInfo
    BY <1>5, Zenon DEF CancelWrite, WriteJob, Try
  <2>. QED  BY <1>3, <2>1
<1>6. ASSUME NEW n \in Node, DeleteRow(n) PROVE FALSE
  <2>1. jobInfo' = [jobInfo EXCEPT ![api[n].job] = NoRow] \/ jobInfo' = jobInfo
    BY <1>6, Zenon DEF DeleteRow, Try, DeleteJob
  <2>. QED  BY <1>0, <2>1 DEF Exists
<1>7. ASSUME NEW n \in Node, Save(n) \/ Load(n) \/ WriteRow(n) PROVE FALSE
  BY <1>7 DEF Save, Load, WriteRow
<1>8. ASSUME NEW e \in Executor, ExecutorChanges(e) PROVE FALSE
  BY <1>8 DEF ExecutorChanges
<1>. QED  BY <1>1, <1>2, <1>4, <1>5, <1>6, <1>7, <1>8, TablesFrame

\* The foreign key: rows of job_execution come with their job and go with it.
NoOrphans == \A j \in Job : ~Exists(jobInfo, j) => jobExecution[j] = <<>>

LEMMA NoOrphansInductive == ASSUME TypeOK, NoOrphans, [Next]_vars PROVE NoOrphans'
<1>0. /\ jobInfo \in [Job -> Nat \cup {NoRow}]
      /\ jobExecution \in [Job -> Seq(ExecutionRow)]
      /\ SchedOK /\ ApiOK /\ HandlerOK
  BY DEF TypeOK, TablesOK, ThreadsOK
<1>1. CASE UNCHANGED dbVars
  BY <1>1 DEF NoOrphans, Exists, dbVars
<1>2. ASSUME UNCHANGED jobExecution, \A j \in Job : Exists(jobInfo, j) => Exists(jobInfo', j)
      PROVE  NoOrphans'
  BY <1>2 DEF NoOrphans
<1>3. ASSUME NEW j, NEW rev \in Nat, UNCHANGED jobExecution,
             jobInfo' = UpdateJob(jobInfo, j, rev) \/ jobInfo' = [jobInfo EXCEPT ![j] = rev]
      PROVE  NoOrphans'
  BY <1>0, <1>2, <1>3 DEF UpdateJob, Exists, NoRow
<1>4. ASSUME NEW n \in Node, NEW j \in Job, SubmitSave(n, j) PROVE NoOrphans'
  <2>1. jobInfo' = [jobInfo EXCEPT ![j] = 0] \/ jobInfo' = jobInfo
    BY <1>4, Zenon DEF SubmitSave, Try, SaveJob
  <2>. QED  BY <1>2, <1>3, <1>4, <2>1 DEF SubmitSave
<1>5. ASSUME NEW n \in Node, NEW j \in Job, EditJob(n, j) PROVE NoOrphans'
  <2>1. Spent("edit") + 1 \in Nat
    BY LimitAssumption DEF TypeOK, BudgetOK, Spent, Kinds
  <2>. QED  BY <1>3, <1>5, <2>1 DEF EditJob
<1>6. ASSUME NEW n \in Node, CancelWrite(n) PROVE NoOrphans'
  <2>1. api[n].rev \in Nat
    BY <1>0 DEF ApiOK, ApiState
  <2>2. jobInfo' = UpdateJob(jobInfo, api[n].job, api[n].rev) \/ jobInfo' = jobInfo
    BY <1>6, Zenon DEF CancelWrite, Try
  <2>. QED  BY <1>2, <1>3, <1>6, <2>1, <2>2 DEF CancelWrite
<1>7. ASSUME NEW n \in Node, WriteJob(n) PROVE NoOrphans'
  <2>1. handler[n].rev \in Nat
    BY <1>0 DEF HandlerOK, HandlerState
  <2>2. jobInfo' = UpdateJob(jobInfo, handler[n].job, handler[n].rev) \/ jobInfo' = jobInfo
    BY <1>7, Zenon DEF WriteJob, Try
  <2>. QED  BY <1>2, <1>3, <1>7, <2>1, <2>2 DEF WriteJob
<1>8. ASSUME NEW n \in Node, DeleteRow(n) PROVE NoOrphans'
  <2>1. \/ /\ jobInfo' = [jobInfo EXCEPT ![api[n].job] = NoRow]
           /\ jobExecution' = [jobExecution EXCEPT ![api[n].job] = <<>>]
        \/ UNCHANGED <<jobInfo, jobExecution>>
    BY <1>8, Zenon DEF DeleteRow, Try, DeleteJob, CascadeDelete
  <2>. QED  BY <1>0, <2>1 DEF NoOrphans, Exists
<1>9. ASSUME NEW n \in Node, Save(n) PROVE NoOrphans'
  <2>1. UNCHANGED jobInfo
    BY <1>9 DEF Save
  <2>2. \A j \in Job : ~Exists(jobInfo, j) => jobExecution'[j] = jobExecution[j]
    <3>1. \/ jobExecution' = jobExecution
          \/ \E t : jobExecution' = SaveExecution(jobInfo, jobExecution, sched[n].job, sched[n].executor, t)
      BY <1>9 DEF Save, Try
    <3>. QED  BY <1>0, <3>1 DEF SaveExecution
  <2>. QED  BY <2>1, <2>2 DEF NoOrphans, Exists
<1>10. ASSUME NEW n \in Node, WriteRow(n) PROVE NoOrphans'
  <2>1. UNCHANGED jobInfo
    BY <1>10 DEF WriteRow
  <2>2. \A j \in Job : jobExecution[j] = <<>> => jobExecution'[j] = <<>>
    <3>. SUFFICES ASSUME NEW j \in Job, jobExecution[j] = <<>> PROVE jobExecution'[j] = <<>>
      OBVIOUS
    <3>1. \/ jobExecution' = jobExecution
          \/ jobExecution' = UpdateExecutionResult(jobExecution, handler[n].job, handler[n].row, handler[n].status)
      BY <1>10, Zenon DEF WriteRow, Try
    <3>2. j = handler[n].job => handler[n].row \notin DOMAIN jobExecution[j]
      <4>1. DOMAIN jobExecution[j] = {}
        OBVIOUS
      <4>. QED  BY <4>1
    <3>. QED  BY <1>0, <3>1, <3>2 DEF UpdateExecutionResult
  <2>. QED  BY <2>1, <2>2 DEF NoOrphans, Exists
<1>11. ASSUME NEW n \in Node, Load(n) PROVE NoOrphans'
  BY <1>2, <1>11 DEF Load
<1>12. ASSUME NEW e \in Executor, ExecutorChanges(e) PROVE NoOrphans'
  BY <1>2, <1>12 DEF ExecutorChanges
<1>. QED  BY <1>1, <1>4, <1>5, <1>6, <1>7, <1>8, <1>9, <1>10, <1>11, <1>12, TablesFrame

\* Whatever a table, a topic or a thread speaks of was submitted: its id was
\* handed out before.
RowsKnown  == \A j \in Job : Exists(jobInfo, j) => j \in issued
SentKnown  == Sent \subseteq issued
QueueKnown == \A n \in Node : Entries(queue[n]) \subseteq issued
SchedKnown == \A n \in Node : /\ sched[n].pending \subseteq issued
                              /\ sched[n].pc \in Dispatching => sched[n].job \in issued
ApiKnown   == \A n \in Node : api[n].op = "push" => api[n].job \in issued
\* A result that is about to be written was sent by an executor.
HandlerReported ==
    \A n \in Node : handler[n].pc = "row" => <<handler[n].job, handler[n].status>> \in Reports

KnownInv == /\ RowsKnown /\ SentKnown /\ QueueKnown /\ SchedKnown /\ ApiKnown
            /\ HandlerReported

LEMMA IssuedGrows == ASSUME [Next]_vars PROVE issued \subseteq issued'
<1>1. CASE UNCHANGED dbVars
  BY <1>1 DEF dbVars
<1>2. ASSUME NEW n \in Node, NEW j \in Job, SubmitSave(n, j) PROVE issued \subseteq issued'
  BY <1>2 DEF SubmitSave
<1>3. ASSUME NEW n \in Node,
             \/ \E j \in Job : EditJob(n, j)
             \/ CancelWrite(n) \/ DeleteRow(n) \/ Save(n) \/ Load(n)
             \/ WriteRow(n) \/ WriteJob(n)
      PROVE  UNCHANGED issued
  BY <1>3 DEF EditJob, CancelWrite, DeleteRow, Save, Load, WriteRow, WriteJob
<1>4. ASSUME NEW e \in Executor, ExecutorChanges(e) PROVE UNCHANGED issued
  BY <1>4 DEF ExecutorChanges
<1>. QED  BY <1>1, <1>2, <1>3, <1>4, TablesFrame

\* What a step does to the two topics that JobLife speaks of.
LEMMA TopicsGrow ==
    ASSUME TypeOK, [Next]_vars
    PROVE  /\ \/ UNCHANGED submitTopic
              \/ \E n \in Node : Send(n) /\ Sent' = Sent \cup {sched[n].job}
           /\ \/ UNCHANGED resultTopic
              \/ \E j \in Job, status \in Terminal :
                    ExecutorReports(j, status) /\ Reports' = Reports \cup {<<j, status>>}
<1>1. submitTopic \in Seq(Job) /\ resultTopic \in Seq(Result)
  BY DEF TypeOK, TopicsOK
<1>2. CASE UNCHANGED topicVars
  BY <1>2 DEF topicVars
<1>3. ASSUME NEW n \in Node, Send(n)
      PROVE  /\ UNCHANGED submitTopic \/ Sent' = Sent \cup {sched[n].job}
             /\ UNCHANGED resultTopic
  <2>1. sched[n].job \in Job
    BY <1>3 DEF Send, TypeOK, ThreadsOK, SchedOK, Dispatching
  <2>2. submitTopic' = submitTopic \/ submitTopic' = Append(submitTopic, sched[n].job)
    BY <1>3, Zenon DEF Send, Try
  <2>3. ASSUME submitTopic' = Append(submitTopic, sched[n].job)
        PROVE  Sent' = Sent \cup {sched[n].job}
    <3>1. /\ DOMAIN submitTopic' = DOMAIN submitTopic \cup {Len(submitTopic) + 1}
          /\ \A i \in DOMAIN submitTopic : submitTopic'[i] = submitTopic[i]
          /\ submitTopic'[Len(submitTopic) + 1] = sched[n].job
      BY <1>1, <2>1, <2>3, AppendProperties, LenProperties
    <3>. QED  BY <3>1 DEF Sent
  <2>. QED  BY <1>3, <2>2, <2>3 DEF Send
<1>4. ASSUME NEW j \in Job, NEW status \in Terminal, ExecutorReports(j, status)
      PROVE  /\ UNCHANGED submitTopic
             /\ Reports' = Reports \cup {<<j, status>>}
  <2>. DEFINE r == [job |-> j, status |-> status]
  <2>1. r \in Result /\ r.job = j /\ r.status = status
    BY DEF Result
  <2>2. resultTopic' = Append(resultTopic, r) /\ UNCHANGED submitTopic
    BY <1>4 DEF ExecutorReports
  <2>. HIDE DEF r
  <2>3. /\ DOMAIN resultTopic' = DOMAIN resultTopic \cup {Len(resultTopic) + 1}
        /\ \A i \in DOMAIN resultTopic : resultTopic'[i] = resultTopic[i]
        /\ resultTopic'[Len(resultTopic) + 1] = r
    BY <1>1, <2>1, <2>2, AppendProperties, LenProperties
  <2>. QED  BY <2>1, <2>2, <2>3 DEF Reports
<1>5. ASSUME NEW n \in Node, \/ CancelQueue(n) \/ Receive(n) \/ StopConsume(n)
                             \/ Crash(n) \/ Assign(n)
      PROVE  UNCHANGED <<submitTopic, resultTopic>>
  BY <1>5 DEF CancelQueue, Receive, StopConsume, Crash, Assign
<1>6. ASSUME CommitOffset PROVE UNCHANGED <<submitTopic, resultTopic>>
  BY <1>6 DEF CommitOffset
<1>. QED  BY <1>2, <1>3, <1>4, <1>5, <1>6, TopicsFrame, Zenon

LEMMA SchedStaysKnown == ASSUME TypeOK, KnownInv, [Next]_vars PROVE SchedKnown'
<1>0. /\ sched \in [Node -> SchedState] /\ queue \in [Node -> Seq(Job)]
      /\ issued \subseteq issued' /\ SchedKnown
  BY IssuedGrows DEF TypeOK, ThreadsOK, FlagsOK, SchedOK, KnownInv
<1>1. CASE UNCHANGED sched
  BY <1>0, <1>1 DEF SchedKnown
<1>2. ASSUME NEW n \in Node, NEW s \in SchedState, sched' = [sched EXCEPT ![n] = s],
             s.pending \subseteq issued, s.pc \in Dispatching => s.job \in issued
      PROVE  SchedKnown'
  BY <1>0, <1>2 DEF SchedKnown
<1>3. ASSUME NEW n \in Node, Schedule(n) PROVE SchedKnown'
  <2>0. sched[n] \in SchedState /\ sched[n].pending \subseteq issued
    BY <1>0 DEF SchedKnown
  <2>1. CASE Fetch(n)
    <3>1. \/ \E S \in PendingJobs(jobInfo, Priority, PendingLimit) :
                sched' = [sched EXCEPT ![n] = [[sched[n] EXCEPT !.pc = "push"] EXCEPT !.pending = S]]
          \/ sched' = [sched EXCEPT ![n] = [sched[n] EXCEPT !.pc = "push"]]
      <4>1. \/ \E S \in PendingJobs(jobInfo, Priority, PendingLimit) :
                  sched' = [sched EXCEPT ![n].pc = "push", ![n].pending = S]
            \/ Goto(n, "push")
        BY <2>1, Zenon DEF Fetch, Try
      <4>. QED  BY <1>0, <4>1 DEF Goto
    <3>2. ASSUME NEW S \in PendingJobs(jobInfo, Priority, PendingLimit)
          PROVE  S \subseteq Job /\ S \subseteq issued
      <4>1. S \subseteq Rows(jobInfo) /\ jobInfo \in [Job -> Nat \cup {NoRow}]
        BY DEF PendingJobs, TypeOK, TablesOK
      <4>. QED  BY <4>1 DEF Rows, KnownInv, RowsKnown
    <3>3. ASSUME NEW S \in SUBSET Job
          PROVE  LET s == [[sched[n] EXCEPT !.pc = "push"] EXCEPT !.pending = S]
                 IN  s \in SchedState /\ s.pending = S /\ s.pc = "push"
      BY <2>0 DEF SchedState, SchedPC
    <3>4. LET s == [sched[n] EXCEPT !.pc = "push"]
          IN  s \in SchedState /\ s.pending = sched[n].pending /\ s.pc = "push"
      BY <2>0 DEF SchedState, SchedPC
    <3>5. ASSUME NEW S \in PendingJobs(jobInfo, Priority, PendingLimit),
                 sched' = [sched EXCEPT ![n] = [[sched[n] EXCEPT !.pc = "push"] EXCEPT !.pending = S]]
          PROVE  SchedKnown'
      <4>. DEFINE s == [[sched[n] EXCEPT !.pc = "push"] EXCEPT !.pending = S]
      <4>1. s \in SchedState /\ s.pending \subseteq issued /\ s.pc = "push"
        BY <3>2, <3>3
      <4>2. sched' = [sched EXCEPT ![n] = s]
        BY <3>5
      <4>. HIDE DEF s
      <4>. QED  BY <1>2, <4>1, <4>2 DEF Dispatching
    <3>6. ASSUME sched' = [sched EXCEPT ![n] = [sched[n] EXCEPT !.pc = "push"]]
          PROVE  SchedKnown'
      <4>. DEFINE s == [sched[n] EXCEPT !.pc = "push"]
      <4>1. s \in SchedState /\ s.pending \subseteq issued /\ s.pc = "push"
        BY <2>0, <3>4
      <4>2. sched' = [sched EXCEPT ![n] = s]
        BY <3>6
      <4>. HIDE DEF s
      <4>. QED  BY <1>2, <4>1, <4>2 DEF Dispatching
    <3>. QED  BY <3>1, <3>5, <3>6
  <2>2. CASE Push(n)
    <3>. DEFINE s == [[sched[n] EXCEPT !.pc = "drain"] EXCEPT !.pending = {}]
    <3>1. sched' = [sched EXCEPT ![n] = s]
      BY <1>0, <2>2 DEF Push
    <3>2. s \in SchedState /\ s.pending = {} /\ s.pc = "drain"
      BY <2>0 DEF SchedState, SchedPC
    <3>. HIDE DEF s
    <3>. QED  BY <1>2, <3>1, <3>2 DEF Dispatching
  <2>3. CASE DrainEnds(n) \/ Terminate(n)
    <3>1. PICK pc \in {"wait", "stopped"} : sched' = [sched EXCEPT ![n] = [sched[n] EXCEPT !.pc = pc]]
      BY <2>3, Zenon DEF DrainEnds, Terminate, Goto
    <3>. DEFINE s == [sched[n] EXCEPT !.pc = pc]
    <3>2. s \in SchedState /\ s.pending = sched[n].pending /\ s.pc = pc
      BY <2>0 DEF SchedState, SchedPC
    <3>3. sched' = [sched EXCEPT ![n] = s]
      BY <3>1
    <3>. HIDE DEF s
    <3>. QED  BY <1>2, <2>0, <3>2, <3>3 DEF Dispatching
  <2>4. CASE Skip(n)
    BY <1>1, <2>4 DEF Skip
  <2>5. CASE Take(n)
    <3>. DEFINE s == [[sched[n] EXCEPT !.pc = "pick"] EXCEPT !.job = Head(queue[n])]
    <3>1. sched' = [sched EXCEPT ![n] = s]
      BY <1>0, <2>5 DEF Take
    <3>2. Head(queue[n]) \in Job /\ Head(queue[n]) \in Entries(queue[n])
      BY <1>0, <2>5, TailQueue DEF Take, Pop
    <3>3. s \in SchedState /\ s.pending = sched[n].pending /\ s.job = Head(queue[n])
      BY <2>0, <3>2 DEF SchedState, SchedPC, Dispatching
    <3>4. Head(queue[n]) \in issued
      BY <3>2 DEF KnownInv, QueueKnown
    <3>. HIDE DEF s
    <3>. QED  BY <1>2, <2>0, <3>1, <3>3, <3>4
  <2>6. CASE Pick(n)
    <3>1. sched[n].job \in issued
      BY <1>0, <2>6 DEF Pick, SchedKnown, Dispatching
    <3>2. \/ \E e \in Available(executorNode) :
                sched' = [sched EXCEPT ![n] = [[sched[n] EXCEPT !.pc = "save"] EXCEPT !.executor = e]]
          \/ sched' = [sched EXCEPT ![n] = [[sched[n] EXCEPT !.pc = "drain"] EXCEPT !.job = NoJob]]
      BY <1>0, <2>6 DEF Pick
    <3>3. Available(executorNode) \subseteq Executor
      BY DEF Available, OnlineExecutors, TypeOK, TablesOK
    <3>4. ASSUME NEW e \in Executor
          PROVE  LET s == [[sched[n] EXCEPT !.pc = "save"] EXCEPT !.executor = e]
                 IN  s \in SchedState /\ s.pending = sched[n].pending /\ s.job = sched[n].job
      BY <2>0 DEF SchedState, SchedPC, Dispatching
    <3>5. LET s == [[sched[n] EXCEPT !.pc = "drain"] EXCEPT !.job = NoJob]
          IN  s \in SchedState /\ s.pending = sched[n].pending /\ s.pc = "drain"
      BY <2>0 DEF SchedState, SchedPC
    <3>. QED  BY <1>2, <2>0, <3>1, <3>2, <3>3, <3>4, <3>5 DEF Dispatching
  <2>7. CASE Save(n) \/ Load(n)
    <3>1. PICK pc \in {"load", "send"} : sched' = [sched EXCEPT ![n] = [sched[n] EXCEPT !.pc = pc]]
      BY <2>7, Zenon DEF Save, Load, Goto
    <3>. DEFINE s == [sched[n] EXCEPT !.pc = pc]
    <3>2. s \in SchedState /\ s.pending = sched[n].pending /\ s.job = sched[n].job
      BY <2>0 DEF SchedState, SchedPC, Dispatching
    <3>3. sched[n].job \in issued
      BY <1>0, <2>7 DEF Save, Load, SchedKnown, Dispatching
    <3>4. sched' = [sched EXCEPT ![n] = s]
      BY <3>1
    <3>. HIDE DEF s
    <3>. QED  BY <1>2, <2>0, <3>2, <3>3, <3>4
  <2>8. CASE Send(n)
    <3>. DEFINE s == [Stopped EXCEPT !.pc = "drain"]
    <3>1. s \in SchedState /\ s.pending = {} /\ s.pc = "drain"
      BY RestStates DEF Stopped, SchedState, SchedPC
    <3>2. sched' = [sched EXCEPT ![n] = s]
      BY <2>8 DEF Send
    <3>. HIDE DEF s
    <3>. QED  BY <1>2, <3>1, <3>2 DEF Dispatching
  <2>. QED  BY <1>3, <2>1, <2>2, <2>3, <2>4, <2>5, <2>6, <2>7, <2>8 DEF Schedule
<1>4. ASSUME NEW n \in Node, Request(n) \/ Handle(n) PROVE UNCHANGED sched
  BY <1>4 DEF Request, SubmitSave, CancelGet, EditJob, SubmitPush, CancelQueue, CancelWrite,
              DeleteRow, Handle, Receive, WriteRow, WriteJob, nodeVars
<1>5. ASSUME NEW n \in Node, Process(n) PROVE SchedKnown'
  <2>1. CASE Start(n)
    <3>. DEFINE s == [sched[n] EXCEPT !.pc = "wait"]
    <3>1. s \in SchedState /\ s.pending = sched[n].pending /\ s.pc = "wait"
      BY <1>0 DEF SchedState, SchedPC
    <3>2. sched' = [sched EXCEPT ![n] = s] /\ sched[n].pending \subseteq issued
      BY <1>0, <2>1 DEF Start, SchedKnown
    <3>. HIDE DEF s
    <3>. QED  BY <1>2, <3>1, <3>2 DEF Dispatching
  <2>2. CASE Crash(n)
    <3>1. sched' = [sched EXCEPT ![n] = Stopped] /\ Stopped.pending = {} /\ Stopped.pc = "stopped"
      BY <2>2 DEF Crash, Stopped
    <3>. QED  BY <1>2, <3>1, RestStates DEF Dispatching
  <2>3. CASE \/ Serve(n) \/ Signal(n) \/ Stop(n) \/ StopConsume(n)
             \/ Elect(n) \/ StepDown(n) \/ Assign(n)
    BY <1>1, <2>3 DEF Serve, Signal, Stop, StopConsume, Elect, StepDown, Assign, nodeVars
  <2>. QED  BY <1>5, <2>1, <2>2, <2>3 DEF Process
<1>6. ASSUME \/ CommitOffset
             \/ \E j \in Job, status \in Terminal : ExecutorReports(j, status)
             \/ \E e \in Executor : ExecutorChanges(e)
             \/ UNCHANGED vars
      PROVE  UNCHANGED sched
  BY <1>6 DEF CommitOffset, ExecutorReports, ExecutorChanges, vars, nodeVars
<1>. QED  BY <1>1, <1>3, <1>4, <1>5, <1>6 DEF Next

LEMMA QueueStaysKnown == ASSUME TypeOK, KnownInv, [Next]_vars PROVE QueueKnown'
<1>0. queue \in [Node -> Seq(Job)] /\ issued \subseteq issued' /\ QueueKnown
  BY IssuedGrows DEF TypeOK, ThreadsOK, FlagsOK, KnownInv
<1>1. CASE UNCHANGED queue
  <2>1. \A n \in Node : Entries(queue'[n]) = Entries(queue[n])
    BY <1>1
  <2>. QED  BY <1>0, <2>1 DEF QueueKnown, Entries
<1>2. CASE ~UNCHANGED queue
  <2>1. PICK n \in Node : \E q \in Seq(Job) :
           /\ queue' = [queue EXCEPT ![n] = q]
           /\ Entries(q) \subseteq Entries(queue[n]) \cup Offered(n)
    BY <1>2, QueueFrame
  <2>2. PICK q \in Seq(Job) : /\ queue' = [queue EXCEPT ![n] = q]
                              /\ Entries(q) \subseteq Entries(queue[n]) \cup Offered(n)
    BY <2>1
  <2>3. Offered(n) \subseteq issued
    BY DEF Offered, KnownInv, SchedKnown, ApiKnown
  <2>4. \A m \in Node : Entries(queue'[m]) \subseteq issued
    <3>1. \A m \in Node : queue'[m] = IF m = n THEN q ELSE queue[m]
      BY <1>0, <2>2
    <3>. QED  BY <1>0, <2>2, <2>3, <3>1 DEF QueueKnown
  <2>. QED  BY <1>0, <2>4 DEF QueueKnown, Entries
<1>. QED  BY <1>1, <1>2

LEMMA ApiStaysKnown == ASSUME TypeOK, KnownInv, [Next]_vars PROVE ApiKnown'
<1>0. /\ api \in [Node -> ApiState]
      /\ issued \subseteq issued' /\ ApiKnown
  BY IssuedGrows DEF TypeOK, ThreadsOK, ApiOK, KnownInv
<1>1. CASE UNCHANGED api
  BY <1>0, <1>1 DEF ApiKnown
<1>2. ASSUME NEW n \in Node, NEW a, api' = [api EXCEPT ![n] = a],
             a.op = "push" => a.job \in issued'
      PROVE  ApiKnown'
  BY <1>0, <1>2 DEF ApiKnown
<1>3. ASSUME NEW n \in Node, api' = [api EXCEPT ![n] = IdleApi] PROVE ApiKnown'
  BY <1>2, <1>3 DEF IdleApi
<1>4. ASSUME NEW n \in Node, Request(n) PROVE ApiKnown'
  <2>1. ASSUME NEW j \in Job, SubmitSave(n, j) PROVE ApiKnown'
    <3>. DEFINE a == [op |-> "push", job |-> j, rev |-> 0]
    <3>1. api' = [api EXCEPT ![n] = a] \/ api' = api
      BY <2>1, Zenon DEF SubmitSave, Try
    <3>2. a.job \in issued'
      BY <2>1 DEF SubmitSave
    <3>. HIDE DEF a
    <3>. QED  BY <1>1, <1>2, <3>1, <3>2
  <2>2. ASSUME NEW j \in Job, CancelGet(n, j) PROVE ApiKnown'
    <3>. DEFINE a == [op |-> "cancel", job |-> j, rev |-> jobInfo[j]]
    <3>1. api' = [api EXCEPT ![n] = a] /\ a.op # "push"
      BY <2>2 DEF CancelGet
    <3>. HIDE DEF a
    <3>. QED  BY <1>2, <3>1
  <2>3. ASSUME CancelQueue(n) \/ CancelWrite(n) PROVE ApiKnown'
    <3>1. PICK op \in {"write", "delete"} : api' = [api EXCEPT ![n] = [api[n] EXCEPT !.op = op]]
      BY <2>3, Zenon DEF CancelQueue, CancelWrite
    <3>. DEFINE a == [api[n] EXCEPT !.op = op]
    <3>2. api' = [api EXCEPT ![n] = a] /\ a.op # "push"
      BY <1>0, <3>1 DEF ApiState
    <3>. HIDE DEF a
    <3>. QED  BY <1>2, <3>2
  <2>4. CASE SubmitPush(n) \/ DeleteRow(n)
    BY <1>3, <2>4 DEF SubmitPush, DeleteRow
  <2>5. CASE \E j \in Job : EditJob(n, j)
    BY <1>1, <2>5 DEF EditJob, nodeVars
  <2>. QED  BY <1>4, <2>1, <2>2, <2>3, <2>4, <2>5 DEF Request
<1>5. ASSUME NEW n \in Node, Schedule(n) \/ Handle(n) PROVE UNCHANGED api
  BY <1>5 DEF Schedule, Fetch, Push, DrainEnds, Skip, Take, Pick, Save, Load, Send, Terminate,
              Handle, Receive, WriteRow, WriteJob
<1>6. ASSUME NEW n \in Node, Process(n)
      PROVE  UNCHANGED api \/ api' = [api EXCEPT ![n] = IdleApi]
  BY <1>6 DEF Process, Start, Serve, Signal, Stop, StopConsume, Crash, Elect, StepDown, Assign, nodeVars
<1>7. ASSUME \/ CommitOffset
             \/ \E j \in Job, status \in Terminal : ExecutorReports(j, status)
             \/ \E e \in Executor : ExecutorChanges(e)
             \/ UNCHANGED vars
      PROVE  UNCHANGED api
  BY <1>7 DEF CommitOffset, ExecutorReports, ExecutorChanges, vars, nodeVars
<1>. QED  BY <1>1, <1>3, <1>4, <1>5, <1>6, <1>7 DEF Next

LEMMA HandlerStaysReported == ASSUME TypeOK, KnownInv, [Next]_vars PROVE HandlerReported'
<1>0. /\ handler \in [Node -> HandlerState] /\ HandlerReported
      /\ Reports \subseteq Reports'
  <2>1. Reports' = Reports \/ \E j, status : Reports' = Reports \cup {<<j, status>>}
    BY TopicsGrow DEF Reports
  <2>. QED  BY <2>1 DEF TypeOK, ThreadsOK, HandlerOK, KnownInv
<1>1. CASE UNCHANGED handler
  BY <1>0, <1>1 DEF HandlerReported
<1>2. ASSUME NEW n \in Node, NEW h, handler' = [handler EXCEPT ![n] = h],
             h.pc = "row" => <<h.job, h.status>> \in Reports
      PROVE  HandlerReported'
  BY <1>0, <1>2 DEF HandlerReported
<1>3. ASSUME NEW n \in Node, handler' = [handler EXCEPT ![n] = IdleHandle] PROVE HandlerReported'
  BY <1>2, <1>3 DEF IdleHandle
<1>4. ASSUME NEW n \in Node, Handle(n) PROVE HandlerReported'
  <2>1. CASE Receive(n)
    <3>. DEFINE m == resultTopic[offset + 1]
                h(i) == [pc |-> "row", job |-> m.job, row |-> i, status |-> m.status, rev |-> 0]
    <3>1. <<m.job, m.status>> \in Reports
      <4>1. offset + 1 \in DOMAIN resultTopic
        BY <2>1, LenProperties DEF Receive, TypeOK, TopicsOK
      <4>. QED  BY <4>1 DEF Reports
    <3>2. \/ \E i \in LatestExecutions(jobExecution[m.job]) : handler' = [handler EXCEPT ![n] = h(i)]
          \/ handler' = handler
      BY <2>1, Zenon DEF Receive
    <3>3. \A i : h(i).job = m.job /\ h(i).status = m.status
      OBVIOUS
    <3>. HIDE DEF h
    <3>. QED  BY <1>1, <1>2, <3>1, <3>2, <3>3
  <2>2. CASE WriteRow(n)
    <3>. DEFINE h == [handler[n] EXCEPT !.pc = "job", !.rev = jobInfo[handler[n].job]]
    <3>1. handler' = [handler EXCEPT ![n] = h] \/ handler' = [handler EXCEPT ![n] = IdleHandle]
      BY <2>2, Zenon DEF WriteRow
    <3>2. h.pc # "row"
      BY <1>0 DEF HandlerState
    <3>. HIDE DEF h
    <3>. QED  BY <1>2, <1>3, <3>1, <3>2
  <2>3. CASE WriteJob(n)
    BY <1>3, <2>3 DEF WriteJob
  <2>. QED  BY <1>4, <2>1, <2>2, <2>3 DEF Handle
<1>5. ASSUME NEW n \in Node, Schedule(n) \/ Request(n) PROVE UNCHANGED handler
  BY <1>5 DEF Schedule, Fetch, Push, DrainEnds, Skip, Take, Pick, Save, Load, Send, Terminate,
              Request, SubmitSave, CancelGet, EditJob, SubmitPush, CancelQueue, CancelWrite,
              DeleteRow, nodeVars
<1>6. ASSUME NEW n \in Node, Process(n)
      PROVE  UNCHANGED handler \/ handler' = [handler EXCEPT ![n] = IdleHandle]
  BY <1>6 DEF Process, Start, Serve, Signal, Stop, StopConsume, Crash, Elect, StepDown, Assign, nodeVars
<1>7. ASSUME \/ CommitOffset
             \/ \E j \in Job, status \in Terminal : ExecutorReports(j, status)
             \/ \E e \in Executor : ExecutorChanges(e)
             \/ UNCHANGED vars
      PROVE  UNCHANGED handler
  BY <1>7 DEF CommitOffset, ExecutorReports, ExecutorChanges, vars, nodeVars
<1>. QED  BY <1>1, <1>3, <1>4, <1>5, <1>6, <1>7 DEF Next

LEMMA KnownInvInductive == ASSUME TypeOK, KnownInv, [Next]_vars PROVE KnownInv'
<1>1. RowsKnown'
  BY RowsAppear, IssuedGrows DEF KnownInv, RowsKnown
<1>2. SentKnown'
  <2>1. CASE UNCHANGED submitTopic
    BY <2>1, IssuedGrows DEF KnownInv, SentKnown, Sent
  <2>2. ASSUME NEW n \in Node, Send(n), Sent' = Sent \cup {sched[n].job} PROVE SentKnown'
    <3>1. sched[n].job \in issued
      BY <2>2 DEF Send, KnownInv, SchedKnown, Dispatching
    <3>. QED  BY <2>2, <3>1, IssuedGrows DEF KnownInv, SentKnown
  <2>. QED  BY <2>1, <2>2, TopicsGrow
<1>. QED  BY <1>1, <1>2, QueueStaysKnown, SchedStaysKnown, ApiStaysKnown, HandlerStaysReported
          DEF KnownInv

LEMMA KnownInit == Init => NoOrphans /\ KnownInv
BY DEF Init, NoOrphans, KnownInv, RowsKnown, SentKnown, QueueKnown, SchedKnown, ApiKnown,
       HandlerReported, Exists, Sent, Entries, Stopped, IdleApi, IdleHandle, Dispatching

\* How the state of JobLife looks after a step, job by job.
LEMMA StagesUnchanged ==
    ASSUME UNCHANGED issued,
           \A j \in Job : Exists(jobInfo', j) <=> Exists(jobInfo, j)
    PROVE  UNCHANGED Stages
BY DEF Stages

LEMMA UpdateKeepsRows ==
    ASSUME TypeOK, NEW j \in Job, NEW rev \in Nat, UNCHANGED issued,
           jobInfo' = UpdateJob(jobInfo, j, rev) \/ jobInfo' = jobInfo
    PROVE  UNCHANGED Stages
<1>1. \A k \in Job : Exists(jobInfo', k) <=> Exists(jobInfo, k)
  BY DEF UpdateJob, Exists, NoRow, TypeOK, TablesOK
<1>. QED  BY <1>1, StagesUnchanged

LEMMA SubmitRefines ==
    ASSUME TypeOK, KnownInv, NEW n \in Node, NEW j \in Job, SubmitSave(n, j)
    PROVE  Life!Submit(j)
<1>1. j \notin issued /\ issued' = issued \cup {j}
  BY DEF SubmitSave
<1>2. UNCHANGED <<Sent, Reports, Records>>
  BY DEF SubmitSave, topicVars, Sent, Reports, Records
<1>3. PICK l \in {"saved", "gone"} : Stages' = [Stages EXCEPT ![j] = l]
  <2>1. jobInfo' = [jobInfo EXCEPT ![j] = 0] \/ jobInfo' = jobInfo
    BY Zenon DEF SubmitSave, Try, SaveJob
  <2>2. \A k \in Job \ {j} : /\ Exists(jobInfo', k) <=> Exists(jobInfo, k)
                             /\ k \in issued' <=> k \in issued
    BY <1>1, <2>1 DEF Exists, TypeOK, TablesOK
  <2>. DEFINE l == IF Exists(jobInfo', j) THEN "saved" ELSE "gone"
  <2>3. \A k \in Job : Stages'[k] = IF k = j THEN l ELSE Stages[k]
    BY <1>1, <2>2 DEF Stages
  <2>4. Stages' = [Stages EXCEPT ![j] = l]
    BY <2>3 DEF Stages
  <2>. QED  BY <2>4
<1>4. Stages[j] = "new"
  BY <1>1 DEF Stages
<1>. QED  BY <1>2, <1>3, <1>4 DEF Life!Submit

LEMMA DeleteRefines ==
    ASSUME TypeOK, NoOrphans, KnownInv, NEW n \in Node, DeleteRow(n)
    PROVE  Life!Delete(api[n].job) \/ UNCHANGED <<Stages, Sent, Reports, Records>>
<1>. DEFINE j == api[n].job
<1>0. /\ jobInfo \in [Job -> Nat \cup {NoRow}]
      /\ jobExecution \in [Job -> Seq(ExecutionRow)]
      /\ j \in Job
  BY DEF TypeOK, TablesOK, ThreadsOK, ApiOK, DeleteRow
<1>1. UNCHANGED <<issued, Sent, Reports>>
  BY DEF DeleteRow, topicVars, Sent, Reports
<1>2. \/ /\ jobInfo' = [jobInfo EXCEPT ![j] = NoRow]
         /\ jobExecution' = [jobExecution EXCEPT ![j] = <<>>]
      \/ UNCHANGED <<jobInfo, jobExecution>>
  BY Zenon DEF DeleteRow, Try, DeleteJob, CascadeDelete
<1>3. CASE UNCHANGED <<jobInfo, jobExecution>>
  BY <1>1, <1>3 DEF Stages, Records
<1>4. CASE /\ ~Exists(jobInfo, j)
           /\ jobInfo' = [jobInfo EXCEPT ![j] = NoRow]
           /\ jobExecution' = [jobExecution EXCEPT ![j] = <<>>]
  <2>1. jobInfo' = jobInfo
    BY <1>0, <1>4 DEF Exists
  <2>2. jobExecution' = jobExecution
    BY <1>0, <1>4 DEF NoOrphans
  <2>. QED  BY <1>1, <2>1, <2>2 DEF Stages, Records
<1>5. CASE /\ Exists(jobInfo, j)
           /\ jobInfo' = [jobInfo EXCEPT ![j] = NoRow]
           /\ jobExecution' = [jobExecution EXCEPT ![j] = <<>>]
  <2>1. j \in issued
    BY <1>0, <1>5 DEF KnownInv, RowsKnown
  <2>2. \A k \in Job : Exists(jobInfo', k) <=> Exists(jobInfo, k) /\ k # j
    BY <1>0, <1>5 DEF Exists
  <2>3. Stages[j] = "saved"
    BY <1>0, <1>5, <2>1 DEF Stages
  <2>4. Stages' = [Stages EXCEPT ![j] = "gone"]
    <3>1. \A k \in Job : Stages'[k] = IF k = j THEN "gone" ELSE Stages[k]
      BY <1>1, <2>1, <2>2 DEF Stages
    <3>. QED  BY <3>1 DEF Stages
  <2>5. Records' = [Records EXCEPT ![j] = <<>>]
    <3>1. \A k \in Job : jobExecution'[k] = IF k = j THEN <<>> ELSE jobExecution[k]
      BY <1>0, <1>5
    <3>2. \A k \in Job : Records'[k] = IF k = j THEN <<>> ELSE Records[k]
      BY <3>1 DEF Records
    <3>. QED  BY <3>2 DEF Records
  <2>. QED  BY <1>1, <2>3, <2>4, <2>5 DEF Life!Delete
<1>. QED  BY <1>2, <1>3, <1>4, <1>5

Shown(row) == IF row.status \in Terminal THEN row.status ELSE "open"

LEMMA RecordsChange ==
    ASSUME NEW j \in Job, NEW r, Records'[j] = r,
           \A k \in Job \ {j} : Records'[k] = Records[k]
    PROVE  Records' = [Records EXCEPT ![j] = r]
<1>1. Records = [k \in Job |-> Records[k]] /\ Records' = [k \in Job |-> Records'[k]]
  BY Zenon DEF Records
<1>. QED  BY <1>1

LEMMA RecordOpened ==
    ASSUME TypeOK, NEW j \in Job, NEW e \in Executor, NEW t \in Nat,
           jobExecution' = [jobExecution EXCEPT ![j] =
              Append(@, [executor |-> e, status |-> "WAITING", trig |-> t])]
    PROVE  Records' = [Records EXCEPT ![j] = Append(@, Life!Open)]
<1>. DEFINE row == [executor |-> e, status |-> "WAITING", trig |-> t]
            rows == jobExecution[j]
<1>1. jobExecution \in [Job -> Seq(ExecutionRow)] /\ rows \in Seq(ExecutionRow)
  BY DEF TypeOK, TablesOK
<1>2. row \in ExecutionRow /\ Shown(row) = "open"
  BY DEF ExecutionRow, ExecStatus, Terminal, Shown
<1>3. /\ \A k \in Job \ {j} : jobExecution'[k] = jobExecution[k]
      /\ jobExecution'[j] = Append(rows, row)
  BY <1>1
<1>. HIDE DEF row
<1>4. /\ Len(rows) \in Nat /\ DOMAIN rows = 1 .. Len(rows)
      /\ DOMAIN jobExecution'[j] = 1 .. Len(rows) + 1
      /\ \A i \in 1 .. Len(rows) : jobExecution'[j][i] = rows[i]
      /\ jobExecution'[j][Len(rows) + 1] = row
  BY <1>1, <1>2, <1>3, AppendProperties, LenProperties
<1>. DEFINE s == [i \in 1 .. Len(rows) |-> Shown(rows[i])]
<1>5. Records[j] = s /\ \A k \in Job : Records[k] = [i \in DOMAIN jobExecution[k] |-> Shown(jobExecution[k][i])]
  BY <1>4 DEF Records, Shown
<1>6. s \in Seq({"SUCCESS", "FAILED", "open"}) /\ Len(s) = Len(rows)
  BY <1>4, SeqDef, LenProperties DEF Shown, Terminal
<1>7. Append(s, "open") = [i \in 1 .. Len(rows) + 1 |-> IF i = Len(rows) + 1 THEN "open" ELSE Shown(rows[i])]
  BY <1>4, <1>6, AppendProperties
<1>8. Records'[j] = Append(s, "open")
  <2>1. Records'[j] = [i \in 1 .. Len(rows) + 1 |-> Shown(jobExecution'[j][i])]
    BY <1>4 DEF Records, Shown
  <2>2. \A i \in 1 .. Len(rows) + 1 :
           Shown(jobExecution'[j][i]) = IF i = Len(rows) + 1 THEN "open" ELSE Shown(rows[i])
    BY <1>2, <1>4
  <2>. QED  BY <1>7, <2>1, <2>2
<1>9. \A k \in Job \ {j} : Records'[k] = Records[k]
  BY <1>3 DEF Records
<1>10. Records'[j] = Append(Records[j], Life!Open)
  BY <1>5, <1>8 DEF Life!Open
<1>. QED  BY <1>9, <1>10, RecordsChange

LEMMA SaveRefines ==
    ASSUME TypeOK, KnownInv, NEW n \in Node, Save(n)
    PROVE  Life!OpenExecution(sched[n].job) \/ UNCHANGED <<Stages, Sent, Reports, Records>>
<1>. DEFINE j == sched[n].job
            e == sched[n].executor
<1>0. j \in Job /\ e \in Executor
  BY DEF TypeOK, ThreadsOK, SchedOK, Save, Dispatching
<1>1. UNCHANGED <<Stages, Sent, Reports>>
  BY DEF Save, topicVars, Stages, Sent, Reports
<1>2. \/ jobExecution' = jobExecution
      \/ \E t \in TriggerTimes(jobExecution[j]) :
           jobExecution' = SaveExecution(jobInfo, jobExecution, j, e, t)
  BY DEF Save, Try
<1>3. CASE jobExecution' = jobExecution
  BY <1>1, <1>3 DEF Records
<1>4. ASSUME NEW t \in TriggerTimes(jobExecution[j]), Exists(jobInfo, j),
             jobExecution' = SaveExecution(jobInfo, jobExecution, j, e, t)
      PROVE  Life!OpenExecution(j)
  <2>1. t \in Nat
    <3>1. jobExecution[j] \in Seq(ExecutionRow)
      BY <1>0 DEF TypeOK, TablesOK
    <3>2. CASE jobExecution[j] # <<>>
      <4>1. jobExecution[j][Len(jobExecution[j])] \in ExecutionRow
        BY <3>1, <3>2, EmptySeq, LenProperties, ElementOfSeq
      <4>. QED  BY <3>2, <4>1 DEF TriggerTimes, ExecutionRow
    <3>. QED  BY <3>2 DEF TriggerTimes
  <2>2. Records' = [Records EXCEPT ![j] = Append(@, Life!Open)]
    BY <1>0, <1>4, <2>1, RecordOpened DEF SaveExecution
  <2>3. Stages[j] = "saved"
    BY <1>0, <1>4 DEF Stages, KnownInv, RowsKnown
  <2>. QED  BY <1>1, <2>2, <2>3 DEF Life!OpenExecution
<1>5. ASSUME ~Exists(jobInfo, j), NEW t,
             jobExecution' = SaveExecution(jobInfo, jobExecution, j, e, t)
      PROVE  jobExecution' = jobExecution
  BY <1>5 DEF SaveExecution
<1>. QED  BY <1>2, <1>3, <1>4, <1>5

LEMMA WriteRowRefines ==
    ASSUME TypeOK, KnownInv, NEW n \in Node, WriteRow(n)
    PROVE  \/ \E i \in DOMAIN Records[handler[n].job] :
                 Life!Close(handler[n].job, i, handler[n].status)
           \/ UNCHANGED <<Stages, Sent, Reports, Records>>
<1>. DEFINE j == handler[n].job
            i == handler[n].row
            st == handler[n].status
            rows == jobExecution[j]
<1>0. /\ j \in Job /\ st \in Terminal
      /\ jobExecution \in [Job -> Seq(ExecutionRow)] /\ rows \in Seq(ExecutionRow)
  BY DEF TypeOK, TablesOK, ThreadsOK, HandlerOK, HandlerState, WriteRow
<1>1. UNCHANGED <<Stages, Sent, Reports>>
  BY DEF WriteRow, topicVars, Stages, Sent, Reports
<1>2. \/ jobExecution' = UpdateExecutionResult(jobExecution, j, i, st)
      \/ jobExecution' = jobExecution
  BY Zenon DEF WriteRow, Try
<1>3. CASE jobExecution' = jobExecution
  BY <1>1, <1>3 DEF Records
<1>4. CASE i \notin DOMAIN rows /\ jobExecution' = UpdateExecutionResult(jobExecution, j, i, st)
  BY <1>3, <1>4 DEF UpdateExecutionResult
<1>5. CASE i \in DOMAIN rows /\ jobExecution' = UpdateExecutionResult(jobExecution, j, i, st)
  <2>. DEFINE row == [rows[i] EXCEPT !.status = st]
  <2>1. rows[i] \in ExecutionRow
    BY <1>0, <1>5, LenProperties, ElementOfSeq
  <2>2. Shown(row) = st
    BY <1>0, <2>1 DEF ExecutionRow, Shown
  <2>3. jobExecution' = [jobExecution EXCEPT ![j] = [rows EXCEPT ![i] = row]]
    BY <1>5, Zenon DEF UpdateExecutionResult
  <2>. HIDE DEF row
  <2>4. /\ \A k \in Job \ {j} : jobExecution'[k] = jobExecution[k]
        /\ DOMAIN jobExecution'[j] = DOMAIN rows
        /\ jobExecution'[j][i] = row
        /\ \A k \in DOMAIN rows \ {i} : jobExecution'[j][k] = rows[k]
    BY <1>0, <1>5, <2>3
  <2>5. /\ \A k \in Job \ {j} : Records'[k] = Records[k]
        /\ Records'[j] = [k \in DOMAIN rows |-> Shown(jobExecution'[j][k])]
        /\ Records[j] = [k \in DOMAIN rows |-> Shown(rows[k])]
    BY <1>0, <2>4 DEF Records, Shown
  <2>6. Records'[j] = [Records[j] EXCEPT ![i] = st]
    BY <2>2, <2>4, <2>5
  <2>7. Records' = [Records EXCEPT ![j] = [Records[j] EXCEPT ![i] = st]]
    BY <1>0, <2>5, <2>6, RecordsChange
  <2>8. i \in DOMAIN Records[j] /\ <<j, st>> \in Reports
    BY <1>5, <2>5 DEF WriteRow, KnownInv, HandlerReported
  <2>9. Life!Close(j, i, st)
    BY <1>1, <2>7, <2>8 DEF Life!Close
  <2>. QED  BY <2>8, <2>9
<1>. QED  BY <1>2, <1>3, <1>4, <1>5

LEMMA SendRefines ==
    ASSUME TypeOK, KnownInv, NEW n \in Node, Send(n), Sent' = Sent \cup {sched[n].job}
    PROVE  Life!Order(sched[n].job)
<1>1. UNCHANGED <<Stages, Reports, Records>>
  BY DEF Send, dbVars, Stages, Reports, Records
<1>2. sched[n].job \in Job /\ sched[n].job \in issued
  BY DEF Send, KnownInv, SchedKnown, TypeOK, ThreadsOK, SchedOK, Dispatching
<1>3. Stages[sched[n].job] # "new"
  BY <1>2 DEF Stages
<1>. QED  BY <1>1, <1>3 DEF Life!Order

LEMMA ReportRefines ==
    ASSUME TypeOK, NEW j \in Job, NEW status \in Terminal, ExecutorReports(j, status),
           Reports' = Reports \cup {<<j, status>>}
    PROVE  Life!Report(j, status)
<1>1. UNCHANGED <<Stages, Sent, Records>>
  BY DEF ExecutorReports, dbVars, Stages, Sent, Records
<1>2. j \in Sent
  <2>1. Cardinality({i \in DOMAIN submitTopic : submitTopic[i] = j}) # 0
    BY DEF ExecutorReports, Count
  <2>. QED  BY <2>1, FS_EmptySet DEF Sent
<1>. QED  BY <1>1, <1>2 DEF Life!Report

LEMMA LifeStep ==
    ASSUME TypeOK, NoOrphans, KnownInv, [Next]_vars
    PROVE  [Life!Next]_(Life!vars)
<1>. DEFINE Stutter == UNCHANGED <<Stages, Sent, Reports, Records>>
<1>0. Stutter => UNCHANGED Life!vars
  BY DEF Life!vars
<1>1. CASE ~UNCHANGED submitTopic
  <2>1. PICK n \in Node : Send(n) /\ Sent' = Sent \cup {sched[n].job}
    BY <1>1, TopicsGrow
  <2>2. sched[n].job \in Job
    BY <2>1 DEF Send, TypeOK, ThreadsOK, SchedOK, Dispatching
  <2>. QED  BY <2>1, <2>2, SendRefines DEF Life!Next
<1>2. CASE ~UNCHANGED resultTopic
  <2>1. PICK j \in Job, status \in Terminal :
           ExecutorReports(j, status) /\ Reports' = Reports \cup {<<j, status>>}
    BY <1>2, TopicsGrow
  <2>. QED  BY <2>1, ReportRefines DEF Life!Next
<1>3. CASE UNCHANGED <<submitTopic, resultTopic>>
  <2>0. UNCHANGED <<Sent, Reports>>
    BY <1>3 DEF Sent, Reports
  <2>1. CASE UNCHANGED dbVars
    BY <1>0, <2>0, <2>1 DEF dbVars, Stages, Records
  <2>2. ASSUME NEW n \in Node, NEW j \in Job, SubmitSave(n, j) PROVE Life!Next
    BY <2>2, SubmitRefines DEF Life!Next
  <2>3. ASSUME NEW n \in Node, NEW j \in Job, EditJob(n, j) PROVE Stutter
    <3>1. Spent("edit") + 1 \in Nat
      BY LimitAssumption DEF TypeOK, BudgetOK, Spent, Kinds
    <3>2. UNCHANGED Stages
      BY <2>3, <3>1, UpdateKeepsRows DEF EditJob
    <3>. QED  BY <2>0, <2>3, <3>2 DEF EditJob, Records
  <2>4. ASSUME NEW n \in Node, CancelWrite(n) PROVE Stutter
    <3>1. api[n].job \in Job /\ api[n].rev \in Nat
      BY <2>4 DEF CancelWrite, TypeOK, ThreadsOK, ApiOK, ApiState
    <3>2. jobInfo' = UpdateJob(jobInfo, api[n].job, api[n].rev) \/ jobInfo' = jobInfo
      BY <2>4, Zenon DEF CancelWrite, Try
    <3>3. UNCHANGED Stages
      BY <2>4, <3>1, <3>2, UpdateKeepsRows DEF CancelWrite
    <3>. QED  BY <2>0, <2>4, <3>3 DEF CancelWrite, Records
  <2>5. ASSUME NEW n \in Node, WriteJob(n) PROVE Stutter
    <3>1. handler[n].job \in Job /\ handler[n].rev \in Nat
      BY <2>5 DEF WriteJob, TypeOK, ThreadsOK, HandlerOK, HandlerState
    <3>2. jobInfo' = UpdateJob(jobInfo, handler[n].job, handler[n].rev) \/ jobInfo' = jobInfo
      BY <2>5, Zenon DEF WriteJob, Try
    <3>3. UNCHANGED Stages
      BY <2>5, <3>1, <3>2, UpdateKeepsRows DEF WriteJob
    <3>. QED  BY <2>0, <2>5, <3>3 DEF WriteJob, Records
  <2>6. ASSUME NEW n \in Node, DeleteRow(n) PROVE Life!Next \/ Stutter
    <3>1. api[n].job \in Job
      BY <2>6 DEF DeleteRow, TypeOK, ThreadsOK, ApiOK
    <3>. QED  BY <2>6, <3>1, DeleteRefines DEF Life!Next
  <2>7. ASSUME NEW n \in Node, Save(n) PROVE Life!Next \/ Stutter
    <3>1. sched[n].job \in Job
      BY <2>7 DEF Save, TypeOK, ThreadsOK, SchedOK, Dispatching
    <3>. QED  BY <2>7, <3>1, SaveRefines DEF Life!Next
  <2>8. ASSUME NEW n \in Node, WriteRow(n) PROVE Life!Next \/ Stutter
    <3>1. handler[n].job \in Job /\ handler[n].status \in Terminal
      BY <2>8 DEF WriteRow, TypeOK, ThreadsOK, HandlerOK, HandlerState
    <3>. QED  BY <2>8, <3>1, WriteRowRefines DEF Life!Next
  <2>9. ASSUME NEW n \in Node, Load(n) PROVE Stutter
    BY <2>0, <2>9 DEF Load, Stages, Records
  <2>10. ASSUME NEW e \in Executor, ExecutorChanges(e) PROVE Stutter
    BY <2>0, <2>10 DEF ExecutorChanges, Stages, Records
  <2>. HIDE DEF Stutter
  <2>. QED  BY <1>0, <2>1, <2>2, <2>3, <2>4, <2>5, <2>6, <2>7, <2>8, <2>9, <2>10, TablesFrame
<1>. QED  BY <1>1, <1>2, <1>3

LEMMA LifeInit == Init => Life!Init
<1>. SUFFICES ASSUME Init PROVE Life!Init
  OBVIOUS
<1>1. Stages = [j \in Job |-> "new"] /\ Sent = {} /\ Reports = {}
  BY DEF Init, Stages, Sent, Reports
<1>2. Records = [j \in Job |-> <<>>]
  BY DEF Init, Records
<1>. QED  BY <1>1, <1>2 DEF Life!Init

(* The scheduler processes, their tables and their topics implement JobLife,  *)
(* with any number of processes, crashes and failing calls: a deleted job     *)
(* does not come back, executions come and go with their job, and an          *)
(* execution ends only as an executor reported of that job.                   *)
THEOREM ImplementsJobLife == Spec => LifeOfJob
<1>1. Init => NoOrphans /\ KnownInv
  BY KnownInit
<1>2. TypeOK /\ NoOrphans /\ KnownInv /\ [Next]_vars => NoOrphans' /\ KnownInv'
  BY NoOrphansInductive, KnownInvInductive
<1>. QED  BY <1>1, <1>2, LifeInit, LifeStep, TypeCorrect, PTL DEF Spec, LifeOfJob, Life!Spec
-----------------------------------------------------------------------------
(* Loads                                                                    *)

\* How a schedule thread comes by a job and an executor, one step at a time.
LEMMA DispatchFrame ==
    ASSUME TypeOK, [Next]_vars, NEW m \in Node
    PROVE  \/ sched'[m] = sched[m]
           \/ sched'[m].pc \notin {"save", "load", "send"}
           \/ Pick(m) /\ sched'[m].pc = "save" /\ sched'[m].executor \in Available(executorNode)
           \/ Save(m) /\ sched'[m] = [sched[m] EXCEPT !.pc = "load"]
           \/ Load(m) /\ sched'[m] = [sched[m] EXCEPT !.pc = "send"]
<1>. DEFINE Held == {"save", "load", "send"}
            Claim == \/ sched'[m] = sched[m]
                     \/ sched'[m].pc \notin Held
                     \/ Pick(m) /\ sched'[m].pc = "save" /\ sched'[m].executor \in Available(executorNode)
                     \/ Save(m) /\ sched'[m] = [sched[m] EXCEPT !.pc = "load"]
                     \/ Load(m) /\ sched'[m] = [sched[m] EXCEPT !.pc = "send"]
<1>0. sched \in [Node -> SchedState]
  BY DEF TypeOK, ThreadsOK, SchedOK
<1>1. ASSUME NEW n \in Node, NEW s, sched' = [sched EXCEPT ![n] = s], s.pc \notin Held
      PROVE  Claim
  BY <1>0, <1>1
<1>2. ASSUME NEW n \in Node, Schedule(n) PROVE Claim
  <2>1. CASE Fetch(n)
    <3>1. \/ \E S : sched' = [sched EXCEPT ![n] = [[sched[n] EXCEPT !.pc = "push"] EXCEPT !.pending = S]]
          \/ sched' = [sched EXCEPT ![n] = [sched[n] EXCEPT !.pc = "push"]]
      BY <1>0, <2>1 DEF Fetch, Try, Goto
    <3>2. \A S : [[sched[n] EXCEPT !.pc = "push"] EXCEPT !.pending = S].pc = "push"
      BY <1>0 DEF SchedState
    <3>3. [sched[n] EXCEPT !.pc = "push"].pc = "push"
      BY <1>0 DEF SchedState
    <3>. QED  BY <1>1, <3>1, <3>2, <3>3
  <2>2. CASE Push(n)
    <3>1. sched' = [sched EXCEPT ![n] = [[sched[n] EXCEPT !.pc = "drain"] EXCEPT !.pending = {}]]
      BY <1>0, <2>2 DEF Push
    <3>2. [[sched[n] EXCEPT !.pc = "drain"] EXCEPT !.pending = {}].pc = "drain"
      BY <1>0 DEF SchedState
    <3>. QED  BY <1>1, <3>1, <3>2
  <2>3. CASE DrainEnds(n) \/ Terminate(n)
    <3>1. PICK pc \in {"wait", "stopped"} : sched' = [sched EXCEPT ![n] = [sched[n] EXCEPT !.pc = pc]]
      BY <2>3, Zenon DEF DrainEnds, Terminate, Goto
    <3>2. [sched[n] EXCEPT !.pc = pc].pc = pc
      BY <1>0 DEF SchedState
    <3>. QED  BY <1>1, <3>1, <3>2
  <2>4. CASE Skip(n)
    BY <2>4 DEF Skip
  <2>5. CASE Take(n)
    <3>1. sched' = [sched EXCEPT ![n] = [[sched[n] EXCEPT !.pc = "pick"] EXCEPT !.job = Head(queue[n])]]
      BY <1>0, <2>5 DEF Take
    <3>2. [[sched[n] EXCEPT !.pc = "pick"] EXCEPT !.job = Head(queue[n])].pc = "pick"
      BY <1>0 DEF SchedState
    <3>. QED  BY <1>1, <3>1, <3>2
  <2>6. CASE Pick(n)
    <3>1. ASSUME NEW e \in Available(executorNode),
                 sched' = [sched EXCEPT ![n] = [[sched[n] EXCEPT !.pc = "save"] EXCEPT !.executor = e]]
          PROVE  Claim
      <4>1. /\ [[sched[n] EXCEPT !.pc = "save"] EXCEPT !.executor = e].pc = "save"
            /\ [[sched[n] EXCEPT !.pc = "save"] EXCEPT !.executor = e].executor = e
        BY <1>0 DEF SchedState
      <4>. QED  BY <1>0, <2>6, <3>1, <4>1
    <3>2. ASSUME sched' = [sched EXCEPT ![n] = [[sched[n] EXCEPT !.pc = "drain"] EXCEPT !.job = NoJob]]
          PROVE  Claim
      <4>1. [[sched[n] EXCEPT !.pc = "drain"] EXCEPT !.job = NoJob].pc = "drain"
        BY <1>0 DEF SchedState
      <4>. QED  BY <1>1, <3>2, <4>1
    <3>. QED  BY <1>0, <2>6, <3>1, <3>2 DEF Pick
  <2>7. CASE Save(n)
    BY <1>0, <2>7 DEF Save, Goto
  <2>8. CASE Load(n)
    BY <1>0, <2>8 DEF Load, Goto
  <2>9. CASE Send(n)
    <3>1. [Stopped EXCEPT !.pc = "drain"].pc = "drain"
      BY DEF Stopped
    <3>. QED  BY <1>1, <2>9, <3>1 DEF Send
  <2>. QED  BY <1>2, <2>1, <2>2, <2>3, <2>4, <2>5, <2>6, <2>7, <2>8, <2>9 DEF Schedule
<1>3. ASSUME NEW n \in Node, Request(n) \/ Handle(n) PROVE UNCHANGED sched
  BY <1>3 DEF Request, SubmitSave, CancelGet, EditJob, SubmitPush, CancelQueue, CancelWrite,
              DeleteRow, Handle, Receive, WriteRow, WriteJob, nodeVars
<1>4. ASSUME NEW n \in Node, Process(n) PROVE Claim
  <2>1. CASE Start(n)
    <3>1. [sched[n] EXCEPT !.pc = "wait"].pc = "wait"
      BY <1>0 DEF SchedState
    <3>. QED  BY <1>1, <2>1, <3>1 DEF Start
  <2>2. CASE Crash(n)
    BY <1>1, <2>2 DEF Crash, Stopped
  <2>3. CASE \/ Serve(n) \/ Signal(n) \/ Stop(n) \/ StopConsume(n)
             \/ Elect(n) \/ StepDown(n) \/ Assign(n)
    BY <2>3 DEF Serve, Signal, Stop, StopConsume, Elect, StepDown, Assign, nodeVars
  <2>. QED  BY <1>4, <2>1, <2>2, <2>3 DEF Process
<1>5. ASSUME \/ CommitOffset
             \/ \E j \in Job, status \in Terminal : ExecutorReports(j, status)
             \/ \E e \in Executor : ExecutorChanges(e)
             \/ UNCHANGED vars
      PROVE  UNCHANGED sched
  BY <1>5 DEF CommitOffset, ExecutorReports, ExecutorChanges, vars, nodeVars
<1>. QED  BY <1>2, <1>3, <1>4, <1>5 DEF Next

\* Only the schedule thread raises a load, and nothing lowers one: the account
\* of a result is looked up under the id of the job.
LEMMA LoadFrame ==
    ASSUME TypeOK, [Next]_vars, NEW e \in Executor
    PROVE  \/ executorNode'[e].load = executorNode[e].load
           \/ \E n \in Node : /\ Load(n) /\ sched[n].executor = e
                             /\ executorNode'[e].load = executorNode[e].load + 1
<1>. DEFINE Same == executorNode'[e].load = executorNode[e].load
<1>0. executorNode \in [Executor -> ExecutorRow]
  BY DEF TypeOK, TablesOK
<1>1. CASE UNCHANGED executorNode
  BY <1>1
<1>2. ASSUME NEW n \in Node, Load(n)
      PROVE  \/ Same
             \/ sched[n].executor = e /\ executorNode'[e].load = executorNode[e].load + 1
  <2>1. sched[n].executor \in Executor
    BY <1>2 DEF Load, TypeOK, ThreadsOK, SchedOK
  <2>2. \/ executorNode' = executorNode
        \/ executorNode' = [executorNode EXCEPT ![sched[n].executor].load = @ + 1]
    BY <1>2, Zenon DEF Load, Try, IncrementExecutorLoad
  <2>. QED  BY <1>0, <2>1, <2>2 DEF ExecutorRow
<1>3. ASSUME NEW n \in Node, WriteJob(n) PROVE UNCHANGED executorNode
  <2>1. handler[n].job \notin DOMAIN executorNode
    BY <1>0, <1>3, JobAssumption DEF WriteJob, TypeOK, ThreadsOK, HandlerOK
  <2>. QED  BY <1>3, <2>1 DEF WriteJob, Account, HasExecutor
<1>4. ASSUME NEW f \in Executor, ExecutorChanges(f) PROVE Same
  <2>1. executorNode' = [executorNode EXCEPT ![f].online = ~executorNode[f].online]
    BY <1>4 DEF ExecutorChanges, UpdateExecutorStatus
  <2>. QED  BY <1>0, <2>1 DEF ExecutorRow
<1>5. ASSUME NEW n \in Node,
             \/ \E j \in Job : SubmitSave(n, j) \/ EditJob(n, j)
             \/ CancelWrite(n) \/ DeleteRow(n) \/ Save(n) \/ WriteRow(n)
      PROVE  UNCHANGED executorNode
  BY <1>5 DEF SubmitSave, EditJob, CancelWrite, DeleteRow, Save, WriteRow
<1>. QED  BY <1>1, <1>2, <1>3, <1>4, <1>5, TablesFrame DEF dbVars

\* No two processes dispatch at the same time: so with one process, and with
\* several as long as the role of the leader passes between two batches.
OneDispatcher ==
    \A n, m \in Node : sched[n].pc \in Dispatching /\ sched[m].pc \in Dispatching => n = m

\* The strengthening: an executor that was picked has room until it is booked.
RoomLeft ==
    \A n \in Node : sched[n].pc \in {"save", "load"} =>
        executorNode[sched[n].executor].load < MaxLoad

LEMMA LoadInductive ==
    ASSUME Strategy = "LEAST_LOAD", TypeOK, TypeOK', OneDispatcher, OneDispatcher',
           LoadWithinMax, RoomLeft, [Next]_vars
    PROVE  LoadWithinMax' /\ RoomLeft'
<1>0. /\ executorNode \in [Executor -> ExecutorRow] /\ SchedOK /\ SchedOK' /\ MaxLoad \in Nat
      /\ \A e \in Executor : executorNode[e].load \in Nat
  BY LimitAssumption DEF TypeOK, TablesOK, ThreadsOK, ExecutorRow
<1>1. LoadWithinMax'
  <2>. SUFFICES ASSUME NEW e \in Executor PROVE executorNode'[e].load <= MaxLoad
    BY DEF LoadWithinMax
  <2>1. CASE executorNode'[e].load = executorNode[e].load
    BY <2>1 DEF LoadWithinMax
  <2>2. ASSUME NEW n \in Node, Load(n), sched[n].executor = e,
               executorNode'[e].load = executorNode[e].load + 1
        PROVE  executorNode'[e].load <= MaxLoad
    <3>1. executorNode[e].load < MaxLoad
      BY <2>2 DEF RoomLeft, Load
    <3>. QED  BY <1>0, <2>2, <3>1
  <2>. QED  BY <2>1, <2>2, LoadFrame
<1>2. ASSUME NEW m \in Node, sched'[m].pc \in {"save", "load"}
      PROVE  executorNode'[sched'[m].executor].load < MaxLoad
  <2>. DEFINE e == sched'[m].executor
  <2>0. e \in Executor
    BY <1>0, <1>2 DEF SchedOK
  <2>1. \A n \in Node : ~Load(n)
    <3>. SUFFICES ASSUME NEW n \in Node, Load(n) PROVE FALSE
      OBVIOUS
    <3>1. sched'[n].pc = "send"
      BY <1>0 DEF Load, Goto, SchedOK, SchedState
    <3>2. n = m
      BY <1>2, <3>1 DEF OneDispatcher, Dispatching
    <3>. QED  BY <1>2, <3>1, <3>2
  <2>2. executorNode'[e].load = executorNode[e].load
    BY <2>0, <2>1, LoadFrame
  <2>3. CASE sched'[m] = sched[m]
    BY <1>2, <2>2, <2>3 DEF RoomLeft
  <2>4. CASE e \in Available(executorNode)
    <3>1. executorNode[e].load < MaxLoad
      BY <2>4 DEF Available
    <3>. QED  BY <2>2, <3>1
  <2>5. CASE Save(m) /\ sched'[m] = [sched[m] EXCEPT !.pc = "load"]
    <3>1. sched[m].pc = "save" /\ e = sched[m].executor
      BY <1>0, <2>5 DEF Save, SchedOK, SchedState
    <3>. QED  BY <2>2, <3>1 DEF RoomLeft
  <2>. QED  BY <1>2, <2>1, <2>3, <2>4, <2>5, DispatchFrame
<1>. QED  BY <1>1, <1>2 DEF RoomLeft

(* With LEAST_LOAD no executor is booked beyond max_load, with any number of *)
(* executors coming and going, failing calls and crashes, as long as no two  *)
(* processes dispatch at once: the load that dispatch_job looks at is the    *)
(* load that it raises two statements later.                                 *)
THEOREM LoadBounded ==
    ASSUME Strategy = "LEAST_LOAD"
    PROVE  Spec /\ []OneDispatcher => []LoadWithinMax
<1>1. Init => LoadWithinMax /\ RoomLeft
  BY LimitAssumption DEF Init, LoadWithinMax, RoomLeft, Stopped
<1>2. (/\ TypeOK /\ TypeOK' /\ OneDispatcher /\ OneDispatcher'
       /\ LoadWithinMax /\ RoomLeft /\ [Next]_vars) => LoadWithinMax' /\ RoomLeft'
  BY LoadInductive
<1>. QED  BY <1>1, <1>2, TypeCorrect, PTL DEF Spec

(* One process alone never books an executor beyond max_load.                *)
THEOREM LoadBoundedAlone ==
    ASSUME Strategy = "LEAST_LOAD", \A n, m \in Node : n = m
    PROVE  Spec => []LoadWithinMax
<1>1. OneDispatcher
  BY DEF OneDispatcher
<1>. QED  BY <1>1, LoadBounded, PTL
-----------------------------------------------------------------------------
(* Records                                                                  *)

LEMMA CountType ==
    ASSUME NEW S, NEW q \in Seq(S), NEW j
    PROVE  /\ IsFiniteSet({i \in DOMAIN q : q[i] = j})
           /\ Count(q, j) \in Nat
           /\ Count(q, j) = 0 <=> \A i \in DOMAIN q : q[i] # j
<1>. DEFINE At == {i \in DOMAIN q : q[i] = j}
<1>1. DOMAIN q = 1 .. Len(q) /\ Len(q) \in Nat
  BY LenProperties
<1>2. IsFiniteSet(1 .. Len(q)) /\ At \in SUBSET (1 .. Len(q))
  BY <1>1, FS_Interval
<1>3. IsFiniteSet(At)
  BY <1>2, FS_Subset
<1>. QED  BY <1>3, FS_CardinalityType, FS_EmptySet DEF Count

LEMMA CountAppend ==
    ASSUME NEW S, NEW q \in Seq(S), NEW k \in S, NEW j
    PROVE  Count(Append(q, k), j) = Count(q, j) + (IF k = j THEN 1 ELSE 0)
<1>. DEFINE r == Append(q, k)
            At == {i \in DOMAIN q : q[i] = j}
<1>1. /\ Len(q) \in Nat /\ DOMAIN q = 1 .. Len(q) /\ DOMAIN r = 1 .. Len(q) + 1
      /\ \A i \in 1 .. Len(q) : r[i] = q[i]
      /\ r[Len(q) + 1] = k
  BY AppendProperties, LenProperties
<1>2. {i \in DOMAIN r : r[i] = j} = IF k = j THEN At \cup {Len(q) + 1} ELSE At
  BY <1>1
<1>3. Len(q) + 1 \notin At
  BY <1>1
<1>4. IsFiniteSet(At) /\ Count(q, j) = Cardinality(At) /\ Count(q, j) \in Nat
  BY CountType DEF Count
<1>5. Cardinality(At \cup {Len(q) + 1}) = Cardinality(At) + 1
  BY <1>3, <1>4, FS_AddElement
<1>6. Count(r, j) = Cardinality(IF k = j THEN At \cup {Len(q) + 1} ELSE At)
  BY <1>2 DEF Count
<1>. QED  BY <1>4, <1>5, <1>6

\* The processes that have recorded an execution of the job and not sent it yet.
Holders(j) == {n \in Node : sched[n].pc \in {"load", "send"} /\ sched[n].job = j}

LEMMA HoldersFinite == \A j : IsFiniteSet(Holders(j)) /\ Cardinality(Holders(j)) \in Nat
BY NodeAssumption, FS_Subset, FS_CardinalityType DEF Holders

LEMMA HoldersFrame ==
    ASSUME TypeOK, [Next]_vars, NEW j
    PROVE  /\ (\A n \in Node : ~Save(n)) => Holders(j)' \subseteq Holders(j)
           /\ \A n \in Node : Save(n) =>
                 Holders(j)' = IF sched[n].job = j THEN Holders(j) \cup {n} ELSE Holders(j)
           /\ \A n \in Node : Send(n) =>
                 /\ Holders(j)' = Holders(j) \ {n}
                 /\ sched[n].job = j <=> n \in Holders(j)
<1>0. sched \in [Node -> SchedState]
  BY DEF TypeOK, ThreadsOK, SchedOK
<1>1. ASSUME \A n \in Node : ~Save(n) PROVE Holders(j)' \subseteq Holders(j)
  <2>. SUFFICES ASSUME NEW m \in Holders(j)' PROVE m \in Holders(j)
    OBVIOUS
  <2>1. m \in Node /\ sched'[m].pc \in {"load", "send"} /\ sched'[m].job = j
    BY DEF Holders
  <2>2. CASE sched'[m] = sched[m]
    BY <2>1, <2>2 DEF Holders
  <2>3. CASE Load(m) /\ sched'[m] = [sched[m] EXCEPT !.pc = "send"]
    BY <1>0, <2>1, <2>3 DEF Load, SchedState, Holders
  <2>. QED  BY <1>1, <2>1, <2>2, <2>3, DispatchFrame
<1>2. ASSUME NEW n \in Node, Save(n)
      PROVE  Holders(j)' = IF sched[n].job = j THEN Holders(j) \cup {n} ELSE Holders(j)
  <2>1. sched[n].pc = "save" /\ sched' = [sched EXCEPT ![n] = [sched[n] EXCEPT !.pc = "load"]]
    BY <1>0, <1>2 DEF Save, Goto
  <2>2. sched'[n].pc = "load" /\ sched'[n].job = sched[n].job
    BY <1>0, <2>1 DEF SchedState
  <2>3. \A m \in Node \ {n} : sched'[m] = sched[m]
    BY <1>0, <2>1
  <2>. QED  BY <2>1, <2>2, <2>3 DEF Holders
<1>3. ASSUME NEW n \in Node, Send(n)
      PROVE  /\ Holders(j)' = Holders(j) \ {n}
             /\ sched[n].job = j <=> n \in Holders(j)
  <2>1. sched[n].pc = "send" /\ sched' = [sched EXCEPT ![n] = [Stopped EXCEPT !.pc = "drain"]]
    BY <1>3 DEF Send
  <2>2. sched'[n].pc = "drain" /\ \A m \in Node \ {n} : sched'[m] = sched[m]
    BY <1>0, <2>1 DEF Stopped
  <2>. QED  BY <2>1, <2>2 DEF Holders
<1>. QED  BY <1>1, <1>2, <1>3

LEMMA TriggerTimeType ==
    ASSUME TypeOK, NEW j \in Job
    PROVE  TriggerTimes(jobExecution[j]) \subseteq Nat
<1>1. jobExecution[j] \in Seq(ExecutionRow)
  BY DEF TypeOK, TablesOK
<1>2. CASE jobExecution[j] = <<>>
  BY <1>2 DEF TriggerTimes
<1>3. CASE jobExecution[j] # <<>>
  <2>1. jobExecution[j][Len(jobExecution[j])] \in ExecutionRow
    BY <1>1, <1>3, EmptySeq, LenProperties, ElementOfSeq
  <2>. QED  BY <1>3, <2>1 DEF TriggerTimes, ExecutionRow
<1>. QED  BY <1>2, <1>3

\* What a step does to the executions of a job that stays on record.
LEMMA ExecutionsFrame ==
    ASSUME TypeOK, [Next]_vars, NEW j \in Job, Exists(jobInfo, j), Exists(jobInfo', j)
    PROVE  \/ jobExecution'[j] = jobExecution[j]
           \/ \E n \in Node : /\ Save(n) /\ sched[n].job = j
                             /\ \E row \in ExecutionRow : jobExecution'[j] = Append(jobExecution[j], row)
           \/ \E n \in Node : /\ WriteRow(n) /\ handler[n].job = j
                             /\ jobExecution'
                                  = UpdateExecutionResult(jobExecution, j, handler[n].row, handler[n].status)
<1>. DEFINE Same == jobExecution'[j] = jobExecution[j]
<1>0. /\ jobInfo \in [Job -> Nat \cup {NoRow}]
      /\ jobExecution \in [Job -> Seq(ExecutionRow)]
  BY DEF TypeOK, TablesOK
<1>1. CASE UNCHANGED jobExecution
  BY <1>1
<1>2. ASSUME NEW n \in Node, DeleteRow(n) PROVE Same
  <2>1. \/ /\ jobInfo' = [jobInfo EXCEPT ![api[n].job] = NoRow]
           /\ jobExecution' = [jobExecution EXCEPT ![api[n].job] = <<>>]
        \/ UNCHANGED jobExecution
    BY <1>2, Zenon DEF DeleteRow, Try, DeleteJob, CascadeDelete
  <2>2. jobInfo' = [jobInfo EXCEPT ![api[n].job] = NoRow] => api[n].job # j
    BY <1>0 DEF Exists
  <2>. QED  BY <1>0, <2>1, <2>2
<1>3. ASSUME NEW n \in Node, Save(n)
      PROVE  \/ Same
             \/ /\ sched[n].job = j
                /\ \E row \in ExecutionRow : jobExecution'[j] = Append(jobExecution[j], row)
  <2>. DEFINE k == sched[n].job
              row(t) == [executor |-> sched[n].executor, status |-> "WAITING", trig |-> t]
  <2>1. k \in Job /\ sched[n].executor \in Executor
    BY <1>3 DEF Save, TypeOK, ThreadsOK, SchedOK, Dispatching
  <2>2. \/ jobExecution' = jobExecution
        \/ \E t \in TriggerTimes(jobExecution[k]) :
              jobExecution' = SaveExecution(jobInfo, jobExecution, k, sched[n].executor, t)
    BY <1>3 DEF Save, Try
  <2>3. ASSUME NEW t \in TriggerTimes(jobExecution[k]),
               jobExecution' = SaveExecution(jobInfo, jobExecution, k, sched[n].executor, t)
        PROVE  \/ Same
               \/ k = j /\ row(t) \in ExecutionRow /\ jobExecution'[j] = Append(jobExecution[j], row(t))
    <3>1. CASE ~Exists(jobInfo, k)
      BY <2>3, <3>1 DEF SaveExecution
    <3>2. CASE Exists(jobInfo, k)
      <4>1. jobExecution' = [jobExecution EXCEPT ![k] = Append(@, row(t))]
        BY <2>3, <3>2 DEF SaveExecution
      <4>2. row(t) \in ExecutionRow
        BY <2>1, TriggerTimeType DEF TypeOK, ExecutionRow, ExecStatus
      <4>. QED  BY <1>0, <2>1, <4>1, <4>2
    <3>. QED  BY <3>1, <3>2
  <2>. QED  BY <2>2, <2>3
<1>4. ASSUME NEW n \in Node, WriteRow(n)
      PROVE  \/ Same
             \/ /\ handler[n].job = j
                /\ jobExecution' = UpdateExecutionResult(jobExecution, j, handler[n].row, handler[n].status)
  <2>1. \/ jobExecution' = UpdateExecutionResult(jobExecution, handler[n].job, handler[n].row, handler[n].status)
        \/ jobExecution' = jobExecution
    BY <1>4, Zenon DEF WriteRow, Try
  <2>2. CASE handler[n].job = j
    BY <2>1, <2>2
  <2>3. CASE handler[n].job # j
    BY <1>0, <2>1, <2>3 DEF UpdateExecutionResult
  <2>. QED  BY <2>2, <2>3
<1>5. ASSUME NEW n \in Node,
             \/ \E k \in Job : SubmitSave(n, k) \/ EditJob(n, k)
             \/ CancelWrite(n) \/ Load(n) \/ WriteJob(n)
      PROVE  UNCHANGED jobExecution
  BY <1>5 DEF SubmitSave, EditJob, CancelWrite, Load, WriteJob
<1>6. ASSUME NEW e \in Executor, ExecutorChanges(e) PROVE UNCHANGED jobExecution
  BY <1>6 DEF ExecutorChanges
<1>. QED  BY <1>1, <1>2, <1>3, <1>4, <1>5, <1>6, TablesFrame DEF dbVars


\* The strengthening: a process that has an execution on record has not sent it.
RecordedInv ==
    \A j \in Job : Exists(jobInfo, j) =>
        Count(submitTopic, j) + Cardinality(Holders(j)) <= Len(jobExecution[j]) + Spent("fault")

\* An execution that is not recorded, or not sent, costs a fault.
LEMMA SaveOrFault ==
    ASSUME TypeOK, [Next]_vars, NEW n \in Node, Save(n), Exists(jobInfo, sched[n].job)
    PROVE  \/ /\ Spent("fault")' = Spent("fault") + 1
              /\ jobExecution' = jobExecution
           \/ \E row \in ExecutionRow :
                jobExecution'[sched[n].job] = Append(jobExecution[sched[n].job], row)
<1>. DEFINE j == sched[n].job
            row(t) == [executor |-> sched[n].executor, status |-> "WAITING", trig |-> t]
<1>0. /\ j \in Job /\ sched[n].executor \in Executor
      /\ jobExecution \in [Job -> Seq(ExecutionRow)]
  BY DEF Save, TypeOK, TablesOK, ThreadsOK, SchedOK, Dispatching
<1>1. CASE Fault /\ UNCHANGED jobExecution
  BY <1>1, SpentGrows DEF Fault, Kinds
<1>2. CASE \E t \in TriggerTimes(jobExecution[j]) :
             jobExecution' = SaveExecution(jobInfo, jobExecution, j, sched[n].executor, t)
  <2>1. PICK t \in TriggerTimes(jobExecution[j]) :
             jobExecution' = SaveExecution(jobInfo, jobExecution, j, sched[n].executor, t)
    BY <1>2
  <2>2. jobExecution' = [jobExecution EXCEPT ![j] = Append(@, row(t))]
    BY <2>1 DEF SaveExecution
  <2>3. row(t) \in ExecutionRow
    BY <1>0, TriggerTimeType DEF ExecutionRow, ExecStatus
  <2>. QED  BY <1>0, <2>2, <2>3
<1>. QED  BY <1>1, <1>2 DEF Save, Try

LEMMA RecordedNew ==
    ASSUME TypeOK, TypeOK', KnownInv, [Next]_vars,
           NEW j \in Job, ~Exists(jobInfo, j), Exists(jobInfo', j)
    PROVE  Count(submitTopic', j) = 0 /\ Cardinality(Holders(j)') = 0
<1>1. j \notin issued
  BY RowsAppear
<1>2. UNCHANGED submitTopic
  BY TopicsGrow DEF Send, dbVars
<1>3. Count(submitTopic, j) = 0
  BY <1>1, CountType DEF KnownInv, SentKnown, Sent, TypeOK, TopicsOK
<1>4. \A m \in Node : sched[m].pc \in Dispatching => sched[m].job # j
  BY <1>1 DEF KnownInv, SchedKnown
<1>5. Holders(j) = {} /\ \A n \in Node : ~Save(n)
  <2>1. \A n \in Node : ~Save(n)
    BY DEF Save
  <2>. QED  BY <1>4, <2>1 DEF Holders, Dispatching
<1>6. Holders(j)' = {}
  BY <1>5, HoldersFrame
<1>. QED  BY <1>2, <1>3, <1>6, FS_EmptySet

LEMMA RecordedInductive ==
    ASSUME TypeOK, TypeOK', KnownInv, RecordedInv, [Next]_vars
    PROVE  RecordedInv'
<1>. SUFFICES ASSUME NEW j \in Job, Exists(jobInfo', j)
              PROVE  Count(submitTopic', j) + Cardinality(Holders(j)')
                        <= Len(jobExecution'[j]) + Spent("fault")'
  BY DEF RecordedInv
<1>. DEFINE c == Count(submitTopic, j)
            d == Count(submitTopic', j)
            h == Cardinality(Holders(j))
            i == Cardinality(Holders(j)')
            l == Len(jobExecution[j])
            m == Len(jobExecution'[j])
            f == Spent("fault")
            g == Spent("fault")'
<1>0. /\ submitTopic \in Seq(Job) /\ submitTopic' \in Seq(Job)
      /\ jobExecution \in [Job -> Seq(ExecutionRow)]
      /\ jobExecution[j] \in Seq(ExecutionRow) /\ jobExecution'[j] \in Seq(ExecutionRow)
  BY DEF TypeOK, TablesOK, TopicsOK
<1>1. /\ c \in Nat /\ d \in Nat /\ h \in Nat /\ l \in Nat /\ m \in Nat
      /\ f \in Nat /\ g \in Nat /\ g >= f
  BY <1>0, CountType, HoldersFinite, LenProperties, SpentGrows DEF Kinds
<1>2. ASSUME NEW row \in ExecutionRow, jobExecution'[j] = Append(jobExecution[j], row)
      PROVE  m = l + 1
  BY <1>0, <1>2, AppendProperties
<1>3. CASE ~Exists(jobInfo, j)
  <2>1. d = 0 /\ i = 0
    BY <1>3, RecordedNew
  <2>. QED  BY <1>1, <2>1
<1>4. CASE Exists(jobInfo, j)
  <2>0. c + h <= l + f
    BY <1>4 DEF RecordedInv
  <2>1. ASSUME NEW n \in Node, Save(n) PROVE d + i <= m + g
    <3>1. d = c
      BY <2>1 DEF Save, topicVars
    <3>2. CASE sched[n].job = j
      <4>1. i \in Nat /\ i <= h + 1
        <5>1. Holders(j)' = Holders(j) \cup {n}
          BY <2>1, <3>2, HoldersFrame
        <5>2. Cardinality(Holders(j) \cup {n}) \in {h, h + 1}
          BY HoldersFinite, FS_AddElement
        <5>. QED  BY <1>1, <5>1, <5>2
      <4>2. (g = f + 1 /\ m = l) \/ m = l + 1
        BY <1>2, <1>4, <2>1, <3>2, SaveOrFault
      <4>. QED  BY <1>1, <2>0, <3>1, <4>1, <4>2
    <3>3. CASE sched[n].job # j
      <4>1. i = h
        BY <2>1, <3>3, HoldersFrame
      <4>2. m = l
        BY <1>0, <2>1, <3>3 DEF Save, Try, SaveExecution
      <4>. QED  BY <1>1, <2>0, <3>1, <4>1, <4>2
    <3>. QED  BY <3>2, <3>3
  <2>2. CASE \A n \in Node : ~Save(n)
    <3>1. m = l
      <4>1. ASSUME NEW n \in Node,
                   jobExecution' = UpdateExecutionResult(jobExecution, j, handler[n].row, handler[n].status)
            PROVE  m = l
        <5>1. DOMAIN jobExecution'[j] = DOMAIN jobExecution[j]
          BY <1>0, <4>1 DEF UpdateExecutionResult
        <5>. QED  BY <1>0, <1>1, <5>1, LenProperties
      <4>. QED  BY <1>4, <2>2, <4>1, ExecutionsFrame
    <3>2. Holders(j)' \subseteq Holders(j) /\ IsFiniteSet(Holders(j))
      BY <2>2, HoldersFrame, HoldersFinite
    <3>3. i \in Nat /\ i <= h
      BY <3>2, FS_Subset, FS_CardinalityType
    <3>4. ASSUME NEW n \in Node, Send(n) PROVE d + i <= m + g
      <4>0. sched[n].job \in Job
        BY <3>4 DEF Send, TypeOK, ThreadsOK, SchedOK, Dispatching
      <4>1. \/ submitTopic' = Append(submitTopic, sched[n].job)
            \/ g = f + 1 /\ submitTopic' = submitTopic
        BY <3>4, SpentGrows DEF Send, Try, Fault, Kinds
      <4>2. Count(Append(submitTopic, sched[n].job), j) = c + (IF sched[n].job = j THEN 1 ELSE 0)
        BY <1>0, <4>0, CountAppend
      <4>3. sched[n].job = j => i = h - 1
        BY <3>2, <3>4, HoldersFrame, FS_RemoveElement
      <4>4. \/ d = c + (IF sched[n].job = j THEN 1 ELSE 0)
            \/ (g = f + 1) /\ (d = c)
        BY <4>1, <4>2
      <4>. HIDE DEF c, d, h, i, l, m, f, g
      <4>. QED  BY <1>1, <2>0, <3>1, <3>3, <4>3, <4>4
    <3>5. CASE \A n \in Node : ~Send(n)
      <4>1. d = c
        BY <3>5, TopicsGrow
      <4>. QED  BY <1>1, <2>0, <3>1, <3>3, <4>1
    <3>. QED  BY <3>4, <3>5
  <2>. QED  BY <2>1, <2>2
<1>. QED  BY <1>3, <1>4

(* A job is on record before it is sent, whoever sends it and whatever fails *)
(* or crashes: dispatch_job saves the execution two calls before it sends    *)
(* the message, and each of them may fail on its own.                        *)
THEOREM Recorded == Spec => []RecordedBeforeSent
<1>1. Init => RecordedInv
  BY DEF Init, RecordedInv, Exists
<1>2. TypeOK /\ RecordedInv => RecordedBeforeSent
  <2>. SUFFICES ASSUME TypeOK, RecordedInv, NEW j \in Job, Exists(jobInfo, j)
                PROVE  Count(submitTopic, j) <= Len(jobExecution[j]) + Spent("fault")
    BY DEF RecordedBeforeSent, Rows, TypeOK, TablesOK
  <2>1. submitTopic \in Seq(Job) /\ jobExecution[j] \in Seq(ExecutionRow)
    BY DEF TypeOK, TopicsOK, TablesOK
  <2>2. /\ Count(submitTopic, j) \in Nat /\ Len(jobExecution[j]) \in Nat
        /\ Cardinality(Holders(j)) \in Nat
    BY <2>1, CountType, HoldersFinite, LenProperties
  <2>3. Spent("fault") \in Nat
    BY LimitAssumption DEF TypeOK, BudgetOK, Spent, Kinds
  <2>. QED  BY <2>2, <2>3 DEF RecordedInv
<1>3. Init => KnownInv
  BY KnownInit
<1>. QED  BY <1>1, <1>2, <1>3, RecordedInductive, KnownInvInductive, TypeCorrect, PTL DEF Spec

-----------------------------------------------------------------------------
(* Results                                                                  *)

\* Every result is of a job that was sent.
ReportsSent == \A k \in DOMAIN resultTopic : resultTopic[k].job \in Sent

\* handle_result writes to an execution that is there, if the job still is.
RowFound ==
    \A n \in Node : handler[n].pc = "row" /\ Exists(jobInfo, handler[n].job) =>
        handler[n].row \in DOMAIN jobExecution[handler[n].job]

\* The strengthening of ResultRecorded.
ResultInv == committed <= offset /\ ReportsSent /\ RowFound /\ ResultRecorded

LEMMA OffsetFrame ==
    ASSUME TypeOK, committed <= offset, [Next]_vars
    PROVE  /\ committed' <= offset'
           /\ offset' <= offset \/ \E n \in Node : Receive(n)
<1>0. offset \in Nat /\ committed \in Nat
  BY DEF TypeOK, TopicsOK
<1>1. CASE UNCHANGED <<offset, committed>>
  BY <1>0, <1>1
<1>2. ASSUME NEW n \in Node, CancelQueue(n) \/ Send(n) \/ Crash(n)
      PROVE  UNCHANGED <<offset, committed>>
  BY <1>2 DEF CancelQueue, Send, Crash
<1>3. ASSUME NEW n \in Node, Receive(n) PROVE committed' <= offset'
  BY <1>0, <1>3 DEF Receive
<1>4. ASSUME NEW n \in Node, StopConsume(n) \/ Assign(n)
      PROVE  committed' <= offset' /\ offset' <= offset
  BY <1>0, <1>4 DEF StopConsume, Assign
<1>5. CASE CommitOffset
  BY <1>0, <1>5 DEF CommitOffset
<1>6. ASSUME \E j \in Job, status \in Terminal : ExecutorReports(j, status)
      PROVE  UNCHANGED <<offset, committed>>
  BY <1>6 DEF ExecutorReports
<1>. QED  BY <1>1, <1>2, <1>3, <1>4, <1>5, <1>6, TopicsFrame DEF topicVars

\* What a step does to the results sent so far.
LEMMA ResultsFrame ==
    ASSUME TypeOK, [Next]_vars
    PROVE  /\ Sent \subseteq Sent'
           /\ \A k \in DOMAIN resultTopic : /\ k \in DOMAIN resultTopic'
                                            /\ resultTopic'[k] = resultTopic[k]
           /\ \A k \in DOMAIN resultTopic' :
                 k \in DOMAIN resultTopic \/ resultTopic'[k].job \in Sent
<1>0. submitTopic \in Seq(Job) /\ resultTopic \in Seq(Result)
  BY DEF TypeOK, TopicsOK
<1>1. Sent \subseteq Sent'
  BY TopicsGrow DEF Sent
<1>2. ASSUME NEW j \in Job, NEW status \in Terminal, ExecutorReports(j, status)
      PROVE  /\ \A k \in DOMAIN resultTopic : /\ k \in DOMAIN resultTopic'
                                              /\ resultTopic'[k] = resultTopic[k]
             /\ \A k \in DOMAIN resultTopic' :
                   k \in DOMAIN resultTopic \/ resultTopic'[k].job \in Sent
  <2>. DEFINE r == [job |-> j, status |-> status]
  <2>1. r \in Result /\ r.job = j /\ resultTopic' = Append(resultTopic, r)
    BY <1>2 DEF ExecutorReports, Result
  <2>2. j \in Sent
    <3>1. Count(submitTopic, j) # 0
      BY <1>2 DEF ExecutorReports
    <3>2. PICK i \in DOMAIN submitTopic : submitTopic[i] = j
      BY <1>0, <3>1, CountType
    <3>. QED  BY <3>2 DEF Sent
  <2>. HIDE DEF r
  <2>3. /\ Len(resultTopic) \in Nat /\ DOMAIN resultTopic = 1 .. Len(resultTopic)
        /\ DOMAIN resultTopic' = 1 .. Len(resultTopic) + 1
        /\ \A k \in 1 .. Len(resultTopic) : resultTopic'[k] = resultTopic[k]
        /\ resultTopic'[Len(resultTopic) + 1] = r
    BY <1>0, <2>1, AppendProperties, LenProperties
  <2>. QED  BY <2>1, <2>2, <2>3
<1>. QED  BY <1>1, <1>2, TopicsGrow

\* How the handler of a process comes to write a row, and what becomes of it.
LEMMA HandlerFrame ==
    ASSUME TypeOK, [Next]_vars, NEW n \in Node
    PROVE  \/ handler'[n] = handler[n]
           \/ WriteRow(n) /\ handler'[n].pc # "row"
           \/ Crash(n) /\ handler'[n].pc # "row"
           \/ handler[n].pc # "row" /\ handler'[n].pc # "row"
           \/ /\ Receive(n) /\ handler[n].pc # "row"
              /\ handler'[n].job = resultTopic[offset + 1].job
              /\ handler'[n].row \in LatestExecutions(jobExecution[handler'[n].job])
<1>0. handler \in [Node -> HandlerState]
  BY DEF TypeOK, ThreadsOK, HandlerOK
<1>1. ASSUME NEW m \in Node, Handle(m), m # n PROVE handler'[n] = handler[n]
  BY <1>0, <1>1 DEF Handle, Receive, WriteRow, WriteJob
<1>2. CASE Receive(n)
  <2>. DEFINE r == resultTopic[offset + 1]
              h(i) == [pc |-> "row", job |-> r.job, row |-> i, status |-> r.status, rev |-> 0]
  <2>1. \/ \E i \in LatestExecutions(jobExecution[r.job]) : handler' = [handler EXCEPT ![n] = h(i)]
        \/ handler' = handler
    BY <1>2, Zenon DEF Receive
  <2>2. \A i : h(i).job = r.job /\ h(i).row = i
    OBVIOUS
  <2>3. handler[n].pc # "row"
    BY <1>2 DEF Receive, IdleHandle
  <2>. HIDE DEF h, r
  <2>4. CASE handler' = handler
    BY <2>4
  <2>5. ASSUME NEW i \in LatestExecutions(jobExecution[r.job]), handler' = [handler EXCEPT ![n] = h(i)]
        PROVE  /\ handler'[n].job = r.job
               /\ handler'[n].row \in LatestExecutions(jobExecution[handler'[n].job])
    BY <1>0, <2>2, <2>5
  <2>. QED  BY <1>2, <2>1, <2>3, <2>4, <2>5 DEF r
<1>3. CASE WriteRow(n)
  <2>. DEFINE h == [handler[n] EXCEPT !.pc = "job", !.rev = jobInfo[handler[n].job]]
  <2>1. handler' = [handler EXCEPT ![n] = h] \/ handler' = [handler EXCEPT ![n] = IdleHandle]
    BY <1>3, Zenon DEF WriteRow
  <2>2. h.pc # "row" /\ IdleHandle.pc # "row"
    BY <1>0 DEF HandlerState, IdleHandle
  <2>. HIDE DEF h
  <2>. QED  BY <1>0, <1>3, <2>1, <2>2
<1>4. CASE WriteJob(n)
  BY <1>0, <1>4 DEF WriteJob, IdleHandle
<1>5. ASSUME NEW m \in Node, Schedule(m) \/ Request(m) PROVE UNCHANGED handler
  BY <1>5 DEF Schedule, Fetch, Push, DrainEnds, Skip, Take, Pick, Save, Load, Send, Terminate,
              Request, SubmitSave, CancelGet, EditJob, SubmitPush, CancelQueue, CancelWrite,
              DeleteRow, nodeVars
<1>6. ASSUME NEW m \in Node, Process(m)
      PROVE  \/ UNCHANGED handler
             \/ Crash(m) /\ handler' = [handler EXCEPT ![m] = IdleHandle]
  BY <1>6 DEF Process, Start, Serve, Signal, Stop, StopConsume, Crash, Elect, StepDown, Assign, nodeVars
<1>7. ASSUME NEW m \in Node, Crash(m), handler' = [handler EXCEPT ![m] = IdleHandle]
      PROVE  handler'[n] = handler[n] \/ (Crash(n) /\ handler'[n].pc # "row")
  BY <1>0, <1>7 DEF IdleHandle
<1>8. ASSUME \/ CommitOffset
             \/ \E j \in Job, status \in Terminal : ExecutorReports(j, status)
             \/ \E e \in Executor : ExecutorChanges(e)
             \/ UNCHANGED vars
      PROVE  UNCHANGED handler
  BY <1>8 DEF CommitOffset, ExecutorReports, ExecutorChanges, vars, nodeVars
<1>9. ASSUME Handle(n) PROVE Receive(n) \/ WriteRow(n) \/ WriteJob(n)
  BY <1>9 DEF Handle
<1>. QED  BY <1>1, <1>2, <1>3, <1>4, <1>5, <1>6, <1>7, <1>8, <1>9 DEF Next

\* A job that was reported of is no new job.
LEMMA ReportedStays ==
    ASSUME TypeOK, KnownInv, [Next]_vars, NEW j \in Job, j \in Sent, Exists(jobInfo', j)
    PROVE  Exists(jobInfo, j)
BY RowsAppear DEF KnownInv, SentKnown

\* updateExecutionResult sets the status of one row and leaves the others alone.
LEMMA UpdatedRow ==
    ASSUME TypeOK, NEW j \in Job, NEW i, NEW status, NEW k \in DOMAIN jobExecution[j],
           NEW execs, execs = UpdateExecutionResult(jobExecution, j, i, status)
    PROVE  /\ k \in DOMAIN execs[j]
           /\ execs[j][k].status = IF k = i THEN status ELSE jobExecution[j][k].status
<1>. DEFINE rows == jobExecution[j]
            row  == [rows[i] EXCEPT !.status = status]
<1>0. /\ jobExecution \in [Job -> Seq(ExecutionRow)] /\ rows \in Seq(ExecutionRow)
      /\ \A m \in DOMAIN rows : rows[m] \in ExecutionRow
  BY LenProperties, ElementOfSeq DEF TypeOK, TablesOK
<1>1. CASE i \notin DOMAIN rows
  BY <1>1 DEF UpdateExecutionResult
<1>2. CASE i \in DOMAIN rows
  <2>1. execs = [jobExecution EXCEPT ![j] = [rows EXCEPT ![i] = row]]
    BY <1>2, Zenon DEF UpdateExecutionResult
  <2>2. row.status = status
    BY <1>0, <1>2 DEF ExecutionRow
  <2>. HIDE DEF row
  <2>3. /\ DOMAIN execs[j] = DOMAIN rows
        /\ execs[j][k] = IF k = i THEN row ELSE rows[k]
    BY <1>0, <1>2, <2>1
  <2>. QED  BY <2>2, <2>3
<1>. QED  BY <1>1, <1>2

LEMMA RowsStay ==
    ASSUME TypeOK, [Next]_vars, NEW j \in Job, Exists(jobInfo, j), Exists(jobInfo', j),
           NEW i \in DOMAIN jobExecution[j]
    PROVE  /\ i \in DOMAIN jobExecution'[j]
           /\ jobExecution[j][i].status \in Terminal => jobExecution'[j][i].status \in Terminal
<1>0. jobExecution \in [Job -> Seq(ExecutionRow)] /\ jobExecution[j] \in Seq(ExecutionRow)
  BY DEF TypeOK, TablesOK
<1>1. CASE jobExecution'[j] = jobExecution[j]
  BY <1>1
<1>2. ASSUME NEW row \in ExecutionRow, jobExecution'[j] = Append(jobExecution[j], row)
      PROVE  i \in DOMAIN jobExecution'[j] /\ jobExecution'[j][i] = jobExecution[j][i]
  BY <1>0, <1>2, AppendProperties, LenProperties
<1>3. ASSUME NEW n \in Node, WriteRow(n), handler[n].job = j,
             jobExecution' = UpdateExecutionResult(jobExecution, j, handler[n].row, handler[n].status)
      PROVE  /\ i \in DOMAIN jobExecution'[j]
             /\ jobExecution[j][i].status \in Terminal => jobExecution'[j][i].status \in Terminal
  <2>1. handler[n].status \in Terminal
    BY DEF TypeOK, ThreadsOK, HandlerOK, HandlerState
  <2>. QED  BY <1>0, <1>3, <2>1, UpdatedRow
<1>. QED  BY <1>1, <1>2, <1>3, ExecutionsFrame


\* Nothing has failed after a step only if nothing had before, nor does now.
LEMMA NothingFailed ==
    ASSUME TypeOK, [Next]_vars, ~(Spent("fault")' + Spent("crash")' > 0)
    PROVE  ~(Spent("fault") + Spent("crash") > 0) /\ ~Fault /\ \A n \in Node : ~Crash(n)
<1>1. \A kind \in {"fault", "crash"} :
         /\ Spent(kind) \in Nat /\ Spent(kind)' \in Nat /\ Spent(kind)' >= Spent(kind)
         /\ Spend(kind) => Spent(kind)' = Spent(kind) + 1
  BY SpentGrows DEF Kinds
<1>2. ~Spend("fault") /\ ~Spend("crash")
  BY <1>1
<1>. QED  BY <1>1, <1>2 DEF Fault, Crash

LEMMA RowStaysFound ==
    ASSUME TypeOK, TypeOK', KnownInv, ReportsSent, RowFound, [Next]_vars
    PROVE  RowFound'
<1>. SUFFICES ASSUME NEW n \in Node, handler'[n].pc = "row", Exists(jobInfo', handler'[n].job)
              PROVE  handler'[n].row \in DOMAIN jobExecution'[handler'[n].job]
  BY DEF RowFound
<1>. DEFINE j == handler'[n].job
<1>0. j \in Job
  BY DEF TypeOK, ThreadsOK, HandlerOK
<1>1. CASE handler'[n] = handler[n]
  <2>1. <<j, handler[n].status>> \in Reports
    BY <1>1 DEF KnownInv, HandlerReported
  <2>2. j \in Sent
    BY <2>1 DEF Reports, ReportsSent
  <2>3. Exists(jobInfo, j)
    BY <1>0, <2>2, ReportedStays
  <2>4. handler[n].row \in DOMAIN jobExecution[j]
    BY <1>1, <2>3 DEF RowFound
  <2>. QED  BY <1>0, <1>1, <2>3, <2>4, RowsStay
<1>2. CASE Receive(n) /\ handler'[n].row \in LatestExecutions(jobExecution[j])
  BY <1>2 DEF Receive, dbVars, LatestExecutions
<1>. QED  BY <1>1, <1>2, HandlerFrame

\* The result that is handed over finds an execution: its job was sent, and
\* recorded before.
LEMMA ReceivedIsRecorded ==
    ASSUME TypeOK, RecordedInv, ReportsSent, NEW n \in Node, Receive(n),
           ~(Spent("fault") + Spent("crash") > 0), ~Fault,
           NEW j \in Job, j = resultTopic[offset + 1].job, Exists(jobInfo, j)
    PROVE  handler'[n].job = j /\ handler'[n].pc = "row"
<1>0. /\ submitTopic \in Seq(Job) /\ jobExecution[j] \in Seq(ExecutionRow)
      /\ offset \in Nat /\ resultTopic \in Seq(Result)
      /\ handler \in [Node -> HandlerState]
  BY DEF TypeOK, TablesOK, TopicsOK, ThreadsOK, HandlerOK
<1>1. offset + 1 \in DOMAIN resultTopic
  BY <1>0, LenProperties DEF Receive
<1>2. j \in Sent
  BY <1>1 DEF ReportsSent
<1>3. Count(submitTopic, j) \in Nat /\ Count(submitTopic, j) # 0
  BY <1>0, <1>2, CountType DEF Sent
<1>4. Spent("fault") = 0
  BY LimitAssumption DEF TypeOK, BudgetOK, Spent, Kinds
<1>5. Cardinality(Holders(j)) \in Nat /\ Len(jobExecution[j]) \in Nat
  BY <1>0, HoldersFinite, LenProperties
<1>6. Len(jobExecution[j]) # 0
  BY <1>3, <1>4, <1>5 DEF RecordedInv
<1>7. jobExecution[j] # <<>>
  BY <1>0, <1>6, EmptySeq
<1>. DEFINE h(i) == [pc |-> "row", job |-> j, row |-> i, status |-> resultTopic[offset + 1].status, rev |-> 0]
<1>8. PICK i : handler' = [handler EXCEPT ![n] = h(i)]
  BY <1>7, Zenon DEF Receive
<1>9. h(i).job = j /\ h(i).pc = "row"
  OBVIOUS
<1>. HIDE DEF h
<1>. QED  BY <1>0, <1>8, <1>9

LEMMA ResultStaysRecorded ==
    ASSUME TypeOK, TypeOK', KnownInv, RecordedInv, ResultInv, [Next]_vars
    PROVE  ResultRecorded'
<1>. SUFFICES ASSUME NEW k \in 1 .. offset', NEW j, j = resultTopic'[k].job,
                     ~(Spent("fault")' + Spent("crash")' > 0), Exists(jobInfo', j)
              PROVE  \/ \E i \in DOMAIN jobExecution'[j] : jobExecution'[j][i].status \in Terminal
                     \/ \E n \in Node : handler'[n].job = j /\ handler'[n].pc = "row"
  BY DEF ResultRecorded
<1>. DEFINE Recorded1 == \E i \in DOMAIN jobExecution'[j] : jobExecution'[j][i].status \in Terminal
<1>0. /\ offset \in Nat /\ offset <= Len(resultTopic) /\ Len(resultTopic) \in Nat
      /\ offset' \in Nat
      /\ DOMAIN resultTopic = 1 .. Len(resultTopic)
      /\ \A i \in DOMAIN resultTopic : resultTopic[i] \in Result
  BY LenProperties, ElementOfSeq DEF TypeOK, TopicsOK
<1>1. /\ ~(Spent("fault") + Spent("crash") > 0) /\ ~Fault
      /\ \A n \in Node : ~Crash(n)
  BY NothingFailed
<1>2. k <= offset \/ (k = offset + 1 /\ k \in DOMAIN resultTopic /\ \E n \in Node : Receive(n))
  <2>1. ASSUME NEW n \in Node, Receive(n) PROVE offset' = offset + 1 /\ offset < Len(resultTopic)
    BY <2>1 DEF Receive
  <2>2. offset' <= offset \/ \E n \in Node : Receive(n)
    BY OffsetFrame DEF ResultInv
  <2>. QED  BY <1>0, <2>1, <2>2
<1>3. k \in DOMAIN resultTopic /\ resultTopic[k] = resultTopic'[k]
  <2>1. k \in DOMAIN resultTopic
    BY <1>0, <1>2
  <2>. QED  BY <2>1, ResultsFrame
<1>4. j \in Job /\ j \in Sent
  BY <1>0, <1>3 DEF ResultInv, ReportsSent, Result
<1>5. Exists(jobInfo, j)
  BY <1>4, ReportedStays
<1>6. ASSUME NEW i \in DOMAIN jobExecution[j], jobExecution[j][i].status \in Terminal
      PROVE  Recorded1
  BY <1>4, <1>5, <1>6, RowsStay
<1>7. ASSUME NEW n \in Node, handler[n].job = j, handler[n].pc = "row"
      PROVE  Recorded1 \/ (handler'[n].job = j /\ handler'[n].pc = "row")
  <2>1. CASE handler'[n] = handler[n]
    BY <1>7, <2>1
  <2>2. CASE WriteRow(n)
    <3>1. jobExecution' = UpdateExecutionResult(jobExecution, j, handler[n].row, handler[n].status)
      BY <1>1, <1>7, <2>2 DEF WriteRow, Try
    <3>2. handler[n].row \in DOMAIN jobExecution[j]
      BY <1>5, <1>7 DEF ResultInv, RowFound
    <3>3. handler[n].status \in Terminal
      BY DEF TypeOK, ThreadsOK, HandlerOK, HandlerState
    <3>. QED  BY <1>4, <3>1, <3>2, <3>3, UpdatedRow
  <2>. QED  BY <1>1, <1>7, <2>1, <2>2, HandlerFrame
<1>8. CASE k <= offset
  <2>1. k \in 1 .. offset
    BY <1>0, <1>8
  <2>. QED  BY <1>1, <1>3, <1>5, <1>6, <1>7, <2>1 DEF ResultInv, ResultRecorded
<1>9. ASSUME NEW n \in Node, Receive(n), k = offset + 1
      PROVE  handler'[n].job = j /\ handler'[n].pc = "row"
  BY <1>1, <1>3, <1>4, <1>5, <1>9, ReceivedIsRecorded DEF ResultInv
<1>. QED  BY <1>2, <1>8, <1>9

LEMMA ResultInductive ==
    ASSUME TypeOK, TypeOK', KnownInv, RecordedInv, ResultInv, [Next]_vars
    PROVE  ResultInv'
<1>1. committed' <= offset'
  BY OffsetFrame DEF ResultInv
<1>2. ReportsSent'
  BY ResultsFrame DEF ResultInv, ReportsSent
<1>3. RowFound'
  BY RowStaysFound DEF ResultInv
<1>. QED  BY <1>1, <1>2, <1>3, ResultStaysRecorded DEF ResultInv

(* No result is lost on its way into the table while nothing fails: the       *)
(* consumer never moves past a message without a row that holds it, or a     *)
(* handler that is about to write it.  It holds because dispatch_job saves   *)
(* the execution before it sends the job, and the committed offset is never  *)
(* ahead of what was handed over.                                            *)
THEOREM ResultsRecorded == Spec => []ResultRecorded
<1>1. Init => ResultInv
  <2>. SUFFICES ASSUME Init PROVE ResultInv
    OBVIOUS
  <2>1. committed <= offset /\ ReportsSent /\ ResultRecorded
    BY EmptySeq DEF Init, ReportsSent, ResultRecorded
  <2>2. RowFound
    BY DEF Init, RowFound, IdleHandle
  <2>. QED  BY <2>1, <2>2 DEF ResultInv
<1>2. Init => KnownInv /\ RecordedInv
  BY KnownInit DEF Init, RecordedInv, Exists
<1>3. ResultInv => ResultRecorded
  BY DEF ResultInv
<1>. QED  BY <1>1, <1>2, <1>3, ResultInductive, RecordedInductive, KnownInvInductive, TypeCorrect,
             PTL DEF Spec
=============================================================================
