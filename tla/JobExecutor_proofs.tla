-------------------------- MODULE JobExecutor_proofs --------------------------
(***************************************************************************)
(* The types and the safety properties of an executor process, for any     *)
(* number of processes, jobs, messages, faults and cancellations.          *)
(***************************************************************************)
EXTENDS JobExecutor, FiniteSetTheorems, SequenceTheorems, TLAPS

\* All that the exec thread's state may become.
LEMMA ExecStates ==
    /\ ExecOff \in ExecState /\ ExecWait \in ExecState
    /\ ExecOff.pc = "off" /\ ExecOff.msg = 0
    /\ ExecWait.pc = "wait" /\ ExecWait.msg = 0
    /\ [ExecOff EXCEPT !.pc = "exited"] \in ExecState
    /\ [ExecOff EXCEPT !.pc = "exited"].pc = "exited"
    /\ [ExecOff EXCEPT !.pc = "exited"].msg = 0
BY DEF ExecOff, ExecWait, ExecState, Status

Taken(i, d)      == [ExecOff EXCEPT !.pc = "check", !.msg = i, !.doomed = d]
Passed(s)        == [s EXCEPT !.pc = "run"]
Late(s)          == [s EXCEPT !.overdue = TRUE]
Ended(s, status) == [s EXCEPT !.pc = "report", !.status = status]

LEMMA ExecMoves ==
    /\ \A i \in Nat, d \in BOOLEAN :
          /\ Taken(i, d) \in ExecState /\ Taken(i, d).pc = "check"
          /\ Taken(i, d).msg = i /\ Taken(i, d).doomed = d
    /\ \A s \in ExecState :
          /\ Passed(s) \in ExecState /\ Passed(s).pc = "run"
          /\ Passed(s).msg = s.msg /\ Passed(s).doomed = s.doomed
          /\ Late(s) \in ExecState /\ Late(s).pc = s.pc
          /\ Late(s).msg = s.msg /\ Late(s).doomed = s.doomed
    /\ \A s \in ExecState, status \in Status :
          /\ Ended(s, status) \in ExecState /\ Ended(s, status).pc = "report"
          /\ Ended(s, status).msg = s.msg /\ Ended(s, status).doomed = s.doomed
BY DEF Taken, Passed, Late, Ended, ExecOff, ExecState, Status

\* The row of a process changes by itself, whatever the process does.
LEMMA RowMovesOnly ==
    ASSUME NEW e, RowMoves(e)
    PROVE  /\ UNCHANGED <<topicVars, submitTopic, cancelTopic, resultTopic>>
           /\ UNCHANGED <<main, queue, cancelled, consumer, read, exec, beat>>
           /\ UNCHANGED faults \/ Fault
BY DEF RowMoves, Beat, BeatFails, Expire, SetStatus, topicVars

LEMMA MarkedIsRow == \A r \in Row, online \in BOOLEAN : Marked(r, online) \in Row
BY DEF Marked, Row

-----------------------------------------------------------------------------
(* Every step changes one process, or adds one message.                     *)

\* The exec thread has a message in its hands exactly while it works on it.
InHand == \A e \in Executor :
            IF exec[e].pc \in {"check", "run", "report"} THEN exec[e].msg # 0 ELSE exec[e].msg = 0

ExecOK == /\ exec \in [Executor -> ExecState]
          /\ \A e \in Executor : exec[e].msg \in 0 .. Len(submitTopic)
          /\ InHand

LEMMA ExecMoveOK ==
    ASSUME ExecOK, NEW e \in Executor, NEW s \in ExecState,
           s.msg \in 0 .. Len(submitTopic),
           IF s.pc \in {"check", "run", "report"} THEN s.msg # 0 ELSE s.msg = 0,
           exec' = [exec EXCEPT ![e] = s], UNCHANGED submitTopic
    PROVE  ExecOK'
BY DEF ExecOK, InHand

LEMMA ExecPreserved == ASSUME TypeOK, ExecOK, [Next]_vars PROVE ExecOK'
<1>0. \A e \in Executor : /\ exec[e] \in ExecState /\ exec[e].msg \in 0 .. Len(submitTopic)
                          /\ queue[e] \subseteq 1 .. Len(submitTopic)
  BY DEF TypeOK
<1>00. Len(submitTopic) \in Nat
  BY LenProperties DEF TypeOK
<1>1. CASE UNCHANGED <<exec, submitTopic>>
  BY <1>1 DEF ExecOK, InHand
<1>2. ASSUME NEW e \in Executor, NEW s \in {ExecOff, ExecWait, [ExecOff EXCEPT !.pc = "exited"]},
             exec' = [exec EXCEPT ![e] = s], UNCHANGED submitTopic
      PROVE  ExecOK'
  <2>1. s \in ExecState /\ s.pc \notin {"check", "run", "report"} /\ s.msg = 0
    BY <1>2, ExecStates
  <2>2. /\ s.msg \in 0 .. Len(submitTopic)
        /\ IF s.pc \in {"check", "run", "report"} THEN s.msg # 0 ELSE s.msg = 0
    BY <1>00, <2>1
  <2>3. s \in ExecState /\ exec' = [exec EXCEPT ![e] = s] /\ UNCHANGED submitTopic
    BY <1>2, <2>1
  <2>. QED  BY <2>2, <2>3, ExecMoveOK
<1>3. ASSUME NEW e \in Executor, Take(e) PROVE ExecOK'
  <2>1. \A i : (JobOf(i) \in cancelled[e]) \in BOOLEAN
    OBVIOUS
  <2>2. \E i \in queue[e] : exec' = [exec EXCEPT ![e] = Taken(i, JobOf(i) \in cancelled[e])]
    BY <1>3, Zenon DEF Take, Taken
  <2>3. UNCHANGED submitTopic
    BY <1>3 DEF Take, topicVars
  <2>4. PICK i \in queue[e], d \in BOOLEAN : exec' = [exec EXCEPT ![e] = Taken(i, d)]
    BY <2>1, <2>2, Zenon
  <2>5. i \in 1 .. Len(submitTopic)
    BY <1>0
  <2>6. /\ Taken(i, d) \in ExecState /\ Taken(i, d).pc = "check"
        /\ Taken(i, d).msg \in 0 .. Len(submitTopic) /\ Taken(i, d).msg # 0
    BY <1>00, <2>5, ExecMoves
  <2>. QED  BY <2>3, <2>4, <2>6, ExecMoveOK
<1>4. ASSUME NEW e \in Executor, exec[e].pc \in {"check", "run"}, NEW s \in ExecState,
             s.pc \in {"run", "report"}, s.msg = exec[e].msg,
             exec' = [exec EXCEPT ![e] = s], UNCHANGED submitTopic
      PROVE  ExecOK'
  BY <1>0, <1>4, ExecMoveOK DEF ExecOK, InHand
<1>5. ASSUME NEW e \in Executor, Check(e) PROVE ExecOK'
  <2>1. UNCHANGED submitTopic /\ exec[e].pc = "check"
    BY <1>5 DEF Check
  <2>2. exec' = [exec EXCEPT ![e] = ExecWait] \/ exec' = [exec EXCEPT ![e] = Passed(exec[e])]
    BY <1>5, Zenon DEF Check, Passed
  <2>3. /\ Passed(exec[e]) \in ExecState /\ Passed(exec[e]).pc = "run"
        /\ Passed(exec[e]).msg = exec[e].msg
    BY <1>0, ExecMoves
  <2>. QED  BY <1>2, <1>4, <2>1, <2>2, <2>3, Zenon
<1>6. ASSUME NEW e \in Executor, Overrun(e) PROVE ExecOK'
  <2>1. UNCHANGED submitTopic /\ exec[e].pc = "run" /\ exec' = [exec EXCEPT ![e] = Late(exec[e])]
    BY <1>6, Zenon DEF Overrun, topicVars, Late
  <2>. DEFINE s == Late(exec[e])
  <2>2. s \in ExecState /\ s.pc = "run" /\ s.msg = exec[e].msg /\ exec' = [exec EXCEPT ![e] = s]
    BY <1>0, <2>1, ExecMoves
  <2>. HIDE DEF s
  <2>. QED  BY <1>4, <2>1, <2>2
<1>7. ASSUME NEW e \in Executor, Interrupt(e) \/ Finish(e) PROVE ExecOK'
  <2>1. UNCHANGED submitTopic /\ exec[e].pc = "run"
    BY <1>7 DEF Interrupt, Finish, topicVars
  <2>2. PICK status \in Status : exec' = [exec EXCEPT ![e] = Ended(exec[e], status)]
    BY <1>7, Zenon DEF Interrupt, Finish, Status, Ended
  <2>. DEFINE s == Ended(exec[e], status)
  <2>3. s \in ExecState /\ s.pc = "report" /\ s.msg = exec[e].msg /\ exec' = [exec EXCEPT ![e] = s]
    BY <1>0, <2>2, ExecMoves
  <2>. HIDE DEF s
  <2>. QED  BY <1>4, <2>1, <2>3
<1>8. ASSUME NEW e \in Executor, Report(e) \/ ExecEnds(e) \/ StartThreads(e) \/ Crash(e) PROVE ExecOK'
  <2>1. UNCHANGED submitTopic
    BY <1>8 DEF Report, ExecEnds, StartThreads, Crash, topicVars
  <2>2. \E s \in {ExecOff, ExecWait, [ExecOff EXCEPT !.pc = "exited"]} : exec' = [exec EXCEPT ![e] = s]
    BY <1>8 DEF Report, ExecEnds, StartThreads, Crash
  <2>. QED  BY <1>2, <2>1, <2>2
<1>9. ASSUME NEW j \in Job, NEW e \in Executor, Submit(j, e) PROVE ExecOK'
  <2>1. Len(submitTopic') = Len(submitTopic) + 1
    BY <1>9, AppendProperties DEF Submit, TypeOK
  <2>2. UNCHANGED exec
    BY <1>9 DEF Submit, procVars
  <2>3. \A f \in Executor : exec[f].msg \in 0 .. Len(submitTopic')
    BY <1>0, <1>00, <2>1
  <2>4. exec' \in [Executor -> ExecState] /\ InHand'
    BY <2>2 DEF ExecOK, InHand
  <2>. QED  BY <2>2, <2>3, <2>4 DEF ExecOK
<1>10. ASSUME NEW e \in Executor,
              \/ Start(e) \/ Signal(e) \/ JoinExec(e) \/ JoinBeat(e) \/ StopConsume(e)
              \/ Unregister(e) \/ BeatEnds(e) \/ RowMoves(e) \/ Consume(e)
       PROVE  UNCHANGED <<exec, submitTopic>>
  BY <1>10, RowMovesOnly DEF Start, Signal, JoinExec, JoinBeat, StopConsume, Unregister, BeatEnds, Consume, ConsumeSubmit, ConsumeCancel, RemoveQueued, topicVars
<1>11. ASSUME NEW j \in Job, Cancel(j) PROVE UNCHANGED <<exec, submitTopic>>
  BY <1>11 DEF Cancel, procVars
<1>12. CASE UNCHANGED vars
  BY <1>1, <1>12 DEF vars, topicVars, procVars
<1>. QED  BY <1>1, <1>3, <1>5, <1>6, <1>7, <1>8, <1>9, <1>10, <1>11, <1>12
          DEF Next, Main, Execute

-----------------------------------------------------------------------------
(* Type correctness                                                         *)

TopicsOK == /\ submitTopic \in Seq(Job \X Executor) /\ cancelTopic \in Seq(Job)
            /\ resultTopic \in Seq(Result) /\ faults \in 0 .. MaxFault
FlagsOK  == /\ main \in [Executor -> MainPC]
            /\ cancelled \in [Executor -> SUBSET Job]
            /\ beat \in [Executor -> BOOLEAN]
RowOK    == row \in [Executor -> Row] /\ orders \in 0 .. MaxOrder
ReadOK   == /\ queue \in [Executor -> SUBSET (1 .. Len(submitTopic))]
            /\ consumer \in [Executor -> ConsumerState]
            /\ read \in [Executor -> [submit : 0 .. Len(submitTopic), cancel : 0 .. Len(cancelTopic)]]

LEMMA TypeParts == TypeOK /\ InHand <=> TopicsOK /\ FlagsOK /\ RowOK /\ ReadOK /\ ExecOK
BY DEF TypeOK, TopicsOK, FlagsOK, RowOK, ReadOK, ExecOK

LEMMA SendOK ==
    ASSUME TopicsOK, NEW e \in Executor, NEW i \in Nat, NEW status \in Status,
           NEW overdue \in BOOLEAN, Send(e, i, status, overdue),
           UNCHANGED <<submitTopic, cancelTopic>>
    PROVE  TopicsOK'
<1>. DEFINE r == [by |-> e, msg |-> i, status |-> status, overdue |-> overdue]
<1>1. r \in Result
  BY DEF Result
<1>2. CASE resultTopic' = Append(resultTopic, r) /\ UNCHANGED faults
  <2>1. resultTopic' \in Seq(Result)
    BY <1>1, <1>2, AppendProperties DEF TopicsOK
  <2>. QED  BY <1>2, <2>1 DEF TopicsOK
<1>3. CASE Fault /\ UNCHANGED resultTopic
  BY <1>3, ExecutorAssumption DEF Fault, TopicsOK
<1>. QED  BY <1>2, <1>3 DEF Send

LEMMA TopicsPreserved == ASSUME TypeOK, [Next]_vars PROVE TopicsOK'
<1>0. /\ TopicsOK /\ \A e \in Executor : exec[e].msg \in Nat /\ exec[e].status \in Status /\ exec[e].overdue \in BOOLEAN
      /\ \A e \in Executor : queue[e] \subseteq Nat
  BY DEF TypeOK, TopicsOK, ExecState
<1>1. CASE UNCHANGED <<topicVars, faults>>
  BY <1>0, <1>1 DEF topicVars, TopicsOK
<1>2. ASSUME NEW e \in Executor, Check(e) PROVE TopicsOK'
  <2>1. /\ UNCHANGED <<submitTopic, cancelTopic>>
        /\ Send(e, exec[e].msg, "FAILED", FALSE) \/ UNCHANGED <<resultTopic, faults>>
    BY <1>2 DEF Check
  <2>. QED  BY <1>0, <1>1, <2>1, SendOK DEF Status, topicVars
<1>3. ASSUME NEW e \in Executor, Report(e) PROVE TopicsOK'
  BY <1>0, <1>3, SendOK DEF Report
<1>4. ASSUME NEW e \in Executor, RemoveQueued(e) PROVE TopicsOK'
  <2>1. /\ UNCHANGED <<submitTopic, cancelTopic>>
        /\ \/ \E i \in queue[e] : Send(e, i, "FAILED", FALSE)
           \/ UNCHANGED <<resultTopic, faults>>
    BY <1>4 DEF RemoveQueued, Queued
  <2>. QED  BY <1>0, <1>1, <2>1, SendOK DEF Status, topicVars
<1>5. ASSUME NEW e \in Executor, Start(e) \/ Unregister(e) \/ Crash(e) \/ RowMoves(e) PROVE TopicsOK'
  <2>1. UNCHANGED topicVars /\ (UNCHANGED faults \/ Fault)
    BY <1>5, RowMovesOnly DEF Start, Unregister, Crash
  <2>. QED  BY <1>0, <2>1, ExecutorAssumption DEF Fault, topicVars, TopicsOK
<1>6. ASSUME NEW j \in Job, NEW e \in Executor, Submit(j, e) PROVE TopicsOK'
  <2>1. submitTopic' \in Seq(Job \X Executor)
    BY <1>0, <1>6, AppendProperties DEF Submit, TopicsOK
  <2>. QED  BY <1>0, <1>6, <2>1 DEF Submit, TopicsOK
<1>7. ASSUME NEW j \in Job, Cancel(j) PROVE TopicsOK'
  <2>1. cancelTopic' \in Seq(Job)
    BY <1>0, <1>7, AppendProperties DEF Cancel, TopicsOK
  <2>. QED  BY <1>0, <1>7, <2>1 DEF Cancel, TopicsOK
<1>8. ASSUME NEW e \in Executor,
             \/ Signal(e) \/ StartThreads(e) \/ JoinExec(e) \/ JoinBeat(e) \/ StopConsume(e)
             \/ BeatEnds(e) \/ ConsumeSubmit(e) \/ ConsumeCancel(e)
             \/ Take(e) \/ Interrupt(e) \/ Finish(e) \/ ExecEnds(e) \/ Overrun(e)
      PROVE  UNCHANGED <<topicVars, faults>>
  BY <1>8 DEF Signal, StartThreads, JoinExec, JoinBeat, StopConsume, BeatEnds,
              ConsumeSubmit, ConsumeCancel, Take, Interrupt, Finish, ExecEnds, Overrun
<1>9. CASE UNCHANGED vars
  BY <1>1, <1>9 DEF vars
<1>. QED  BY <1>1, <1>2, <1>3, <1>4, <1>5, <1>6, <1>7, <1>8, <1>9 DEF Next, Main, Consume, Execute

LEMMA FlagsPreserved == ASSUME TypeOK, [Next]_vars PROVE FlagsOK'
<1>0. FlagsOK
  BY DEF TypeOK, FlagsOK
<1>1. CASE UNCHANGED <<main, cancelled, beat>>
  BY <1>0, <1>1 DEF FlagsOK
<1>2. ASSUME NEW e \in Executor,
             \/ Start(e) \/ Signal(e) \/ StartThreads(e) \/ JoinExec(e) \/ JoinBeat(e)
             \/ StopConsume(e)
      PROVE  FlagsOK'
  BY <1>0, <1>2 DEF Start, Signal, StartThreads, JoinExec, JoinBeat, StopConsume, FlagsOK,
                    MainPC, Stopping
<1>3. ASSUME NEW e \in Executor, Unregister(e) \/ Crash(e) \/ BeatEnds(e) PROVE FlagsOK'
  BY <1>0, <1>3 DEF Unregister, Crash, BeatEnds, FlagsOK, MainPC
<1>4. ASSUME NEW e \in Executor, ConsumeCancel(e) PROVE FlagsOK'
  <2>1. cancelTopic[read[e].cancel + 1] \in Job
    <3>1. read[e].cancel \in Nat /\ cancelTopic \in Seq(Job) /\ Len(cancelTopic) \in Nat
      BY LenProperties DEF TypeOK
    <3>2. read[e].cancel + 1 \in 1 .. Len(cancelTopic)
      BY <1>4, <3>1 DEF ConsumeCancel
    <3>. QED  BY <3>1, <3>2, ElementOfSeq
  <2>2. cancelled' \in [Executor -> SUBSET Job]
    BY <1>0, <1>4, <2>1 DEF ConsumeCancel, FlagsOK
  <2>. QED  BY <1>0, <1>4, <2>2 DEF ConsumeCancel, FlagsOK
<1>5. ASSUME NEW e \in Executor,
             \/ ConsumeSubmit(e) \/ RemoveQueued(e) \/ Take(e) \/ Check(e)
             \/ Interrupt(e) \/ Finish(e) \/ Report(e) \/ ExecEnds(e) \/ Overrun(e)
      PROVE  UNCHANGED <<main, cancelled, beat>>
  BY <1>5 DEF ConsumeSubmit, RemoveQueued, Take, Check, Interrupt, Finish, Report, ExecEnds, Overrun
<1>6. ASSUME \/ \E e \in Executor : RowMoves(e)
             \/ \E j \in Job, e \in Executor : Submit(j, e)
             \/ \E j \in Job : Cancel(j)
             \/ UNCHANGED vars
      PROVE  UNCHANGED <<main, cancelled, beat>>
  BY <1>6, RowMovesOnly DEF Submit, Cancel, vars, procVars
<1>. QED  BY <1>1, <1>2, <1>3, <1>4, <1>5, <1>6 DEF Next, Main, Consume, Execute

LEMMA RowPreserved == ASSUME TypeOK, [Next]_vars PROVE RowOK'
<1>0. RowOK
  BY DEF TypeOK, RowOK
<1>1. CASE UNCHANGED rowVars
  BY <1>0, <1>1 DEF rowVars, RowOK
<1>2. ASSUME NEW e \in Executor, NEW r \in Row, row' = [row EXCEPT ![e] = r],
             UNCHANGED orders \/ (orders < MaxOrder /\ orders' = orders + 1)
      PROVE  RowOK'
  BY <1>0, <1>2, ExecutorAssumption DEF RowOK
<1>3. ASSUME NEW e \in Executor, Start(e) \/ Unregister(e) PROVE RowOK'
  <2>1. /\ UNCHANGED orders
        /\ UNCHANGED row \/ \E online \in BOOLEAN : row' = [row EXCEPT ![e] = Marked(row[e], online)]
    BY <1>3, Zenon DEF Start, Unregister
  <2>. QED  BY <1>0, <1>1, <1>2, <2>1, MarkedIsRow DEF RowOK, rowVars
<1>4. ASSUME NEW e \in Executor, RowMoves(e) PROVE RowOK'
  <2>1. CASE Beat(e) \/ BeatFails(e) \/ Expire(e)
    BY <1>0, <2>1 DEF Beat, BeatFails, Expire, RowOK, Row
  <2>2. CASE \E online \in BOOLEAN : SetStatus(e, online)
    <3>1. /\ orders < MaxOrder /\ orders' = orders + 1
          /\ \E online \in BOOLEAN : row' = [row EXCEPT ![e] = Marked(row[e], online)]
      BY <2>2, Zenon DEF SetStatus
    <3>. QED  BY <1>0, <1>2, <3>1, MarkedIsRow DEF RowOK
  <2>. QED  BY <1>4, <2>1, <2>2 DEF RowMoves
<1>5. ASSUME NEW e \in Executor,
             \/ Signal(e) \/ StartThreads(e) \/ JoinExec(e) \/ JoinBeat(e) \/ StopConsume(e)
             \/ Crash(e) \/ BeatEnds(e) \/ Consume(e) \/ Execute(e) \/ Overrun(e)
      PROVE  UNCHANGED rowVars
  BY <1>5 DEF Signal, StartThreads, JoinExec, JoinBeat, StopConsume, Crash, BeatEnds, Consume,
              ConsumeSubmit, ConsumeCancel, RemoveQueued, Execute, Take, Check, Interrupt,
              Finish, Report, ExecEnds, Overrun
<1>6. ASSUME \/ \E j \in Job, e \in Executor : Submit(j, e)
             \/ \E j \in Job : Cancel(j)
             \/ UNCHANGED vars
      PROVE  UNCHANGED rowVars
  BY <1>6 DEF Submit, Cancel, vars, procVars
<1>. QED  BY <1>1, <1>3, <1>4, <1>5, <1>6 DEF Next, Main

LEMMA ReadPreserved == ASSUME TypeOK, [Next]_vars PROVE ReadOK'
<1>0. /\ ReadOK /\ Len(submitTopic) \in Nat /\ Len(cancelTopic) \in Nat
      /\ submitTopic \in Seq(Job \X Executor) /\ cancelTopic \in Seq(Job)
  BY LenProperties DEF TypeOK, ReadOK
<1>01. Poll \in ConsumerState /\ ConsumerOff \in ConsumerState
  BY DEF Poll, ConsumerOff, ConsumerState
<1>02. ASSUME NEW e \in Executor, NEW s \in Nat, NEW c \in Nat
       PROVE  /\ [read[e] EXCEPT !.submit = s].submit = s
              /\ [read[e] EXCEPT !.submit = s].cancel = read[e].cancel
              /\ [read[e] EXCEPT !.cancel = c].cancel = c
              /\ [read[e] EXCEPT !.cancel = c].submit = read[e].submit
  BY <1>0 DEF ReadOK
<1>1. CASE UNCHANGED <<queue, consumer, read, submitTopic, cancelTopic>>
  BY <1>0, <1>1 DEF ReadOK
<1>2. ASSUME NEW e \in Executor, StartThreads(e) \/ StopConsume(e) \/ Crash(e) PROVE ReadOK'
  <2>1. UNCHANGED <<read, submitTopic, cancelTopic>> /\ (UNCHANGED queue \/ queue' = [queue EXCEPT ![e] = {}])
    BY <1>2 DEF StartThreads, StopConsume, Crash, topicVars
  <2>2. \E c \in {Poll, ConsumerOff} : consumer' = [consumer EXCEPT ![e] = c]
    BY <1>2 DEF StartThreads, StopConsume, Crash
  <2>3. consumer' \in [Executor -> ConsumerState]
    BY <1>0, <1>01, <2>2, Zenon DEF ReadOK
  <2>4. queue' \in [Executor -> SUBSET (1 .. Len(submitTopic))]
    BY <1>0, <2>1 DEF ReadOK
  <2>. QED  BY <1>0, <2>1, <2>3, <2>4 DEF ReadOK
<1>3. ASSUME NEW e \in Executor, ConsumeSubmit(e) PROVE ReadOK'
  <2>1. read[e].submit + 1 \in 1 .. Len(submitTopic) /\ read[e] \in [submit : 0 .. Len(submitTopic), cancel : 0 .. Len(cancelTopic)]
    BY <1>0, <1>3 DEF ConsumeSubmit, ReadOK
  <2>2. [read[e] EXCEPT !.submit = read[e].submit + 1] \in [submit : 0 .. Len(submitTopic), cancel : 0 .. Len(cancelTopic)]
    BY <1>0, <2>1
  <2>3. read' = [read EXCEPT ![e] = [read[e] EXCEPT !.submit = read[e].submit + 1]]
    BY <1>3, Zenon DEF ConsumeSubmit
  <2>4. read' \in [Executor -> [submit : 0 .. Len(submitTopic), cancel : 0 .. Len(cancelTopic)]]
    BY <1>0, <2>2, <2>3, Zenon DEF ReadOK
  <2>5. queue' \in [Executor -> SUBSET (1 .. Len(submitTopic))]
    BY <1>0, <1>3, <2>1 DEF ConsumeSubmit, ReadOK
  <2>. QED  BY <1>0, <1>3, <2>4, <2>5 DEF ConsumeSubmit, topicVars, ReadOK
<1>4. ASSUME NEW e \in Executor, ConsumeCancel(e) PROVE ReadOK'
  <2>. DEFINE j == cancelTopic[read[e].cancel + 1]
  <2>1. read[e].cancel + 1 \in 1 .. Len(cancelTopic) /\ read[e] \in [submit : 0 .. Len(submitTopic), cancel : 0 .. Len(cancelTopic)]
    BY <1>0, <1>4 DEF ConsumeCancel, ReadOK
  <2>2. [read[e] EXCEPT !.cancel = read[e].cancel + 1] \in [submit : 0 .. Len(submitTopic), cancel : 0 .. Len(cancelTopic)]
    BY <1>0, <2>1
  <2>3. read' = [read EXCEPT ![e] = [read[e] EXCEPT !.cancel = read[e].cancel + 1]]
    BY <1>4, Zenon DEF ConsumeCancel
  <2>4. read' \in [Executor -> [submit : 0 .. Len(submitTopic), cancel : 0 .. Len(cancelTopic)]]
    BY <1>0, <2>2, <2>3, Zenon DEF ReadOK
  <2>5. j \in Job
    BY <1>0, <2>1, ElementOfSeq
  <2>6. [pc |-> "remove", job |-> j] \in ConsumerState
    BY <2>5 DEF ConsumerState
  <2>7. consumer' \in [Executor -> ConsumerState]
    BY <1>0, <1>4, <2>6 DEF ConsumeCancel, ReadOK
  <2>. QED  BY <1>0, <1>4, <2>4, <2>7 DEF ConsumeCancel, topicVars, ReadOK
<1>5. ASSUME NEW e \in Executor, RemoveQueued(e) PROVE ReadOK'
  <2>1. queue' \in [Executor -> SUBSET (1 .. Len(submitTopic))]
    BY <1>0, <1>5 DEF RemoveQueued, ReadOK
  <2>. QED  BY <1>0, <1>01, <1>5, <2>1 DEF RemoveQueued, ReadOK
<1>6. ASSUME NEW e \in Executor, Take(e) PROVE ReadOK'
  <2>1. queue' \in [Executor -> SUBSET (1 .. Len(submitTopic))]
    BY <1>0, <1>6 DEF Take, ReadOK
  <2>. QED  BY <1>0, <1>6, <2>1 DEF Take, topicVars, ReadOK
<1>7. ASSUME NEW j \in Job, NEW e \in Executor, Submit(j, e) PROVE ReadOK'
  <2>1. Len(submitTopic') = Len(submitTopic) + 1
    BY <1>0, <1>7, AppendProperties DEF Submit
  <2>2. /\ 1 .. Len(submitTopic) \subseteq 1 .. Len(submitTopic')
        /\ 0 .. Len(submitTopic) \subseteq 0 .. Len(submitTopic')
    BY <1>0, <2>1
  <2>3. read \in [Executor -> [submit : 0 .. Len(submitTopic'), cancel : 0 .. Len(cancelTopic)]]
    BY <1>0, <2>2 DEF ReadOK
  <2>4. queue \in [Executor -> SUBSET (1 .. Len(submitTopic'))]
    BY <1>0, <2>2 DEF ReadOK
  <2>. QED  BY <1>0, <1>7, <2>3, <2>4 DEF Submit, procVars, ReadOK
<1>8. ASSUME NEW j \in Job, Cancel(j) PROVE ReadOK'
  <2>1. Len(cancelTopic') = Len(cancelTopic) + 1
    BY <1>0, <1>8, AppendProperties DEF Cancel
  <2>2. 0 .. Len(cancelTopic) \subseteq 0 .. Len(cancelTopic')
    BY <1>0, <2>1
  <2>3. read \in [Executor -> [submit : 0 .. Len(submitTopic), cancel : 0 .. Len(cancelTopic')]]
    BY <1>0, <2>2 DEF ReadOK
  <2>. QED  BY <1>0, <1>8, <2>3 DEF Cancel, procVars, ReadOK
<1>9. ASSUME NEW e \in Executor,
             \/ Start(e) \/ Signal(e) \/ JoinExec(e) \/ JoinBeat(e) \/ Unregister(e)
             \/ BeatEnds(e) \/ RowMoves(e) \/ Check(e) \/ Interrupt(e) \/ Finish(e) \/ Report(e)
             \/ ExecEnds(e) \/ Overrun(e)
      PROVE  UNCHANGED <<queue, consumer, read, submitTopic, cancelTopic>>
  BY <1>9, RowMovesOnly DEF Start, Signal, JoinExec, JoinBeat, Unregister, BeatEnds, Check, Interrupt,
              Finish, Report, ExecEnds, Overrun, topicVars
<1>10. CASE UNCHANGED vars
  BY <1>1, <1>10 DEF vars, topicVars, procVars
<1>. QED  BY <1>1, <1>2, <1>3, <1>4, <1>5, <1>6, <1>7, <1>8, <1>9, <1>10
          DEF Next, Main, Consume, Execute

LEMMA InitType == Init => TypeOK /\ InHand
<1>. SUFFICES ASSUME Init PROVE TypeOK /\ InHand
  OBVIOUS
<1>1. TopicsOK
  BY EmptySeq, ExecutorAssumption DEF Init, TopicsOK
<1>2. FlagsOK
  BY DEF Init, FlagsOK, MainPC
<1>3. Len(submitTopic) = 0 /\ Len(cancelTopic) = 0
  BY EmptySeq DEF Init
<1>4. ReadOK
  <2>1. [submit |-> 0, cancel |-> 0] \in [submit : 0 .. Len(submitTopic), cancel : 0 .. Len(cancelTopic)]
    BY <1>3
  <2>2. ConsumerOff \in ConsumerState
    BY DEF ConsumerOff, ConsumerState
  <2>. QED  BY <2>1, <2>2 DEF Init, ReadOK
<1>5. ExecOK
  BY <1>3, ExecStates DEF Init, ExecOK, InHand
<1>6. RowOK
  BY ExecutorAssumption DEF Init, RowOK, Row
<1>. QED  BY <1>1, <1>2, <1>4, <1>5, <1>6, TypeParts

LEMMA NextType == TypeOK /\ InHand /\ [Next]_vars => (TypeOK /\ InHand)'
BY TypeParts, TopicsPreserved, FlagsPreserved, RowPreserved, ReadPreserved, ExecPreserved
   DEF TypeOK, TopicsOK, FlagsOK, RowOK, ReadOK, ExecOK

(* Every variable of the executors keeps its type, and the exec thread has a*)
(* message in its hands exactly while it checks, runs or reports a job.     *)
THEOREM TypeCorrect == Spec => [](TypeOK /\ InHand)
BY InitType, NextType, PTL DEF Spec

-----------------------------------------------------------------------------
(* The steps of a process                                                   *)

Step(e) == \/ Start(e) \/ Signal(e) \/ Crash(e) \/ Main(e) \/ BeatEnds(e) \/ RowMoves(e)
           \/ Consume(e) \/ Execute(e) \/ Overrun(e)

-----------------------------------------------------------------------------
(* What a step does to the exec thread                                      *)

LEMMA TakeStep ==
    ASSUME TypeOK, NEW e \in Executor, Take(e)
    PROVE  /\ exec[e].pc = "wait"
           /\ \E i \in queue[e] :
                 /\ exec'[e].pc = "check" /\ exec'[e].msg = i
                 /\ exec'[e].doomed = (JobOf(i) \in cancelled[e])
                 /\ queue' = [queue EXCEPT ![e] = @ \ {i}]
<1>1. PICK i \in queue[e] : /\ exec' = [exec EXCEPT ![e] = Taken(i, JobOf(i) \in cancelled[e])]
                            /\ queue' = [queue EXCEPT ![e] = @ \ {i}]
  BY Zenon DEF Take, Taken
<1>2. i \in Nat /\ exec \in [Executor -> ExecState]
  BY DEF TypeOK
<1>30. (JobOf(i) \in cancelled[e]) \in BOOLEAN
  OBVIOUS
<1>3. PICK d \in BOOLEAN : d = (JobOf(i) \in cancelled[e])
  BY <1>30, Zenon
<1>4. exec' = [exec EXCEPT ![e] = Taken(i, d)]
  BY <1>1, <1>3, Zenon
<1>5. exec'[e].pc = "check" /\ exec'[e].msg = i /\ exec'[e].doomed = d
  BY <1>2, <1>4, ExecMoves
<1>6. exec[e].pc = "wait"
  BY DEF Take
<1>. QED  BY <1>1, <1>3, <1>5, <1>6, Zenon

LEMMA CheckStep ==
    ASSUME TypeOK, NEW e \in Executor, Check(e)
    PROVE  /\ exec[e].pc = "check"
           /\ \/ /\ JobOf(exec[e].msg) \in cancelled[e]
                 /\ Send(e, exec[e].msg, "FAILED", FALSE)
                 /\ exec'[e].pc = "wait" /\ exec'[e].msg = 0
              \/ /\ JobOf(exec[e].msg) \notin cancelled[e]
                 /\ UNCHANGED <<resultTopic, faults>>
                 /\ exec'[e].pc = "run" /\ exec'[e].msg = exec[e].msg
                 /\ exec'[e].doomed = exec[e].doomed
<1>1. exec \in [Executor -> ExecState]
  BY DEF TypeOK
<1>2. exec[e].pc = "check"
  BY DEF Check
<1>3. CASE /\ JobOf(exec[e].msg) \in cancelled[e]
           /\ Send(e, exec[e].msg, "FAILED", FALSE)
           /\ exec' = [exec EXCEPT ![e] = ExecWait]
  BY <1>1, <1>2, <1>3, ExecStates
<1>4. CASE /\ JobOf(exec[e].msg) \notin cancelled[e]
           /\ exec' = [exec EXCEPT ![e] = Passed(exec[e])]
           /\ UNCHANGED <<resultTopic, faults>>
  <2>1. exec'[e] = Passed(exec[e]) /\ exec[e] \in ExecState
    BY <1>1, <1>4
  <2>2. /\ exec'[e].pc = "run" /\ exec'[e].msg = exec[e].msg
        /\ exec'[e].doomed = exec[e].doomed
    BY <2>1, ExecMoves
  <2>. QED  BY <1>2, <1>4, <2>2
<1>. QED  BY <1>3, <1>4, Zenon DEF Check, Passed

\* The command goes on, or it ends.
LEMMA RunStep ==
    ASSUME TypeOK, NEW e \in Executor, Overrun(e) \/ Interrupt(e) \/ Finish(e)
    PROVE  /\ exec[e].pc = "run" /\ exec'[e].pc \in {"run", "report"}
           /\ exec'[e].msg = exec[e].msg /\ exec'[e].doomed = exec[e].doomed
<1>1. exec \in [Executor -> ExecState] /\ exec[e] \in ExecState
  BY DEF TypeOK
<1>2. exec[e].pc = "run"
  BY DEF Overrun, Interrupt, Finish
<1>3. CASE exec' = [exec EXCEPT ![e] = Late(exec[e])]
  <2>1. exec'[e] = Late(exec[e])
    BY <1>1, <1>3
  <2>. QED  BY <1>1, <1>2, <2>1, ExecMoves
<1>4. ASSUME NEW status \in Status, exec' = [exec EXCEPT ![e] = Ended(exec[e], status)]
      PROVE  /\ exec'[e].pc = "report"
             /\ exec'[e].msg = exec[e].msg /\ exec'[e].doomed = exec[e].doomed
  <2>1. exec'[e] = Ended(exec[e], status)
    BY <1>1, <1>4
  <2>. QED  BY <1>1, <2>1, ExecMoves
<1>5. \/ exec' = [exec EXCEPT ![e] = Late(exec[e])]
      \/ \E status \in Status : exec' = [exec EXCEPT ![e] = Ended(exec[e], status)]
  BY Zenon DEF Overrun, Interrupt, Finish, Late, Ended, Status
<1>. QED  BY <1>2, <1>3, <1>4, <1>5, Zenon

\* The exec thread begins, becomes idle, or ends.
LEMMA IdleStep ==
    ASSUME TypeOK, NEW e \in Executor
    PROVE  /\ Report(e) => exec[e].pc = "report" /\ exec'[e].pc = "wait" /\ exec'[e].msg = 0
           /\ StartThreads(e) => exec'[e].pc = "wait" /\ exec'[e].msg = 0
           /\ ExecEnds(e) => exec[e].pc = "wait" /\ exec'[e].pc = "exited" /\ exec'[e].msg = 0
           /\ Crash(e) => exec'[e].pc = "off" /\ exec'[e].msg = 0
<1>1. exec \in [Executor -> ExecState]
  BY DEF TypeOK
<1>. QED  BY <1>1, ExecStates DEF Report, StartThreads, ExecEnds, Crash

\* A step of one process leaves the others, and the topics it reads, alone.
LEMMA OnlyMine ==
    ASSUME TypeOK, NEW e \in Executor, Step(e), NEW f \in Executor, f # e
    PROVE  /\ main'[f] = main[f] /\ queue'[f] = queue[f] /\ cancelled'[f] = cancelled[f]
           /\ consumer'[f] = consumer[f] /\ read'[f] = read[f] /\ exec'[f] = exec[f]
           /\ beat'[f] = beat[f]
<1>1. CASE Start(e) \/ Signal(e) \/ JoinExec(e) \/ JoinBeat(e) \/ StopConsume(e) \/ StartThreads(e)
  BY <1>1 DEF TypeOK, Start, Signal, JoinExec, JoinBeat, StopConsume, StartThreads
<1>2. CASE Unregister(e) \/ Crash(e) \/ BeatEnds(e) \/ RowMoves(e)
  BY <1>2, RowMovesOnly DEF TypeOK, Unregister, Crash, BeatEnds
<1>3. CASE ConsumeSubmit(e) \/ ConsumeCancel(e) \/ RemoveQueued(e)
  BY <1>3 DEF TypeOK, ConsumeSubmit, ConsumeCancel, RemoveQueued
<1>4. CASE Take(e) \/ Check(e) \/ Interrupt(e) \/ Finish(e) \/ Report(e) \/ ExecEnds(e) \/ Overrun(e)
  BY <1>4 DEF TypeOK, Take, Check, Interrupt, Finish, Report, ExecEnds, Overrun
<1>. QED  BY <1>1, <1>2, <1>3, <1>4 DEF Step, Main, Consume, Execute

LEMMA TopicsKept ==
    ASSUME NEW e \in Executor, Step(e)
    PROVE  UNCHANGED <<submitTopic, cancelTopic>>
BY RowMovesOnly DEF Step, Main, Consume, Execute, Start, Signal, JoinExec, JoinBeat, StopConsume, StartThreads,
       Unregister, Crash, BeatEnds, ConsumeSubmit, ConsumeCancel, RemoveQueued,
       Take, Check, Interrupt, Finish, Report, ExecEnds, Overrun, topicVars

-----------------------------------------------------------------------------
(* The life of a process                                                    *)

\* The threads end in the order in which stop() waits for them.
Life(e) ==
    /\ main[e] \in {"joinBeat", "stopConsume", "unregister"} => exec[e].pc = "exited"
    /\ main[e] \in {"stopConsume", "unregister"} => ~beat[e]
    /\ main[e] = "unregister" => consumer[e].pc = "off"
    /\ main[e] \in {"new", "start", "stuck", "stopped", "dead"} => Idle(e)
LifeInv == \A e \in Executor : Life(e)

LEMMA LifeStep == ASSUME TypeOK, NEW e \in Executor, Life(e), Step(e) PROVE Life(e)'
<1>0. /\ main \in [Executor -> MainPC]
      /\ beat \in [Executor -> BOOLEAN] /\ consumer \in [Executor -> ConsumerState]
      /\ exec \in [Executor -> ExecState]
  BY DEF TypeOK
<1>. USE DEF Life, Idle, Stopping
<1>1. CASE Start(e) \/ Signal(e) \/ JoinExec(e) \/ JoinBeat(e)
  BY <1>0, <1>1 DEF Start, Signal, JoinExec, JoinBeat, Running
<1>2. CASE StartThreads(e)
  BY <1>0, <1>2 DEF StartThreads
<1>3. CASE StopConsume(e)
  <2>1. consumer'[e].pc = "off"
    BY <1>0, <1>3 DEF StopConsume, ConsumerOff
  <2>. QED  BY <1>0, <1>3, <2>1 DEF StopConsume
<1>4. CASE Unregister(e) \/ BeatEnds(e) \/ RowMoves(e)
  BY <1>0, <1>4, RowMovesOnly DEF Unregister, BeatEnds, Running
<1>5. CASE Crash(e)
  <2>1. /\ main'[e] = "dead" /\ exec'[e].pc = "off" /\ consumer'[e].pc = "off" /\ ~beat'[e]
    BY <1>0, <1>5, IdleStep DEF Crash, ConsumerOff
  <2>. QED  BY <2>1
<1>6. CASE Consume(e)
  <2>0. consumer[e] = Poll \/ consumer[e].pc = "remove"
    BY <1>6, Zenon DEF Consume, ConsumeSubmit, ConsumeCancel, RemoveQueued
  <2>1. consumer[e].pc # "off"
    BY <2>0 DEF Poll
  <2>2. UNCHANGED <<main, beat, exec>>
    BY <1>6 DEF Consume, ConsumeSubmit, ConsumeCancel, RemoveQueued
  <2>. QED  BY <2>1, <2>2
<1>7. CASE Execute(e) \/ Overrun(e)
  <2>1. exec[e].pc \notin {"off", "exited"}
    BY <1>7 DEF Execute, Take, Check, Interrupt, Finish, Report, ExecEnds, Overrun
  <2>2. UNCHANGED <<main, beat, consumer>>
    BY <1>7 DEF Execute, Take, Check, Interrupt, Finish, Report, ExecEnds, Overrun
  <2>. QED  BY <2>1, <2>2
<1>. QED  BY <1>1, <1>2, <1>3, <1>4, <1>5, <1>6, <1>7 DEF Step, Main

LEMMA LifeInductive == TypeOK /\ LifeInv /\ [Next]_vars => LifeInv'
<1>. SUFFICES ASSUME TypeOK, LifeInv, [Next]_vars PROVE LifeInv'
  OBVIOUS
<1>1. ASSUME NEW e \in Executor, Step(e) PROVE LifeInv'
  <2>1. Life(e)'
    BY <1>1, LifeStep DEF LifeInv
  <2>2. ASSUME NEW f \in Executor, f # e PROVE Life(f)'
    BY <1>1, <2>2, OnlyMine DEF LifeInv, Life, Idle
  <2>. QED  BY <2>1, <2>2 DEF LifeInv
<1>2. CASE UNCHANGED procVars
  BY <1>2 DEF procVars, LifeInv, Life, Idle
<1>3. ASSUME \/ \E j \in Job, e \in Executor : Submit(j, e)
             \/ \E j \in Job : Cancel(j)
             \/ UNCHANGED vars
      PROVE  UNCHANGED procVars
  BY <1>3 DEF Submit, Cancel, vars
<1>. QED  BY <1>1, <1>2, <1>3 DEF Next, Step

LEMMA LifeInit == Init => LifeInv
BY DEF Init, LifeInv, Life, Idle, Stopping, ExecOff, ConsumerOff

\* Who takes a row OFFLINE: stop() at its end, or an order through the API.
LEMMA Withdrawals ==
    ASSUME TypeOK, [Next]_vars, NEW e \in Executor,
           row[e].status = "ONLINE", row'[e].status = "OFFLINE", orders' = orders
    PROVE  Unregister(e)
<1>0. row \in [Executor -> Row] /\ orders \in Nat
  BY DEF TypeOK
<1>1. row' # row
  OBVIOUS
<1>2. ~ \E f \in Executor : Start(f)
  BY <1>0 DEF Start, Marked
<1>3. ~ \E f \in Executor : RowMoves(f)
  BY <1>0 DEF RowMoves, Beat, BeatFails, Expire, SetStatus, Row
<1>4. \A f \in Executor : Unregister(f) => f = e
  BY <1>0 DEF Unregister
<1>5. ~ \E f \in Executor :
          \/ Signal(f) \/ StartThreads(f) \/ JoinExec(f) \/ JoinBeat(f) \/ StopConsume(f)
          \/ Crash(f) \/ BeatEnds(f) \/ Consume(f) \/ Execute(f) \/ Overrun(f)
  BY <1>1 DEF Signal, StartThreads, JoinExec, JoinBeat, StopConsume, Crash, BeatEnds, Consume,
              ConsumeSubmit, ConsumeCancel, RemoveQueued, Execute, Take, Check, Interrupt,
              Finish, Report, ExecEnds, Overrun, rowVars
<1>6. ~ \/ \E j \in Job, f \in Executor : Submit(j, f)
        \/ \E j \in Job : Cancel(j)
        \/ UNCHANGED vars
  BY <1>1 DEF Submit, Cancel, vars, procVars, rowVars
<1>. QED  BY <1>2, <1>3, <1>4, <1>5, <1>6 DEF Next, Main

(* But for an order through the API, a row goes from ONLINE to OFFLINE only *)
(* when the threads of its process have all ended: when stop() unregisters  *)
(* it has waited for each of them.                                          *)
THEOREM WithdrawnProved == Spec => WithdrawnIsIdle
<1>1. ASSUME TypeOK, LifeInv, [Next]_vars
      PROVE  [\A e \in Executor :
                 row[e].status = "ONLINE" /\ row'[e].status = "OFFLINE" /\ orders' = orders
                     => Idle(e)]_vars
  <2>. SUFFICES ASSUME NEW e \in Executor, row[e].status = "ONLINE",
                       row'[e].status = "OFFLINE", orders' = orders
                PROVE  Idle(e)
    OBVIOUS
  <2>1. main[e] = "unregister"
    BY <1>1, Withdrawals DEF Unregister
  <2>. QED  BY <1>1, <2>1 DEF LifeInv, Life, Idle
<1>. QED  BY <1>1, LifeInit, LifeInductive, TypeCorrect, PTL DEF Spec, WithdrawnIsIdle

-----------------------------------------------------------------------------
(* Cancellation                                                             *)

\* What was cancelled when it was taken is cancelled when it is looked at.
Doomed(e) ==
    exec[e].doomed => /\ exec[e].pc = "check" => JobOf(exec[e].msg) \in cancelled[e]
                      /\ exec[e].pc \notin {"run", "report"}
DoomedInv == \A e \in Executor : Doomed(e)

LEMMA DoomedStep ==
    ASSUME TypeOK, NEW e \in Executor, Doomed(e), Step(e) PROVE Doomed(e)'
<1>0. cancelled[e] \subseteq cancelled'[e] /\ \A i : JobOf(i)' = JobOf(i)
  <2>1. UNCHANGED cancelled \/ ConsumeCancel(e)
    BY RowMovesOnly DEF Step, Main, Consume, Execute, Start, Signal, JoinExec, JoinBeat, StopConsume,
           StartThreads, Unregister, Crash, BeatEnds, ConsumeSubmit, RemoveQueued,
           Take, Check, Interrupt, Finish, Report, ExecEnds, Overrun
  <2>2. ConsumeCancel(e) => cancelled[e] \subseteq cancelled'[e]
    BY DEF ConsumeCancel, TypeOK
  <2>. QED  BY <2>1, <2>2, TopicsKept DEF JobOf
<1>1. CASE UNCHANGED exec
  BY <1>0, <1>1 DEF Doomed
<1>2. CASE Take(e)
  <2>1. UNCHANGED cancelled
    BY <1>2 DEF Take
  <2>. QED  BY <1>0, <1>2, <2>1, TakeStep DEF Doomed
<1>3. CASE Check(e)
  BY <1>0, <1>3, CheckStep DEF Doomed
<1>4. CASE Overrun(e) \/ Interrupt(e) \/ Finish(e)
  BY <1>0, <1>4, RunStep DEF Doomed
<1>5. CASE Report(e) \/ StartThreads(e) \/ ExecEnds(e) \/ Crash(e)
  BY <1>5, IdleStep DEF Doomed
<1>6. ASSUME \/ Start(e) \/ Signal(e) \/ JoinExec(e) \/ JoinBeat(e) \/ StopConsume(e)
             \/ Unregister(e) \/ BeatEnds(e) \/ RowMoves(e) \/ Consume(e)
      PROVE  UNCHANGED exec
  BY <1>6, RowMovesOnly DEF Start, Signal, JoinExec, JoinBeat, StopConsume, Unregister, BeatEnds, Consume, ConsumeSubmit, ConsumeCancel, RemoveQueued
<1>. QED  BY <1>1, <1>2, <1>3, <1>4, <1>5, <1>6 DEF Step, Main, Execute

\* A message keeps its job when others are added behind it.
LEMMA JobsKept ==
    ASSUME TypeOK, [Next]_vars, NEW i \in 1 .. Len(submitTopic)
    PROVE  JobOf(i)' = JobOf(i)
<1>1. ASSUME NEW j \in Job, NEW e \in Executor, Submit(j, e) PROVE JobOf(i)' = JobOf(i)
  BY <1>1, AppendProperties DEF Submit, TypeOK, JobOf
<1>2. \/ UNCHANGED submitTopic
      \/ \E j \in Job, e \in Executor : Submit(j, e)
  BY TopicsKept DEF Next, Step, Cancel, vars, topicVars
<1>. QED  BY <1>1, <1>2 DEF JobOf

LEMMA DoomedInductive == TypeOK /\ InHand /\ DoomedInv /\ [Next]_vars => DoomedInv'
<1>. SUFFICES ASSUME TypeOK, InHand, DoomedInv, [Next]_vars PROVE DoomedInv'
  OBVIOUS
<1>1. ASSUME NEW e \in Executor, Step(e) PROVE DoomedInv'
  <2>1. Doomed(e)'
    BY <1>1, DoomedStep DEF DoomedInv
  <2>2. ASSUME NEW f \in Executor, f # e PROVE Doomed(f)'
    BY <1>1, <2>2, OnlyMine, TopicsKept DEF DoomedInv, Doomed, JobOf
  <2>. QED  BY <2>1, <2>2 DEF DoomedInv
<1>2. CASE UNCHANGED procVars
  <2>1. ASSUME NEW e \in Executor, exec[e].pc = "check" PROVE JobOf(exec[e].msg)' = JobOf(exec[e].msg)
    <3>1. exec[e].msg \in 0 .. Len(submitTopic) /\ exec[e].msg # 0 /\ Len(submitTopic) \in Nat
      BY <2>1, LenProperties DEF TypeOK, InHand
    <3>2. exec[e].msg \in 1 .. Len(submitTopic)
      BY <3>1
    <3>. QED  BY <1>2, <3>2, JobsKept DEF procVars, JobOf
  <2>. QED  BY <1>2, <2>1 DEF procVars, DoomedInv, Doomed
<1>3. ASSUME \/ \E j \in Job, e \in Executor : Submit(j, e)
             \/ \E j \in Job : Cancel(j)
             \/ UNCHANGED vars
      PROVE  UNCHANGED procVars
  BY <1>3 DEF Submit, Cancel, vars
<1>. QED  BY <1>1, <1>2, <1>3 DEF Next, Step

(* A job whose cancellation was seen when the job was taken from the queue  *)
(* is never run: cancelled_jobs_ is never cleared while a job is in hand.   *)
THEOREM NoCancelledRun == Spec => []CancelledNotRun
<1>1. Init => DoomedInv
  BY DEF Init, DoomedInv, Doomed, ExecOff
<1>2. DoomedInv => CancelledNotRun
  BY DEF DoomedInv, Doomed, CancelledNotRun
<1>. QED  BY <1>1, <1>2, DoomedInductive, TypeCorrect, PTL DEF Spec

-----------------------------------------------------------------------------
(* Answers                                                                  *)

\* What one answer adds to the topic.
Sent(e, m) == \E status \in Status, overdue \in BOOLEAN : Send(e, m, status, overdue)

LEMMA FailedSent == \A e, m : Send(e, m, "FAILED", FALSE) => Sent(e, m)
BY DEF Sent, Status

LEMMA SendStep ==
    ASSUME TypeOK, NEW e \in Executor, NEW m \in Nat, Sent(e, m)
    PROVE  \/ /\ DOMAIN resultTopic' = DOMAIN resultTopic \cup {Len(resultTopic) + 1}
              /\ Len(resultTopic) + 1 \notin DOMAIN resultTopic
              /\ \A k \in DOMAIN resultTopic : resultTopic'[k] = resultTopic[k]
              /\ resultTopic'[Len(resultTopic) + 1].by = e
              /\ resultTopic'[Len(resultTopic) + 1].msg = m
              /\ UNCHANGED faults
           \/ UNCHANGED resultTopic /\ faults' > 0
<1>0. PICK status \in Status, overdue \in BOOLEAN : Send(e, m, status, overdue)
  BY DEF Sent
<1>. DEFINE r == [by |-> e, msg |-> m, status |-> status, overdue |-> overdue]
<1>1. r \in Result /\ r.by = e /\ r.msg = m /\ resultTopic \in Seq(Result)
  BY DEF Result, TypeOK
<1>2. CASE resultTopic' = Append(resultTopic, r) /\ UNCHANGED faults
  <2>1. /\ Len(resultTopic) \in Nat /\ DOMAIN resultTopic = 1 .. Len(resultTopic)
        /\ Len(resultTopic') = Len(resultTopic) + 1 /\ resultTopic' \in Seq(Result)
        /\ \A k \in 1 .. Len(resultTopic) : resultTopic'[k] = resultTopic[k]
        /\ resultTopic'[Len(resultTopic) + 1] = r
    BY <1>1, <1>2, AppendProperties, LenProperties
  <2>2. DOMAIN resultTopic' = 1 .. Len(resultTopic) + 1
    BY <2>1, LenProperties
  <2>3. /\ DOMAIN resultTopic' = DOMAIN resultTopic \cup {Len(resultTopic) + 1}
        /\ Len(resultTopic) + 1 \notin DOMAIN resultTopic
    BY <2>1, <2>2
  <2>. QED  BY <1>1, <1>2, <2>1, <2>3
<1>3. CASE Fault /\ UNCHANGED resultTopic
  BY <1>3 DEF Fault, TypeOK
<1>. QED  BY <1>0, <1>2, <1>3 DEF Send

LEMMA SendAnswers ==
    ASSUME TypeOK, NEW e \in Executor, NEW m \in Nat, Sent(e, m)
    PROVE  /\ \A f \in Executor, i \in Nat :
                 f # e \/ i # m => Answers(f, i)' = Answers(f, i)
           /\ Answers(e, m)' \subseteq Answers(e, m) \cup {Len(resultTopic) + 1}
BY SendStep DEF Answers

\* What a process has not answered yet: what is in its queue or in its hands, or
\* what it has not read.
Open(e, i) == i \in queue[e] \/ exec[e].msg = i \/ i > read[e].submit
Once(e) ==
    \A i \in Nat \ {0} :
        /\ Open(e, i) => Answers(e, i) = {}
        /\ \A k, l \in Answers(e, i) : k = l
        /\ i \in queue[e] => exec[e].msg # i
        /\ i \in queue[e] \/ exec[e].msg = i => i <= read[e].submit
OnceInv == \A e \in Executor : Once(e)

LEMMA OnceStep == ASSUME TypeOK, InHand, NEW e \in Executor, Once(e), Step(e) PROVE Once(e)'
<1>0. /\ read[e].submit \in Nat /\ exec[e].msg \in Nat /\ exec[e].status \in Status
      /\ exec[e].overdue \in BOOLEAN /\ queue[e] \subseteq Nat \ {0}
      /\ queue \in [Executor -> SUBSET (1 .. Len(submitTopic))]
  BY SMTT(30) DEF TypeOK, ExecState
<1>. USE DEF Once, Open
<1>1. ASSUME UNCHANGED <<queue, exec, read, resultTopic>> PROVE Once(e)'
  BY <1>1 DEF Answers
<1>2. CASE ConsumeSubmit(e)
  <2>1. /\ read'[e].submit = read[e].submit + 1 /\ queue'[e] = queue[e] \cup {read[e].submit + 1}
        /\ UNCHANGED <<exec, resultTopic>>
    BY <1>0, <1>2 DEF ConsumeSubmit, topicVars, TypeOK
  <2>2. \A i \in Nat \ {0} : Answers(e, i)' = Answers(e, i)
    BY <2>1 DEF Answers
  <2>. QED  BY <1>0, <2>1, <2>2
<1>3. CASE ConsumeCancel(e)
  <2>1. read'[e].submit = read[e].submit /\ UNCHANGED <<queue, exec, resultTopic>>
    BY <1>3 DEF ConsumeCancel, topicVars, TypeOK
  <2>. QED  BY <2>1 DEF Answers
<1>4. CASE RemoveQueued(e)
  <2>1. /\ UNCHANGED <<exec, read>>
        /\ queue'[e] = queue[e] \ Queued(e, consumer[e].job)
    BY <1>0, <1>4 DEF RemoveQueued
  <2>2. CASE UNCHANGED resultTopic
    BY <2>1, <2>2 DEF Answers
  <2>3. ASSUME NEW m \in Queued(e, consumer[e].job), Sent(e, m) PROVE Once(e)'
    <3>1. m \in queue[e] /\ m \in Nat \ {0} /\ m \notin queue'[e]
      BY <1>0, <2>1 DEF Queued
    <3>2. /\ \A i \in Nat : i # m => Answers(e, i)' = Answers(e, i)
          /\ Answers(e, m)' \subseteq Answers(e, m) \cup {Len(resultTopic) + 1}
      BY <2>3, <3>1, SendAnswers
    <3>3. Answers(e, m) = {} /\ exec[e].msg # m /\ m <= read[e].submit
      BY <3>1
    <3>. QED  BY <1>0, <2>1, <3>1, <3>2, <3>3
  <2>4. \/ UNCHANGED resultTopic
        \/ \E m \in Queued(e, consumer[e].job) : Sent(e, m)
    BY <1>4, FailedSent, Zenon DEF RemoveQueued
  <2>. QED  BY <2>2, <2>3, <2>4
<1>5. CASE Take(e)
  <2>1. PICK m \in queue[e] : exec'[e].msg = m /\ queue' = [queue EXCEPT ![e] = @ \ {m}]
    BY <1>5, TakeStep
  <2>2. queue'[e] = queue[e] \ {m} /\ UNCHANGED <<read, resultTopic>>
    BY <1>0, <1>5, <2>1 DEF Take, topicVars
  <2>3. \A i \in Nat \ {0} : Answers(e, i)' = Answers(e, i)
    BY <2>2 DEF Answers
  <2>. QED  BY <1>0, <2>1, <2>2, <2>3
<1>6. ASSUME NEW m \in Nat \ {0}, exec[e].msg = m, Sent(e, m), exec'[e].msg = 0,
             UNCHANGED <<queue, read>>
      PROVE  Once(e)'
  <2>1. /\ \A i \in Nat : i # m => Answers(e, i)' = Answers(e, i)
        /\ Answers(e, m)' \subseteq Answers(e, m) \cup {Len(resultTopic) + 1}
    BY <1>6, SendAnswers
  <2>2. Answers(e, m) = {} /\ m \notin queue[e] /\ m <= read[e].submit
    BY <1>6
  <2>. QED  BY <1>0, <1>6, <2>1, <2>2
<1>7. CASE Check(e)
  <2>1. UNCHANGED <<queue, read>> /\ exec[e].pc = "check"
    BY <1>7 DEF Check
  <2>2. exec[e].msg \in Nat \ {0} 
    BY <1>0, <2>1 DEF InHand
  <2>3. CASE UNCHANGED resultTopic /\ exec'[e].msg = exec[e].msg
    BY <2>1, <2>3 DEF Answers
  <2>4. \/ UNCHANGED resultTopic /\ exec'[e].msg = exec[e].msg
        \/ Sent(e, exec[e].msg) /\ exec'[e].msg = 0
    BY <1>7, CheckStep, FailedSent
  <2>. QED  BY <1>6, <2>1, <2>2, <2>3, <2>4
<1>8. CASE Overrun(e) \/ Interrupt(e) \/ Finish(e)
  <2>1. exec'[e].msg = exec[e].msg /\ UNCHANGED <<queue, read, resultTopic>>
    BY <1>8, RunStep DEF Overrun, Interrupt, Finish, topicVars
  <2>. QED  BY <2>1 DEF Answers
<1>9. CASE Report(e)
  <2>1. /\ UNCHANGED <<queue, read>> /\ exec[e].pc = "report" /\ exec'[e].msg = 0
        /\ Sent(e, exec[e].msg)
    BY <1>0, <1>9, IdleStep DEF Report, Sent
  <2>2. exec[e].msg \in Nat \ {0}
    BY <1>0, <2>1 DEF InHand
  <2>. QED  BY <1>0, <1>6, <2>1, <2>2
<1>10. CASE StartThreads(e) \/ ExecEnds(e) \/ Crash(e)
  <2>1. /\ exec'[e].msg = 0 /\ UNCHANGED <<read, resultTopic>>
        /\ queue'[e] \subseteq queue[e]
    BY <1>0, <1>10, IdleStep DEF StartThreads, ExecEnds, Crash, topicVars
  <2>2. \A i \in Nat \ {0} : Answers(e, i)' = Answers(e, i)
    BY <2>1 DEF Answers
  <2>. QED  BY <1>0, <2>1, <2>2
<1>11. ASSUME \/ Start(e) \/ Signal(e) \/ JoinExec(e) \/ JoinBeat(e) \/ StopConsume(e)
              \/ Unregister(e) \/ BeatEnds(e) \/ RowMoves(e)
       PROVE  UNCHANGED <<queue, exec, read, resultTopic>>
  BY <1>11, RowMovesOnly DEF Start, Signal, JoinExec, JoinBeat, StopConsume, Unregister, BeatEnds, topicVars
<1>. QED  BY <1>1, <1>2, <1>3, <1>4, <1>5, <1>7, <1>8, <1>9, <1>10, <1>11
          DEF Step, Main, Consume, Execute

\* A step answers a message of its own process, or nothing.
LEMMA StepAnswers ==
    ASSUME TypeOK, InHand, NEW e \in Executor, Step(e)
    PROVE  \/ UNCHANGED resultTopic
           \/ \E m \in 1 .. Len(submitTopic) : Sent(e, m)
<1>0. /\ exec[e].msg \in 0 .. Len(submitTopic) /\ exec[e].status \in Status
      /\ exec[e].overdue \in BOOLEAN /\ queue[e] \subseteq 1 .. Len(submitTopic)
      /\ Len(submitTopic) \in Nat
  BY LenProperties DEF TypeOK, ExecState
<1>1. CASE RemoveQueued(e)
  <2>1. \/ UNCHANGED resultTopic
        \/ \E m \in Queued(e, consumer[e].job) : Sent(e, m)
    BY <1>1, FailedSent, Zenon DEF RemoveQueued
  <2>. QED  BY <1>0, <2>1 DEF Queued
<1>2. CASE Check(e) \/ Report(e)
  <2>1. UNCHANGED resultTopic \/ Sent(e, exec[e].msg)
    <3>1. Check(e) => UNCHANGED resultTopic \/ Sent(e, exec[e].msg)
      BY CheckStep, FailedSent
    <3>2. Report(e) => Sent(e, exec[e].msg)
      BY <1>0 DEF Report, Sent
    <3>. QED  BY <1>2, <3>1, <3>2
  <2>2. exec[e].msg \in 1 .. Len(submitTopic)
    <3>1. exec[e].pc \in {"check", "report"}
      BY <1>2 DEF Check, Report
    <3>. QED  BY <1>0, <3>1 DEF InHand
  <2>. QED  BY <2>1, <2>2
<1>3. ASSUME \/ Start(e) \/ Signal(e) \/ Crash(e) \/ Main(e) \/ BeatEnds(e) \/ RowMoves(e)
             \/ ConsumeSubmit(e) \/ ConsumeCancel(e) \/ Take(e) \/ Interrupt(e) \/ Finish(e)
             \/ ExecEnds(e) \/ Overrun(e)
      PROVE  UNCHANGED resultTopic
  BY <1>3, RowMovesOnly DEF Main, Start, Signal, JoinExec, JoinBeat, StopConsume, StartThreads, Unregister,
              Crash, BeatEnds, ConsumeSubmit, ConsumeCancel, Take, Interrupt, Finish,
              ExecEnds, Overrun, topicVars
<1>. QED  BY <1>1, <1>2, <1>3 DEF Step, Consume, Execute

LEMMA OnceInductive == TypeOK /\ InHand /\ OnceInv /\ [Next]_vars => OnceInv'
<1>. SUFFICES ASSUME TypeOK, InHand, OnceInv, [Next]_vars PROVE OnceInv'
  OBVIOUS
<1>1. ASSUME NEW e \in Executor, Step(e) PROVE OnceInv'
  <2>1. Once(e)'
    BY <1>1, OnceStep DEF OnceInv
  <2>2. ASSUME NEW f \in Executor, f # e PROVE Once(f)'
    <3>1. \A i \in Nat \ {0} : Answers(f, i)' = Answers(f, i)
      <4>1. Len(submitTopic) \in Nat
        BY LenProperties DEF TypeOK
      <4>. QED  BY <1>1, <2>2, <4>1, StepAnswers, SendAnswers DEF Answers
    <3>. QED  BY <1>1, <2>2, <3>1, OnlyMine DEF OnceInv, Once, Open
  <2>. QED  BY <2>1, <2>2 DEF OnceInv
<1>2. CASE UNCHANGED <<procVars, resultTopic>>
  BY <1>2 DEF procVars, OnceInv, Once, Open, Answers
<1>3. ASSUME \/ \E j \in Job, e \in Executor : Submit(j, e)
             \/ \E j \in Job : Cancel(j)
             \/ UNCHANGED vars
      PROVE  UNCHANGED <<procVars, resultTopic>>
  BY <1>3 DEF Submit, Cancel, vars, topicVars
<1>. QED  BY <1>1, <1>2, <1>3 DEF Next, Step

LEMMA OnceInit == Init => OnceInv
BY DEF Init, OnceInv, Once, Answers, ExecOff

(* A process answers each message at most once, and none that it still has, *)
(* whatever is cancelled while cancel_job rebuilds the queue and the exec   *)
(* thread takes from it.                                                    *)
THEOREM OneAnswer == Spec => []AnsweredOnce
<1>1. TypeOK /\ OnceInv => AnsweredOnce
  <2>. SUFFICES ASSUME TypeOK, OnceInv, NEW e \in Executor, NEW i \in 1 .. Len(submitTopic)
                PROVE  Cardinality(Answers(e, i)) + (IF exec[e].msg = i THEN 1 ELSE 0) <= 1
    BY DEF AnsweredOnce
  <2>1. i \in Nat \ {0}
    BY LenProperties DEF TypeOK
  <2>2. /\ exec[e].msg = i => Answers(e, i) = {}
        /\ \A k, l \in Answers(e, i) : k = l
    BY <2>1 DEF OnceInv, Once, Open
  <2>3. Answers(e, i) = {} \/ \E k : Answers(e, i) = {k}
    BY <2>2
  <2>4. Answers(e, i) = {} => Cardinality(Answers(e, i)) = 0
    BY FS_EmptySet
  <2>5. CASE exec[e].msg = i
    BY <2>2, <2>4, <2>5
  <2>6. CASE exec[e].msg # i
    <3>1. Cardinality(Answers(e, i)) \in {0, 1}
      BY <2>3, <2>4, FS_Singleton
    <3>. QED  BY <2>6, <3>1
  <2>. QED  BY <2>5, <2>6
<1>. QED  BY <1>1, OnceInit, OnceInductive, TypeCorrect, PTL DEF Spec

-----------------------------------------------------------------------------
(* Nothing is forgotten                                                     *)

\* Answers name messages that exist, so that their jobs are known for good.
ResultsKnown == \A k \in DOMAIN resultTopic : resultTopic[k].msg \in 1 .. Len(submitTopic)

LEMMA KnownInductive == TypeOK /\ InHand /\ ResultsKnown /\ [Next]_vars => ResultsKnown'
<1>. SUFFICES ASSUME TypeOK, InHand, ResultsKnown, [Next]_vars PROVE ResultsKnown'
  OBVIOUS
<1>0. Len(submitTopic) \in Nat
  BY LenProperties DEF TypeOK
<1>1. ASSUME NEW e \in Executor, Step(e) PROVE ResultsKnown'
  <2>1. UNCHANGED submitTopic
    BY <1>1, TopicsKept
  <2>2. ASSUME NEW m \in 1 .. Len(submitTopic), Sent(e, m) PROVE ResultsKnown'
    BY <1>0, <2>1, <2>2, SendStep DEF ResultsKnown
  <2>. QED  BY <1>1, <2>1, <2>2, StepAnswers DEF ResultsKnown
<1>2. ASSUME NEW j \in Job, NEW e \in Executor, Submit(j, e) PROVE ResultsKnown'
  <2>1. Len(submitTopic') = Len(submitTopic) + 1 /\ UNCHANGED resultTopic
    BY <1>2, AppendProperties DEF Submit, TypeOK
  <2>2. 1 .. Len(submitTopic) \subseteq 1 .. Len(submitTopic')
    BY <1>0, <2>1
  <2>. QED  BY <2>1, <2>2 DEF ResultsKnown
<1>3. ASSUME (\E j \in Job : Cancel(j)) \/ UNCHANGED vars PROVE ResultsKnown'
  BY <1>3 DEF Cancel, vars, topicVars, ResultsKnown
<1>. QED  BY <1>1, <1>2, <1>3 DEF Next, Step

\* Once faults have happened, or a job is answered, that remains so.
LEMMA Remains ==
    ASSUME TypeOK, InHand, ResultsKnown, [Next]_vars
    PROVE  /\ faults > 0 => faults' > 0
           /\ \A f \in Executor, j \in Job : JobAnswered(f, j) => JobAnswered(f, j)'
<1>0. Len(submitTopic) \in Nat /\ faults \in Nat
  BY LenProperties DEF TypeOK
<1>1. faults > 0 => faults' > 0
  <2>1. UNCHANGED faults \/ Fault
    BY RowMovesOnly DEF Next, Main, Consume, Execute, Start, Signal, JoinExec, JoinBeat, StopConsume,
           StartThreads, Unregister, Crash, BeatEnds, ConsumeSubmit, ConsumeCancel,
           RemoveQueued, Take, Check, Interrupt, Finish, Report, ExecEnds, Overrun, Submit,
           Cancel, vars, Send
  <2>. QED  BY <1>0, <2>1 DEF Fault
<1>2. ASSUME NEW k \in DOMAIN resultTopic PROVE k \in DOMAIN resultTopic' /\ resultTopic'[k] = resultTopic[k]
  <2>1. \/ UNCHANGED resultTopic
        \/ \E e \in Executor, m \in 1 .. Len(submitTopic) : Sent(e, m)
    BY StepAnswers DEF Next, Step, Submit, Cancel, vars, topicVars
  <2>. QED  BY <1>0, <1>2, <2>1, SendStep
<1>3. ASSUME NEW k \in DOMAIN resultTopic
      PROVE  JobOf(resultTopic[k].msg)' = JobOf(resultTopic[k].msg)
  BY <1>2, <1>3, JobsKept DEF ResultsKnown, JobOf
<1>. QED  BY <1>1, <1>2, <1>3 DEF JobAnswered

Kept(e, i)  == i \in queue[e] \/ exec[e].msg = i \/ JobAnswered(e, JobOf(i))
NoneLost(e) == \A i \in 1 .. read[e].submit : faults > 0 \/ Kept(e, i)

LEMMA SentAnswered ==
    ASSUME TypeOK, NEW e \in Executor, NEW m \in Nat, Sent(e, m), UNCHANGED submitTopic, faults' = 0
    PROVE  JobAnswered(e, JobOf(m))'
BY SendStep DEF JobAnswered, JobOf

\* The process that moves.
LEMMA KeptStep ==
    ASSUME TypeOK, InHand, ResultsKnown, [Next]_vars, NEW e \in Executor, Life(e), Step(e),
           NEW i \in 1 .. Len(submitTopic), Kept(e, i), faults' = 0
    PROVE  Kept(e, i)'
<1>0. /\ queue \in [Executor -> SUBSET (1 .. Len(submitTopic))]
      /\ exec[e].msg \in Nat /\ exec[e].status \in Status /\ exec[e].overdue \in BOOLEAN
      /\ UNCHANGED submitTopic /\ JobOf(i)' = JobOf(i) /\ i \in Nat \ {0} /\ JobOf(i) \in Job
  <2>1. submitTopic \in Seq(Job \X Executor) /\ Len(submitTopic) \in Nat
    BY LenProperties DEF TypeOK
  <2>2. submitTopic[i] \in Job \X Executor
    BY <2>1, ElementOfSeq
  <2>. QED  BY <2>1, <2>2, TopicsKept, SMTT(30) DEF TypeOK, ExecState, JobOf
<1>1. CASE JobAnswered(e, JobOf(i))
  BY <1>0, <1>1, Remains DEF Kept, JobAnswered, JobOf
<1>2. CASE Sent(e, i)
  BY <1>0, <1>2, SentAnswered DEF Kept
<1>. DEFINE Here == i \in queue[e] \/ exec[e].msg = i
<1>3. CASE Here /\ Take(e)
  <2>1. exec[e].msg = 0
    BY <1>3 DEF Take, InHand
  <2>2. PICK m \in queue[e] : exec'[e].msg = m /\ queue' = [queue EXCEPT ![e] = @ \ {m}]
    BY <1>3, TakeStep
  <2>3. i \in queue[e] /\ queue'[e] = queue[e] \ {m}
    BY <1>0, <1>3, <2>1, <2>2
  <2>. QED  BY <2>2, <2>3 DEF Kept
<1>4. CASE Here /\ RemoveQueued(e)
  <2>1. /\ UNCHANGED exec /\ queue'[e] = queue[e] \ Queued(e, consumer[e].job)
        /\ \/ Queued(e, consumer[e].job) = {}
           \/ \E m \in Queued(e, consumer[e].job) : Sent(e, m)
    BY <1>0, <1>4, FailedSent DEF RemoveQueued
  <2>2. CASE i \notin Queued(e, consumer[e].job)
    BY <1>4, <2>1, <2>2 DEF Kept
  <2>3. CASE i \in Queued(e, consumer[e].job)
    <3>1. PICK m \in Queued(e, consumer[e].job) : Sent(e, m)
      BY <2>1, <2>3
    <3>2. m \in Nat /\ JobOf(m) = JobOf(i) /\ JobOf(m)' = JobOf(m)
      BY <1>0, <2>3, <3>1 DEF Queued, JobOf
    <3>3. JobAnswered(e, JobOf(m))'
      BY <1>0, <3>1, <3>2, SentAnswered
    <3>. QED  BY <1>0, <3>2, <3>3 DEF Kept, JobAnswered
  <2>. QED  BY <2>2, <2>3
<1>5. CASE Here /\ Check(e)
  <2>1. UNCHANGED queue
    BY <1>5 DEF Check
  <2>2. exec'[e].msg = exec[e].msg \/ Sent(e, exec[e].msg)
    BY <1>5, CheckStep, FailedSent
  <2>. QED  BY <1>2, <1>5, <2>1, <2>2 DEF Kept
<1>6. CASE Here /\ Report(e)
  <2>1. UNCHANGED queue /\ Sent(e, exec[e].msg)
    BY <1>0, <1>6 DEF Report, Sent
  <2>. QED  BY <1>2, <1>6, <2>1 DEF Kept
<1>7. CASE Here /\ (Overrun(e) \/ Interrupt(e) \/ Finish(e))
  <2>1. UNCHANGED queue /\ exec'[e].msg = exec[e].msg
    BY <1>7, RunStep DEF Overrun, Interrupt, Finish
  <2>. QED  BY <1>7, <2>1 DEF Kept
<1>8. CASE Here /\ (StartThreads(e) \/ ExecEnds(e))
  <2>1. exec[e].msg = 0 /\ UNCHANGED queue
    BY <1>8 DEF StartThreads, ExecEnds, InHand, Life, Idle
  <2>. QED  BY <1>0, <1>8, <2>1 DEF Kept
<1>9. ~Crash(e)
  BY DEF Crash, Fault, TypeOK
<1>10. CASE Here /\ ConsumeSubmit(e)
  <2>1. UNCHANGED exec /\ queue[e] \subseteq queue'[e]
    BY <1>0, <1>10 DEF ConsumeSubmit
  <2>. QED  BY <1>10, <2>1 DEF Kept
<1>11. CASE Here /\ (\/ Start(e) \/ Signal(e) \/ JoinExec(e) \/ JoinBeat(e) \/ StopConsume(e)
                     \/ Unregister(e) \/ BeatEnds(e) \/ RowMoves(e) \/ ConsumeCancel(e))
  <2>1. UNCHANGED <<queue, exec>>
    BY <1>11, RowMovesOnly DEF Start, Signal, JoinExec, JoinBeat, StopConsume, Unregister, BeatEnds, ConsumeCancel
  <2>. QED  BY <1>11, <2>1 DEF Kept
<1>. QED  BY <1>1, <1>3, <1>4, <1>5, <1>6, <1>7, <1>8, <1>9, <1>10, <1>11
          DEF Kept, Step, Main, Consume, Execute

LEMMA ReadStep ==
    ASSUME TypeOK, NEW e \in Executor, Step(e)
    PROVE  \/ read'[e].submit = read[e].submit
           \/ read'[e].submit = read[e].submit + 1 /\ read[e].submit + 1 \in queue'[e]
<1>0. read \in [Executor -> [submit : 0 .. Len(submitTopic), cancel : 0 .. Len(cancelTopic)]]
  BY DEF TypeOK
<1>1. CASE ConsumeSubmit(e)
  BY <1>0, <1>1 DEF ConsumeSubmit, TypeOK
<1>2. CASE ConsumeCancel(e)
  BY <1>0, <1>2 DEF ConsumeCancel
<1>3. CASE ~Consume(e) \/ RemoveQueued(e)
  BY <1>3, RowMovesOnly DEF Step, Main, Execute, Start, Signal, JoinExec, JoinBeat, StopConsume,
              StartThreads, Unregister, Crash, BeatEnds, RemoveQueued, Take, Check,
              Interrupt, Finish, Report, ExecEnds, Overrun
<1>. QED  BY <1>1, <1>2, <1>3 DEF Consume

KeptInv == \A e \in Executor : NoneLost(e)

LEMMA KeptInductive ==
    TypeOK /\ InHand /\ LifeInv /\ ResultsKnown /\ KeptInv /\ [Next]_vars => KeptInv'
<1>. SUFFICES ASSUME TypeOK, InHand, LifeInv, ResultsKnown, KeptInv, [Next]_vars
              PROVE  KeptInv'
  OBVIOUS
<1>01. faults' \in Nat
  BY TopicsPreserved DEF TopicsOK
<1>02. CASE faults' > 0
  BY <1>02 DEF KeptInv, NoneLost
<1>. SUFFICES ASSUME faults' = 0 PROVE KeptInv'
  BY <1>01, <1>02
<1>0. /\ \A f \in Executor : read[f].submit \in Nat /\ read[f].submit <= Len(submitTopic)
      /\ Len(submitTopic) \in Nat /\ submitTopic \in Seq(Job \X Executor) /\ faults \in Nat
  BY LenProperties DEF TypeOK
<1>1. ASSUME NEW f \in Executor, NEW i \in 1 .. read[f].submit PROVE Kept(f, i) /\ i \in 1 .. Len(submitTopic)
  <2>1. faults = 0
    BY <1>0, Remains
  <2>. QED  BY <1>0, <1>1, <2>1 DEF KeptInv, NoneLost
\* Whoever does not move keeps what it had.
<1>2. ASSUME NEW f \in Executor, NEW i \in 1 .. read[f].submit,
             UNCHANGED <<queue[f], exec[f]>>
      PROVE  Kept(f, i)'
  <2>1. i \in 1 .. Len(submitTopic) /\ Kept(f, i)
    BY <1>1, <1>2
  <2>2. JobOf(i)' = JobOf(i) /\ JobOf(i) \in Job
    <3>1. submitTopic[i] \in Job \X Executor
      BY <1>0, <2>1, ElementOfSeq
    <3>. QED  BY <2>1, <3>1, JobsKept DEF JobOf
  <2>3. JobAnswered(f, JobOf(i)) => JobAnswered(f, JobOf(i))'
    BY <2>2, Remains DEF JobAnswered
  <2>. QED  BY <1>2, <2>1, <2>3 DEF Kept
<1>3. ASSUME NEW e \in Executor, Step(e) PROVE KeptInv'
  <2>1. ASSUME NEW i \in 1 .. read'[e].submit PROVE Kept(e, i)'
    <3>1. CASE i \in 1 .. read[e].submit
      BY <1>1, <1>3, <3>1, KeptStep DEF LifeInv
    <3>2. CASE i = read[e].submit + 1
      BY <1>0, <1>3, <2>1, <3>2, ReadStep DEF Kept
    <3>. QED  BY <1>0, <1>3, <2>1, <3>1, <3>2, ReadStep
  <2>2. ASSUME NEW f \in Executor, f # e, NEW i \in 1 .. read'[f].submit PROVE Kept(f, i)'
    BY <1>2, <1>3, <2>2, OnlyMine
  <2>. QED  BY <2>1, <2>2 DEF KeptInv, NoneLost
<1>4. CASE UNCHANGED procVars
  BY <1>2, <1>4 DEF procVars, KeptInv, NoneLost
<1>5. ASSUME \/ \E j \in Job, e \in Executor : Submit(j, e)
             \/ \E j \in Job : Cancel(j)
             \/ UNCHANGED vars
      PROVE  UNCHANGED procVars
  BY <1>5 DEF Submit, Cancel, vars
<1>. QED  BY <1>3, <1>4, <1>5 DEF Next, Step

(* A job that a process has read is in its queue, in hand or answered for,  *)
(* unless a message was lost or a process crashed: cancel_job, which takes  *)
(* the queue apart under one lock and puts it together, loses none.         *)
THEOREM NoneForgotten == Spec => []NothingForgotten
<1>1. Init => ResultsKnown /\ KeptInv
  BY EmptySeq DEF Init, ResultsKnown, KeptInv, NoneLost
<1>2. KeptInv => NothingForgotten
  BY DEF KeptInv, NoneLost, Kept, NothingForgotten
<1>. QED  BY <1>1, <1>2, LifeInit, LifeInductive, KnownInductive, KeptInductive, TypeCorrect, PTL
          DEF Spec
=============================================================================
