------------------------------- MODULE JobLife -------------------------------
(***************************************************************************)
(* What the scheduler processes together promise about the life of a job,  *)
(* said without processes, threads, tables or topics.  A job is saved once *)
(* and deleted for good; it has executions only while it is saved; an      *)
(* execution ends as an executor reported, and executors report on nothing *)
(* but what they were sent.  JobScheduler implements this specification.   *)
(***************************************************************************)
EXTENDS Naturals, Sequences

CONSTANTS Job,        \* job ids
          Outcome     \* how an execution can end

VARIABLES life,       \* "new", then "saved", then "gone"
          sent,       \* jobs that executors were told to run
          reports,    \* what executors said: pairs of a job and an outcome
          records     \* executions on record, in the order they were opened

vars == <<life, sent, reports, records>>

Open == "open"

Init ==
    /\ life = [j \in Job |-> "new"]
    /\ sent = {}
    /\ reports = {}
    /\ records = [j \in Job |-> <<>>]

\* The job gets its id and is saved, or saving it fails and the id is wasted.
Submit(j) ==
    /\ life[j] = "new"
    /\ \E l \in {"saved", "gone"} : life' = [life EXCEPT ![j] = l]
    /\ UNCHANGED <<sent, reports, records>>

Delete(j) ==
    /\ life[j] = "saved"
    /\ life' = [life EXCEPT ![j] = "gone"]
    /\ records' = [records EXCEPT ![j] = <<>>]
    /\ UNCHANGED <<sent, reports>>

OpenExecution(j) ==
    /\ life[j] = "saved"
    /\ records' = [records EXCEPT ![j] = Append(@, Open)]
    /\ UNCHANGED <<life, sent, reports>>

\* A job that is deleted meanwhile may still be sent.
Order(j) ==
    /\ life[j] # "new"
    /\ sent' = sent \cup {j}
    /\ UNCHANGED <<life, reports, records>>

Report(j, outcome) ==
    /\ j \in sent
    /\ reports' = reports \cup {<<j, outcome>>}
    /\ UNCHANGED <<life, sent, records>>

\* The last of several reports on one execution stands.
Close(j, i, outcome) ==
    /\ <<j, outcome>> \in reports
    /\ i \in DOMAIN records[j]
    /\ records' = [records EXCEPT ![j][i] = outcome]
    /\ UNCHANGED <<life, sent, reports>>

Next ==
    \E j \in Job :
        \/ Submit(j) \/ Delete(j) \/ OpenExecution(j) \/ Order(j)
        \/ \E outcome \in Outcome :
              Report(j, outcome) \/ \E i \in DOMAIN records[j] : Close(j, i, outcome)

Spec == Init /\ [][Next]_vars
=============================================================================
