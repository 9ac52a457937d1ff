--------------------------- MODULE LeaderElection ---------------------------
(***************************************************************************)
(* The election of the scheduler's leader: leader_election_loop of         *)
(* scheduler.cpp over ZkRegistry and ZkClient.  ZooKeeper keeps the node   *)
(* LEADER_PATH, its data and, if it is ephemeral, the process whose session*)
(* it belongs to.  ZkRegistry::init of every process makes the node first, *)
(* as a persistent one.  A round of the loop is three steps, because the   *)
(* connection may be lost between its calls: elect_leader, then the role   *)
(* is taken, or get_current_leader, then the role is given up.  is_leader_ *)
(* is written by the loop's thread alone; JobScheduler has the rest.       *)
(*                                                                         *)
(* A definition Op_fault is a faulty variant of Op, never part of Next: it *)
(* is what the properties are validated against.                           *)
(***************************************************************************)
EXTENDS Integers, FiniteSets

CONSTANTS Node,
          Nobody,               \* no process, and the empty string as data
          MaxLoss, MaxCrash     \* bounds: lost connections, processes that end

ASSUME ElectionAssumption ==
    /\ Nobody \notin Node
    /\ MaxLoss \in Nat /\ MaxCrash \in Nat

VARIABLES leaderNode,     \* LEADER_PATH
          connected,      \* is_connected() of each process
          pc,             \* where its leader_election_loop is
          leader,         \* is_leader_
          seen,           \* current_leader of the round
          losses, crashes

vars == <<leaderNode, connected, pc, leader, seen, losses, crashes>>

Absent    == [exists |-> FALSE, data |-> Nobody, session |-> Nobody]
Up(n)     == pc[n] # "down"

TypeOK ==
    /\ leaderNode \in [exists : BOOLEAN, data : Node \cup {Nobody}, session : Node \cup {Nobody}]
    /\ connected \in [Node -> BOOLEAN] /\ leader \in [Node -> BOOLEAN]
    /\ pc \in [Node -> {"down", "try", "won", "lost", "compare"}]
    /\ seen \in [Node -> Node \cup {Nobody}]
    /\ losses \in 0 .. MaxLoss /\ crashes \in 0 .. MaxCrash
    /\ \A n \in Node : leader[n] => Up(n)

Init ==
    /\ leaderNode = Absent
    /\ connected = [n \in Node |-> FALSE]
    /\ pc = [n \in Node |-> "down"]
    /\ leader = [n \in Node |-> FALSE]
    /\ seen = [n \in Node |-> Nobody]
    /\ losses = 0 /\ crashes = 0

\* ZkClient::create_node over a live connection: the node afterwards.  A node
\* that exists is not an error; if the call is for a persistent one, the data
\* are replaced.
Created(node, data, session) ==
    IF ~node.exists THEN [exists |-> TRUE, data |-> data, session |-> session]
    ELSE IF session = Nobody THEN [node EXCEPT !.data = data]
    ELSE node

\* What ZooKeeper removes when the session of the process ends.
Expired(node, n) == IF node.session = n THEN Absent ELSE node

-----------------------------------------------------------------------------
Move(n, to) == pc' = [pc EXCEPT ![n] = to]

\* The constructor: connect, and the nodes of ZkRegistry::init.
Boot(n) ==
    /\ ~Up(n)
    /\ connected' = [connected EXCEPT ![n] = TRUE]
    /\ leaderNode' = Created(leaderNode, Nobody, Nobody)
    /\ Move(n, "try")
    /\ UNCHANGED <<leader, seen, losses, crashes>>

Elect_claims(n) ==
    LET free == leaderNode.data \in {Nobody, n} IN
    /\ pc[n] = "try"
    /\ leaderNode' = IF connected[n] /\ free THEN [leaderNode EXCEPT !.data = n] ELSE leaderNode
    /\ Move(n, IF connected[n] /\ free THEN "won" ELSE "lost")
    /\ UNCHANGED <<connected, leader, seen, losses, crashes>>
Elect_existsFails(n) ==
    /\ pc[n] = "try"
    /\ leaderNode' = IF connected[n] THEN Created(leaderNode, n, n) ELSE leaderNode
    /\ Move(n, IF connected[n] /\ ~leaderNode.exists THEN "won" ELSE "lost")
    /\ UNCHANGED <<connected, leader, seen, losses, crashes>>
\* try_become_leader: create_node(LEADER_PATH, node_id, ZOO_EPHEMERAL).
Elect(n) ==
    /\ pc[n] = "try"
    /\ leaderNode' = IF connected[n] THEN Created(leaderNode, n, n) ELSE leaderNode
    /\ Move(n, IF connected[n] THEN "won" ELSE "lost")
    /\ UNCHANGED <<connected, leader, seen, losses, crashes>>

Win(n) ==
    /\ pc[n] = "won"
    /\ leader' = [leader EXCEPT ![n] = TRUE]
    /\ Move(n, "try")
    /\ UNCHANGED <<leaderNode, connected, seen, losses, crashes>>

\* get_current_leader: the data of the node, or nothing without a connection.
ReadLeader(n) ==
    /\ pc[n] = "lost"
    /\ seen' = [seen EXCEPT ![n] = IF connected[n] THEN leaderNode.data ELSE Nobody]
    /\ Move(n, "compare")
    /\ UNCHANGED <<leaderNode, connected, leader, losses, crashes>>

Compare_keep(n) ==
    /\ pc[n] = "compare"
    /\ leader' = [leader EXCEPT ![n] = (seen[n] = n) \/ (@ /\ seen[n] = Nobody)]
    /\ seen' = [seen EXCEPT ![n] = Nobody]
    /\ Move(n, "try")
    /\ UNCHANGED <<leaderNode, connected, losses, crashes>>
\* The loop's own comparison and handle_leader_change: is_leader_ becomes
\* whether the node names this process.
Compare(n) ==
    /\ pc[n] = "compare"
    /\ leader' = [leader EXCEPT ![n] = (seen[n] = n)]
    /\ seen' = [seen EXCEPT ![n] = Nobody]
    /\ Move(n, "try")
    /\ UNCHANGED <<leaderNode, connected, losses, crashes>>

\* The connection breaks, and with it the session, or not; handle_watch_event
\* or the client library makes a new one.
Lose(n) ==
    /\ Up(n) /\ connected[n] /\ losses < MaxLoss
    /\ losses' = losses + 1
    /\ connected' = [connected EXCEPT ![n] = FALSE]
    /\ leaderNode' \in {leaderNode, Expired(leaderNode, n)}
    /\ UNCHANGED <<pc, leader, seen, crashes>>

Reconnect(n) ==
    /\ Up(n) /\ ~connected[n]
    /\ connected' = [connected EXCEPT ![n] = TRUE]
    /\ UNCHANGED <<leaderNode, pc, leader, seen, losses, crashes>>

Crash_keepsRole(n) ==
    /\ Up(n) /\ crashes < MaxCrash
    /\ crashes' = crashes + 1
    /\ connected' = [connected EXCEPT ![n] = FALSE]
    /\ seen' = [seen EXCEPT ![n] = Nobody]
    /\ leaderNode' = Expired(leaderNode, n)
    /\ Move(n, "down")
    /\ UNCHANGED <<leader, losses>>
\* The process ends, by stop() or not.
Crash(n) ==
    /\ Up(n) /\ crashes < MaxCrash
    /\ crashes' = crashes + 1
    /\ connected' = [connected EXCEPT ![n] = FALSE]
    /\ leader' = [leader EXCEPT ![n] = FALSE]
    /\ seen' = [seen EXCEPT ![n] = Nobody]
    /\ leaderNode' = Expired(leaderNode, n)
    /\ Move(n, "down")
    /\ UNCHANGED losses

Round(n) == Elect(n) \/ Win(n) \/ ReadLeader(n) \/ Compare(n)

Next == \E n \in Node : Boot(n) \/ Round(n) \/ Lose(n) \/ Reconnect(n) \/ Crash(n)

Spec == Init /\ [][Next]_vars

\* The loop of a running process goes round; the network promises nothing.
FairSpec == Spec /\ \A n \in Node : WF_vars(Round(n))
-----------------------------------------------------------------------------
(* Properties                                                               *)

(* A process without ZooKeeper gives the role up, or is connected again.    *)
CutOffStepsDown ==
    \A n \in Node : leader[n] /\ ~connected[n] ~> ~leader[n] \/ connected[n]

(* There is a leader as long as some process keeps its connection: neither  *)
(* the persistent node nor a process that ended stands in the way.          *)
SomeoneLeads ==
    \A n \in Node : <>[](Up(n) /\ connected[n]) => <>[](\E m \in Node : leader[m])

(* While the network is sound, nothing but the end of a process takes the   *)
(* role from it: a process that joins clears the node's data under the      *)
(* leader, and the leader does not notice.                                  *)
JoiningDisturbsNobody ==
    [][losses = 0 => \A n \in Node : leader[n] /\ Up(n)' => leader'[n]]_vars
-----------------------------------------------------------------------------
(* What the comments say and the code does not do                           *)

(* There is one leader, and the others stand by.                            *)
OneLeader == \A n, m \in Node : leader[n] /\ leader[m] => n = m
=============================================================================
