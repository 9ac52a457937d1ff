------------------------ MODULE LeaderElection_proofs ------------------------
(***************************************************************************)
(* What holds of the election for any number of processes.                 *)
(***************************************************************************)
EXTENDS LeaderElection, TLAPS

(* Every variable of the election keeps its type, and a process that is down*)
(* is not a leader.                                                         *)
THEOREM TypeCorrect == Spec => []TypeOK
<1>. USE ElectionAssumption DEF TypeOK, Up
<1>1. Init => TypeOK
  BY DEF Init, Absent
<1>2. TypeOK /\ [Next]_vars => TypeOK'
  <2>. SUFFICES ASSUME TypeOK, [Next]_vars PROVE TypeOK'
    OBVIOUS
  <2>1. ASSUME NEW n \in Node, Boot(n) PROVE TypeOK'
    BY <2>1 DEF Boot, Created, Move
  <2>2. ASSUME NEW n \in Node, Elect(n) PROVE TypeOK'
    BY <2>2 DEF Elect, Created, Move
  <2>3. ASSUME NEW n \in Node, Win(n) PROVE TypeOK'
    BY <2>3 DEF Win, Move
  <2>4. ASSUME NEW n \in Node, ReadLeader(n) PROVE TypeOK'
    BY <2>4 DEF ReadLeader, Move
  <2>5. ASSUME NEW n \in Node, Compare(n) PROVE TypeOK'
    BY <2>5 DEF Compare, Move
  <2>6. ASSUME NEW n \in Node, Lose(n) PROVE TypeOK'
    <3>1. /\ connected' \in [Node -> BOOLEAN] /\ losses' \in 0 .. MaxLoss
          /\ UNCHANGED <<pc, leader, seen, crashes>>
      BY <2>6 DEF Lose
    <3>2. leaderNode' = leaderNode \/ leaderNode' = Absent
      BY <2>6 DEF Lose, Expired
    <3>3. leaderNode' \in [exists : BOOLEAN, data : Node \cup {Nobody}, session : Node \cup {Nobody}]
      <4>1. Absent \in [exists : BOOLEAN, data : Node \cup {Nobody}, session : Node \cup {Nobody}]
        BY DEF Absent
      <4>. QED  BY <3>2, <4>1, Zenon
    <3>. QED  BY <3>1, <3>3
  <2>7. ASSUME NEW n \in Node, Reconnect(n) PROVE TypeOK'
    BY <2>7 DEF Reconnect
  <2>8. ASSUME NEW n \in Node, Crash(n) PROVE TypeOK'
    BY <2>8 DEF Crash, Expired, Absent, Move
  <2>9. CASE UNCHANGED vars
    BY <2>9 DEF vars
  <2>. QED  BY <2>1, <2>2, <2>3, <2>4, <2>5, <2>6, <2>7, <2>8, <2>9 DEF Next, Round
<1>. QED  BY <1>1, <1>2, PTL DEF Spec

-----------------------------------------------------------------------------
\* The strengthening.  The node is there before anybody asks for it, belongs to
\* no session and names nobody; and while no connection was lost, every running
\* process is connected and every round is won.
NodeIsBlank == \A n \in Node : Up(n) => leaderNode = [exists |-> TRUE, data |-> Nobody, session |-> Nobody]
RoundsWon   == losses = 0 => \A n \in Node : Up(n) => connected[n] /\ pc[n] \notin {"lost", "compare"}

LEMMA RoundsWonInductive == ASSUME TypeOK, RoundsWon, [Next]_vars PROVE RoundsWon'
<1>. USE DEF TypeOK, RoundsWon, Up
<1>1. ASSUME NEW n \in Node, Boot(n) \/ Elect(n) \/ Win(n) PROVE RoundsWon'
  BY <1>1 DEF Boot, Elect, Win, Move
<1>2. ASSUME NEW n \in Node, ReadLeader(n) \/ Compare(n) PROVE RoundsWon'
  BY <1>2 DEF ReadLeader, Compare, Move
<1>3. ASSUME NEW n \in Node, Lose(n) PROVE RoundsWon'
  BY <1>3 DEF Lose
<1>4. ASSUME NEW n \in Node, Reconnect(n) \/ Crash(n) PROVE RoundsWon'
  BY <1>4 DEF Reconnect, Crash, Move
<1>5. CASE UNCHANGED vars
  BY <1>5 DEF vars
<1>. QED  BY <1>1, <1>2, <1>3, <1>4, <1>5 DEF Next, Round

(* While the network is sound, a process that joins takes the role from     *)
(* nobody, although it clears the data of LEADER_PATH: no round is lost, and*)
(* only a lost round looks at the data.                                     *)
THEOREM JoiningIsHarmless == Spec => JoiningDisturbsNobody
<1>1. Init => RoundsWon
  BY DEF Init, RoundsWon, Up
<1>2. TypeOK /\ RoundsWon /\ [Next]_vars
        => [losses = 0 => \A n \in Node : leader[n] /\ Up(n)' => leader'[n]]_vars
  <2>. SUFFICES ASSUME TypeOK, RoundsWon, Next, losses = 0,
                       NEW m \in Node, leader[m], Up(m)'
                PROVE  leader'[m]
    OBVIOUS
  <2>1. leader \in [Node -> BOOLEAN] /\ pc \in [Node -> {"down", "try", "won", "lost", "compare"}]
    BY DEF TypeOK
  <2>2. ASSUME NEW n \in Node, Boot(n) \/ Elect(n) \/ ReadLeader(n) \/ Lose(n) \/ Reconnect(n)
        PROVE  leader'[m]
    BY <2>2 DEF Boot, Elect, ReadLeader, Lose, Reconnect
  <2>3. ASSUME NEW n \in Node, Win(n) PROVE leader'[m]
    BY <2>1, <2>3 DEF Win
  <2>4. ASSUME NEW n \in Node, Compare(n) PROVE FALSE
    BY <2>4 DEF Compare, RoundsWon, Up
  <2>5. ASSUME NEW n \in Node, Crash(n) PROVE leader'[m]
    BY <2>1, <2>5 DEF Crash, Move, Up
  <2>. QED  BY <2>2, <2>3, <2>4, <2>5 DEF Next, Round
<1>. QED  BY <1>1, <1>2, RoundsWonInductive, TypeCorrect, PTL DEF Spec, JoiningDisturbsNobody

(* LEADER_PATH never belongs to a session and never names a leader, whatever *)
(* fails: elect_leader finds it there, and that is no error.  This is why   *)
(* elect_leader succeeds for every process that is connected.               *)
THEOREM NodeStaysBlank == Spec => []NodeIsBlank
<1>. DEFINE Blank == [exists |-> TRUE, data |-> Nobody, session |-> Nobody]
            Inv   == leaderNode \in {Absent, Blank} /\ NodeIsBlank
<1>1. Init => Inv
  BY DEF Init, NodeIsBlank, Up
<1>2. TypeOK /\ Inv /\ [Next]_vars => Inv'
  <2>. SUFFICES ASSUME TypeOK, Inv, [Next]_vars PROVE Inv'
    OBVIOUS
  <2>0. pc \in [Node -> {"down", "try", "won", "lost", "compare"}]
    BY DEF TypeOK
  <2>1. ASSUME NEW n \in Node, Boot(n) PROVE Inv'
    <3>1. leaderNode' = Blank
      <4>1. CASE leaderNode = Absent
        BY <2>1, <4>1 DEF Boot, Created, Absent
      <4>2. CASE leaderNode = Blank
        BY <2>1, <4>2 DEF Boot, Created
      <4>. QED  BY <4>1, <4>2
    <3>. QED  BY <3>1 DEF NodeIsBlank
  <2>2. ASSUME NEW n \in Node, Elect(n) PROVE Inv'
    <3>1. leaderNode = Blank
      BY <2>2 DEF Elect, NodeIsBlank, Up
    <3>2. leaderNode' = Blank
      <4>1. n # Nobody
        BY ElectionAssumption
      <4>. QED  BY <2>2, <3>1, <4>1 DEF Elect, Created
    <3>. QED  BY <3>2 DEF NodeIsBlank
  <2>3. ASSUME NEW n \in Node, Win(n) \/ ReadLeader(n) \/ Compare(n) \/ Reconnect(n) PROVE Inv'
    <3>1. Up(n) /\ UNCHANGED leaderNode
      BY <2>3 DEF Win, ReadLeader, Compare, Reconnect, Up
    <3>. QED  BY <3>1 DEF NodeIsBlank
  <2>4. ASSUME NEW n \in Node, Lose(n) \/ Crash(n) PROVE Inv'
    <3>1. leaderNode = Blank
      BY <2>4 DEF Lose, Crash, NodeIsBlank
    <3>2. leaderNode' = Blank
      <4>1. n # Nobody
        BY ElectionAssumption
      <4>. QED  BY <2>4, <3>1, <4>1 DEF Lose, Crash, Expired
    <3>. QED  BY <3>2 DEF NodeIsBlank
  <2>5. CASE UNCHANGED vars
    BY <2>5 DEF vars, NodeIsBlank, Up
  <2>. QED  BY <2>1, <2>2, <2>3, <2>4, <2>5 DEF Next, Round
<1>3. Inv => NodeIsBlank
  OBVIOUS
<1>. HIDE DEF Inv
<1>. QED  BY <1>1, <1>2, <1>3, TypeCorrect, PTL DEF Spec
=============================================================================
