---------------------------- MODULE MCTransport ----------------------------
(***************************************************************************)
(* The transport below the mesh, side by side: the table of connections,   *)
(* the reliable exchange over them, and the queues of the QoS scheduler.   *)
(* They share no state: in a behaviour one of them runs and the others     *)
(* stay as they started.                                                   *)
(***************************************************************************)
EXTENDS PeerConnections, ReliableLink, Qos

CONSTANTS p1, p2, c1, c2, c3, frame

MCPeers == {p1, p2}
MCConns == {c1, c2, c3}
MCRemote == [c \in MCConns |-> IF c = c3 THEN p2 ELSE p1]
MCFrames == {frame}

\* Connections of one peer are only compared for equality.
MCSymmetry == Permutations({c1, c2})

MCKinds == {"Raft", "RaftSnapshot", "User"}
MCKindPriority ==
  [k \in MCKinds |-> CASE k = "Raft" -> 0 [] k = "RaftSnapshot" -> 1 [] OTHER -> 2]
MCLimits == [k \in MCKinds |-> [max_bytes |-> 6, max_items |-> 4]]
MCScheduler == [weights |-> (0 :> 2) @@ (1 :> 1) @@ (2 :> 1), quantum_bytes |-> 2]

VARIABLE part

TransportInit ==
  /\ part \in {"peers", "link", "qos"}
  /\ Init /\ LinkInit /\ QosInit

TransportNext ==
  \/ part = "peers" /\ Next /\ UNCHANGED <<part, linkVars, qosVars>>
  \/ part = "link" /\ LinkNext /\ UNCHANGED <<part, vars, qosVars>>
  \/ part = "qos" /\ QosNext /\ UNCHANGED <<part, vars, linkVars>>

TransportSpec ==
  TransportInit /\ [][TransportNext]_<<part, vars, linkVars, qosVars>>
=============================================================================
