------------------------------- MODULE MCRaft -------------------------------
(***************************************************************************)
(* What a Raft group stands on, side by side: the group with its RPCs, the *)
(* transfer of a snapshot, the send loop below them, the task that keeps a *)
(* seed connected, and the barrier that makes the logs of the groups       *)
(* durable.  They share no state: in a behaviour one of them runs and the  *)
(* others stay as they started.                                            *)
(***************************************************************************)
EXTENDS GroupRpc, SnapshotTransfer, SendLoop, SeedReconnector, WalDurability

CONSTANTS peer, raft, user, g1, g2, g3

MCContent == <<"a", "b">>
MCVotes == <<1, 2>>
MCIndex == <<1, 2>>

MCShape ==
  (raft :> [kind |-> "Raft", to |-> peer, size |-> 3]) @@
  (user :> [kind |-> "User", to |-> All, size |-> 2])
MCCaps == peer :> {"priority_streams", "retransmission", "qos"}
MCPriority ==
  [weights |-> (0 :> 2) @@ (1 :> 1) @@ (2 :> 1), quantum_bytes |-> 2, enabled |-> TRUE]

MCGroups == {g1, g2, g3}
MCRank == g1 :> 1 @@ g2 :> 2 @@ g3 :> 3

VARIABLE part

RaftInit ==
  /\ part \in {"group", "snapshot", "send", "seed", "barrier"}
  /\ Init /\ SnapInit /\ SendInit /\ SeedInit /\ BarrierInit

RaftNext ==
  \/ part = "group" /\ Next /\ UNCHANGED <<part, snapVars, sendVars, seedVars, barrierVars>>
  \/ part = "snapshot" /\ SnapNext /\ UNCHANGED <<part, vars, sendVars, seedVars, barrierVars>>
  \/ part = "send" /\ SendNext /\ UNCHANGED <<part, vars, snapVars, seedVars, barrierVars>>
  \/ part = "seed" /\ SeedNext /\ UNCHANGED <<part, vars, snapVars, sendVars, barrierVars>>
  \/ part = "barrier" /\ BarrierNext /\ UNCHANGED <<part, vars, snapVars, sendVars, seedVars>>

raftVars == <<part, vars, snapVars, sendVars, seedVars, barrierVars>>

\* The tasks of the parts besides the group go on: nothing outside them is
\* needed for their next step.
RaftTasks ==
  \/ part = "snapshot" /\ SnapTasks /\ UNCHANGED <<part, vars, sendVars, seedVars, barrierVars>>
  \/ part = "send" /\ SendTasks /\ UNCHANGED <<part, vars, snapVars, seedVars, barrierVars>>
  \/ part = "seed" /\ SeedTasks /\ UNCHANGED <<part, vars, snapVars, sendVars, barrierVars>>
  \/ part = "barrier" /\ BarrierThreads /\ UNCHANGED <<part, vars, snapVars, sendVars, seedVars>>

RaftSpec ==
  RaftInit /\ [][RaftNext]_raftVars /\ Fairness /\ WF_raftVars(RaftTasks)

\* The send loop holds every call it has not answered and trusts a stale
\* stream at most once (lib.rs:1346), and one task at a time dials a seed
\* (reconnect.rs:107).
CarryingIsSound == SendingIsSound /\ OneTaskPerSeed

\* What has been begun ends: every call of shutdown and remove_group returns,
\* the send loop answers every caller, a snapshot transfer returns, the task of
\* a seed ends after shutdown, and a seed that stays reachable is connected
\* again. One part runs in a behaviour, so nothing of the others waits.
OperationsReturn ==
  /\ \A c \in Shutters : []<>~(ShutdownWaits(c) \/ SnapshotWaits \/ SendWaits \/ SeedLingers)
  /\ SeedIsReconnected
=============================================================================
