------------------------------ MODULE SendLoop ------------------------------
(***************************************************************************)
(* The sending side of QuicBackend: send and broadcast put a command in a  *)
(* bounded channel, one loop schedules the commands and runs a bounded     *)
(* number of send tasks, and a task answers its caller.  Raft frames to a  *)
(* peer share a batch stream.                                              *)
(*                                                                         *)
(* Connections come and go (PeerConnections models how); here a connection *)
(* is a number, and a peer's entry is replaced by a newer one.  What a     *)
(* frame becomes on the wire is ReliableLink.                              *)
(***************************************************************************)
EXTENDS PriorityScheduler, FiniteSets

CONSTANTS
  Senders,                  \* tasks that call send or broadcast
  Shape,                    \* Shape[c]: [kind, to, size]; to \in Peers, or All
  All,
  Peers,
  Caps,                     \* Caps[p]: what peer p negotiated
  priority_config,          \* [weights, quantum_bytes, enabled]
  send_queue_capacity,
  MAX_CONCURRENT_SENDS,
  SEND_ATTEMPTS,            \* SEND_RETRY_ATTEMPTS of the code
  raft_stream_batch_size,
  MaxSends,                 \* bound: calls of send and broadcast
  MaxLinks,                 \* bound: connections of one peer
  MaxTimeouts               \* bound: attempts that time out

ASSUME SendLoopAssumption ==
  /\ send_queue_capacity \in Nat \ {0} /\ raft_stream_batch_size \in Nat \ {0}
  /\ MAX_CONCURRENT_SENDS \in Nat \ {0, 1}

VARIABLES
  calls,      \* calls[c]: "idle", or "waiting" for the answer
  sends,      \* calls of send and broadcast so far
  send_slots, \* permits left
  channel,    \* commands sent to the loop
  loop,       \* "fill", "select", "yield" or "stopped"
  scheduler,
  in_flight,  \* in_flight[c]: the task that runs c's command
  closing,    \* close has been called
  link,       \* link[p]: [current, open]: the connection of p's entry, 0 for
              \* none, and whether it is open
  lastLink,   \* connections p has had
  raft_batch_streams, \* [p]: [on, envelopes]; on = 0 for no stream
  timeouts,
  staleErrors \* [p]: writes that failed on the stream of an older connection
              \* since the current one was made

sendVars == <<calls, sends, send_slots, channel, loop, scheduler, in_flight, closing,
              link, lastLink, raft_batch_streams, timeouts, staleErrors>>
peerVars == <<link, lastLink, raft_batch_streams, staleErrors>>
loopVars == <<loop, scheduler>>

NoTask   == [pc |-> "none", attempts |-> 0, peers |-> {}, at |-> 0, to |-> All]
NoStream == [on |-> 0, envelopes |-> 0]

SendInit ==
  /\ calls = [c \in Senders |-> "idle"]
  /\ sends = 0
  /\ send_slots = send_queue_capacity
  /\ channel = <<>>
  /\ loop = "fill"
  /\ scheduler = NewScheduler
  /\ in_flight = [c \in Senders |-> NoTask]
  /\ closing = FALSE
  /\ link = [p \in Peers |-> [current |-> 1, open |-> TRUE]]
  /\ lastLink = [p \in Peers |-> 1]
  /\ raft_batch_streams = [p \in Peers |-> NoStream]
  /\ timeouts = 0
  /\ staleErrors = [p \in Peers |-> 0]

kind_priority(kind) ==
  CASE kind \in {"Control", "Raft"} -> 0
    [] kind \in {"Gossip", "RaftSnapshot", "FileTransfer"} -> 1
    [] kind = "User" -> 2

requires_ack(kind) == kind \in {"Control", "Raft", "RaftSnapshot", "FileTransfer"}

ensure_capabilities(kind, caps) ==
  /\ kind \in {"Raft", "RaftSnapshot"} => "priority_streams" \in caps
  /\ requires_ack(kind) => "retransmission" \in caps
  /\ kind # "Control" => "qos" \in caps

----------------------------------------------------------------------------
(* The callers.                                                            *)

(* send, broadcast: no slot left, or a stopped loop, is an error at once.   *)
(* (A task is named after its sender, whose next call waits for its end.)   *)
SendFrame(c) ==
  /\ calls[c] = "idle" /\ sends < MaxSends
  /\ sends' = sends + 1
  /\ in_flight[c] = NoTask
  /\ IF send_slots > 0 /\ loop # "stopped"
     THEN /\ calls' = [calls EXCEPT ![c] = "waiting"]
          /\ send_slots' = send_slots - 1
          /\ channel' = Append(channel, c)
     ELSE UNCHANGED <<calls, send_slots, channel>>
  /\ UNCHANGED <<loopVars, in_flight, closing, timeouts, peerVars>>

(* close: the shutdown broadcast, and the endpoint with its connections. *)
CloseBackend ==
  /\ ~closing
  /\ closing' = TRUE
  /\ link' = [p \in Peers |-> [link[p] EXCEPT !.open = FALSE]]
  /\ UNCHANGED <<calls, sends, send_slots, channel, loopVars, in_flight, lastLink,
                 raft_batch_streams, timeouts, staleErrors>>

----------------------------------------------------------------------------
(* The loop.                                                               *)

(* enqueue_send_command. *)
Command(c) ==
  [by |-> c, size |-> Shape[c].size,
   priority |-> IF priority_config.enabled THEN kind_priority(Shape[c].kind) ELSE 1]

EnqueueAll(s, cs) == FoldLeft(LAMBDA t, c : enqueue(t, Command(c)), s, cs)

Running == {c \in Senders : in_flight[c].pc # "none"}

(* The first attempt of a command, or its next: a broadcast begins with a   *)
(* snapshot of the connected peers.                                         *)
Attempt(c, n) ==
  [NoTask EXCEPT !.pc = IF Shape[c].to = All THEN "snapshot" ELSE "peer",
                 !.attempts = n,
                 !.peers = IF Shape[c].to = All THEN {} ELSE {Shape[c].to}]

(* One turn of the inner while: a task per message, up to the limit. *)
Fill ==
  /\ loop = "fill"
  /\ \E next \in {dequeue(scheduler, priority_config)} :
       IF Cardinality(Running) >= MAX_CONCURRENT_SENDS
       THEN loop' = "select" /\ UNCHANGED <<scheduler, in_flight>>
       ELSE /\ scheduler' = next.scheduler
            /\ IF next.message = <<>>
               THEN loop' = "select" /\ UNCHANGED in_flight
               ELSE LET c == Head(next.message).by
                    IN in_flight' = [in_flight EXCEPT ![c] = Attempt(c, 0)] /\ UNCHANGED loop
  /\ UNCHANGED <<calls, sends, send_slots, channel, closing, timeouts, peerVars>>

(* join_next *)
Join(c) ==
  /\ loop = "select" /\ in_flight[c].pc = "ended"
  /\ in_flight' = [in_flight EXCEPT ![c] = NoTask]
  /\ loop' = "fill"
  /\ UNCHANGED <<calls, sends, send_slots, channel, scheduler, closing, timeouts, peerVars>>

(* rx.recv, up to yield_now *)
Recv ==
  /\ loop = "select" /\ channel # <<>>
  /\ scheduler' = enqueue(scheduler, Command(Head(channel)))
  /\ channel' = Tail(channel)
  /\ loop' = "yield"
  /\ UNCHANGED <<calls, sends, send_slots, in_flight, closing, timeouts, peerVars>>

(* The try_recv loop after the yield. *)
DrainChannel ==
  /\ loop = "yield"
  /\ scheduler' = EnqueueAll(scheduler, channel)
  /\ channel' = <<>>
  /\ loop' = "fill"
  /\ UNCHANGED <<calls, sends, send_slots, in_flight, closing, timeouts, peerVars>>

(* A defect the mutants use: the loop breaks out without aborting its tasks *)
(* and without dropping what is queued.                                     *)
StopLoop_KeepsQueue ==
  /\ loop = "select" /\ closing
  /\ loop' = "stopped"
  /\ UNCHANGED <<calls, sends, send_slots, channel, scheduler, in_flight, closing,
                 timeouts, peerVars>>

(* Shutdown: the tasks are aborted and joined, and every command that is    *)
(* left is dropped with its slot and its oneshot sender, so that its caller *)
(* gets an error.                                                           *)
StopLoop ==
  /\ loop = "select" /\ closing
  /\ loop' = "stopped"
  /\ calls' = [c \in Senders |-> "idle"]
  /\ send_slots' = send_queue_capacity
  /\ channel' = <<>>
  /\ scheduler' = NewScheduler
  /\ in_flight' = [c \in Senders |-> NoTask]
  /\ UNCHANGED <<sends, closing, timeouts, peerVars>>

----------------------------------------------------------------------------
(* One send task: send_with_retry or broadcast_with_retry.                 *)

(* The task goes on; one that is over has just answered its caller. *)
Task(c, task) ==
  /\ in_flight' = [in_flight EXCEPT ![c] = task]
  /\ calls' = IF task.pc = "release" THEN [calls EXCEPT ![c] = "idle"] ELSE calls

TaskOver == [NoTask EXCEPT !.pc = "release"]

SnapshotPeers(c) ==
  /\ in_flight[c].pc = "snapshot"
  /\ Task(c, [in_flight[c] EXCEPT !.pc = "peer",
                                  !.peers = {p \in Peers : link[p].current # 0}])
  /\ UNCHANGED <<sends, send_slots, channel, loopVars, closing, timeouts, peerVars>>

(* An error ends a unicast; a broadcast goes on with the next peer. *)
AfterPeer(c, p) ==
  IF Shape[c].to # All THEN TaskOver
  ELSE [in_flight[c] EXCEPT !.pc = "peer", !.peers = @ \ {p}, !.to = All, !.at = 0]

(* send_to_peer up to the write: the connection is cloned out of the map,   *)
(* and a closed one is removed with its batch stream.                       *)
Clone(c, p) ==
  /\ in_flight[c].pc = "peer" /\ p \in in_flight[c].peers
  /\ LET usable == link[p].current # 0 /\ link[p].open
     IN /\ Task(c, IF usable /\ ensure_capabilities(Shape[c].kind, Caps[p])
                   THEN [in_flight[c] EXCEPT !.pc = "write", !.to = p, !.at = link[p].current]
                   ELSE AfterPeer(c, p))
        /\ IF link[p].current # 0 /\ ~link[p].open
           THEN /\ link' = [link EXCEPT ![p] = [current |-> 0, open |-> FALSE]]
                /\ raft_batch_streams' = [raft_batch_streams EXCEPT ![p] = NoStream]
           ELSE UNCHANGED <<link, raft_batch_streams>>
  /\ UNCHANGED <<sends, send_slots, channel, loopVars, closing, timeouts, lastLink, staleErrors>>

(* All peers of a broadcast are done: Ok(sent). *)
BroadcastDone(c) ==
  /\ in_flight[c].pc = "peer" /\ in_flight[c].peers = {}
  /\ Task(c, TaskOver)
  /\ UNCHANGED <<sends, send_slots, channel, loopVars, closing, timeouts, peerVars>>

IsOpen(p, k) == k # 0 /\ k = link[p].current /\ link[p].open

(* A frame with a stream of its own. *)
WriteOwnStream(c) ==
  /\ in_flight[c].pc = "write"
  /\ Shape[c].kind # "Raft" \/ raft_stream_batch_size = 1
  /\ Task(c, AfterPeer(c, in_flight[c].to))
  /\ UNCHANGED <<sends, send_slots, channel, loopVars, closing, timeouts, peerVars>>

(* A defect the mutants use: a stream that failed stays in the map. *)
AfterBatchWrite_Keeps(stream, ok) ==
  IF ~ok THEN stream
  ELSE IF stream.envelopes + 1 >= raft_stream_batch_size THEN NoStream
  ELSE [stream EXCEPT !.envelopes = @ + 1]

(* The stream is dropped when a write fails and when its batch is full. *)
AfterBatchWrite(stream, ok) ==
  IF ~ok \/ stream.envelopes + 1 >= raft_stream_batch_size THEN NoStream
  ELSE [stream EXCEPT !.envelopes = @ + 1]

(* send_batched_envelope: the peer's stream, whichever connection it was    *)
(* opened on, or a new one on the connection that was cloned.               *)
WriteBatched(c) ==
  /\ in_flight[c].pc = "write"
  /\ Shape[c].kind = "Raft" /\ raft_stream_batch_size > 1
  /\ LET p      == in_flight[c].to
         found  == raft_batch_streams[p]
         stream == IF found.on # 0 THEN found
                   ELSE [on |-> in_flight[c].at, envelopes |-> 0]
         ok     == IsOpen(p, stream.on)
     IN /\ raft_batch_streams' = [raft_batch_streams EXCEPT ![p] =
             IF found.on = 0 /\ ~ok THEN NoStream ELSE AfterBatchWrite(stream, ok)]
        /\ staleErrors' = [staleErrors EXCEPT ![p] =
             IF ~ok /\ IsOpen(p, in_flight[c].at) THEN @ + 1 ELSE @]
        /\ Task(c, AfterPeer(c, p))
  /\ UNCHANGED <<sends, send_slots, channel, loopVars, closing, link, lastLink, timeouts>>

(* time::timeout fires: the attempt is dropped where it stands.             *)
SendTimesOut(c) ==
  /\ in_flight[c].pc \in {"snapshot", "peer", "write"}
  /\ timeouts < MaxTimeouts
  /\ timeouts' = timeouts + 1
  /\ Task(c, IF in_flight[c].attempts < SEND_ATTEMPTS
             THEN Attempt(c, in_flight[c].attempts + 1)
             ELSE TaskOver)
  /\ UNCHANGED <<sends, send_slots, channel, loopVars, closing, peerVars>>

(* The command, with its slot, is dropped at the end of the task: later     *)
(* than its caller returns.                                                 *)
ReleaseSlot(c) ==
  /\ in_flight[c].pc = "release"
  /\ send_slots' = send_slots + 1
  /\ in_flight' = [in_flight EXCEPT ![c] = [NoTask EXCEPT !.pc = "ended"]]
  /\ UNCHANGED <<calls, sends, channel, loopVars, closing, timeouts, peerVars>>

----------------------------------------------------------------------------
(* The peers' connections, as PeerConnections keeps them. *)

LinkLost(p) ==
  /\ link[p].open
  /\ link' = [link EXCEPT ![p].open = FALSE]
  /\ UNCHANGED <<calls, sends, send_slots, channel, loopVars, in_flight, closing, lastLink,
                 raft_batch_streams, timeouts, staleErrors>>

(* A new connection replaces the entry and closes the previous one; the     *)
(* peer's batch stream stays as it is.                                      *)
LinkReplaced(p) ==
  /\ ~closing /\ lastLink[p] < MaxLinks
  /\ lastLink' = [lastLink EXCEPT ![p] = @ + 1]
  /\ link' = [link EXCEPT ![p] = [current |-> lastLink[p] + 1, open |-> TRUE]]
  /\ staleErrors' = [staleErrors EXCEPT ![p] = 0]
  /\ UNCHANGED <<calls, sends, send_slots, channel, loopVars, in_flight, closing,
                 raft_batch_streams, timeouts>>

----------------------------------------------------------------------------
LoopStep == Fill \/ Recv \/ DrainChannel \/ StopLoop \/ \E c \in Senders : Join(c)

TaskStep(c) ==
  \/ SnapshotPeers(c) \/ BroadcastDone(c) \/ WriteOwnStream(c) \/ WriteBatched(c)
  \/ ReleaseSlot(c)
  \/ \E p \in Peers : Clone(c, p)

SendTasks == LoopStep \/ \E c \in Senders : TaskStep(c)

SendNext ==
  \/ SendTasks
  \/ \E c \in Senders : SendFrame(c) \/ SendTimesOut(c)
  \/ CloseBackend
  \/ \E p \in Peers : LinkLost(p) \/ LinkReplaced(p)

----------------------------------------------------------------------------
Holders == {c \in Senders : in_flight[c].pc \in {"snapshot", "peer", "write"}}
           \union {m.by : m \in Queued(scheduler)} \union ToSet(channel)

SlotHolders == Holders \union {c \in Senders : in_flight[c].pc = "release"}

(* Every waiting caller's command is in one place, and every command has a  *)
(* slot: no caller waits for an answer nobody owes, and no slot leaks.      *)
EveryCallIsHeld ==
  /\ {c \in Senders : calls[c] = "waiting"} = Holders
  /\ send_slots + Cardinality(SlotHolders) = send_queue_capacity

(* A batch stream outlives its connection in the map, but costs at most one *)
(* failed write on the connection that replaced it.                         *)
StaleStreamFailsOnce == \A p \in Peers : staleErrors[p] <= 1

SendingIsSound == EveryCallIsHeld /\ StaleStreamFailsOnce

(* A send or broadcast has not returned. *)
SendWaits == \E c \in Senders : calls[c] # "idle"
=============================================================================
