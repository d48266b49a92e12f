---------------------------- MODULE MeshDispatch ----------------------------
(***************************************************************************)
(* The receive path of Mesh (alopex-chirps, mesh.rs): one loop takes the   *)
(* frames of the transport in order and hands each to the gossip engine,   *)
(* to the Raft handlers, or to every subscriber through a bounded channel. *)
(* A full channel stops the loop until its subscriber reads or goes away.  *)
(***************************************************************************)
EXTENDS Naturals, Sequences, SequencesExt, FiniteSets

CONSTANTS
    Subscribers,
    capacity,           \* of a subscriber's channel: 1024 in subscribe()
    MaxFrames           \* bound: frames that arrive

ASSUME DispatchAssumption == IsFiniteSet(Subscribers) /\ capacity \in Nat \ {0} /\ MaxFrames \in Nat

VARIABLES
    arrived,            \* arrived[i]: the kind of the i-th frame received
    taken,              \* how many of them the loop has taken
    sending,            \* subscribers the frame last taken is still to go to
    channel,            \* channel[s]: the subscriber's side and what waits in it
    read,               \* read[s]: the frames s has received
    frame_subscribers,  \* the subscribers of the list
    attached_at,        \* frames taken when attach_raft_manager was called
    due                 \* ghost: due[s]: frames s has to receive

dispatchVars == <<arrived, taken, sending, channel, read, frame_subscribers, attached_at, due>>

\* Identity is the User frame that advertises a Raft node id; User stands also
\* for the file-transfer frames.
Kinds == {"Swim", "Identity", "User", "Raft"}

DispatchInit ==
    /\ arrived = <<>> /\ taken = 0 /\ sending = <<>>
    /\ channel = [s \in Subscribers |-> [state |-> "none", queue |-> <<>>]]
    /\ read = [s \in Subscribers |-> <<>>]
    /\ frame_subscribers = <<>>
    /\ attached_at = MaxFrames     \* it is not attached
    /\ due = [s \in Subscribers |-> <<>>]

Arrive(kind) ==
    /\ Len(arrived) < MaxFrames
    /\ arrived' = Append(arrived, kind)
    /\ UNCHANGED <<taken, sending, channel, read, frame_subscribers, attached_at, due>>

subscribe(s) ==
    /\ channel[s].state = "none"
    /\ channel' = [channel EXCEPT ![s].state = "open"]
    /\ frame_subscribers' = Append(frame_subscribers, s)
    /\ UNCHANGED <<arrived, taken, sending, read, attached_at, due>>

\* The receiver is dropped, with all that waits in its channel.
Unsubscribe(s) ==
    /\ channel[s].state = "open"
    /\ channel' = [channel EXCEPT ![s] = [state |-> "closed", queue |-> <<>>]]
    /\ UNCHANGED <<arrived, taken, sending, read, frame_subscribers, attached_at, due>>

\* Also the loop of attach_tso_service and the file-transfer service read so.
ReadFrame(s) ==
    /\ channel[s].queue # <<>>
    /\ read' = [read EXCEPT ![s] = Append(@, Head(channel[s].queue))]
    /\ channel' = [channel EXCEPT ![s].queue = Tail(@)]
    /\ UNCHANGED <<arrived, taken, sending, frame_subscribers, attached_at, due>>

attach_raft_manager ==
    /\ attached_at = MaxFrames
    /\ attached_at' = taken
    /\ UNCHANGED <<arrived, taken, sending, channel, read, frame_subscribers, due>>

----------------------------------------------------------------------------
\* spawn_frame_loop.

IsInternal(kind) ==
    \/ kind \in {"Swim", "Identity"}
    \/ kind = "Raft" /\ attached_at < MaxFrames

IsOpen(s) == channel[s].state = "open"

\* An internal frame is handled at once; any other goes to the subscribers
\* that are still there, closed ones leave the list.
TakeFrame ==
    /\ sending = <<>> /\ taken < Len(arrived)
    /\ taken' = taken + 1
    /\ IF IsInternal(arrived[taken + 1])
       THEN UNCHANGED <<sending, frame_subscribers, due>>
       ELSE /\ frame_subscribers' = SelectSeq(frame_subscribers, IsOpen)
            /\ sending' = frame_subscribers'
            /\ due' = [s \in Subscribers |-> IF IsOpen(s) THEN Append(due[s], taken + 1) ELSE due[s]]
    /\ UNCHANGED <<arrived, channel, read, attached_at>>

\* Mutant: a full channel loses the frame.
SendToSubscriber_TrySend ==
    /\ sending # <<>>
    /\ sending' = Tail(sending)
    /\ LET s == Head(sending) IN
       channel' = IF IsOpen(s) /\ Len(channel[s].queue) < capacity
                  THEN [channel EXCEPT ![s].queue = Append(@, taken)] ELSE channel
    /\ UNCHANGED <<arrived, taken, read, frame_subscribers, attached_at, due>>

\* send().await: waits for room, fails when the receiver is gone.
SendToSubscriber ==
    /\ sending # <<>>
    /\ sending' = Tail(sending)
    /\ LET s == Head(sending) IN
       \/ /\ IsOpen(s) /\ Len(channel[s].queue) < capacity
          /\ channel' = [channel EXCEPT ![s].queue = Append(@, taken)]
       \/ channel[s].state = "closed" /\ UNCHANGED channel
    /\ UNCHANGED <<arrived, taken, read, frame_subscribers, attached_at, due>>

----------------------------------------------------------------------------
DispatchNext ==
    \/ \E kind \in Kinds : Arrive(kind)
    \/ \E s \in Subscribers : subscribe(s) \/ Unsubscribe(s) \/ ReadFrame(s)
    \/ attach_raft_manager
    \/ TakeFrame \/ SendToSubscriber

DispatchSpec == DispatchInit /\ [][DispatchNext]_dispatchVars

\* The loop runs, and a subscriber that has not gone away reads.
DispatchStep == TakeFrame \/ SendToSubscriber \/ \E s \in Subscribers : ReadFrame(s)

DispatchFairSpec == DispatchSpec /\ WF_dispatchVars(DispatchStep)

\* Every variable has its type; a channel never holds more than its capacity.
DispatchTypeOK ==
    /\ arrived \in Seq(Kinds) /\ taken \in 0..Len(arrived)
    /\ sending \in Seq(Subscribers)
    /\ \A s \in Subscribers :
         /\ channel[s].state \in {"none", "open", "closed"}
         /\ Len(channel[s].queue) <= capacity
    /\ frame_subscribers \in Seq(Subscribers) /\ attached_at \in 0..MaxFrames

\* A subscriber reads every frame taken while it was subscribed, once and in
\* the order of arrival: when the loop is not at work on a frame, what it has
\* read and what waits in its channel is all that was due.
NoFrameIsMissed ==
    \A s \in Subscribers :
        (channel[s].state = "open" /\ s \notin ToSet(sending)) =>
            read[s] \o channel[s].queue = due[s]

\* Raft frames taken once a manager is attached never reach a subscriber, nor
\* do gossip and the frames that advertise a Raft identity.
InternalStaysInternal ==
    \A s \in Subscribers : \A i \in ToSet(read[s]) \cup ToSet(channel[s].queue) :
        /\ arrived[i] \notin {"Swim", "Identity"}
        /\ arrived[i] = "Raft" => i <= attached_at

\* A frame waits in the inbox. Nobody who reads or leaves keeps the loop waiting
\* for good, so every frame that arrives is taken, the pings behind a slow
\* subscriber's frame included.
FrameWaits == taken < Len(arrived)
=============================================================================
