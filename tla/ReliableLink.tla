---------------------------- MODULE ReliableLink ----------------------------
(***************************************************************************)
(* The reliable exchange of frames from one QuicBackend to another:        *)
(* sequence numbers and RetransmissionBuffer at the sender,                *)
(* DeduplicationTable at the receiver, cumulative acknowledgements, the    *)
(* retry of a timed-out send and the replay after a reconnect              *)
(* (chirps-transport-quic: retransmit.rs, receive.rs, send_with_retry,     *)
(* send_to_peer and handle_connection of lib.rs).                          *)
(*                                                                         *)
(* The two directions of a link share nothing but the acknowledgements     *)
(* that frames of one carry for the other, so one direction is modelled;   *)
(* frames coming back are the values of ack_seq they carry, any of which   *)
(* may be late, out of order or lost. quinn is external: the streams of a  *)
(* connection arrive in any order, each at most once, and those not yet    *)
(* read are lost when it closes. Which connection is retained is the       *)
(* subject of PeerConnections; here it is the last one registered.         *)
(***************************************************************************)
EXTENDS Integers, FiniteSets, FiniteSetsExt

CONSTANTS
    Frames,                 \* the calls of send_with_retry
    MaxConns,               \* bound: connections ever made
    MaxSeq,                 \* bound: sequence numbers assigned
    MaxRestarts,            \* bound: restarts, of both processes together
    SEND_RETRY_ATTEMPTS,
    window_size,            \* DeduplicationTable::window_size
    max_messages_per_peer   \* RetransmitConfig::max_messages_per_peer

ASSUME LinkAssumption ==
    /\ IsFiniteSet(Frames)
    /\ {MaxConns, MaxSeq, MaxRestarts, SEND_RETRY_ATTEMPTS, max_messages_per_peer} \subseteq Nat
    /\ window_size \in Nat \ {0}

VARIABLES
    linkQuic,       \* linkQuic[k]: the k-th connection
    linkHandler,    \* linkHandler[k]: progress of the sender's handle_connection
    connection,     \* the connection the sender retains, 0 for none
    replay,         \* replay[k]: what is left to replay on k
    buffer,         \* the sender's PeerBuffer
    dedup,          \* the receiver's PeerDedupState
    streams,        \* envelopes sent and not yet through the duplicate check
    acks,           \* the ack_seq frames of the receiver may carry to the sender
    senders,        \* senders[f]: send_with_retry of frame f
    restarts,       \* restarts of the sender and of the receiver
    kept,           \* ghost: sequences of this sender process ever accepted
    delivered       \* ghost: how often this receiver handed on a sequence

link == <<linkQuic, linkHandler, connection, replay>>
receiver == <<dedup, acks, kept, delivered>>
linkVars == <<link, buffer, streams, senders, restarts, receiver>>

LinkConns == 1..MaxConns
Seqs == 1..MaxSeq

NewBuffer == [next_seq |-> 1, acked_seq |-> 0, messages |-> {}]
NewDedup == [contiguous_seq |-> 0, out_of_order |-> {}]
NewSender == [pc |-> "idle", conn |-> 0, seq |-> 0, attempts |-> 0]
Done == [NewSender EXCEPT !.pc = "done"]

LinkInit ==
    /\ linkQuic = [k \in LinkConns |-> "unused"]
    /\ linkHandler = [k \in LinkConns |-> "none"]
    /\ connection = 0
    /\ replay = [k \in LinkConns |-> {}]
    /\ buffer = NewBuffer
    /\ dedup = NewDedup
    /\ streams = {}
    /\ acks = {0}
    /\ senders = [f \in Frames |-> NewSender]
    /\ restarts = [sender |-> 0, receiver |-> 0]
    /\ kept = {}
    /\ delivered = [s \in Seqs |-> 0]

----------------------------------------------------------------------------
\* RetransmissionBuffer and DeduplicationTable.

\* handle_overflow: the oldest messages go, those that expired (any number of
\* them) and those above the limits.
Trimmed(messages) ==
    {rest \in {{s \in messages : s >= first} : first \in 1..(MaxSeq + 1)} :
        Cardinality(rest) <= max_messages_per_peer}

\* Before the first frame there is no PeerBuffer, and nothing is noted. The
\* messages are in the order of their sequence numbers, so those at the front
\* up to ack_seq are all up to ack_seq.
process_ack(b, ack_seq) ==
    IF b = NewBuffer THEN b
    ELSE [b EXCEPT !.acked_seq = Max({@, ack_seq}), !.messages = {s \in @ : s > ack_seq}]

\* Mutant of IsNew: only the cumulative boundary is looked at.
IsNew_Boundary(d, seq) ==
    /\ seq > d.contiguous_seq
    /\ seq <= d.contiguous_seq + window_size

\* check_and_update, the test,
IsNew(d, seq) ==
    /\ seq > d.contiguous_seq
    /\ seq \notin d.out_of_order
    /\ seq <= d.contiguous_seq + window_size

\* Mutant of Advanced: the boundary moves to the newest sequence seen.
Advanced_Newest(d, seq) ==
    [contiguous_seq |-> Max({seq} \cup d.out_of_order), out_of_order |-> {}]

\* and the update: the boundary advances as far as there is no gap.
Advanced(d, seq) ==
    LET seen == d.out_of_order \cup {seq}
        end == Max({s \in {d.contiguous_seq} \cup seen :
                      (d.contiguous_seq + 1)..s \subseteq seen})
    IN  [contiguous_seq |-> end, out_of_order |-> {s \in seen : s > end}]

----------------------------------------------------------------------------
\* Connections, at the sender.

\* Of what a closing connection carries, the envelopes the receiver's tasks
\* have read go on; the others are lost.
Closed(ks, before) ==
    LET closing == {k \in ks : before[k] = "open"}
    IN  /\ linkQuic' = [k \in LinkConns |-> IF k \in closing THEN "closed" ELSE before[k]]
        /\ \E lost \in SUBSET {e \in streams : e.conn \in closing} : streams' = streams \ lost

\* handle_connection after the handshake: the connection, which may have
\* closed in the meantime, is retained and the one before is closed.
LinkRegister(k) ==
    /\ linkHandler[k] = "none"
    /\ \A i \in 1..(k - 1) : linkHandler[i] # "none"
    /\ linkHandler' = [linkHandler EXCEPT ![k] = "registered"]
    /\ connection' = k
    /\ \E now \in {"open", "closed"} :
         Closed({connection} \ {0}, [linkQuic EXCEPT ![k] = now])
    /\ UNCHANGED <<replay, buffer, senders, restarts, receiver>>

\* drain_for_retransmit: handle_overflow, then the messages not acknowledged.
\* Without any, handle_connection goes on to serve the connection.
Drain(k) ==
    /\ linkHandler[k] = "registered"
    /\ \E rest \in Trimmed(buffer.messages) :
         LET messages == {s \in rest : s > buffer.acked_seq}
         IN  /\ buffer' = [buffer EXCEPT !.messages = rest]
             /\ replay' = [replay EXCEPT ![k] = messages]
             /\ linkHandler' = [linkHandler EXCEPT ![k] =
                              IF messages = {} THEN "serving" ELSE "replaying"]
    /\ UNCHANGED <<linkQuic, connection, streams, senders, restarts, receiver>>

Envelope(k, s, replayed) == [conn |-> k, seq |-> s, replayed |-> replayed]

\* The oldest message left is sent again under its own sequence number, or
\* fails on a connection that has closed; the next one is tried either way.
ReplayNext(k) ==
    LET s == Min(replay[k])
    IN  /\ linkHandler[k] = "replaying"
        /\ streams' = IF linkQuic[k] = "open" THEN streams \cup {Envelope(k, s, TRUE)}
                      ELSE streams
        /\ replay' = [replay EXCEPT ![k] = @ \ {s}]
        /\ linkHandler' = [linkHandler EXCEPT ![k] = IF replay[k] = {s} THEN "serving" ELSE @]
        /\ UNCHANGED <<linkQuic, connection, buffer, senders, restarts, receiver>>

Removed(k) == IF connection = k THEN 0 ELSE connection

\* accept_uni fails on a closed connection; remove_connection_if_current.
LinkHandlerExits(k) ==
    /\ linkHandler[k] = "serving" /\ linkQuic[k] = "closed"
    /\ linkHandler' = [linkHandler EXCEPT ![k] = "exited"]
    /\ connection' = Removed(k)
    /\ UNCHANGED <<linkQuic, replay, buffer, streams, senders, restarts, receiver>>

\* The network, the peer or an idle timeout ends the connection.
LinkLost(k) ==
    /\ linkQuic[k] = "open"
    /\ Closed({k}, linkQuic)
    /\ UNCHANGED <<linkHandler, connection, replay, buffer, senders, restarts, receiver>>

\* health_check_peer gives up on the peer, or the idle eviction loop on the
\* connection: it is removed and closed.
Evict(k) ==
    /\ connection = k
    /\ connection' = 0
    /\ Closed({k}, linkQuic)
    /\ UNCHANGED <<linkHandler, replay, buffer, senders, restarts, receiver>>

----------------------------------------------------------------------------
\* Sending: send_with_retry and send_to_peer for frame f.

\* send_to_peer picks the retained connection; without an open one, or without
\* the capabilities of the peer (PeerConnections), it fails.
Capture(f) ==
    /\ senders[f].pc = "idle"
    /\ IF connection # 0 /\ linkQuic[connection] = "open"
       THEN /\ \E next \in {Done, [senders[f] EXCEPT !.pc = "captured", !.conn = connection]} :
                 senders' = [senders EXCEPT ![f] = next]
            /\ UNCHANGED connection
       ELSE /\ senders' = [senders EXCEPT ![f] = Done]
            /\ connection' = 0
    /\ UNCHANGED <<linkQuic, linkHandler, replay, buffer, streams, restarts, receiver>>

\* buffer_with_size: a new sequence number, then handle_overflow.
Buffer(f) ==
    LET seq == buffer.next_seq
    IN  /\ senders[f].pc = "captured" /\ seq <= MaxSeq
        /\ senders' = [senders EXCEPT ![f] = [@ EXCEPT !.pc = "buffered", !.seq = seq]]
        /\ \E rest \in Trimmed(buffer.messages \cup {seq}) :
             buffer' = [buffer EXCEPT !.next_seq = seq + 1, !.messages = rest]
        /\ UNCHANGED <<link, streams, restarts, receiver>>

\* send_envelope_bytes on the connection captured before. The call then waits
\* for the peer and may still time out; once no retry is left that changes
\* nothing. On a closed connection the call fails and the frame stays
\* buffered.
Transmit(f) ==
    LET t == senders[f]
    IN  /\ t.pc = "buffered"
        /\ IF linkQuic[t.conn] = "open"
           THEN /\ streams' = streams \cup {Envelope(t.conn, t.seq, FALSE)}
                /\ senders' = [senders EXCEPT ![f] =
                                 IF t.attempts < SEND_RETRY_ATTEMPTS
                                 THEN [NewSender EXCEPT !.pc = "sent", !.attempts = t.attempts]
                                 ELSE Done]
           ELSE /\ senders' = [senders EXCEPT ![f] = Done]
                /\ UNCHANGED streams
        /\ UNCHANGED <<link, buffer, restarts, receiver>>

\* send_with_retry starts send_to_peer over: the frame gets a second sequence
\* number, whatever became of the first.
Timeout(f) ==
    LET t == senders[f]
    IN  /\ t.pc \in {"captured", "buffered", "sent"}
        /\ senders' = [senders EXCEPT ![f] =
                         IF t.attempts < SEND_RETRY_ATTEMPTS
                         THEN [NewSender EXCEPT !.attempts = t.attempts + 1]
                         ELSE Done]
        /\ UNCHANGED <<link, buffer, streams, restarts, receiver>>

\* process_ack for the acknowledgement a frame from the peer carries.
AckArrives(a) ==
    /\ a \in acks
    /\ buffer' = process_ack(buffer, a)
    /\ UNCHANGED <<link, streams, senders, restarts, receiver>>

----------------------------------------------------------------------------
\* Receiving: the task handle_connection spawns for a stream.

\* process_envelope: the duplicate check under the lock of the table, then the
\* frame goes to incoming_tx. get_ack_seq_for_peer reads the boundary for the
\* frames the receiver sends from now on.
Receive(e) ==
    /\ e \in streams
    /\ streams' = streams \ {e}
    /\ IF IsNew(dedup, e.seq)
       THEN /\ dedup' = Advanced(dedup, e.seq)
            /\ acks' = acks \cup {dedup'.contiguous_seq}
            /\ kept' = kept \cup {e.seq}
            /\ delivered' = [delivered EXCEPT ![e.seq] = @ + 1]
       ELSE UNCHANGED receiver
    /\ UNCHANGED <<link, buffer, senders, restarts>>

----------------------------------------------------------------------------
\* Restarts: none of this state is kept on disk.

\* The frames are now those the new process is asked to send.
RestartSender ==
    /\ restarts.sender + restarts.receiver < MaxRestarts
    /\ restarts' = [restarts EXCEPT !.sender = @ + 1]
    /\ linkHandler' = [k \in LinkConns |-> IF linkHandler[k] = "none" THEN "none" ELSE "exited"]
    /\ connection' = 0
    /\ replay' = [k \in LinkConns |-> {}]
    /\ buffer' = NewBuffer
    /\ Closed(LinkConns, linkQuic)
    /\ acks' = {dedup.contiguous_seq}
    /\ senders' = [f \in Frames |-> NewSender]
    /\ kept' = {}
    /\ UNCHANGED <<dedup, delivered>>

RestartReceiver ==
    /\ restarts.sender + restarts.receiver < MaxRestarts
    /\ restarts' = [restarts EXCEPT !.receiver = @ + 1]
    /\ linkQuic' = [k \in LinkConns |-> IF linkQuic[k] = "open" THEN "closed" ELSE linkQuic[k]]
    /\ streams' = {}
    /\ dedup' = NewDedup
    /\ acks' = acks \cup {0}
    /\ delivered' = [s \in Seqs |-> 0]
    /\ UNCHANGED <<linkHandler, connection, replay, buffer, senders, kept>>

LinkNext ==
    \/ \E k \in LinkConns :
         \/ LinkRegister(k) \/ Drain(k) \/ ReplayNext(k)
         \/ LinkHandlerExits(k) \/ LinkLost(k) \/ Evict(k)
    \/ \E f \in Frames : Capture(f) \/ Buffer(f) \/ Transmit(f) \/ Timeout(f)
    \/ \E a \in acks : AckArrives(a)
    \/ \E e \in streams : Receive(e)
    \/ RestartSender
    \/ RestartReceiver

LinkSpec == LinkInit /\ [][LinkNext]_linkVars

----------------------------------------------------------------------------
\* Every variable stays in its type; a buffer keeps assigned sequences only,
\* and what waits out of order lies within the receive window.
LinkTypeOK ==
    /\ linkQuic \in [LinkConns -> {"unused", "open", "closed"}]
    /\ linkHandler \in [LinkConns ->
         {"none", "registered", "replaying", "serving", "exited"}]
    /\ connection \in {0} \cup LinkConns
    /\ replay \in [LinkConns -> SUBSET Seqs]
    /\ buffer.next_seq \in 1..(MaxSeq + 1) /\ buffer.acked_seq \in 0..MaxSeq
    /\ buffer.messages \subseteq 1..(buffer.next_seq - 1)
    /\ dedup.contiguous_seq \in 0..MaxSeq
    /\ dedup.out_of_order \subseteq
         (dedup.contiguous_seq + 2)..(dedup.contiguous_seq + window_size)
    /\ streams \subseteq [conn : LinkConns, seq : Seqs, replayed : BOOLEAN]
    /\ kept \subseteq Seqs
    /\ acks \subseteq 0..MaxSeq
    /\ senders \in [Frames ->
         [pc : {"idle", "captured", "buffered", "sent", "done"}, conn : {0} \cup LinkConns,
          seq : {0} \cup Seqs, attempts : 0..SEND_RETRY_ATTEMPTS]]
    /\ restarts \in [{"sender", "receiver"} -> 0..MaxRestarts]
    /\ delivered \in [Seqs -> Nat]

\* A receiver hands a sequence number to the application at most once, however
\* often it arrives: sent, replayed after a reconnect, late from an older
\* connection, or assigned again by a restarted sender (check_and_update:
\* "Returns true once for each sequence in the receive window").
AtMostOnce ==
    LinkTypeOK /\ \A s \in Seqs : delivered[s] <= 1

\* While the sender has not restarted, whatever an acknowledgement covers was
\* accepted by the receiver: process_ack releases no frame before that, and
\* the cumulative boundary never crosses a gap.
AcknowledgedIsAccepted ==
    restarts.sender = 0 => 1..buffer.acked_seq \subseteq kept
=============================================================================
