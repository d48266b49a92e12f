--------------------------- MODULE DeliveryProofs ---------------------------
(***************************************************************************)
(* Nothing is handed on twice, acknowledged in vain or overlooked: the     *)
(* reliable exchange of frames, for any number of frames, connections,     *)
(* sequence numbers and restarts, any window and any limit of the buffer,  *)
(* and the dispatcher of control messages, for any number of tasks, any    *)
(* predicates and any number of messages.                                  *)
(***************************************************************************)
EXTENDS ReliableLink, ControlDispatcher, WellFoundedInduction, TLAPS

-----------------------------------------------------------------------------
(* ReliableLink.                                                           *)

\* The types of ReliableLink, part by part, and what the handlers and senders
\* rely on: a handler that replays has something to replay, a sender that has
\* captured a connection has one, and one that has buffered its frame has its
\* sequence number.
QuicOK ==
    /\ linkQuic \in [LinkConns -> {"unused", "open", "closed"}]
    /\ connection \in {0} \cup LinkConns

HandlersOK ==
    /\ linkHandler \in [LinkConns -> {"none", "registered", "replaying", "serving", "exited"}]
    /\ replay \in [LinkConns -> SUBSET Seqs]
    /\ \A k \in LinkConns : linkHandler[k] = "replaying" => replay[k] # {}

BufferOK ==
    /\ buffer \in [next_seq : 1..(MaxSeq + 1), acked_seq : 0..MaxSeq, messages : SUBSET Seqs]
    /\ \A s \in buffer.messages : s < buffer.next_seq

DedupOK(d) ==
    /\ d \in [contiguous_seq : 0..MaxSeq, out_of_order : SUBSET Seqs]
    /\ d.out_of_order \subseteq (d.contiguous_seq + 2)..(d.contiguous_seq + window_size)

ReceiverOK ==
    /\ DedupOK(dedup)
    /\ kept \subseteq Seqs
    /\ acks \subseteq 0..MaxSeq
    /\ delivered \in [Seqs -> Nat]

StreamsOK == streams \subseteq [conn : LinkConns, seq : Seqs, replayed : BOOLEAN]

SenderOK(t) ==
    /\ t \in [pc : {"idle", "captured", "buffered", "sent", "done"}, conn : {0} \cup LinkConns,
               seq : {0} \cup Seqs, attempts : 0..SEND_RETRY_ATTEMPTS]
    /\ t.pc \in {"captured", "buffered"} => t.conn \in LinkConns
    /\ t.pc = "buffered" => t.seq \in Seqs

SendersOK ==
    /\ senders = [f \in Frames |-> senders[f]]
    /\ \A f \in Frames : SenderOK(senders[f])

RestartsOK == restarts \in [sender : 0..MaxRestarts, receiver : 0..MaxRestarts]

LinkTypeInv ==
    QuicOK /\ HandlersOK /\ BufferOK /\ ReceiverOK /\ StreamsOK /\ SendersOK /\ RestartsOK

Covers(d, s) == s <= d.contiguous_seq \/ s \in d.out_of_order

\* The table counts a sequence as seen exactly when it was handed on, once.
CountInv ==
    \A s \in Seqs : delivered[s] = IF Covers(dedup, s) THEN 1 ELSE 0

\* What the table covers, and what any acknowledgement on its way or noted by
\* the sender covers, was accepted.
AckInv ==
    restarts.sender = 0 =>
        /\ \A s \in Seqs : Covers(dedup, s) => s \in kept
        /\ \A a \in acks : 1..a \subseteq kept
        /\ 1..buffer.acked_seq \subseteq kept

----------------------------------------------------------------------------
\* A set of naturals has a least element, and a greatest if it is bounded.
LEMMA LeastExists ==
    ASSUME NEW S \in SUBSET Nat, S # {}
    PROVE  \E i \in S : \A j \in S : i <= j
<1> DEFINE less == {p \in Nat \X Nat : p[1] < p[2]}
<1>1. IsWellFoundedOn(less, Nat)
  BY NatLessThanWellFounded, Zenon DEF OpToRel
<1> HIDE DEF less
<1>2. PICK i \in S : \A j \in S : ~(<<j, i>> \in less)
  BY <1>1, WFMin, Zenon
<1>3. \A j \in Nat : j < i => <<j, i>> \in less
  BY Zenon DEF less
<1>4. ASSUME NEW j \in S PROVE i <= j
  <2>1. ~(j < i)
    BY <1>2, <1>3, Zenon
  <2> QED
    BY <2>1
<1> QED
  BY <1>4, Zenon

LEMMA MinIsLeast ==
    ASSUME NEW S \in SUBSET Nat, S # {}
    PROVE  Min(S) \in S
BY LeastExists, Zenon DEF Min

LEMMA MaxIsGreatest ==
    ASSUME NEW S \in SUBSET Nat, S # {}, NEW b \in Nat, \A x \in S : x <= b
    PROVE  Max(S) \in S /\ \A y \in S : y <= Max(S)
<1> DEFINE T == {b - x : x \in S}
<1>1. T \in SUBSET Nat /\ T # {}
  <2>1. \A x \in S : b - x \in Nat
    OBVIOUS
  <2>2. PICK x \in S : TRUE
    BY Zenon
  <2> QED
    BY <2>1, <2>2, Zenon
<1> HIDE DEF T
<1>2. PICK t \in T : \A u \in T : t <= u
  BY <1>1, LeastExists, Zenon
<1>3. PICK m \in S : t = b - m
  BY Zenon DEF T
<1>4. ASSUME NEW y \in S PROVE y <= m
  <2>1. b - y \in T
    BY Zenon DEF T
  <2>2. t <= b - y
    BY <2>1, <1>2, Zenon
  <2> QED
    BY <2>2, <1>3
<1>5. \E x \in S : \A y \in S : x >= y
  BY <1>4, Zenon
<1>6. Max(S) \in S /\ \A y \in S : Max(S) >= y
  BY <1>5, Zenon DEF Max
<1> QED
  BY <1>6, Zenon

\* check_and_update adds the sequence to what the table covers and nothing
\* else; what stays out of order lies behind a gap and in the window.
LEMMA AdvancedCovers ==
    ASSUME NEW d, DedupOK(d), NEW seq \in Seqs, IsNew(d, seq)
    PROVE  /\ DedupOK(Advanced(d, seq))
           /\ \A s \in Seqs : Covers(Advanced(d, seq), s) <=> Covers(d, s) \/ s = seq
<1> DEFINE c == d.contiguous_seq
           seen == d.out_of_order \cup {seq}
           run == {s \in {c} \cup seen : (c + 1)..s \subseteq seen}
           end == Max(run)
<1> USE LinkAssumption
<1>1. c \in Nat /\ seen \subseteq (c + 1)..(c + window_size) /\ seen \subseteq Seqs
  BY DEF IsNew, Seqs, DedupOK
<1>2. Advanced(d, seq) = [contiguous_seq |-> end, out_of_order |-> {s \in seen : s > end}]
  BY Zenon DEF Advanced
<1>3. d.contiguous_seq = c /\ \A s : s \in seen <=> s \in d.out_of_order \/ s = seq
  BY Zenon
<1>4. c \in 0..MaxSeq
  BY Zenon DEF DedupOK
<1> HIDE DEF c, seen
<1>5. c \in run
  BY <1>1
<1>6. run \in SUBSET Nat /\ \A x \in run : x <= c + window_size
  <2>1. run \subseteq {c} \cup seen
    BY Zenon
  <2> HIDE DEF run
  <2>2. ASSUME NEW x \in {c} \cup seen PROVE x \in Nat /\ x <= c + window_size
    BY <1>1
  <2> QED
    BY <2>1, <2>2, Zenon
<1> HIDE DEF run
<1>7. end \in run /\ \A y \in run : y <= end
  <2>1. c + window_size \in Nat
    BY <1>1
  <2> QED
    BY <2>1, <1>5, <1>6, MaxIsGreatest, Zenon
<1> HIDE DEF end
<1>8. end \in Nat /\ c <= end /\ end \in {c} \cup seen /\ (c + 1)..end \subseteq seen
  BY <1>5, <1>6, <1>7, Zenon DEF run
<1>9. end + 1 \notin seen
  <2> SUFFICES ASSUME end + 1 \in seen PROVE FALSE
    BY Zenon
  <2>1. (c + 1)..(end + 1) \subseteq seen
    BY <1>1, <1>8
  <2>2. end + 1 \in run
    BY <2>1, Zenon DEF run
  <2> QED
    BY <2>2, <1>7, <1>8
<1>10. end \in 0..MaxSeq
  BY <1>1, <1>4, <1>8 DEF Seqs
<1>11. ASSUME NEW s \in seen, s > end PROVE s \in (end + 2)..(end + window_size)
  <2>1. s \in Nat /\ s # end + 1 /\ s <= c + window_size
    BY <1>1, <1>9
  <2> QED
    BY <2>1, <1>1, <1>8, <1>11
<1>12. {s \in seen : s > end} \in SUBSET Seqs
  BY <1>1, Zenon
<1>13. ASSUME NEW s \in Seqs
       PROVE  s <= end \/ (s \in seen /\ s > end) <=> s <= c \/ s \in d.out_of_order \/ s = seq
  <2>1. s \in Nat
    BY DEF Seqs
  <2>2. CASE s <= c
    BY <2>1, <2>2, <1>1, <1>8
  <2>3. CASE ~(s <= c) /\ s <= end
    <3>1. s \in seen
      BY <2>1, <2>3, <1>1, <1>8
    <3> QED
      BY <3>1, <2>3, <1>3, Zenon
  <2>4. CASE ~(s <= end)
    BY <2>1, <2>4, <1>1, <1>3, <1>8
  <2> QED
    BY <2>2, <2>3, <2>4, Zenon
<1> QED
  BY <1>2, <1>3, <1>8, <1>10, <1>11, <1>12, <1>13 DEF Covers, DedupOK
\* process_ack keeps the greater of the two boundaries.
LEMMA AckIsNoted ==
    ASSUME BufferOK, NEW a \in 0..MaxSeq, buffer' = process_ack(buffer, a)
    PROVE  BufferOK' /\ buffer'.acked_seq \in {buffer.acked_seq, a}
<1> USE LinkAssumption
<1>1. Max({buffer.acked_seq, a}) \in {buffer.acked_seq, a}
  <2> DEFINE S == {buffer.acked_seq, a}
  <2>1. S \in SUBSET Nat /\ S # {} /\ MaxSeq \in Nat /\ \A x \in S : x <= MaxSeq
    BY DEF BufferOK
  <2> HIDE DEF S
  <2>2. Max(S) \in S
    BY <2>1, MaxIsGreatest, Zenon
  <2> QED
    BY <2>2, Zenon DEF S
<1>2. CASE buffer = NewBuffer
  BY <1>2, SMTT(30) DEF process_ack, BufferOK
<1>3. CASE buffer # NewBuffer
  <2>1. buffer' = [buffer EXCEPT !.acked_seq = Max({@, a}), !.messages = {s \in @ : s > a}]
    BY <1>3, Zenon DEF process_ack
  <2> QED
    BY <1>1, <2>1, ZenonT(30) DEF BufferOK
<1> QED
  BY <1>2, <1>3, Zenon

----------------------------------------------------------------------------
\* The invariant, step by step.

LEMMA LinkTypeStep == LinkTypeInv /\ [LinkNext]_linkVars => LinkTypeInv'
<1> SUFFICES ASSUME LinkTypeInv, [LinkNext]_linkVars
             PROVE  LinkTypeInv'
  BY Zenon
<1> USE LinkAssumption DEF LinkTypeInv
<1>a. UNCHANGED <<linkQuic, connection>> => QuicOK'
  BY Zenon DEF QuicOK
<1>b. UNCHANGED <<linkHandler, replay>> => HandlersOK'
  BY Zenon DEF HandlersOK
<1>c. UNCHANGED buffer => BufferOK'
  BY Zenon DEF BufferOK
<1>d. UNCHANGED receiver => ReceiverOK'
  BY Zenon DEF ReceiverOK, receiver, DedupOK
<1>e. UNCHANGED streams => StreamsOK'
  BY Zenon DEF StreamsOK
<1>f. UNCHANGED senders => SendersOK'
  BY Zenon DEF SendersOK
<1>g. UNCHANGED restarts => RestartsOK'
  BY Zenon DEF RestartsOK
<1>h. ASSUME NEW ks, NEW before \in [LinkConns -> {"unused", "open", "closed"}], Closed(ks, before)
      PROVE  linkQuic' \in [LinkConns -> {"unused", "open", "closed"}] /\ StreamsOK'
  BY <1>h, Zenon DEF Closed, StreamsOK
<1>i. ASSUME NEW k \in LinkConns, NEW n \in Seqs, NEW r \in BOOLEAN
      PROVE  Envelope(k, n, r) \in [conn : LinkConns, seq : Seqs, replayed : BOOLEAN]
  BY Zenon DEF Envelope
<1>j. ASSUME NEW f \in Frames, NEW t, SenderOK(t), senders' = [senders EXCEPT ![f] = t]
      PROVE  SendersOK'
  BY <1>j, Zenon DEF SendersOK
<1>k. ASSUME NEW f \in Frames
      PROVE  SenderOK(senders[f])
  BY Zenon DEF SendersOK
<1>l. SenderOK(Done) /\ SenderOK(NewSender)
  BY DEF SenderOK, Done, NewSender
<1>1. ASSUME NEW k \in LinkConns, LinkRegister(k) PROVE LinkTypeInv'
  <2>1. PICK now \in {"open", "closed"} : Closed({connection} \ {0}, [linkQuic EXCEPT ![k] = now])
    BY <1>1, Zenon DEF LinkRegister
  <2>2. linkQuic' \in [LinkConns -> {"unused", "open", "closed"}] /\ StreamsOK'
    BY <2>1, <1>h, Zenon DEF QuicOK
  <2>3. QuicOK'
    BY <1>1, <2>2, Zenon DEF LinkRegister, QuicOK
  <2>4. HandlersOK'
    BY <1>1, Zenon DEF LinkRegister, HandlersOK
  <2> QED
    BY <1>1, <1>c, <1>d, <1>f, <1>g, <2>2, <2>3, <2>4, Zenon DEF LinkRegister
<1>2. ASSUME NEW k \in LinkConns, Drain(k) PROVE LinkTypeInv'
  <2>1. PICK rest \in Trimmed(buffer.messages) :
          /\ buffer' = [buffer EXCEPT !.messages = rest]
          /\ replay' = [replay EXCEPT ![k] = {s \in rest : s > buffer.acked_seq}]
          /\ linkHandler' = [linkHandler EXCEPT ![k] =
               IF {s \in rest : s > buffer.acked_seq} = {} THEN "serving" ELSE "replaying"]
    BY <1>2, Zenon DEF Drain
  <2>2. rest \subseteq buffer.messages
    BY Zenon DEF Trimmed
  <2>3. BufferOK'
    BY <2>1, <2>2, Zenon DEF BufferOK
  <2>4. HandlersOK'
    BY <2>1, <2>2, SMTT(30) DEF HandlersOK, BufferOK
  <2> QED
    BY <1>2, <1>a, <1>d, <1>e, <1>f, <1>g, <2>3, <2>4, Zenon DEF Drain
<1>3. ASSUME NEW k \in LinkConns, ReplayNext(k) PROVE LinkTypeInv'
  <2>1. Min(replay[k]) \in replay[k] /\ replay[k] \subseteq Seqs
    <3>1. replay[k] \in SUBSET Nat /\ replay[k] # {} /\ replay[k] \subseteq Seqs
      BY <1>3 DEF ReplayNext, HandlersOK, Seqs
    <3> QED
      BY <3>1, MinIsLeast, SMTT(30)
  <2>2. StreamsOK'
    <3>1. Envelope(k, Min(replay[k]), TRUE) \in [conn : LinkConns, seq : Seqs, replayed : BOOLEAN]
      BY <2>1, <1>i, Zenon
    <3> QED
      BY <1>3, <3>1, Zenon DEF ReplayNext, StreamsOK
  <2>3. HandlersOK'
    BY <1>3, <2>1, SMTT(30) DEF ReplayNext, HandlersOK
  <2> QED
    BY <1>3, <1>a, <1>c, <1>d, <1>f, <1>g, <2>2, <2>3, Zenon DEF ReplayNext
<1>4. ASSUME NEW k \in LinkConns, LinkHandlerExits(k) PROVE LinkTypeInv'
  <2>1. QuicOK'
    BY <1>4, Zenon DEF LinkHandlerExits, Removed, QuicOK
  <2>2. HandlersOK'
    BY <1>4, Zenon DEF LinkHandlerExits, HandlersOK
  <2> QED
    BY <1>4, <1>c, <1>d, <1>e, <1>f, <1>g, <2>1, <2>2, SMTT(30) DEF LinkHandlerExits
<1>5. ASSUME NEW k \in LinkConns, LinkLost(k) PROVE LinkTypeInv'
  <2>1. QuicOK' /\ StreamsOK'
    BY <1>5, <1>h, Zenon DEF LinkLost, QuicOK
  <2> QED
    BY <1>5, <1>b, <1>c, <1>d, <1>f, <1>g, <2>1, Zenon DEF LinkLost
<1>6. ASSUME NEW k \in LinkConns, Evict(k) PROVE LinkTypeInv'
  <2>1. QuicOK' /\ StreamsOK'
    BY <1>6, <1>h, Zenon DEF Evict, QuicOK
  <2> QED
    BY <1>6, <1>b, <1>c, <1>d, <1>f, <1>g, <2>1, Zenon DEF Evict
<1>7. ASSUME NEW f \in Frames, Capture(f) PROVE LinkTypeInv'
  <2>1. QuicOK'
    BY <1>7, Zenon DEF Capture, QuicOK
  <2>2. SendersOK'
    <3>1. CASE senders' = [senders EXCEPT ![f] = Done]
      BY <3>1, <1>j, <1>l, Zenon
    <3>2. CASE senders' = [senders EXCEPT ![f] =
                             [senders[f] EXCEPT !.pc = "captured", !.conn = connection]]
               /\ connection # 0
      <4>1. SenderOK([senders[f] EXCEPT !.pc = "captured", !.conn = connection])
        BY <3>2, <1>k, Zenon DEF SenderOK, QuicOK
      <4> QED
        BY <3>2, <4>1, <1>j, Zenon
    <3> QED
      BY <1>7, <3>1, <3>2, Zenon DEF Capture
  <2> QED
    BY <1>7, <1>b, <1>c, <1>d, <1>e, <1>g, <2>1, <2>2, Zenon DEF Capture
<1>8. ASSUME NEW f \in Frames, Buffer(f) PROVE LinkTypeInv'
  <2>1. PICK rest \in Trimmed(buffer.messages \cup {buffer.next_seq}) :
          buffer' = [buffer EXCEPT !.next_seq = buffer.next_seq + 1, !.messages = rest]
    BY <1>8, Zenon DEF Buffer
  <2>2. rest \subseteq buffer.messages \cup {buffer.next_seq}
    BY Zenon DEF Trimmed
  <2>3. buffer.next_seq \in Seqs
    BY <1>8 DEF Buffer, BufferOK, Seqs
  <2>4. BufferOK'
    <3>1. buffer.next_seq \in 1..MaxSeq /\ rest \subseteq Seqs /\ Seqs \subseteq Nat
      BY <2>2, <2>3 DEF BufferOK, Seqs
    <3>2. \A s \in rest : s < buffer.next_seq + 1
      BY <2>2, <3>1 DEF BufferOK
    <3>3. buffer' = [next_seq |-> buffer.next_seq + 1, acked_seq |-> buffer.acked_seq,
                     messages |-> rest]
      BY <2>1, Zenon DEF BufferOK
    <3>4. buffer.next_seq + 1 \in 1..(MaxSeq + 1) /\ buffer.acked_seq \in 0..MaxSeq
      BY <3>1 DEF BufferOK
    <3> QED
      BY <3>1, <3>2, <3>3, <3>4, Zenon DEF BufferOK
  <2>5. SendersOK'
    <3> DEFINE t == [senders[f] EXCEPT !.pc = "buffered", !.seq = buffer.next_seq]
    <3>1. SenderOK(t)
      BY <1>8, <1>k, <2>3, Zenon DEF Buffer, SenderOK
    <3>2. senders' = [senders EXCEPT ![f] = t]
      BY <1>8, Zenon DEF Buffer, SendersOK
    <3> QED
      BY <3>1, <3>2, <1>j, Zenon
  <2> QED
    BY <1>8, <1>a, <1>b, <1>d, <1>e, <1>g, <2>4, <2>5, Zenon DEF Buffer, link
<1>9. ASSUME NEW f \in Frames, Transmit(f) PROVE LinkTypeInv'
  <2>1. StreamsOK'
    <3>1. Envelope(senders[f].conn, senders[f].seq, FALSE)
            \in [conn : LinkConns, seq : Seqs, replayed : BOOLEAN]
      BY <1>9, <1>i, <1>k, Zenon DEF Transmit, SenderOK
    <3> QED
      BY <1>9, <3>1, Zenon DEF Transmit, StreamsOK
  <2>2. SendersOK'
    <3>1. SenderOK([NewSender EXCEPT !.pc = "sent", !.attempts = senders[f].attempts])
      BY <1>k, Zenon DEF SenderOK, NewSender
    <3> QED
      BY <1>9, <1>j, <1>l, <3>1, Zenon DEF Transmit
  <2> QED
    BY <1>9, <1>a, <1>b, <1>c, <1>d, <1>g, <2>1, <2>2, Zenon DEF Transmit, link
<1>10. ASSUME NEW f \in Frames, Timeout(f) PROVE LinkTypeInv'
  <2>1. SendersOK'
    <3>1. CASE senders[f].attempts < SEND_RETRY_ATTEMPTS
      <4>1. SenderOK([NewSender EXCEPT !.attempts = senders[f].attempts + 1])
        BY <3>1, <1>k DEF SenderOK, NewSender
      <4> QED
        BY <1>10, <1>j, <3>1, <4>1, Zenon DEF Timeout
    <3>2. CASE ~(senders[f].attempts < SEND_RETRY_ATTEMPTS)
      BY <1>10, <1>j, <1>l, <3>2, Zenon DEF Timeout
    <3> QED
      BY <3>1, <3>2, Zenon
  <2> QED
    BY <1>10, <1>a, <1>b, <1>c, <1>d, <1>e, <1>g, <2>1, Zenon DEF Timeout, link
<1>11. ASSUME NEW a \in acks, AckArrives(a) PROVE LinkTypeInv'
  <2>1. BufferOK'
    BY <1>11, AckIsNoted, Zenon DEF AckArrives, ReceiverOK
  <2> QED
    BY <1>11, <1>a, <1>b, <1>d, <1>e, <1>f, <1>g, <2>1, Zenon DEF AckArrives, link
<1>12. ASSUME NEW e \in streams, Receive(e) PROVE LinkTypeInv'
  <2>1. e.seq \in Seqs
    BY <1>12, Zenon DEF StreamsOK
  <2>2. ReceiverOK'
    <3>1. CASE ~IsNew(dedup, e.seq)
      BY <1>12, <1>d, <3>1, Zenon DEF Receive
    <3>2. CASE IsNew(dedup, e.seq)
      <4>1. DedupOK(dedup)'
        BY <1>12, <2>1, <3>2, AdvancedCovers DEF Receive, ReceiverOK
      <4>2. dedup'.contiguous_seq \in 0..MaxSeq
        BY <4>1, Zenon DEF DedupOK
      <4>3. (kept \subseteq Seqs)' /\ (acks \subseteq 0..MaxSeq)'
        BY <1>12, <2>1, <3>2, <4>2, Zenon DEF Receive, ReceiverOK
      <4>4. (delivered \in [Seqs -> Nat])'
        BY <1>12, <2>1, <3>2 DEF Receive, ReceiverOK
      <4> QED
        BY <4>1, <4>3, <4>4, SMTT(30) DEF ReceiverOK
    <3> QED
      BY <3>1, <3>2, Zenon
  <2>3. StreamsOK'
    BY <1>12, Zenon DEF Receive, StreamsOK
  <2> QED
    BY <1>12, <1>a, <1>b, <1>c, <1>f, <1>g, <2>2, <2>3, Zenon DEF Receive, link
<1>13. CASE RestartSender
  <2>1. QuicOK' /\ StreamsOK'
    BY <1>13, <1>h, Zenon DEF RestartSender, QuicOK
  <2>2. HandlersOK'
    BY <1>13, Zenon DEF RestartSender, HandlersOK
  <2>3. BufferOK'
    BY <1>13 DEF RestartSender, NewBuffer, BufferOK
  <2>4. SendersOK'
    BY <1>13, <1>l, Zenon DEF RestartSender, SendersOK
  <2>5. ReceiverOK'
    BY <1>13, Zenon DEF RestartSender, ReceiverOK, DedupOK
  <2>6. RestartsOK'
    BY <1>13 DEF RestartSender, RestartsOK
  <2> QED
    BY <2>1, <2>2, <2>3, <2>4, <2>5, <2>6, Zenon
<1>14. CASE RestartReceiver
  <2>1. QuicOK'
    BY <1>14, Zenon DEF RestartReceiver, QuicOK
  <2>2. StreamsOK'
    BY <1>14, Zenon DEF RestartReceiver, StreamsOK
  <2>3. ReceiverOK'
    BY <1>14 DEF RestartReceiver, NewDedup, ReceiverOK, DedupOK
  <2>4. RestartsOK'
    BY <1>14 DEF RestartReceiver, RestartsOK
  <2> QED
    BY <1>14, <1>b, <1>c, <1>f, <2>1, <2>2, <2>3, <2>4, Zenon DEF RestartReceiver
<1>15. CASE UNCHANGED linkVars
  BY <1>15, <1>a, <1>b, <1>c, <1>d, <1>e, <1>f, <1>g, Zenon DEF linkVars, link
<1> QED
  BY Zenon, <1>1, <1>2, <1>3, <1>4, <1>5, <1>6, <1>7, <1>8, <1>9, <1>10, <1>11, <1>12, <1>13,
     <1>14, <1>15 DEF LinkNext
\* What the parts say is what LinkTypeOK says.
LEMMA LinkTypes == LinkTypeInv => LinkTypeOK
<1> SUFFICES ASSUME LinkTypeInv PROVE LinkTypeOK
  BY Zenon
<1> USE LinkAssumption DEF LinkTypeInv
<1>1. buffer.messages \subseteq 1..(buffer.next_seq - 1)
  BY DEF BufferOK, Seqs
<1>2. senders \in [Frames ->
         [pc : {"idle", "captured", "buffered", "sent", "done"}, conn : {0} \cup LinkConns,
          seq : {0} \cup Seqs, attempts : 0..SEND_RETRY_ATTEMPTS]]
  BY Zenon DEF SendersOK, SenderOK
<1>3. restarts \in [{"sender", "receiver"} -> 0..MaxRestarts]
  BY SMTT(30) DEF RestartsOK
<1> QED
  BY <1>1, <1>2, <1>3, Zenon DEF LinkTypeOK, QuicOK, HandlersOK, BufferOK, ReceiverOK, DedupOK,
     StreamsOK

\* Who changes the receiver, and the acknowledgement the sender has noted.
LEMMA ReceiverSteps ==
    ASSUME [LinkNext]_linkVars
    PROVE  UNCHANGED receiver \/ RestartSender \/ RestartReceiver \/ \E e \in streams : Receive(e)
BY ZenonT(30) DEF LinkNext, linkVars, LinkRegister, Drain, ReplayNext, LinkHandlerExits,
   LinkLost, Evict,
       Capture, Buffer, Transmit, Timeout, AckArrives

LEMMA BoundarySteps ==
    ASSUME LinkTypeInv, [LinkNext]_linkVars
    PROVE  \/ UNCHANGED receiver /\ UNCHANGED restarts /\ buffer'.acked_seq = buffer.acked_seq
           \/ RestartSender \/ RestartReceiver
           \/ \E a \in acks : AckArrives(a)
           \/ \E e \in streams : Receive(e)
BY ZenonT(30) DEF LinkTypeInv, BufferOK, LinkNext, linkVars, LinkRegister, Drain,
   ReplayNext,
       LinkHandlerExits, LinkLost, Evict, Capture, Buffer, Transmit, Timeout

\* Only process_envelope and a restart of the receiver touch the counts.
LEMMA CountStep == LinkTypeInv /\ CountInv /\ [LinkNext]_linkVars => CountInv'
<1> SUFFICES ASSUME LinkTypeInv, CountInv, [LinkNext]_linkVars
             PROVE  CountInv'
  BY Zenon
<1> USE LinkAssumption
<1>1. CASE UNCHANGED <<dedup, delivered>>
  BY <1>1, Zenon DEF CountInv, Covers
<1>2. ASSUME NEW e \in streams, Receive(e) PROVE CountInv'
  <2>1. CASE ~IsNew(dedup, e.seq)
    BY <1>1, <1>2, <2>1, Zenon DEF Receive, receiver
  <2>2. CASE IsNew(dedup, e.seq)
    <3>1. e.seq \in Seqs /\ ~Covers(dedup, e.seq)
      BY <2>2 DEF LinkTypeInv, StreamsOK, IsNew, Covers, ReceiverOK, DedupOK, Seqs
    <3>2. \A s \in Seqs : Covers(dedup', s) <=> Covers(dedup, s) \/ s = e.seq
      BY <1>2, <2>2, <3>1, AdvancedCovers DEF Receive, LinkTypeInv, ReceiverOK
    <3>3. delivered' = [delivered EXCEPT ![e.seq] = @ + 1] /\ delivered \in [Seqs -> Nat]
      BY <1>2, <2>2, Zenon DEF Receive, LinkTypeInv, ReceiverOK
    <3> QED
      BY <3>1, <3>2, <3>3 DEF CountInv
  <2> QED
    BY <2>1, <2>2, Zenon
<1>3. CASE RestartReceiver
  BY <1>3 DEF RestartReceiver, NewDedup, CountInv, Covers, Seqs
<1>4. CASE RestartSender
  BY <1>1, <1>4, Zenon DEF RestartSender
<1>5. CASE UNCHANGED receiver
  BY <1>1, <1>5, Zenon DEF receiver
<1>6. \/ UNCHANGED receiver \/ RestartSender \/ RestartReceiver \/ \E e \in streams : Receive(e)
  BY ReceiverSteps, SMTT(30)
<1> QED
  BY <1>2, <1>3, <1>4, <1>5, <1>6, Zenon

\* An acknowledgement covers what the table covers at the moment it is read.
LEMMA AckStep == LinkTypeInv /\ AckInv /\ [LinkNext]_linkVars => AckInv'
<1> SUFFICES ASSUME LinkTypeInv, AckInv, [LinkNext]_linkVars, restarts'.sender = 0
             PROVE  AckInv'
  BY Zenon DEF AckInv
<1> USE LinkAssumption
<1>1. CASE UNCHANGED receiver /\ UNCHANGED restarts /\ buffer'.acked_seq = buffer.acked_seq
  BY <1>1, Zenon DEF AckInv, receiver, Covers
<1>2. ASSUME NEW a \in acks, AckArrives(a) PROVE AckInv'
  <2>1. buffer'.acked_seq \in {buffer.acked_seq, a}
    BY <1>2, AckIsNoted, Zenon DEF AckArrives, LinkTypeInv, ReceiverOK
  <2> QED
    BY <1>2, <2>1, Zenon DEF AckArrives, AckInv, receiver, Covers
<1>3. ASSUME NEW e \in streams, Receive(e) PROVE AckInv'
  <2>1. CASE ~IsNew(dedup, e.seq)
    BY <1>1, <1>3, <2>1, Zenon DEF Receive
  <2>2. CASE IsNew(dedup, e.seq)
    <3>1. e.seq \in Seqs
      BY SMTT(30) DEF LinkTypeInv, StreamsOK
    <3>2. DedupOK(dedup') /\ \A s \in Seqs : Covers(dedup', s) <=> Covers(dedup, s) \/ s = e.seq
      BY <1>3, <2>2, <3>1, AdvancedCovers, SMTT(30) DEF Receive, LinkTypeInv, ReceiverOK
    <3>3. restarts.sender = 0 /\ kept' = kept \cup {e.seq}
          /\ acks' = acks \cup {dedup'.contiguous_seq} /\ buffer' = buffer
      BY <1>3, <2>2, SMTT(30) DEF Receive
    <3>4. \A s \in Seqs : Covers(dedup', s) => s \in kept'
      BY <3>2, <3>3, Zenon DEF AckInv
    <3>5. 1..(dedup'.contiguous_seq) \subseteq kept'
      BY <3>2, <3>4 DEF DedupOK, Covers, Seqs
    <3> QED
      BY <3>3, <3>4, <3>5, Zenon DEF AckInv
  <2> QED
    BY <2>1, <2>2, Zenon
<1>4. CASE RestartReceiver
  BY <1>4 DEF RestartReceiver, NewDedup, AckInv, Covers, Seqs
<1>5. CASE RestartSender
  BY <1>5 DEF RestartSender, LinkTypeInv, RestartsOK
<1> QED
  BY <1>1, <1>2, <1>3, <1>4, <1>5, BoundarySteps, Zenon

\* An invariant of both kinds, and what follows from it.
LEMMA LinkInvariant == LinkSpec => [](LinkTypeInv /\ CountInv /\ AckInv)
<1> USE LinkAssumption
<1>1. LinkInit => LinkTypeInv
  <2> SUFFICES ASSUME LinkInit PROVE LinkTypeInv
    BY Zenon
  <2> USE DEF LinkInit
  <2>1. QuicOK /\ HandlersOK /\ StreamsOK /\ RestartsOK
    BY DEF QuicOK, HandlersOK, StreamsOK, RestartsOK
  <2>2. BufferOK /\ ReceiverOK
    BY DEF BufferOK, ReceiverOK, DedupOK, NewBuffer, NewDedup
  <2>3. SendersOK
    BY DEF SendersOK, SenderOK, NewSender
  <2> QED
    BY <2>1, <2>2, <2>3, Zenon DEF LinkTypeInv
<1>2. LinkInit => CountInv /\ AckInv
  BY DEF LinkInit, CountInv, AckInv, Covers, NewDedup, NewBuffer, Seqs
<1> QED
  BY <1>1, <1>2, LinkTypeStep, CountStep, AckStep, PTL DEF LinkSpec

\* AtMostOnce: check_and_update returns true once for a sequence number, for
\* every window, buffer limit, number of connections and of restarts.
THEOREM HandedOnOnce == LinkSpec => []AtMostOnce
<1>1. LinkTypeInv /\ CountInv => AtMostOnce
  BY LinkTypes DEF CountInv, AtMostOnce
<1> QED
  BY <1>1, LinkInvariant, PTL

\* AcknowledgedIsAccepted: process_ack never releases a frame the receiver has
\* not accepted, while the sender has not restarted.
THEOREM AcksAreTrue == LinkSpec => []AcknowledgedIsAccepted
<1>1. AckInv => AcknowledgedIsAccepted
  BY Zenon DEF AckInv, AcknowledgedIsAccepted
<1> QED
  BY <1>1, LinkInvariant, PTL

-----------------------------------------------------------------------------
(* ControlDispatcher: no wake-up is lost.                                  *)

DispatcherSpec == DispatcherInit /\ [][DispatcherNext]_dispatcherVars

\* What makes it inductive: a call that has looked and found nothing stays
\* registered only while there is still nothing, before it sleeps as well.
WakeupInv ==
    /\ DispatcherTypeOK
    /\ arrived \in Nat
    /\ \A w \in Waiter :
         waiter[w] \in {"checked", "sleeping"} /\ Found(w) # {} => w \notin notified
    /\ \A w \in Waiter : waiter[w] = "sleeping" /\ closed => w \notin notified

\* pop_matching takes one message out and changes no other.
LEMMA WithoutTakes ==
    ASSUME NEW S, NEW s \in Seq(S), NEW i \in 1..Len(s)
    PROVE  /\ Without(s, i) \in Seq(S)
           /\ \A j \in DOMAIN Without(s, i) : \E k \in DOMAIN s : Without(s, i)[j] = s[k]
<1> DEFINE front == SubSeq(s, 1, i - 1)
           back == SubSeq(s, i + 1, Len(s))
<1>1. front \in Seq(S) /\ Len(front) = i - 1 /\ \A j \in 1..(i - 1) : front[j] = s[j]
  OBVIOUS
<1>2. back \in Seq(S) /\ Len(back) = Len(s) - i /\ \A j \in 1..(Len(s) - i) : back[j] = s[i + j]
  OBVIOUS
<1> HIDE DEF front, back
<1>3. /\ front \o back \in Seq(S)
      /\ Len(front \o back) = Len(s) - 1
      /\ \A j \in 1..(Len(s) - 1) :
           (front \o back)[j] = IF j <= i - 1 THEN front[j] ELSE back[j - (i - 1)]
  <2>0. front \in Seq(S) /\ back \in Seq(S)
    BY <1>1, <1>2, Zenon
  <2>1. front \o back \in Seq(S) /\ Len(front \o back) = Len(front) + Len(back)
    BY <2>0
  <2>2. \A j \in 1..(Len(front) + Len(back)) :
          (front \o back)[j] = IF j <= Len(front) THEN front[j] ELSE back[j - Len(front)]
    BY <1>1, <1>2
  <2>3. Len(front) = i - 1 /\ Len(back) = Len(s) - i /\ Len(s) \in Nat
    BY <1>1, <1>2
  <2> QED
    BY <2>1, <2>2, <2>3
<1>4. ASSUME NEW j \in 1..(Len(s) - 1)
      PROVE  \E k \in DOMAIN s : (front \o back)[j] = s[k]
  <2>1. CASE j <= i - 1
    <3>1. (front \o back)[j] = s[j]
      BY <2>1, <1>1, <1>3
    <3> QED
      BY <3>1
  <2>2. CASE ~(j <= i - 1)
    <3>1. (front \o back)[j] = back[j - (i - 1)]
      BY <2>2, <1>3, Zenon
    <3>2. back[j - (i - 1)] = s[j + 1]
      BY <2>2, <1>2, SMTT(30)
    <3> QED
      BY <3>1, <3>2
  <2> QED
    BY <2>1, <2>2, Zenon
<1>5. DOMAIN (front \o back) = 1..(Len(s) - 1)
  BY <1>3
<1>6. Without(s, i) = front \o back
  BY Zenon DEF Without, front, back
<1> QED
  BY <1>3, <1>4, <1>5, <1>6, Zenon

\* The first match is a match.
LEMMA FirstIsFound ==
    ASSUME NEW S \in SUBSET Nat, S # {}
    PROVE  First(S) \in S
BY LeastExists, Zenon DEF First

\* A step of the receiving task or of a call keeps the invariant.
LEMMA WakeupStep == WakeupInv /\ [DispatcherNext]_dispatcherVars => WakeupInv'
<1> SUFFICES ASSUME WakeupInv, [DispatcherNext]_dispatcherVars
             PROVE  WakeupInv'
  BY Zenon
<1> USE DispatcherAssumption
<1>1. CASE Arrive
  <2>1. inbox' \in Seq([kind : Kind, number : 0..MaxArrivals])
    BY <1>1 DEF Arrive, WakeupInv, DispatcherTypeOK
  <2> QED
    BY <1>1, <2>1 DEF Arrive, WakeupInv, DispatcherTypeOK
<1>2. CASE Close
  BY <1>2, Zenon DEF Close, WakeupInv, DispatcherTypeOK, Found
<1>3. ASSUME NEW w \in Waiter, Register(w) PROVE WakeupInv'
  BY <1>3, Zenon DEF Register, WakeupInv, DispatcherTypeOK, Found
<1>4. ASSUME NEW w \in Waiter, Pop(w), Found(w) # {} PROVE WakeupInv'
  <2> DEFINE i == First(Found(w))
  <2>1. i \in DOMAIN inbox
    <3>1. Found(w) \in SUBSET Nat
      BY DEF Found, WakeupInv, DispatcherTypeOK
    <3> QED
      BY <3>1, <1>4, FirstIsFound, Zenon DEF Found
  <2>2. inbox' = Without(inbox, i) /\ waiter' = [waiter EXCEPT ![w] = "idle"]
        /\ notified' = notified \ {w} /\ UNCHANGED <<arrived, closed>>
    BY <1>4, Zenon DEF Pop
  <2> HIDE DEF i
  <2>3. /\ inbox' \in Seq([kind : Kind, number : 0..MaxArrivals])
        /\ \A j \in DOMAIN inbox' : \E k \in DOMAIN inbox : inbox'[j] = inbox[k]
    BY <2>1, <2>2, WithoutTakes DEF WakeupInv, DispatcherTypeOK
  <2>4. \A v \in Waiter : Found(v)' # {} => Found(v) # {}
    BY <2>3, Zenon DEF Found
  <2> QED
    BY <2>2, <2>3, <2>4, Zenon DEF WakeupInv, DispatcherTypeOK
<1>5. ASSUME NEW w \in Waiter, Pop(w), Found(w) = {} PROVE WakeupInv'
  BY <1>5, SMTT(30) DEF Pop, WakeupInv, DispatcherTypeOK, Found
<1>6. ASSUME NEW w \in Waiter, Sleep(w) PROVE WakeupInv'
  BY <1>6, SMTT(30) DEF Sleep, WakeupInv, DispatcherTypeOK, Found
<1>7. ASSUME NEW w \in Waiter, WaitExpires(w) PROVE WakeupInv'
  BY <1>7, Zenon DEF WaitExpires, WakeupInv, DispatcherTypeOK, Found
<1>8. CASE UNCHANGED dispatcherVars
  BY <1>8, Zenon DEF dispatcherVars, WakeupInv, DispatcherTypeOK, Found
<1> QED
  BY <1>1, <1>2, <1>3, <1>4, <1>5, <1>6, <1>7, <1>8, Zenon DEF DispatcherNext

\* NoWakeupIsLost: a call sleeps only while nothing it could take is in the
\* inbox, or it is about to be woken (ControlDispatcher::recv_filtered
\* registers before it looks).
THEOREM WakeupKept == DispatcherSpec => []NoWakeupIsLost
<1>1. DispatcherInit => WakeupInv
  <2>1. <<>> \in Seq([kind : Kind, number : 0..MaxArrivals])
    OBVIOUS
  <2> QED
    BY <2>1 DEF DispatcherInit, WakeupInv, DispatcherTypeOK
<1>2. WakeupInv => NoWakeupIsLost
  BY Zenon DEF WakeupInv, NoWakeupIsLost
<1> QED
  BY <1>1, <1>2, WakeupStep, PTL DEF DispatcherSpec
=============================================================================
