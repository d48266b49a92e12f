----------------------------- MODULE SwimProofs -----------------------------
(***************************************************************************)
(* What the SWIM engine holds of its peers, for any number of nodes and    *)
(* any bounds: nobody is called dead without cause, and no old news wins.  *)
(***************************************************************************)
EXTENDS Swim, FiniteSetTheorems, TLAPS

\* A leaf that names no prover is given thirty seconds of SMT.
USE SMTT(30)

----------------------------------------------------------------------------
(* One peer's entry, and what the engine's operations make of it.          *)

Peer == [status : Statuses \cup {"Unknown"}, incarnation : 0..MaxIncarnation,
         stale : BOOLEAN, suspect_since : {"none", "running", "expired"}]

\* A peer that is not known has no incarnation.
Fresh(p) == p.status = "Unknown" => p.incarnation = 0

\* The next deadline decides that it is dead, or one did.
Doomed(p) == p.status = "Dead" \/ (p.status = "Suspect" /\ p.suspect_since = "expired")

\* A dead peer stays dead in this incarnation.
Forward(p, q) ==
    /\ q.incarnation >= p.incarnation
    /\ p.status = "Dead" /\ q.status # "Dead" => q.incarnation > p.incarnation

LEMMA EntryTypes ==
    ASSUME NEW p \in Peer
    PROVE  /\ p.incarnation \in 0..MaxIncarnation /\ p.status \in Statuses \cup {"Unknown"}
           /\ p.incarnation \in Int /\ p.incarnation >= 0
BY SwimAssumption DEF Peer

LEMMA TimeoutStatus ==
    ASSUME NEW p \in Peer, Fresh(p)
    PROVE  LET q == timeout_status(p)
           IN  q \in Peer /\ Fresh(q) /\ Forward(p, q) /\ (Doomed(q) => Doomed(p))
<1> DEFINE q == timeout_status(p)
<1> SUFFICES q \in Peer /\ Fresh(q) /\ Forward(p, q) /\ (Doomed(q) => Doomed(p))
  BY Zenon
<1>1. CASE p.status = "Alive" /\ p.stale
  <2>1. q = [p EXCEPT !.status = "Suspect", !.suspect_since = "running"]
    BY <1>1, Zenon DEF timeout_status
  <2>2. /\ q \in Peer /\ q.status = "Suspect" /\ q.incarnation = p.incarnation
        /\ q.suspect_since = "running"
    BY <2>1, ZenonT(30) DEF Peer, Statuses
  <2> HIDE DEF q
  <2> QED
    BY <1>1, <2>2, EntryTypes DEF Fresh, Forward, Doomed
<1>2. CASE p.status = "Suspect" /\ ~p.stale
  <2>1. q = [p EXCEPT !.status = "Alive", !.suspect_since = "none"]
    BY <1>2, Zenon DEF timeout_status
  <2>2. q \in Peer /\ q.status = "Alive" /\ q.incarnation = p.incarnation
    BY <2>1, ZenonT(30) DEF Peer, Statuses
  <2> HIDE DEF q
  <2> QED
    BY <1>2, <2>2, EntryTypes DEF Fresh, Forward, Doomed
<1>3. CASE p.status = "Suspect" /\ p.stale /\ p.suspect_since = "expired"
  <2>1. q = [p EXCEPT !.status = "Dead"]
    BY <1>3, Zenon DEF timeout_status
  <2>2. q \in Peer /\ q.status = "Dead" /\ q.incarnation = p.incarnation
    BY <2>1, ZenonT(30) DEF Peer, Statuses
  <2> HIDE DEF q
  <2> QED
    BY <1>3, <2>2, EntryTypes DEF Fresh, Forward, Doomed
<1>4. CASE ~(\/ p.status = "Alive" /\ p.stale
             \/ p.status = "Suspect" /\ ~p.stale
             \/ p.status = "Suspect" /\ p.stale /\ p.suspect_since = "expired")
  <2>1. q = p
    BY <1>4, Zenon DEF timeout_status
  <2> HIDE DEF q
  <2> QED
    BY <2>1, EntryTypes DEF Forward
<1> QED
  BY <1>1, <1>2, <1>3, <1>4, ZenonT(30)

\* process_pending suspects a peer that is alive.
LEMMA Suspected ==
    ASSUME NEW p \in Peer, p.status = "Alive",
           NEW q, q = [p EXCEPT !.status = "Suspect", !.suspect_since = "running"]
    PROVE  q \in Peer /\ Fresh(q) /\ Forward(p, q) /\ ~Doomed(q)
<1>1. /\ q \in Peer /\ q.status = "Suspect" /\ q.incarnation = p.incarnation
      /\ q.suspect_since = "running"
  BY ZenonT(30) DEF Peer, Statuses
<1> QED
  BY <1>1, EntryTypes DEF Fresh, Forward, Doomed

\* A frame of the peer's own, and an Ack.
Hears(p, q) == q \in Peer /\ Fresh(q) /\ q.incarnation >= p.incarnation /\ ~Doomed(q)

LEMMA Touched ==
    ASSUME NEW p \in Peer, Fresh(p)
    PROVE  /\ p.status = "Unknown" => Hears(p, PeerState(0, "Alive"))
           /\ p.status # "Unknown" => Hears(p, [p EXCEPT !.status = "Alive", !.stale = FALSE])
           /\ p.status # "Unknown" =>
                Hears(p, [p EXCEPT !.status = "Alive", !.stale = FALSE, !.suspect_since = "none"])
<1> DEFINE q == PeerState(0, "Alive")
           r == [p EXCEPT !.status = "Alive", !.stale = FALSE]
           s == [p EXCEPT !.status = "Alive", !.stale = FALSE, !.suspect_since = "none"]
<1>0. 0 \in 0..MaxIncarnation
  BY SwimAssumption
<1>1. q \in Peer /\ q.status = "Alive" /\ q.incarnation = 0
  BY <1>0, ZenonT(30) DEF Peer, PeerState, Statuses
<1>2. r \in Peer /\ r.status = "Alive" /\ r.incarnation = p.incarnation
  BY ZenonT(30) DEF Peer, Statuses
<1>3. s \in Peer /\ s.status = "Alive" /\ s.incarnation = p.incarnation
  BY ZenonT(30) DEF Peer, Statuses
<1> HIDE DEF q, r, s
<1>4. /\ p.status = "Unknown" => Hears(p, q)
      /\ p.status # "Unknown" => Hears(p, r) /\ Hears(p, s)
  BY <1>1, <1>2, <1>3, EntryTypes DEF Hears, Fresh, Doomed
<1> QED
  BY <1>4, ZenonT(30) DEF q, r, s

\* Gossip: what it leaves doomed is reported dead, or was doomed and is not
\* reported in a newer incarnation.
LEMMA Gossiped ==
    ASSUME NEW p \in Peer, Fresh(p), NEW upd \in Updates
    PROVE  LET q == apply_one_membership_update(p, upd)
           IN  /\ q \in Peer /\ Fresh(q) /\ Forward(p, q)
               /\ Doomed(q) => upd.status = "Dead" \/ (Doomed(p) /\ ~(upd.incarnation > p.incarnation))
<1> DEFINE q == apply_one_membership_update(p, upd)
           since == IF upd.status = "Suspect" THEN "running" ELSE "none"
<1> SUFFICES /\ q \in Peer /\ Fresh(q) /\ Forward(p, q)
             /\ Doomed(q) =>
                  upd.status = "Dead" \/ (Doomed(p) /\ ~(upd.incarnation > p.incarnation))
  BY Zenon
<1>1. /\ upd.status \in Statuses /\ upd.incarnation \in 0..MaxIncarnation
      /\ upd.incarnation \in Int /\ upd.incarnation >= 0
      /\ since \in {"none", "running"}
  BY SwimAssumption DEF Updates
<1>2. CASE p.status = "Unknown"
  <2> DEFINE r == PeerState(upd.incarnation, upd.status)
  <2>1. q = [r EXCEPT !.suspect_since = since]
    BY <1>2, ZenonT(30) DEF apply_one_membership_update
  <2>2. /\ r \in Peer /\ r.status = upd.status /\ r.incarnation = upd.incarnation
    BY <1>1, ZenonT(30) DEF Peer, PeerState
  <2> HIDE DEF since, r
  <2>3. /\ q \in Peer /\ q.status = upd.status /\ q.incarnation = upd.incarnation
        /\ q.suspect_since = since
    BY <1>1, <2>1, <2>2, ZenonT(30) DEF Peer
  <2> HIDE DEF q
  <2> QED
    BY <1>1, <1>2, <2>3, EntryTypes, ZenonT(30) DEF Fresh, Forward, Doomed, Statuses
<1>3. CASE p.status # "Unknown" /\ Supersedes(upd, p)
  <2>1. q = [p EXCEPT !.status = upd.status, !.incarnation = upd.incarnation,
                      !.suspect_since = since,
                      !.stale = @ /\ upd.incarnation = p.incarnation]
    BY <1>3, ZenonT(30) DEF apply_one_membership_update
  <2>2. /\ upd.incarnation >= p.incarnation
        /\ p.status = "Dead" => upd.incarnation > p.incarnation
    <3>1. upd.status \in {"Alive", "Suspect", "Dead"}
      BY <1>1, Zenon DEF Statuses
    <3>2. status_rank(upd.status) <= 2 /\ status_rank("Dead") = 2 /\ status_rank(upd.status) \in Int
      BY <3>1 DEF status_rank
    <3> QED
      BY <1>1, <1>3, <3>2, EntryTypes DEF Supersedes
  <2> HIDE DEF since
  <2>3. /\ q \in Peer /\ q.status = upd.status /\ q.incarnation = upd.incarnation
        /\ q.suspect_since = since
    BY <1>1, <2>1, ZenonT(30) DEF Peer
  <2> HIDE DEF q
  <2> QED
    BY <1>1, <1>3, <2>2, <2>3, EntryTypes, ZenonT(30) DEF Fresh, Forward, Doomed, Statuses
<1>4. CASE p.status # "Unknown" /\ ~Supersedes(upd, p)
  <2>1. q = p
    BY <1>4, Zenon DEF apply_one_membership_update
  <2> HIDE DEF q
  <2> QED
    BY <1>1, <1>4, <2>1, EntryTypes DEF Forward, Supersedes
<1> QED
  BY <1>2, <1>3, <1>4, ZenonT(30)


----------------------------------------------------------------------------
(* The table.                                                              *)

\* A peer that a deadline is about to call dead is condemned already, so the
\* tick that does it needs no more than the table.
SwimInv ==
    /\ SwimTypeOK
    /\ \A n \in Nodes : Fresh(peers[n]) /\ (Doomed(peers[n]) => n \in condemned)

Spoke(n) == n \in up /\ wire' = wire

\* What a step may make of the entry of n.
Moved(n, q) ==
    /\ q \in Peer /\ Fresh(q) /\ (Doomed(q) => n \in condemned')
    /\ Forward(peers[n], q) \/ (q.incarnation >= peers[n].incarnation /\ Spoke(n))

TableStep ==
    /\ peers' \in [Nodes -> Peer] /\ condemned' \subseteq Nodes
    /\ \A n \in Nodes : Moved(n, peers'[n])

LEMMA TableFacts ==
    ASSUME SwimInv
    PROVE  /\ peers \in [Nodes -> Peer] /\ condemned \subseteq Nodes /\ up \subseteq Nodes
           /\ \A n \in Nodes : /\ peers[n] \in Peer /\ Fresh(peers[n])
                               /\ Doomed(peers[n]) => n \in condemned
                               /\ Forward(peers[n], peers[n])
<1>1. /\ peers \in [Nodes -> Peer] /\ condemned \subseteq Nodes /\ up \subseteq Nodes
      /\ \A n \in Nodes : Fresh(peers[n]) /\ (Doomed(peers[n]) => n \in condemned)
  BY ZenonT(30) DEF SwimInv, SwimTypeOK, Peer, Others
<1>2. \A n \in Nodes : peers[n] \in Peer
  BY <1>1, ZenonT(30)
<1>3. ASSUME NEW n \in Nodes PROVE Forward(peers[n], peers[n])
  BY <1>2, EntryTypes DEF Forward
<1> QED
  BY <1>1, <1>2, <1>3, ZenonT(30)

\* An operation on one entry, or on none.
LEMMA OneEntry ==
    ASSUME SwimInv, NEW n, NEW q, peers' = [peers EXCEPT ![n] = q],
           condemned \ {n} \subseteq condemned', condemned' \subseteq Nodes,
           n \in Nodes => Moved(n, q)
    PROVE  TableStep
<1> USE TableFacts
<1>1. n \in Nodes => q \in Peer
  BY ZenonT(30) DEF Moved
<1>2. peers' \in [Nodes -> Peer]
  BY <1>1, ZenonT(30)
<1>3. ASSUME NEW k \in Nodes PROVE Moved(k, peers'[k])
  <2>1. CASE k = n
    BY <2>1, ZenonT(30)
  <2>2. CASE k # n
    <3>1. peers'[k] = peers[k] /\ (k \in condemned => k \in condemned')
      BY <2>2, ZenonT(30)
    <3> QED
      BY <3>1, Zenon DEF Moved
  <2> QED
    BY <2>1, <2>2, ZenonT(30)
<1> QED
  BY <1>2, <1>3, ZenonT(30) DEF TableStep

LEMMA QuietTable ==
    ASSUME SwimInv, UNCHANGED <<peers, condemned>>
    PROVE  TableStep
BY TableFacts, Zenon DEF TableStep, Moved

LEMMA TickTable ==
    ASSUME SwimInv, tick
    PROVE  TableStep
<1> USE TableFacts
<1> DEFINE middle == suspect(peers)
<1>1. peers' = check_timeouts(middle) /\ condemned' = condemned
  BY ZenonT(30) DEF tick
<1>2. ASSUME NEW n \in Nodes
      PROVE  /\ middle[n] \in Peer /\ Fresh(middle[n]) /\ Forward(peers[n], middle[n])
             /\ Doomed(middle[n]) => Doomed(peers[n])
  <2>1. CASE (\E p \in Late("Indirect") : p.target = n) /\ peers[n].status = "Alive"
    <3>1. middle[n] = [peers[n] EXCEPT !.status = "Suspect", !.suspect_since = "running"]
      BY <2>1, ZenonT(30) DEF suspect
    <3> HIDE DEF middle
    <3> QED
      BY <2>1, <3>1, Suspected, ZenonT(30)
  <2>2. CASE ~((\E p \in Late("Indirect") : p.target = n) /\ peers[n].status = "Alive")
    <3>1. middle[n] = peers[n]
      BY <2>2, ZenonT(30) DEF suspect
    <3> HIDE DEF middle
    <3> QED
      BY <3>1, ZenonT(30)
  <2> QED
    BY <2>1, <2>2, ZenonT(30)
<1> HIDE DEF middle
<1>3. ASSUME NEW n \in Nodes PROVE peers'[n] = timeout_status(middle[n])
  BY <1>1, ZenonT(30) DEF check_timeouts
<1>4. ASSUME NEW n \in Nodes PROVE Moved(n, peers'[n])
  <2> DEFINE m == middle[n]
             q == peers'[n]
  <2>1. m \in Peer /\ Fresh(m) /\ Forward(peers[n], m) /\ (Doomed(m) => Doomed(peers[n]))
    BY <1>2, ZenonT(30)
  <2>2. q = timeout_status(m)
    BY <1>3, ZenonT(30)
  <2> HIDE DEF m, q
  <2>3. q \in Peer /\ Fresh(q) /\ Forward(m, q) /\ (Doomed(q) => Doomed(m))
    BY <2>1, <2>2, TimeoutStatus, ZenonT(30)
  <2>4. Forward(peers[n], q)
    BY <2>1, <2>3, EntryTypes DEF Forward
  <2> QED
    BY <1>1, <2>1, <2>3, <2>4, ZenonT(30) DEF Moved, q
<1>5. peers' \in [Nodes -> Peer]
  BY <1>1, <1>4, ZenonT(30) DEF check_timeouts, Moved
<1> QED
  BY <1>1, <1>4, <1>5, ZenonT(30) DEF TableStep

LEMMA HearTable ==
    ASSUME SwimInv, NEW n \in Others, HearFrom(n)
    PROVE  TableStep
<1> USE TableFacts
<1> DEFINE p == peers[n]
           q == IF p.status = "Unknown" THEN PeerState(0, "Alive")
                ELSE [p EXCEPT !.status = "Alive", !.stale = FALSE]
<1>1. /\ peers' = [peers EXCEPT ![n] = q] /\ condemned' = condemned \ {n}
      /\ Spoke(n) /\ n \in Nodes
  BY ZenonT(30) DEF HearFrom, touch_peer, Heard, Spoke, Others
<1>2. Hears(p, q)
  BY <1>1, Touched, ZenonT(30)
<1> HIDE DEF q
<1>3. Moved(n, q)
  BY <1>1, <1>2, ZenonT(30) DEF Moved, Hears
<1> QED
  BY <1>1, <1>3, OneEntry, ZenonT(30)

LEMMA AckTable ==
    ASSUME SwimInv, NEW f, handle_ack(f)
    PROVE  TableStep
<1> USE TableFacts
<1>1. CASE peers[f.src].status = "Dead"
  BY <1>1, QuietTable, ZenonT(30) DEF handle_ack
<1>2. CASE peers[f.src].status # "Dead"
  <2> DEFINE n == f.src
             p == peers[n]
             q == IF p.status = "Unknown" THEN PeerState(0, "Alive")
                  ELSE [p EXCEPT !.status = "Alive", !.stale = FALSE, !.suspect_since = "none"]
  <2>1. peers' = [peers EXCEPT ![n] = q] /\ condemned' = condemned \ {n}
    <3>1. CASE p.status = "Unknown"
      BY <1>2, <3>1, ZenonT(30) DEF handle_ack, touch_peer, Heard
    <3>2. CASE p.status # "Unknown"
      BY <1>2, <3>2, ZenonT(30) DEF handle_ack, Heard
    <3> QED
      BY <3>1, <3>2, ZenonT(30)
  <2>2. n \in Nodes => Hears(p, q)
    BY Touched, ZenonT(30)
  <2> HIDE DEF q
  <2>3. n \in Nodes => Moved(n, q)
    BY <1>2, <2>2, ZenonT(30) DEF Moved, Hears, Forward
  <2> HIDE DEF n, p
  <2> QED
    BY <2>1, <2>3, OneEntry, ZenonT(30)
<1> QED
  BY <1>1, <1>2, ZenonT(30)

LEMMA GossipTable ==
    ASSUME SwimInv, NEW upd \in Updates, apply_membership_update(upd)
    PROVE  TableStep
<1> USE TableFacts
<1> DEFINE n == upd.node_id
           q == apply_one_membership_update(peers[n], upd)
<1>1. n \in Nodes
  BY SwimAssumption, ZenonT(30) DEF Updates
<1>2. /\ peers' = [peers EXCEPT ![n] = q]
      /\ condemned' = IF upd.status = "Dead" THEN condemned \cup {n}
                      ELSE IF upd.incarnation > peers[n].incarnation THEN condemned \ {n}
                      ELSE condemned
  BY ZenonT(30) DEF apply_membership_update
<1>3. /\ q \in Peer /\ Fresh(q) /\ Forward(peers[n], q)
      /\ Doomed(q) =>
           upd.status = "Dead" \/ (Doomed(peers[n]) /\ ~(upd.incarnation > peers[n].incarnation))
  BY <1>1, Gossiped, ZenonT(30)
<1> HIDE DEF q, n
<1>4. condemned' \subseteq Nodes /\ condemned \ {n} \subseteq condemned'
  BY <1>1, <1>2, ZenonT(30)
<1>5. Moved(n, q)
  BY <1>1, <1>2, <1>3, ZenonT(30) DEF Moved
<1> QED
  BY <1>2, <1>4, <1>5, OneEntry, ZenonT(30)

\* Time marks an entry: a mark makes it doomed only when its suspicion ends.
LEMMA TimeTable ==
    ASSUME SwimInv, NEW n \in Nodes, SilenceTimesOut(n) \/ SuspicionTimesOut(n)
    PROVE  TableStep
<1> USE TableFacts
<1>1. CASE SilenceTimesOut(n)
  <2> DEFINE q == [peers[n] EXCEPT !.stale = TRUE]
  <2>1. peers' = [peers EXCEPT ![n] = q] /\ condemned' = condemned
    BY <1>1, ZenonT(30) DEF SilenceTimesOut
  <2>2. /\ q \in Peer /\ q.status = peers[n].status /\ q.incarnation = peers[n].incarnation
        /\ q.suspect_since = peers[n].suspect_since
    BY ZenonT(30) DEF Peer
  <2> HIDE DEF q
  <2>3. Moved(n, q)
    BY <2>1, <2>2, ZenonT(30) DEF Moved, Fresh, Doomed, Forward
  <2> QED
    BY <2>1, <2>3, OneEntry, ZenonT(30)
<1>2. CASE SuspicionTimesOut(n)
  <2> DEFINE q == [peers[n] EXCEPT !.suspect_since = "expired"]
  <2>1. /\ peers' = [peers EXCEPT ![n] = q] /\ condemned' = condemned \cup {n}
        /\ peers[n].status = "Suspect"
    BY <1>2, ZenonT(30) DEF SuspicionTimesOut
  <2>2. q \in Peer /\ q.status = peers[n].status /\ q.incarnation = peers[n].incarnation
    BY ZenonT(30) DEF Peer
  <2> HIDE DEF q
  <2>3. Moved(n, q)
    BY <2>1, <2>2, ZenonT(30) DEF Moved, Fresh, Forward
  <2> QED
    BY <2>1, <2>3, OneEntry, ZenonT(30)
<1> QED
  BY <1>1, <1>2, ZenonT(30)

LEMMA SwimTable ==
    ASSUME SwimInv, [SwimNext]_swimVars
    PROVE  TableStep
<1>1. CASE tick
  BY <1>1, TickTable, ZenonT(30)
<1>2. ASSUME NEW n \in Others, HearFrom(n) PROVE TableStep
  BY <1>2, HearTable, ZenonT(30)
<1>3. ASSUME NEW f \in wire, handle_ack(f) PROVE TableStep
  BY <1>3, AckTable, Zenon
<1>4. ASSUME NEW upd \in Updates, apply_membership_update(upd) PROVE TableStep
  BY <1>4, GossipTable, ZenonT(30)
<1>5. ASSUME NEW n \in Nodes, SilenceTimesOut(n) \/ SuspicionTimesOut(n) PROVE TableStep
  BY <1>5, TimeTable, Zenon
<1>6. ASSUME \/ \E n \in Others : Crash(n)
             \/ \E f \in wire : AnswerPing(f) \/ ForwardPing(f) \/ Lose(f)
             \/ \E p \in pending : ProbeTimesOut(p)
             \/ UNCHANGED swimVars
      PROVE  TableStep
  BY <1>6, QuietTable, ZenonT(30)
     DEF Crash, AnswerPing, ForwardPing, Lose, ProbeTimesOut, swimVars
<1> QED
  BY <1>1, <1>2, <1>3, <1>4, <1>5, <1>6, ZenonT(30) DEF SwimNext

----------------------------------------------------------------------------
(* Probes.                                                                 *)

ProbeRecord == [seq : 1..MaxSeq, target : Others, stage : {"Direct", "Indirect"}, expired : BOOLEAN]

RestOK ==
    pending \subseteq ProbeRecord /\ seq \in 0..MaxSeq /\ up \subseteq Others

LEMMA TypeSplits ==
    ASSUME SwimInv
    PROVE  RestOK
BY ZenonT(30) DEF SwimInv, SwimTypeOK, RestOK, ProbeRecord

\* The probes a tick starts take the numbers that follow seq, within MaxSeq.
LEMMA NewProbes ==
    ASSUME RestOK, NEW new, IsFiniteSet(new), new \subseteq Nodes,
           seq + Cardinality(new) <= MaxSeq,
           NEW order \in SetToSeqs(new), NEW sent \in SUBSET (1..Cardinality(new)),
           \A i \in sent : order[i] # self
    PROVE  /\ seq + Len(order) \in 0..MaxSeq
           /\ {Probe(order, i) : i \in sent} \subseteq ProbeRecord
<1> DEFINE k == Cardinality(new)
<1>1. k \in Nat /\ seq + k <= MaxSeq
  BY FS_CardinalityType, ZenonT(30)
<1>2. order \in [1..k -> new] /\ sent \subseteq 1..k
  BY ZenonT(30) DEF SetToSeqs
<1> HIDE DEF k
<1>3. seq \in 0..MaxSeq /\ MaxSeq \in Nat
  BY SwimAssumption, ZenonT(30) DEF RestOK
<1>4. Len(order) = k
  BY <1>1, <1>2
<1>5. ASSUME NEW i \in sent PROVE Probe(order, i) \in ProbeRecord
  <2>1. seq + i \in 1..MaxSeq
    BY <1>1, <1>2, <1>3
  <2>2. order[i] \in Others
    BY <1>2, ZenonT(30) DEF Others
  <2> QED
    BY <2>1, <2>2, ZenonT(30) DEF Probe, ProbeRecord
<1>6. seq + k \in 0..MaxSeq
  BY <1>1, <1>3
<1> QED
  BY <1>4, <1>5, <1>6, ZenonT(30)

LEMMA PendingAfter ==
    ASSUME RestOK
    PROVE  AfterPending \subseteq ProbeRecord
<1>1. ASSUME NEW p \in ProbeRecord
      PROVE  [p EXCEPT !.stage = "Indirect", !.expired = FALSE] \in ProbeRecord
  BY ZenonT(30) DEF ProbeRecord
<1> QED
  BY <1>1, ZenonT(30) DEF AfterPending, Late, RestOK

LEMMA TickRest ==
    ASSUME SwimInv, tick
    PROVE  RestOK'
<1>1. RestOK
  BY TypeSplits, Zenon
<1> DEFINE last == check_timeouts(suspect(peers))
<1>2. PICK ts \in select_targets(last), reqs \in {reqs \in SUBSET PingReqs : FewHelpers(reqs)} :
        LET free == Unprobed(ts, AfterPending)
            new == IF seq + Cardinality(free) <= MaxSeq THEN free ELSE {}
        IN  \E order \in SetToSeqs(new), sent \in SUBSET (1..Cardinality(new)) :
                /\ \A i \in sent : order[i] # self
                /\ seq' = seq + Len(order)
                /\ pending' = AfterPending \cup {Probe(order, i) : i \in sent}
  BY ZenonT(30) DEF tick
<1> DEFINE free == Unprobed(ts, AfterPending)
           new == IF seq + Cardinality(free) <= MaxSeq THEN free ELSE {}
<1>3. PICK order \in SetToSeqs(new), sent \in SUBSET (1..Cardinality(new)) :
        /\ \A i \in sent : order[i] # self
        /\ seq' = seq + Len(order)
        /\ pending' = AfterPending \cup {Probe(order, i) : i \in sent}
  BY <1>2, ZenonT(30)
<1>4. free \subseteq Nodes
  BY ZenonT(30) DEF Unprobed, select_targets, kSubset, NotDead
<1>5. IsFiniteSet(new) /\ new \subseteq Nodes
  <2>1. new \in SUBSET Nodes
    BY <1>4, ZenonT(30)
  <2> QED
    BY <2>1, FS_Subset, SwimAssumption, ZenonT(30)
<1>6. seq + Cardinality(new) <= MaxSeq
  <2> HIDE DEF free
  <2>1. CASE seq + Cardinality(free) <= MaxSeq
    BY <2>1, ZenonT(30)
  <2>2. CASE ~(seq + Cardinality(free) <= MaxSeq)
    <3>1. new = {}
      BY <2>2, ZenonT(30)
    <3>2. Cardinality(new) = 0
      BY <3>1, FS_EmptySet, ZenonT(30)
    <3>3. seq \in 0..MaxSeq /\ MaxSeq \in Nat
      BY <1>1, SwimAssumption, ZenonT(30) DEF RestOK
    <3> HIDE DEF new
    <3> QED
      BY <3>2, <3>3
  <2> QED
    BY <2>1, <2>2, ZenonT(30)
<1> HIDE DEF new
<1>7. /\ seq + Len(order) \in 0..MaxSeq
      /\ {Probe(order, i) : i \in sent} \subseteq ProbeRecord
  BY <1>1, <1>3, <1>5, <1>6, NewProbes, ZenonT(30)
<1>8. up' = up /\ AfterPending \subseteq ProbeRecord
  BY <1>1, PendingAfter, ZenonT(30) DEF tick
<1> QED
  BY <1>1, <1>3, <1>7, <1>8, ZenonT(30) DEF RestOK, ProbeRecord

LEMMA SwimRest ==
    ASSUME SwimInv, [SwimNext]_swimVars
    PROVE  RestOK'
<1>1. pending \subseteq ProbeRecord /\ seq \in 0..MaxSeq /\ up \subseteq Others
  BY TypeSplits, ZenonT(30) DEF RestOK
<1>2. CASE tick
  BY <1>2, TickRest, ZenonT(30)
<1>3. ASSUME NEW p \in pending, ProbeTimesOut(p) PROVE RestOK'
  <2>1. [p EXCEPT !.expired = TRUE] \in ProbeRecord
    BY <1>1, ZenonT(30) DEF ProbeRecord
  <2> QED
    BY <1>1, <1>3, <2>1, ZenonT(30) DEF ProbeTimesOut, RestOK, ProbeRecord
<1>4. ASSUME NEW f \in wire, handle_ack(f) PROVE RestOK'
  <2>1. pending' \subseteq pending /\ seq' = seq /\ up' = up
    BY <1>4, ZenonT(30) DEF handle_ack, Clear
  <2> QED
    BY <1>1, <2>1, ZenonT(30) DEF RestOK, ProbeRecord
<1>5. ASSUME \/ \E n \in Others : HearFrom(n) \/ Crash(n)
             \/ \E f \in wire : AnswerPing(f) \/ ForwardPing(f) \/ Lose(f)
             \/ \E upd \in Updates : apply_membership_update(upd)
             \/ \E n \in Nodes : SilenceTimesOut(n) \/ SuspicionTimesOut(n)
             \/ UNCHANGED swimVars
      PROVE  RestOK'
  <2>1. pending' = pending /\ seq' = seq /\ up' \subseteq up
    BY <1>5, ZenonT(30) DEF HearFrom, Crash, AnswerPing, ForwardPing, Lose, apply_membership_update,
       SilenceTimesOut, SuspicionTimesOut, swimVars
  <2> QED
    BY <1>1, <2>1, ZenonT(30) DEF RestOK, ProbeRecord
<1> QED
  BY <1>2, <1>3, <1>4, <1>5, ZenonT(30) DEF SwimNext

----------------------------------------------------------------------------
(* The theorems.                                                           *)

LEMMA SwimInvStarts == SwimInit => SwimInv
<1> SUFFICES ASSUME SwimInit PROVE SwimInv
  BY Zenon
<1>1. 0 \in 0..MaxIncarnation /\ 0 \in 0..MaxSeq
  BY SwimAssumption
<1>2. /\ Unknown \in Peer /\ Unknown.status = "Unknown" /\ Unknown.incarnation = 0
  BY <1>1, ZenonT(30) DEF Unknown, Peer
<1>3. peers \in [Nodes -> Peer] /\ \A n \in Nodes : peers[n] = Unknown
  BY <1>2, ZenonT(30) DEF SwimInit
<1>4. SwimTypeOK
  BY <1>1, <1>3, ZenonT(30) DEF SwimInit, SwimTypeOK, Peer
<1>5. Fresh(Unknown) /\ ~Doomed(Unknown)
  BY <1>2, ZenonT(30) DEF Fresh, Doomed
<1> QED
  BY <1>3, <1>4, <1>5, ZenonT(30) DEF SwimInv

LEMMA SwimInvStep == SwimInv /\ [SwimNext]_swimVars => SwimInv'
<1> SUFFICES ASSUME SwimInv, [SwimNext]_swimVars PROVE SwimInv'
  BY Zenon
<1>1. TableStep /\ RestOK'
  BY SwimTable, SwimRest, ZenonT(30)
<1>2. SwimTypeOK'
  BY <1>1, ZenonT(30) DEF TableStep, RestOK, SwimTypeOK, Peer, ProbeRecord
<1> QED
  BY <1>1, <1>2, ZenonT(30) DEF SwimInv, TableStep, Moved, Fresh, Doomed

\* Nobody is called dead without cause: every peer that the engine shows as
\* Dead was silent for a whole suspicion, or was reported dead, since it was
\* last heard of, whatever deadlines earlier suspicions left behind.
THEOREM NobodyDiesWithoutCause == SwimSpec => []TableIsSound
<1>1. SwimInv => TableIsSound
  BY ZenonT(30) DEF SwimInv, TableIsSound, DeadIsJustified, Doomed
<1> QED
  BY <1>1, SwimInvStarts, SwimInvStep, PTL DEF SwimSpec

\* No old news wins: no frame, gossip or deadline takes a peer's incarnation
\* back, and only a newer incarnation or a frame of the peer itself ends its death.
THEOREM NoOldNewsWins == SwimSpec => OldNewsLoses
<1>1. SwimInv /\ [SwimNext]_swimVars =>
        [\A n \in Nodes :
           /\ peers'[n].incarnation >= peers[n].incarnation
           /\ (peers[n].status = "Dead" /\ peers'[n].status # "Dead") =>
                (peers'[n].incarnation > peers[n].incarnation \/ (n \in up /\ wire' = wire))]_swimVars
  BY SwimTable, ZenonT(30) DEF TableStep, Moved, Forward, Spoke
<1> QED
  BY <1>1, SwimInvStarts, SwimInvStep, PTL DEF SwimSpec, OldNewsLoses
=============================================================================
