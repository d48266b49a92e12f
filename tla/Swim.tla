-------------------------------- MODULE Swim --------------------------------
(***************************************************************************)
(* The SWIM engine of one node (chirps-gossip-swim): probes, indirect      *)
(* probes, suspicion and the membership updates it learns from gossip, and *)
(* the events Mesh hands on from a tick.                                   *)
(*                                                                         *)
(* The other nodes run the same engine. What they send in answer to a      *)
(* probe does not depend on their state, so they are kept only as running  *)
(* or crashed; their own pings and gossip arrive at any time. Time is      *)
(* abstract: every deadline is a flag that passing time may set, and each  *)
(* tick reads the flags. mesh.rs takes the engine's lock around tick and   *)
(* around every frame, so that each is one step.                           *)
(***************************************************************************)
EXTENDS MembershipOrder, FiniteSets, SequencesExt

CONSTANTS
    Nodes, self,
    Subjects,           \* the nodes that may crash and that the others gossip about
    fanout,             \* GossipConfig::fanout, 0 when none is configured
    MaxSeq,             \* bound: probes sent
    MaxWire,            \* bound: frames in flight, any other is lost
    MaxIncarnation      \* bound: incarnations in gossip

ASSUME SwimAssumption ==
    /\ IsFiniteSet(Nodes) /\ self \in Nodes /\ Subjects \subseteq Nodes
    /\ {fanout, MaxSeq, MaxWire, MaxIncarnation} \subseteq Nat

VARIABLES
    peers,      \* membership.peers
    pending,    \* the probes that wait for an Ack
    seq,        \* the last sequence number used
    wire,       \* frames in flight
    up,         \* the other nodes that have not crashed
    condemned   \* ghost: silent for a whole suspicion, or said to be dead, since last heard of

swimVars == <<peers, pending, seq, wire, up, condemned>>

Others == Nodes \ {self}
Unknown == [status |-> "Unknown", incarnation |-> 0, stale |-> FALSE, suspect_since |-> "none"]

\* last_seen is kept as stale: older than indirect_ping_timeout.
PeerState(incarnation, status) ==
    [status |-> status, incarnation |-> incarnation, stale |-> FALSE, suspect_since |-> "none"]

\* Mesh starts the engine with an empty MembershipView.
SwimInit ==
    /\ peers = [n \in Nodes |-> Unknown]
    /\ pending = {} /\ seq = 0 /\ wire = {}
    /\ up = Others
    /\ condemned = {}

----------------------------------------------------------------------------
\* util.rs.

calculate_fanout(total, configured) ==
    LET cap == total - 1
        sqrt == CHOOSE k \in 0..total : k * k >= total /\ \A j \in 0..total : j * j >= total => k <= j
    IN  IF total <= 1 THEN 0
        ELSE Min({IF configured > 0 THEN configured ELSE Max({3, sqrt}), cap})

\* Mutant: a suspicion starts anew at every tick.
timeout_status_Restarts(p) ==
    CASE p.status = "Alive" /\ p.stale -> [p EXCEPT !.status = "Suspect", !.suspect_since = "running"]
      [] p.status = "Suspect" /\ ~p.stale -> [p EXCEPT !.status = "Alive", !.suspect_since = "none"]
      [] p.status = "Suspect" /\ p.stale -> [p EXCEPT !.suspect_since = "running"]
      [] OTHER -> p

\* check_timeouts, for one peer.
timeout_status(p) ==
    CASE p.status = "Alive" /\ p.stale -> [p EXCEPT !.status = "Suspect", !.suspect_since = "running"]
      [] p.status = "Suspect" /\ ~p.stale -> [p EXCEPT !.status = "Alive", !.suspect_since = "none"]
      [] p.status = "Suspect" /\ p.stale /\ p.suspect_since = "expired" -> [p EXCEPT !.status = "Dead"]
      [] OTHER -> p

check_timeouts(table) == [n \in Nodes |-> timeout_status(table[n])]

----------------------------------------------------------------------------
\* Frames from other nodes.

touch_peer(table, n) ==
    [table EXCEPT ![n] =
        IF @.status = "Unknown" THEN PeerState(0, "Alive")
        ELSE [@ EXCEPT !.status = "Alive", !.stale = FALSE]]

Heard(n) == condemned' = condemned \ {n}

\* The frame of another node's own probe: a Ping, or a PingReq that asks to
\* probe a third node. The answer tells this engine nothing; see AnswerPing
\* and ForwardPing for what it is.
HearFrom(n) ==
    /\ n \in up
    /\ peers' = touch_peer(peers, n)
    /\ Heard(n)
    /\ UNCHANGED <<pending, seq, wire, up>>

Clear(s) == pending' = {p \in pending : p.seq # s}

\* A late Ack of a dead peer is ignored, and its probe stays pending.
handle_ack(f) ==
    /\ f.type = "Ack" /\ f.dst = self
    /\ wire' = wire \ {f}
    /\ IF peers[f.src].status = "Dead"
       THEN UNCHANGED <<peers, pending, condemned>>
       ELSE /\ peers' = IF peers[f.src].status = "Unknown" THEN touch_peer(peers, f.src)
                        ELSE [peers EXCEPT ![f.src] =
                                 [@ EXCEPT !.status = "Alive", !.stale = FALSE, !.suspect_since = "none"]]
            /\ Clear(f.seq)
            /\ Heard(f.src)
    /\ UNCHANGED <<seq, up>>

apply_one_membership_update(p, upd) ==
    LET since == IF upd.status = "Suspect" THEN "running" ELSE "none" IN
    CASE p.status = "Unknown" -> [PeerState(upd.incarnation, upd.status) EXCEPT !.suspect_since = since]
      [] p.status # "Unknown" /\ Supersedes(upd, p) ->
           [p EXCEPT !.status = upd.status, !.incarnation = upd.incarnation, !.suspect_since = since,
                     !.stale = @ /\ upd.incarnation = p.incarnation]
      [] OTHER -> p

\* The updates of one message concern different nodes: one at a time. A node
\* gossips all it knows, also what it knows of the receiver.
apply_membership_update(upd) ==
    /\ peers' = [peers EXCEPT ![upd.node_id] = apply_one_membership_update(@, upd)]
    /\ condemned' =
         IF upd.status = "Dead" THEN condemned \cup {upd.node_id}
         ELSE IF upd.incarnation > peers[upd.node_id].incarnation THEN condemned \ {upd.node_id}
         ELSE condemned
    /\ UNCHANGED <<pending, seq, wire, up>>

Updates == [node_id : Subjects, incarnation : 0..MaxIncarnation, status : Statuses]

----------------------------------------------------------------------------
\* One tick.

NotDead(table) == {n \in Nodes : table[n].status \in {"Alive", "Suspect"}}

\* process_pending: a direct probe out of time becomes an indirect one, an
\* indirect one out of time ends and its target is suspected.
Late(stage) == {p \in pending : p.stage = stage /\ p.expired}
AfterPending ==
    (pending \ (Late("Direct") \cup Late("Indirect")))
        \cup {[p EXCEPT !.stage = "Indirect", !.expired = FALSE] : p \in Late("Direct")}

\* Mutant: a suspicion that follows an earlier one keeps its start.
suspect_KeepsSince(table) ==
    [n \in Nodes |->
        IF (\E p \in Late("Indirect") : p.target = n) /\ table[n].status = "Alive"
        THEN [table[n] EXCEPT !.status = "Suspect",
                              !.suspect_since = IF @ = "none" THEN "running" ELSE @]
        ELSE table[n]]

suspect(table) ==
    [n \in Nodes |->
        IF (\E p \in Late("Indirect") : p.target = n) /\ table[n].status = "Alive"
        THEN [table[n] EXCEPT !.status = "Suspect", !.suspect_since = "running"]
        ELSE table[n]]

\* send_ping_req chooses helpers at random. A failed send is only logged, so
\* it is a frame that is never delivered.
Helpers(target) == NotDead(peers) \ {target}
PingReqs ==
    UNION {{[type |-> "PingReq", src |-> self, dst |-> h, seq |-> p.seq, target |-> p.target] :
                h \in Helpers(p.target) \ {self}} : p \in Late("Direct")}
FewHelpers(reqs) ==
    \A p \in Late("Direct") :
        Cardinality({r \in reqs : r.seq = p.seq})
            <= calculate_fanout(Cardinality(Helpers(p.target)) + 1, fanout)

\* select_targets: a random choice of the peers that are not dead.
select_targets(table) ==
    kSubset(calculate_fanout(Cardinality(NotDead(table)) + 1, fanout), NotDead(table))

\* send_pings: targets already probed are skipped, every other one takes the
\* next number, also when the send fails. A node has no connection to itself.
Ping(order, i) == [type |-> "Ping", src |-> self, dst |-> order[i], seq |-> seq + i, target |-> order[i]]

Probe(order, i) == [seq |-> seq + i, target |-> order[i], stage |-> "Direct", expired |-> FALSE]

Unprobed(ts, probes) == {t \in ts : \A p \in probes : p.target # t}

tick ==
    LET middle == suspect(peers)
        last == check_timeouts(middle)
    IN  /\ peers' = last
        /\ \E ts \in select_targets(last), reqs \in {reqs \in SUBSET PingReqs : FewHelpers(reqs)} :
                LET free == Unprobed(ts, AfterPending)
                    new == IF seq + Cardinality(free) <= MaxSeq THEN free ELSE {}
                IN  \E order \in SetToSeqs(new), sent \in SUBSET (1..Cardinality(new)) :
                        /\ \A i \in sent : order[i] # self
                        /\ seq' = seq + Len(order)
                        /\ pending' = AfterPending \cup {Probe(order, i) : i \in sent}
                        /\ \E lost \in SUBSET {Ping(order, i) : i \in sent} :
                             wire' = (wire \cup reqs \cup {Ping(order, i) : i \in sent}) \ lost
                        /\ Cardinality(wire') <= MaxWire
        /\ UNCHANGED <<up, condemned>>

----------------------------------------------------------------------------
\* The other nodes and the passing of time.

\* handle_ping there: the Ack goes to the connection the Ping came from.
AnswerPing(f) ==
    /\ f.type = "Ping" /\ f.dst \in up
    /\ wire' = (wire \ {f}) \cup
                 {[type |-> "Ack", src |-> f.dst, dst |-> f.src, seq |-> f.seq, target |-> f.src]}
    /\ UNCHANGED <<peers, pending, seq, up, condemned>>

\* handle_ping_req there.
ForwardPing(f) ==
    /\ f.type = "PingReq" /\ f.dst \in up
    /\ wire' = (wire \ {f}) \cup
                 {[type |-> "Ping", src |-> f.dst, dst |-> f.target, seq |-> f.seq, target |-> f.target]}
    /\ UNCHANGED <<peers, pending, seq, up, condemned>>

\* Lost, or an Ack that reached a helper: it changes the helper's engine only.
Lose(f) ==
    /\ wire' = wire \ {f}
    /\ UNCHANGED <<peers, pending, seq, up, condemned>>

Crash(n) ==
    /\ n \in up \cap Subjects
    /\ up' = up \ {n}
    /\ UNCHANGED <<peers, pending, seq, wire, condemned>>

ProbeTimesOut(p) ==
    /\ ~p.expired
    /\ pending' = (pending \ {p}) \cup {[p EXCEPT !.expired = TRUE]}
    /\ UNCHANGED <<peers, seq, wire, up, condemned>>

SilenceTimesOut(n) ==
    /\ n \in NotDead(peers) /\ ~peers[n].stale
    /\ peers' = [peers EXCEPT ![n].stale = TRUE]
    /\ UNCHANGED <<pending, seq, wire, up, condemned>>

SuspicionTimesOut(n) ==
    /\ peers[n].status = "Suspect" /\ peers[n].suspect_since = "running"
    /\ peers' = [peers EXCEPT ![n].suspect_since = "expired"]
    /\ condemned' = condemned \cup {n}
    /\ UNCHANGED <<pending, seq, wire, up>>

----------------------------------------------------------------------------
SwimNext ==
    \/ tick
    \/ \E n \in Others : HearFrom(n) \/ Crash(n)
    \/ \E f \in wire : handle_ack(f) \/ AnswerPing(f) \/ ForwardPing(f) \/ Lose(f)
    \/ \E upd \in Updates : apply_membership_update(upd)
    \/ \E p \in pending : ProbeTimesOut(p)
    \/ \E n \in Nodes : SilenceTimesOut(n) \/ SuspicionTimesOut(n)

SwimSpec == SwimInit /\ [][SwimNext]_swimVars

\* A tick at which a timeout changes the table.
DecidingTick == check_timeouts(suspect(peers)) # peers /\ tick

\* Mesh runs tick in a loop, and time passes.
SwimFairSpec ==
    /\ SwimSpec /\ WF_swimVars(DecidingTick)
    /\ \A n \in Subjects : WF_swimVars(SilenceTimesOut(n)) /\ WF_swimVars(SuspicionTimesOut(n))

\* Every variable has its type.
SwimTypeOK ==
    /\ peers \in [Nodes -> [status : Statuses \cup {"Unknown"}, incarnation : 0..MaxIncarnation,
                            stale : BOOLEAN, suspect_since : {"none", "running", "expired"}]]
    /\ pending \subseteq [seq : 1..MaxSeq, target : Others, stage : {"Direct", "Indirect"}, expired : BOOLEAN]
    /\ seq \in 0..MaxSeq
    /\ up \subseteq Others /\ condemned \subseteq Nodes

\* A peer shown as Dead has said nothing for a whole suspicion, or was reported
\* dead, since it was last heard of: no suspicion deadline left over from an
\* earlier suspicion that touch_peer ended is ever used for a later one.
DeadIsJustified ==
    \A n \in Nodes : peers[n].status = "Dead" => n \in condemned

\* The table is typed, and calls nobody dead without cause.
TableIsSound == SwimTypeOK /\ DeadIsJustified

\* Old news never wins: a peer's incarnation never goes back, and a dead peer
\* returns only with a newer incarnation or a Ping of its own; neither a late
\* Ack nor gossip of the same incarnation revives it.
OldNewsLoses ==
    [][\A n \in Nodes :
         /\ peers'[n].incarnation >= peers[n].incarnation
         /\ (peers[n].status = "Dead" /\ peers'[n].status # "Dead") =>
              (peers'[n].incarnation > peers[n].incarnation \/ (n \in up /\ wire' = wire))]_swimVars

\* A node has crashed and is not shown as Dead. It will be, whatever frames of
\* it are still in flight and whatever the others gossip.
CrashIsHidden ==
    \E n \in Subjects \ {self} : n \notin up /\ peers[n].status \notin {"Dead", "Unknown"}
=============================================================================
