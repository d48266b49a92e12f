---------------------------- MODULE RaftRouting ----------------------------
(***************************************************************************)
(* How MultiRaftManager (alopex-chirps, multi_raft/manager.rs) finds the   *)
(* group and the peer of a Raft frame.  The manager keeps one table of the *)
(* wire identity of every Raft node; each group's transport has a copy,    *)
(* taken when the group's transport is forked.  Identity frames, and the   *)
(* vote inside a request, fill the tables; the mesh's frame loop handles   *)
(* one frame at a time and answers a request through its group, while      *)
(* callers create and remove groups and install a metrics collector.       *)
(*                                                                         *)
(* What a group does with a request or a response is GroupRpc's part; the  *)
(* frames a node takes before a manager is attached are MeshDispatch's.    *)
(***************************************************************************)
EXTENDS Naturals, Sequences, FiniteSets, TLC

CONSTANTS
    RaftGroups,
    RaftPeers,          \* Raft node ids of the other nodes
    max_groups,         \* MultiRaftConfig::max_groups
    MaxLives,           \* bound: wire identities one peer has over time
    MaxRaftFrames,      \* bound: frames the peers send
    MaxCreations        \* bound: calls of create_group that get past its checks

ASSUME RoutingAssumption ==
    /\ IsFiniteSet(RaftGroups) /\ IsFiniteSet(RaftPeers)
    /\ max_groups \in Nat /\ MaxLives \in Nat /\ MaxRaftFrames \in Nat /\ MaxCreations \in Nat

\* The wire ids of peer p: life 0 is the canonical id a deterministic transport
\* uses, the others are the random ids of its identity files.
WireIds == RaftPeers \X (0..MaxLives)
Canonical(p) == <<p, 0>>
Unregistered == <<>>

VARIABLES
    life,               \* life[p]: the wire id peer p uses now is <<p, life[p]>>
    link,               \* link[w]: the frames under way from wire id w
    raftSent,           \* frames sent so far
    node_ids,           \* the manager's table
    group,              \* group[g]: its handle, if any, and its transport's table
    disk,               \* groups whose directories hold something
    collector,          \* is one set, and what its set_groups_total was last told
    loop,               \* the frame the mesh's loop is at work on
    answer,             \* the last response sent, with the request's wire id
    creations,
    late,               \* ghost: peers registered since the transport being created was forked
    missed              \* ghost: missed[g]: those a published group was not told of

routingVars == <<life, link, raftSent, node_ids, group, disk, collector, loop, answer,
                 creations, late, missed>>

\* phase: none, then storage and forked within create_group_inner, up, closing
\* within remove_group, and stuck when its shutdown failed.
NoGroup == [phase |-> "none", birth |-> 0, knows |-> [p \in RaftPeers |-> Unregistered], collects |-> FALSE]
Published == {g \in RaftGroups : group[g].phase \in {"up", "closing", "stuck"}}
LifecycleFree == \A g \in RaftGroups : group[g].phase \notin {"storage", "forked", "closing"}
IdleLoop == [pc |-> "idle"]
NoAnswer == [to |-> Unregistered, asked |-> Unregistered, uninformed |-> FALSE]

RoutingInit ==
    /\ life \in [RaftPeers -> {0, 1}]
    /\ link = [w \in WireIds |-> <<>>] /\ raftSent = 0
    /\ node_ids = [p \in RaftPeers |-> Unregistered]
    /\ group = [g \in RaftGroups |-> NoGroup]
    /\ disk \in {{}, RaftGroups}
    /\ collector = [set |-> FALSE, total |-> 0] /\ loop = IdleLoop /\ answer = NoAnswer
    /\ creations = 0 /\ late = {} /\ missed = [g \in RaftGroups |-> {}]

peerVars    == <<life, link, raftSent>>
managerVars == <<group, disk, collector, creations, missed>>

----------------------------------------------------------------------------
\* The peers.

\* Requests that carry a vote name their sender; a snapshot chunk (a request
\* too) and a response do not.
FrameKinds == {"Identity", "Request", "Chunk", "Response", "Garbled"}

source_node_id(frame) == IF frame.kind = "Request" THEN {frame.from} ELSE {}

\* It is for no group.
identity_frame(p) == [kind |-> "Identity", from |-> p, group |-> "none"]

Frames(p) == {identity_frame(p)} \cup [kind : FrameKinds \ {"Identity"}, from : {p}, group : RaftGroups]

PeerSends(p, frame) ==
    /\ raftSent < MaxRaftFrames
    /\ raftSent' = raftSent + 1
    /\ link' = [link EXCEPT ![<<p, life[p]>>] = Append(@, frame)]
    /\ UNCHANGED <<life, node_ids, managerVars, loop, answer, late>>

\* A peer restarts with a new identity file; what it sent is still under way.
PeerIsReborn(p) ==
    /\ life[p] \in 1..MaxLives - 1
    /\ life' = [life EXCEPT ![p] = @ + 1]
    /\ UNCHANGED <<link, raftSent, node_ids, managerVars, loop, answer, late>>

----------------------------------------------------------------------------
\* Creation, removal and the collector, one at a time under `lifecycle`.

\* The group's identity is free, and there is room for one more.
CreateBegins(g) ==
    /\ LifecycleFree /\ g \notin Published /\ Cardinality(Published) < max_groups
    /\ creations < MaxCreations
    /\ creations' = creations + 1
    /\ group' = [group EXCEPT ![g] = [NoGroup EXCEPT !.phase = "storage", !.birth = creations + 1]]
    /\ UNCHANGED <<peerVars, node_ids, disk, collector, loop, answer, late, missed>>

\* The table a group's transport starts with.
fork_for_group == node_ids

begin_storage(g) ==
    /\ group[g].phase = "storage"
    /\ \/ /\ group' = [group EXCEPT ![g].phase = "forked", ![g].knows = fork_for_group]
          /\ disk' = disk \cup {g}
          /\ late' = {}
       \/ /\ group' = [group EXCEPT ![g] = NoGroup]        \* recovery failed
          /\ disk' = disk \ {g}
          /\ UNCHANGED late
    /\ UNCHANGED <<peerVars, node_ids, collector, creations, missed, loop, answer>>

\* The node does not start, or does not initialize: the storage is rolled back.
abort(g) ==
    /\ group[g].phase = "forked"
    /\ group' = [group EXCEPT ![g] = NoGroup]
    /\ disk' = disk \ {g}
    /\ UNCHANGED <<peerVars, node_ids, collector, creations, missed, loop, answer, late>>

\* What the collector, if there is one, is told once these are the groups.
Told(published) == IF collector.set THEN [collector EXCEPT !.total = Cardinality(published)] ELSE collector

\* The storage is kept, and the handle enters the map.
Publish(g) ==
    /\ group[g].phase = "forked"
    /\ group' = [group EXCEPT ![g].phase = "up", ![g].collects = collector.set]
    /\ collector' = Told(Published \cup {g})
    /\ missed' = [missed EXCEPT ![g] = late]
    /\ UNCHANGED <<peerVars, node_ids, disk, creations, loop, answer, late>>

\* GroupHandle::shutdown closes admission, then waits for what runs.
RemoveBegins(g) ==
    /\ LifecycleFree /\ group[g].phase = "up"
    /\ group' = [group EXCEPT ![g].phase = "closing"]
    /\ UNCHANGED <<peerVars, node_ids, disk, collector, creations, missed, loop, answer, late>>

Drained(g) == ~(loop.pc = "handle" /\ loop.group = g /\ loop.birth = group[g].birth)

RemoveEnds(g) ==
    /\ group[g].phase = "closing" /\ Drained(g)
    /\ \/ /\ group' = [group EXCEPT ![g] = NoGroup]
          /\ missed' = [missed EXCEPT ![g] = {}]
          /\ collector' = Told(Published \ {g})
       \/ /\ group' = [group EXCEPT ![g].phase = "stuck"]     \* the node's shutdown failed
          /\ UNCHANGED <<missed, collector>>
    /\ UNCHANGED <<peerVars, node_ids, disk, creations, loop, answer, late>>

set_metrics_collector ==
    /\ LifecycleFree /\ ~collector.set
    /\ collector' = [set |-> TRUE, total |-> Cardinality(Published)]
    /\ group' = [g \in RaftGroups |-> IF g \in Published THEN [group[g] EXCEPT !.collects = TRUE]
                                                         ELSE group[g]]
    /\ UNCHANGED <<peerVars, node_ids, disk, creations, missed, loop, answer, late>>

----------------------------------------------------------------------------
\* The frame loop: handle_raft_frame, or the identity handler.

decode_node_id(w) ==
    LET registered == {p \in RaftPeers : node_ids[p] = w}
    IN IF registered # {} THEN registered ELSE {p \in RaftPeers : w = Canonical(p)}

encode_node_id(g, p) == IF group[g].knows[p] = Unregistered THEN Canonical(p) ELSE group[g].knows[p]

\* register_node_id, its first half: the manager's own table.
Register(p, w, then) ==
    /\ node_ids' = [node_ids EXCEPT ![p] = w]
    /\ late' = IF \E g \in RaftGroups : group[g].phase = "forked" THEN late \cup {p} ELSE late
    /\ loop' = [pc |-> "spread", peer |-> p, wire |-> w, then |-> then]

\* A frame with an unknown wire id is refused unless it names its sender.
learn_source_node_id(frame, w) ==
    LET work(p) == [pc |-> "dispatch", peer |-> p, wire |-> w, group |-> frame.group, kind |-> frame.kind]
    IN \/ \E p \in decode_node_id(w) : loop' = work(p) /\ UNCHANGED <<node_ids, late>>
       \/ decode_node_id(w) = {} /\ \E p \in source_node_id(frame) : Register(p, w, work(p))
       \/ decode_node_id(w) = {} /\ source_node_id(frame) = {} /\ UNCHANGED <<node_ids, loop, late>>

\* The payload parses, and names the group the frame names.
decode_frame(frame) == frame.kind \in {"Request", "Chunk", "Response"}

TakeRaftFrame(w) ==
    /\ loop.pc = "idle" /\ link[w] # <<>>
    /\ link' = [link EXCEPT ![w] = Tail(@)]
    /\ LET frame == Head(link[w])
       IN \/ frame.kind = "Identity" /\ Register(frame.from, w, IdleLoop)
          \/ decode_frame(frame) /\ learn_source_node_id(frame, w)
          \/ frame.kind = "Garbled" /\ UNCHANGED <<node_ids, loop, late>>
    /\ UNCHANGED <<life, raftSent, managerVars, answer>>

\* The second half: every group in the map.
Spread ==
    /\ loop.pc = "spread" /\ loop' = loop.then
    /\ group' = [g \in RaftGroups |-> IF g \in Published THEN [group[g] EXCEPT !.knows[loop.peer] = loop.wire]
                                                         ELSE group[g]]
    /\ missed' = [g \in RaftGroups |-> IF g \in Published THEN missed[g] \ {loop.peer} ELSE missed[g]]
    /\ UNCHANGED <<peerVars, node_ids, disk, collector, creations, answer, late>>

\* dispatch_message: the group must be in the map; a response is matched with
\* its call whatever the group's phase, a request needs the group's permit.
dispatch_message ==
    /\ loop.pc = "dispatch"
    /\ loop' = IF loop.group \in Published /\ loop.kind # "Response" /\ group[loop.group].phase = "up"
               THEN [loop EXCEPT !.pc = "gate"] @@ [birth |-> group[loop.group].birth]
               ELSE IdleLoop
    /\ UNCHANGED <<peerVars, node_ids, managerVars, answer, late>>

\* GroupLifecycle::acquire: a shutdown that came first makes it wait, and fail.
acquire ==
    /\ loop.pc = "gate"
    /\ LET same == group[loop.group].birth = loop.birth
       IN /\ ~(same /\ group[loop.group].phase = "closing")
          /\ loop' = IF same /\ group[loop.group].phase = "up" THEN [loop EXCEPT !.pc = "handle"] ELSE IdleLoop
    /\ UNCHANGED <<peerVars, node_ids, managerVars, answer, late>>

Handled ==
    /\ loop.pc = "handle"
    /\ loop' \in {IdleLoop, [loop EXCEPT !.pc = "answer"]}       \* an error has no answer
    /\ UNCHANGED <<peerVars, node_ids, managerVars, answer, late>>

\* The group is looked up again: it may be gone, or be a later one.
send_routed_response ==
    /\ loop.pc = "answer" /\ loop' = IdleLoop
    /\ answer' = IF loop.group \in Published
                 THEN [to |-> encode_node_id(loop.group, loop.peer), asked |-> loop.wire,
                       uninformed |-> loop.peer \in missed[loop.group]]
                 ELSE answer
    /\ UNCHANGED <<peerVars, node_ids, managerVars, late>>

RoutingNext ==
    \/ \E p \in RaftPeers : PeerIsReborn(p) \/ \E frame \in Frames(p) : PeerSends(p, frame)
    \/ \E g \in RaftGroups : CreateBegins(g) \/ begin_storage(g) \/ abort(g) \/ Publish(g)
                              \/ RemoveBegins(g) \/ RemoveEnds(g)
    \/ set_metrics_collector
    \/ \E w \in WireIds : TakeRaftFrame(w)
    \/ Spread \/ dispatch_message \/ acquire \/ Handled \/ send_routed_response

RoutingSpec == RoutingInit /\ [][RoutingNext]_routingVars

----------------------------------------------------------------------------
\* A published group sends to the wire id the manager knows a peer by, but for
\* one registered while the group was created: register_node_id has passed the
\* map before the group entered it, and create_group_inner had forked the
\* transport before that.
GroupsKnowTheirPeers ==
    \A g \in Published, p \in RaftPeers :
        \/ group[g].knows[p] = node_ids[p]
        \/ p \in missed[g]
        \/ loop.pc = "spread" /\ loop.peer = p

\* A request is answered to the wire id it came from, whatever identities the
\* peer had before and whatever became of the group in between, unless the
\* group was not told of the peer.
AnswersGoBack == answer.to = answer.asked \/ answer.uninformed

\* What a table holds for a peer is one of that peer's wire ids, so no frame is
\* ascribed to another node.
SourceIsTheSender ==
    /\ \A p \in RaftPeers : node_ids[p] # Unregistered => node_ids[p][1] = p
    /\ loop.pc \in {"dispatch", "gate", "handle", "answer"} => loop.peer = loop.wire[1]

\* When no creation or removal runs, the collector knows the number of groups
\* and every group reports to it; the map never exceeds max_groups.
CollectorIsCurrent ==
    /\ Cardinality(Published) <= max_groups
    /\ LifecycleFree /\ collector.set =>
         collector.total = Cardinality(Published) /\ \A g \in Published : group[g].collects
    /\ Published \subseteq disk

RoutingIsSound == GroupsKnowTheirPeers /\ AnswersGoBack /\ SourceIsTheSender /\ CollectorIsCurrent
=============================================================================
