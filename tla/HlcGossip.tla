------------------------------ MODULE HlcGossip ------------------------------
(***************************************************************************)
(* Membership gossip with hybrid logical clocks (chirps-gossip-swim, built *)
(* with the feature hlc): every change of a node's view of a peer is       *)
(* stamped with its clock and an event id, gossip carries the stamped      *)
(* events, and a receiver drops what it has seen or knows to be old.       *)
(*                                                                         *)
(* The view of one peer is followed at every node; the entries of a view   *)
(* do not depend on each other. Why a view changes by itself is the        *)
(* subject of Swim. Messages are delayed, reordered, duplicated and lost;  *)
(* wall clocks jump; an engine that restarts begins afresh, with the       *)
(* persisted node id.                                                      *)
(***************************************************************************)
EXTENDS LocalHlc, MembershipOrder, FiniteSets

CONSTANTS
    Gossipers,          \* the nodes
    MaxWall,            \* bound: wall clock readings
    MaxEventSeq,        \* bound: event ids of one process
    MaxIncarnationHeard,\* bound: incarnations in gossip without a clock
    MaxMessages,        \* bound: messages ever sent
    MaxEngineRestarts   \* bound: restarts, of all nodes

ASSUME GossipAssumption ==
    /\ {MaxWall, MaxEventSeq, MaxIncarnationHeard, MaxMessages, MaxEngineRestarts} \subseteq Nat
    /\ MaxWall <= MaxPhysical

VARIABLES
    wall,               \* wall[n]: what clock.now_millis() reads
    hlc,                \* hlc[n]: LocalHlc::current
    event_sequence,     \* the last event number used
    view,               \* view[n]: n's entry for the peer
    latest,             \* latest_membership_timestamps, for the peer
    seen,               \* seen[n]: ids in seen_messages and seen_membership_events
    messages,           \* HlcGossip messages ever sent
    restarts            \* restarts so far, of all nodes

gossipVars == <<wall, hlc, event_sequence, view, latest, seen, messages, restarts>>

Zero == [physical |-> 0, logical |-> 0]
NoEvent == [source |-> "none", sequence |-> 0]
NoView == [status |-> "Unknown", incarnation |-> 0, timestamp |-> Zero, event_id |-> NoEvent]

GossipInit ==
    /\ wall = [n \in Gossipers |-> 0]
    /\ hlc = [n \in Gossipers |-> Zero]
    /\ event_sequence = [n \in Gossipers |-> 0]
    /\ view = [n \in Gossipers |-> NoView]
    /\ latest = [n \in Gossipers |-> Zero]
    /\ seen = [n \in Gossipers |-> [messages |-> {}, events |-> {}]]
    /\ messages = {}
    /\ restarts = 0

----------------------------------------------------------------------------
\* MaxPhysical bounds the clocks: they stop short of saturation.
SetClock(n, t) ==
    /\ t.physical < MaxPhysical
    /\ hlc' = [hlc EXCEPT ![n] = t]

next_event_id(n) == [source |-> n, sequence |-> event_sequence[n] + 1]

\* The entry becomes [status, incarnation], stamped by the clock.
stamp_membership_event(n, status, incarnation) ==
    LET timestamp == hlc_tick(hlc[n], wall[n]) IN
    /\ event_sequence[n] < MaxEventSeq
    /\ SetClock(n, timestamp)
    /\ event_sequence' = [event_sequence EXCEPT ![n] = @ + 1]
    /\ latest' = [latest EXCEPT ![n] = timestamp]
    /\ view' = [view EXCEPT ![n] =
         [status |-> status, incarnation |-> incarnation, timestamp |-> timestamp,
          event_id |-> next_event_id(n)]]

\* A probe, its answer or a timeout changes the status: touch_peer, handle_ack,
\* process_pending and apply_timeouts stamp the entry they changed.
LocalChanges == [Unknown |-> {"Alive"}, Alive |-> {"Suspect"}, Suspect |-> {"Alive", "Dead"},
                 Dead |-> {"Alive"}]

ChangeLocally(n, status) ==
    /\ status \in LocalChanges[view[n].status]
    /\ stamp_membership_event(n, status, view[n].incarnation)
    /\ UNCHANGED <<wall, seen, messages, restarts>>

\* apply_membership_update: gossip of a node built without hlc.
ApplyPlainGossip(n, upd) ==
    /\ view[n].status # "Unknown" => Supersedes(upd, view[n])
    /\ stamp_membership_event(n, upd.status, upd.incarnation)
    /\ UNCHANGED <<wall, seen, messages, restarts>>

\* send_pings: the envelope is stamped when it is sent, after the entries.
SendGossip(n) ==
    LET timestamp == hlc_tick(hlc[n], wall[n]) IN
    /\ view[n].status # "Unknown"
    /\ Cardinality(messages) < MaxMessages
    /\ event_sequence[n] < MaxEventSeq
    /\ SetClock(n, timestamp)
    /\ event_sequence' = [event_sequence EXCEPT ![n] = @ + 1]
    /\ messages' = messages \cup
         {[event_id |-> next_event_id(n), timestamp |-> timestamp, event |-> view[n]]}
    /\ UNCHANGED <<wall, view, latest, seen, restarts>>

----------------------------------------------------------------------------
\* apply_hlc_gossip.

InvalidEnvelope(m) == Before(m.timestamp, m.event.timestamp)

\* Mutant: what arrives late replaces what is known.
IsStale_Never(n, event) == FALSE

IsStale(n, event) == view[n].status # "Unknown" /\ AtMost(event.timestamp, latest[n])

\* The timestamp is remembered whether or not the update wins.
ApplyEvent(n, event) ==
    IF event.event_id \in seen[n].events \/ IsStale(n, event)
    THEN UNCHANGED <<view, latest>>
    ELSE /\ latest' = [latest EXCEPT ![n] = event.timestamp]
         /\ view' = IF view[n].status # "Unknown" => Supersedes(event, view[n])
                    THEN [view EXCEPT ![n] = event] ELSE view

RejectGossip(n, m) ==
    /\ InvalidEnvelope(m) \/ SkewTooLarge(m.timestamp, wall[n])
    /\ UNCHANGED gossipVars

\* A duplicate advances the clock and nothing else.
ReceiveGossip(n, m) ==
    /\ ~InvalidEnvelope(m) /\ ~SkewTooLarge(m.timestamp, wall[n])
    /\ SetClock(n, hlc_receive(hlc[n], wall[n], m.timestamp))
    /\ IF m.event_id \in seen[n].messages
       THEN UNCHANGED <<view, latest, seen>>
       ELSE /\ seen' = [seen EXCEPT ![n] = [messages |-> @.messages \cup {m.event_id},
                                            events |-> @.events \cup {m.event.event_id}]]
            /\ ApplyEvent(n, m.event)
    /\ UNCHANGED <<wall, event_sequence, messages, restarts>>

----------------------------------------------------------------------------
SetWall(n, t) ==
    /\ wall' = [wall EXCEPT ![n] = t]
    /\ UNCHANGED <<hlc, event_sequence, view, latest, seen, messages, restarts>>

\* A new engine: Mesh keeps the node id and starts from an empty view.
RestartEngine(n) ==
    /\ restarts < MaxEngineRestarts
    /\ restarts' = restarts + 1
    /\ hlc' = [hlc EXCEPT ![n] = [physical |-> wall[n], logical |-> 0]]
    /\ event_sequence' = [event_sequence EXCEPT ![n] = 0]
    /\ view' = [view EXCEPT ![n] = NoView]
    /\ latest' = [latest EXCEPT ![n] = Zero]
    /\ seen' = [seen EXCEPT ![n] = [messages |-> {}, events |-> {}]]
    /\ UNCHANGED <<wall, messages>>

PlainUpdates == [incarnation : 0..MaxIncarnationHeard, status : Statuses]

GossipNext ==
    \/ \E n \in Gossipers :
         \/ \E s \in Statuses : ChangeLocally(n, s)
         \/ \E upd \in PlainUpdates : ApplyPlainGossip(n, upd)
         \/ SendGossip(n)
         \/ RestartEngine(n)
         \/ \E t \in 0..MaxWall : SetWall(n, t)
    \/ \E m \in messages : \E n \in Gossipers \ {m.event_id.source} :
         RejectGossip(n, m) \/ ReceiveGossip(n, m)

GossipSpec == GossipInit /\ [][GossipNext]_gossipVars

----------------------------------------------------------------------------
EventIds == {NoEvent} \cup [source : Gossipers, sequence : 1..MaxEventSeq]

\* Every variable has its type.
GossipTypeOK ==
    /\ wall \in [Gossipers -> 0..MaxWall]
    /\ hlc \in [Gossipers -> HybridTimestamp] /\ latest \in [Gossipers -> HybridTimestamp]
    /\ event_sequence \in [Gossipers -> 0..MaxEventSeq]
    /\ \A n \in Gossipers :
         /\ view[n].status \in Statuses \cup {"Unknown"}
         /\ view[n].event_id \in EventIds
         /\ seen[n].messages \subseteq EventIds /\ seen[n].events \subseteq EventIds
    /\ restarts \in 0..MaxEngineRestarts

\* A clock has passed whatever its node has stamped or applied, through jumps
\* of the wall clock back and forth: so each later stamp is later, and
\* apply_hlc_gossip rejects no envelope an engine sends as invalid.
ClockCoversView ==
    /\ \A n \in Gossipers : AtMost(view[n].timestamp, hlc[n]) /\ AtMost(latest[n], hlc[n])
    /\ \A m \in messages : ~InvalidEnvelope(m)

\* HlcEventId is a "Stable identity for an HLC-stamped event": while no engine
\* has restarted, two nodes that hold an event of the same id hold the same
\* status, incarnation and timestamp.
SameEventSameState ==
    restarts = 0 =>
        \A n, m \in Gossipers :
            view[n].event_id = view[m].event_id => view[n] = view[m]

\* What an engine holds of a peer is covered by its clock, and the same for all
\* who hold the same event.
ViewIsSound == GossipTypeOK /\ ClockCoversView /\ SameEventSameState

\* Out-of-order and duplicate delivery never takes a view back: until an engine
\* restarts, the newest timestamp applied only grows, and a view that changes
\* takes the newest.
NewestEventWins ==
    [][restarts' = restarts => \A n \in Gossipers :
         /\ AtMost(latest[n], latest'[n])
         /\ view'[n] # view[n] => view'[n].timestamp = latest'[n]]_gossipVars

=============================================================================
