----------------------------- MODULE PeerProofs -----------------------------
(***************************************************************************)
(* What a node keeps of its peers, for any number of them: the connection  *)
(* table of a QuicBackend, and the stamped view of the gossip with hybrid  *)
(* logical clocks, for any number of messages and restarts, any wall clock *)
(* readings and any width of the timestamps.                               *)
(***************************************************************************)
EXTENDS PeerConnections, HlcGossip, FiniteSetTheorems, TLAPS

----------------------------------------------------------------------------
(* The connection table.                                                   *)

\* A connection that was never made has no handler.
UnusedIsFree == \A c \in Conns : quic[c] = "unused" => handler[c] = "none"

\* The table's invariant: what is open and registered is retained, what is
\* retained is served.
TableInv == TypeOK /\ OpenIsRetained /\ RetainedIsServed /\ UnusedIsFree

LEMMA TableInvInit == Init => TableInv
BY PeerAssumption, ZenonT(30) DEF Init, TableInv, TypeOK, OpenIsRetained, RetainedIsServed, UnusedIsFree, Registered

\* One step of the handler of a connection.
LEMMA HandlerKeeps ==
    ASSUME TableInv, NEW c \in Conns, HandlerStep(c)
    PROVE  TableInv'
<1> USE PeerAssumption DEF TableInv, TypeOK, OpenIsRetained, RetainedIsServed, UnusedIsFree, Registered, tables
<1>1. CASE Connect(c)
  BY <1>1 DEF Connect
<1>2. CASE HandshakeFails(c)
  BY <1>2 DEF HandshakeFails
<1>3. CASE Register(c)
  BY <1>3 DEF Register
<1>4. CASE InsertActivity(c)
  BY <1>4 DEF InsertActivity
<1>5. CASE InsertCapabilities(c)
  BY <1>5 DEF InsertCapabilities
<1>6. CASE AcceptStream(c)
  BY <1>6 DEF AcceptStream
<1>7. CASE HandlerExits(c)
  BY <1>7 DEF HandlerExits, RemoveIfCurrent
<1> QED
  BY <1>1, <1>2, <1>3, <1>4, <1>5, <1>6, <1>7, Zenon DEF HandlerStep

\* One step of the removal of a connection.
LEMMA RemovalKeeps ==
    ASSUME TableInv, NEW c \in Conns, RemovalStep(c)
    PROVE  TableInv'
<1> USE PeerAssumption DEF TableInv, TypeOK, OpenIsRetained, RetainedIsServed, UnusedIsFree, Registered, tables
<1>1. CASE RemoveDoomed(c)
  BY <1>1 DEF RemoveDoomed, RemoveIfCurrent
<1>2. CASE RemoveActivity(c)
  BY <1>2 DEF RemoveActivity
<1>3. CASE RemoveCapabilities(c)
  BY <1>3 DEF RemoveCapabilities
<1>4. CASE CloseRemoved(c)
  BY <1>4, SMTT(30) DEF CloseRemoved
<1> QED
  BY <1>1, <1>2, <1>3, <1>4, Zenon DEF RemovalStep

LEMMA TableInvStep == TableInv /\ [Next]_vars => TableInv'
<1> SUFFICES ASSUME TableInv, [Next]_vars PROVE TableInv'
  BY Zenon
<1> USE DEF TableInv, TypeOK, OpenIsRetained, RetainedIsServed, UnusedIsFree, Registered, tables
<1>1. ASSUME NEW c \in Conns, ConnectionLost(c) PROVE TableInv'
  BY <1>1, ZenonT(30) DEF ConnectionLost
<1>2. ASSUME NEW p \in Peers, EvictIdle(p) \/ HealthCheckFails(p) \/ SendFindsClosed(p) \/ MarkActive(p)
      PROVE  TableInv'
  BY <1>2 DEF EvictIdle, HealthCheckFails, SendFindsClosed, MarkActive
<1>3. CASE Close
  BY <1>3, Zenon DEF Close
<1>4. CASE UNCHANGED vars
  BY <1>4, Zenon DEF vars
<1> QED
  BY <1>1, <1>2, <1>3, <1>4, HandlerKeeps, RemovalKeeps, Zenon DEF Next

LEMMA TableInvariant == Spec => []TableInv
BY TableInvInit, TableInvStep, PTL DEF Spec

----------------------------------------------------------------------------
\* The limit.

Retained == {p \in Peers : connections[p] # None}

LimitInv == IsFiniteSet(Retained) /\ Cardinality(Retained) <= max_connections

\* A step retains one more peer, and then the limit was not reached, or one
\* fewer, or the same ones.
LEMMA RetainedSteps ==
    ASSUME TypeOK, [Next]_vars
    PROVE  \/ Retained' = Retained
           \/ \E p \in Peers : Retained' = Retained \ {p}
           \/ \E p \in Peers : /\ Retained' = Retained \cup {p}
                               /\ p \notin Retained
                               /\ ~(Cardinality(Retained) >= max_connections)
<1> USE PeerAssumption DEF TypeOK, Retained, tables
<1>1. ASSUME NEW c \in Conns, RemoveIfCurrent(c)
      PROVE  Retained' = Retained \/ Retained' = Retained \ {remote_id[c]}
  BY <1>1 DEF RemoveIfCurrent
<1>2. ASSUME NEW c \in Conns, Register(c)
      PROVE  \/ Retained' = Retained
             \/ /\ Retained' = Retained \cup {remote_id[c]}
                /\ remote_id[c] \notin Retained
                /\ ~(Cardinality(Retained) >= max_connections)
  BY <1>2 DEF Register, connection_limit_reached
<1>3. ASSUME NEW c \in Conns, HandlerExits(c) \/ RemoveDoomed(c)
      PROVE  Retained' = Retained \/ Retained' = Retained \ {remote_id[c]}
  <2>1. RemoveIfCurrent(c)
    BY <1>3, Zenon DEF HandlerExits, RemoveDoomed
  <2> QED
    BY <1>1, <2>1, Zenon
<1>4. CASE connections' = connections
  BY <1>4, Zenon
<1>5. ASSUME NEW c \in Conns, HandlerStep(c), ~Register(c), ~HandlerExits(c)
      PROVE  connections' = connections
  BY <1>5, Zenon DEF HandlerStep, Connect, HandshakeFails, InsertActivity, InsertCapabilities,
     AcceptStream
<1>6. ASSUME NEW c \in Conns, RemovalStep(c), ~RemoveDoomed(c)
      PROVE  connections' = connections
  BY <1>6, Zenon DEF RemovalStep, RemoveActivity, RemoveCapabilities, CloseRemoved
<1>7. \A c \in Conns : remote_id[c] \in Peers
  BY Zenon
<1>8. ASSUME NEW c \in Conns, HandlerStep(c) \/ RemovalStep(c) \/ ConnectionLost(c)
      PROVE  \/ Retained' = Retained
             \/ \E p \in Peers : Retained' = Retained \ {p}
             \/ \E p \in Peers : /\ Retained' = Retained \cup {p}
                                 /\ p \notin Retained
                                 /\ ~(Cardinality(Retained) >= max_connections)
  <2> HIDE DEF Retained, TypeOK
  <2>1. connections' = connections => Retained' = Retained
    BY Zenon DEF Retained
  <2> QED
    BY <1>2, <1>3, <1>5, <1>6, <1>7, <1>8, <2>1, Zenon DEF ConnectionLost
<1>9. ASSUME NEW p \in Peers, EvictIdle(p) \/ HealthCheckFails(p) \/ SendFindsClosed(p) \/ MarkActive(p)
      PROVE  connections' = connections
  BY <1>9, Zenon DEF EvictIdle, HealthCheckFails, SendFindsClosed, MarkActive
<1>10. Close \/ UNCHANGED vars => connections' = connections
  BY Zenon DEF Close, vars
<1> QED
  BY <1>4, <1>8, <1>9, <1>10, Zenon DEF Next

LEMMA LimitInvStep == TypeOK /\ LimitInv /\ [Next]_vars => LimitInv'
<1> SUFFICES ASSUME TypeOK, LimitInv, [Next]_vars PROVE LimitInv'
  BY Zenon
<1> DEFINE S == Retained
<1>0. /\ IsFiniteSet(S) /\ Cardinality(S) <= max_connections /\ max_connections \in Nat
      /\ Cardinality(S) \in Nat
  BY PeerAssumption, FS_CardinalityType, Zenon DEF LimitInv
<1> HIDE DEF S
<1>1. CASE S' = S
  BY <1>0, <1>1, Zenon DEF LimitInv, S
<1>2. ASSUME NEW p \in Peers, S' = S \ {p} PROVE LimitInv'
  <2>1. IsFiniteSet(S') /\ Cardinality(S') <= Cardinality(S) /\ Cardinality(S') \in Nat
    BY <1>0, <1>2, FS_RemoveElement, FS_CardinalityType
  <2> QED
    BY <1>0, <2>1 DEF LimitInv, S
<1>3. ASSUME NEW p \in Peers, S' = S \cup {p}, p \notin S, ~(Cardinality(S) >= max_connections)
      PROVE  LimitInv'
  <2>1. IsFiniteSet(S') /\ Cardinality(S') = Cardinality(S) + 1
    BY <1>0, <1>3, FS_AddElement, Zenon
  <2> QED
    BY <1>0, <1>3, <2>1 DEF LimitInv, S
<1> QED
  BY <1>1, <1>2, <1>3, RetainedSteps, Zenon DEF S

\* Never more than max_connections peers are retained.
THEOREM LimitHolds == Spec => []WithinLimit
<1>1. Init => LimitInv
  <2>1. Init => Retained = {}
    BY Zenon DEF Init, Retained
  <2> QED
    BY <2>1, PeerAssumption, FS_EmptySet DEF LimitInv
<1>2. LimitInv => WithinLimit
  BY Zenon DEF LimitInv, WithinLimit, Retained
<1>3. TableInv => TypeOK
  BY Zenon DEF TableInv
<1> QED
  BY <1>1, <1>2, <1>3, LimitInvStep, TableInvariant, PTL DEF Spec

\* Every variable keeps its type.
THEOREM TableTypeCorrect == Spec => []TypeOK
BY TableInvariant, PTL DEF TableInv

\* No late handler, eviction or health check takes a newer connection out of
\* the table or leaves an open one behind.
THEOREM OpenRetained == Spec => []OpenIsRetained
BY TableInvariant, PTL DEF TableInv

\* What the table retains has a handler that will take it out.
THEOREM RetainedServed == Spec => []RetainedIsServed
BY TableInvariant, PTL DEF TableInv

----------------------------------------------------------------------------
\* A leaf that names no prover is given thirty seconds of SMT.
USE SMTT(30)

----------------------------------------------------------------------------
(* The order of the timestamps and the clock.                              *)

LEMMA StampTypes ==
    ASSUME NEW t \in HybridTimestamp
    PROVE  /\ t.physical \in 0..MaxPhysical /\ t.physical \in Int /\ t.physical >= 0
           /\ t.logical \in 0..(LOGICAL_CARDINALITY - 1) /\ t.logical \in Int /\ t.logical >= 0
           /\ AtMost(Zero, t) /\ AtMost(t, t)
<1>1. /\ t.physical \in 0..MaxPhysical /\ t.logical \in 0..(LOGICAL_CARDINALITY - 1)
      /\ t = [physical |-> t.physical, logical |-> t.logical]
  BY Zenon DEF HybridTimestamp
<1>2. t.physical \in Int /\ t.physical >= 0 /\ t.logical \in Int /\ t.logical >= 0
  BY <1>1, WidthAssumption
<1>3. AtMost(Zero, t)
  BY <1>1, <1>2 DEF AtMost, Before, Zero
<1> QED
  BY <1>1, <1>2, <1>3, Zenon DEF AtMost

LEMMA ZeroTypes == Zero \in HybridTimestamp
BY WidthAssumption DEF Zero, HybridTimestamp

LEMMA StampOrder ==
    ASSUME NEW r \in HybridTimestamp, NEW s \in HybridTimestamp, NEW t \in HybridTimestamp
    PROVE  /\ AtMost(r, s) /\ Before(s, t) => Before(r, t)
           /\ AtMost(r, s) /\ AtMost(s, t) => AtMost(r, t)
           /\ ~Before(r, s) => AtMost(s, r)
           /\ Before(r, s) => AtMost(r, s)
<1>1. /\ r = [physical |-> r.physical, logical |-> r.logical]
      /\ s = [physical |-> s.physical, logical |-> s.logical]
  BY Zenon DEF HybridTimestamp
<1> QED
  BY <1>1, StampTypes DEF AtMost, Before

LEMMA LargestOfThree ==
    ASSUME NEW x \in Int, NEW y \in Int, NEW z \in Int
    PROVE  LET most == Max({x, y, z})
           IN  most \in {x, y, z} /\ most >= x /\ most >= y /\ most >= z
<1>1. \E w \in {x, y, z} : \A v \in {x, y, z} : w >= v
  <2>1. CASE x >= y /\ x >= z
    <3> WITNESS x \in {x, y, z}
    <3> QED BY <2>1
  <2>2. CASE y >= x /\ y >= z
    <3> WITNESS y \in {x, y, z}
    <3> QED BY <2>2
  <2>3. CASE z >= x /\ z >= y
    <3> WITNESS z \in {x, y, z}
    <3> QED BY <2>3
  <2> QED
    BY <2>1, <2>2, <2>3
<1> QED
  BY <1>1, Zenon DEF Max

\* next climbs, up to the saturation at MaxPhysical.
LEMMA NextClimbs ==
    ASSUME NEW t \in HybridTimestamp, hlc_next(t).physical < MaxPhysical
    PROVE  hlc_next(t) \in HybridTimestamp /\ Before(t, hlc_next(t))
<1> DEFINE r == hlc_next(t)
<1>1. CASE t.logical < LOGICAL_CARDINALITY - 1
  <2>1. r = [t EXCEPT !.logical = @ + 1]
    BY <1>1, Zenon DEF hlc_next
  <2>2. r.physical = t.physical /\ r.logical = t.logical + 1
        /\ r = [physical |-> t.physical, logical |-> t.logical + 1]
    BY <2>1, Zenon DEF HybridTimestamp
  <2>3. t.logical + 1 \in 0..(LOGICAL_CARDINALITY - 1)
    BY <1>1, StampTypes, WidthAssumption
  <2>4. r \in HybridTimestamp
    BY <2>2, <2>3, StampTypes, Zenon DEF HybridTimestamp
  <2>5. Before(t, r)
    BY <2>2, StampTypes DEF Before
  <2> QED
    BY <2>4, <2>5, Zenon
<1>2. CASE ~(t.logical < LOGICAL_CARDINALITY - 1)
  <2> DEFINE p == IF t.physical < MaxPhysical THEN t.physical + 1 ELSE t.physical
  <2>1. r = [physical |-> p, logical |-> 0]
    BY <1>2, Zenon DEF hlc_next
  <2>2. r.physical = p /\ r.logical = 0
    BY <2>1
  <2>3. p = t.physical + 1 /\ p \in 0..MaxPhysical
    BY <2>2, StampTypes, WidthAssumption
  <2>4. r \in HybridTimestamp
    <3>1. 0 \in 0..(LOGICAL_CARDINALITY - 1)
      BY WidthAssumption
    <3> HIDE DEF p, r
    <3> QED
      BY <2>1, <2>3, <3>1, Zenon DEF HybridTimestamp
  <2>5. Before(t, r)
    BY <2>2, <2>3, StampTypes DEF Before
  <2> QED
    BY <2>4, <2>5, Zenon
<1> QED
  BY <1>1, <1>2, Zenon

\* A clock that reads the wall.
LEMMA WallStamp ==
    ASSUME NEW w \in 0..MaxPhysical, NEW t \in HybridTimestamp, w > t.physical
    PROVE  /\ [physical |-> w, logical |-> 0] \in HybridTimestamp
           /\ Before(t, [physical |-> w, logical |-> 0])
<1> DEFINE r == [physical |-> w, logical |-> 0]
<1>1. r \in HybridTimestamp
  BY WidthAssumption DEF HybridTimestamp
<1>2. r.physical = w
  BY Zenon
<1>3. Before(t, r)
  <2> HIDE DEF r
  <2> QED
    BY <1>2, StampTypes, Zenon DEF Before
<1> QED
  BY <1>1, <1>3, Zenon

\* tick climbs, wherever the wall clock has gone.
LEMMA TickClimbs ==
    ASSUME NEW t \in HybridTimestamp, NEW w \in 0..MaxPhysical,
           hlc_tick(t, w).physical < MaxPhysical
    PROVE  hlc_tick(t, w) \in HybridTimestamp /\ Before(t, hlc_tick(t, w))
<1>1. CASE w > t.physical
  BY <1>1, WallStamp, Zenon DEF hlc_tick
<1>2. CASE ~(w > t.physical)
  BY <1>2, NextClimbs, Zenon DEF hlc_tick
<1> QED
  BY <1>1, <1>2, Zenon

\* receive climbs above both the clock and the stamp that arrived.
LEMMA ReceiveClimbs ==
    ASSUME NEW t \in HybridTimestamp, NEW w \in 0..MaxPhysical, NEW u \in HybridTimestamp,
           hlc_receive(t, w, u).physical < MaxPhysical
    PROVE  LET r == hlc_receive(t, w, u)
           IN  r \in HybridTimestamp /\ Before(t, r) /\ Before(u, r)
<1> DEFINE r == hlc_receive(t, w, u)
           merged == Max({t.physical, w, u.physical})
           late == Later(t, u)
<1> SUFFICES r \in HybridTimestamp /\ Before(t, r) /\ Before(u, r)
  BY Zenon
<1>0. w \in Int /\ t.physical \in Int /\ u.physical \in Int
  BY StampTypes, WidthAssumption
<1>1. /\ merged \in {t.physical, w, u.physical}
      /\ merged >= t.physical /\ merged >= w /\ merged >= u.physical
  BY <1>0, LargestOfThree, Zenon
<1>2. CASE merged \in {t.physical, u.physical}
  <2>1. r = hlc_next(late)
    BY <1>2, Zenon DEF hlc_receive
  <2>2. late \in HybridTimestamp /\ AtMost(t, late) /\ AtMost(u, late)
    BY StampOrder, StampTypes, Zenon DEF Later
  <2> HIDE DEF late, merged, r
  <2>3. r \in HybridTimestamp /\ Before(late, r)
    BY <2>1, <2>2, NextClimbs, Zenon DEF r
  <2> QED
    BY <2>2, <2>3, StampOrder, Zenon
<1>3. CASE merged \notin {t.physical, u.physical}
  <2>1. r = [physical |-> w, logical |-> 0]
    <3>1. merged = w
      BY <1>1, <1>3, Zenon
    <3> QED
      BY <1>3, <3>1, Zenon DEF hlc_receive
  <2>2. w > t.physical /\ w > u.physical
    <3> HIDE DEF merged
    <3> QED
      BY <1>0, <1>1, <1>3
  <2> HIDE DEF r, merged
  <2> QED
    BY <2>1, <2>2, WallStamp, Zenon
<1> QED
  BY <1>2, <1>3, Zenon

----------------------------------------------------------------------------
(* The invariant.                                                          *)

Event == [status : Statuses \cup {"Unknown"}, incarnation : Nat, timestamp : HybridTimestamp,
          event_id : EventIds]
Envelope == [event_id : EventIds, timestamp : HybridTimestamp, event : Event]
SeenIds == [messages : SUBSET EventIds, events : SUBSET EventIds]

TypeInv ==
    /\ wall \in [Gossipers -> 0..MaxWall]
    /\ hlc \in [Gossipers -> HybridTimestamp] /\ latest \in [Gossipers -> HybridTimestamp]
    /\ event_sequence \in [Gossipers -> 0..MaxEventSeq]
    /\ view \in [Gossipers -> Event] /\ seen \in [Gossipers -> SeenIds]
    /\ messages \subseteq Envelope
    /\ restarts \in 0..MaxEngineRestarts

\* An entry that is not known has no newest stamp.
ClockInv ==
    /\ \A n \in Gossipers :
         /\ AtMost(view[n].timestamp, hlc[n]) /\ AtMost(latest[n], hlc[n])
         /\ view[n].status = "Unknown" => latest[n] = Zero
    /\ \A m \in messages : AtMost(m.event.timestamp, m.timestamp) /\ m.event.status # "Unknown"

\* The events in views and in messages, and the numbers used for their ids.
Held == {view[n] : n \in Gossipers} \cup {m.event : m \in messages}

Numbered(e, used) ==
    e = NoView \/ (/\ e.event_id.source \in Gossipers
                   /\ e.event_id.sequence \in 1..used[e.event_id.source])

IdInv ==
    restarts = 0 =>
        /\ \A e \in Held : Numbered(e, event_sequence)
        /\ \A d, e \in Held : d.event_id = e.event_id => d = e

GossipInv == TypeInv /\ ClockInv /\ IdInv

----------------------------------------------------------------------------
(* Types.                                                                  *)

LEMMA NoViewTypes == NoView \in Event /\ NoView.status = "Unknown" /\ NoView.timestamp = Zero
<1>1. NoView \in Event
  BY ZeroTypes, Zenon DEF NoView, Event, EventIds
<1> QED
  BY <1>1, Zenon DEF NoView

LEMMA WallTypes ==
    ASSUME TypeInv, NEW n \in Gossipers
    PROVE  /\ wall[n] \in 0..MaxPhysical /\ hlc[n] \in HybridTimestamp
           /\ latest[n] \in HybridTimestamp /\ view[n] \in Event /\ view[n].timestamp \in HybridTimestamp
           /\ event_sequence[n] \in 0..MaxEventSeq
<1>1. /\ wall[n] \in 0..MaxWall /\ hlc[n] \in HybridTimestamp /\ latest[n] \in HybridTimestamp
      /\ view[n] \in Event /\ event_sequence[n] \in 0..MaxEventSeq
  BY Zenon DEF TypeInv
<1>2. wall[n] \in 0..MaxPhysical
  BY <1>1, GossipAssumption, WidthAssumption
<1>3. view[n].timestamp \in HybridTimestamp
  BY <1>1, Zenon DEF Event
<1> QED
  BY <1>1, <1>2, <1>3, Zenon

\* What stamping uses: the next id and the ticked clock.
LEMMA StampFacts ==
    ASSUME TypeInv, NEW n \in Gossipers, event_sequence[n] < MaxEventSeq,
           hlc_tick(hlc[n], wall[n]).physical < MaxPhysical
    PROVE  /\ hlc_tick(hlc[n], wall[n]) \in HybridTimestamp
           /\ Before(hlc[n], hlc_tick(hlc[n], wall[n]))
           /\ next_event_id(n) \in EventIds /\ next_event_id(n).source = n
           /\ next_event_id(n).sequence = event_sequence[n] + 1
           /\ event_sequence[n] + 1 \in 0..MaxEventSeq
<1>1. event_sequence[n] + 1 \in 1..MaxEventSeq /\ event_sequence[n] + 1 \in 0..MaxEventSeq
  BY WallTypes, GossipAssumption
<1>2. /\ next_event_id(n) \in EventIds /\ next_event_id(n).source = n
      /\ next_event_id(n).sequence = event_sequence[n] + 1
  BY <1>1, Zenon DEF next_event_id, EventIds
<1> QED
  BY <1>1, <1>2, WallTypes, TickClimbs, Zenon

\* stamp_membership_event in one place.
Stamped(n, status, incarnation) ==
    [status |-> status, incarnation |-> incarnation, timestamp |-> hlc_tick(hlc[n], wall[n]),
     event_id |-> next_event_id(n)]

LEMMA StampedTypes ==
    ASSUME TypeInv, NEW n \in Gossipers, NEW status \in Statuses, NEW incarnation \in Nat,
           stamp_membership_event(n, status, incarnation)
    PROVE  /\ Stamped(n, status, incarnation) \in Event
           /\ Stamped(n, status, incarnation).status = status
           /\ Stamped(n, status, incarnation).timestamp = hlc_tick(hlc[n], wall[n])
           /\ Stamped(n, status, incarnation).event_id = next_event_id(n)
           /\ view' = [view EXCEPT ![n] = Stamped(n, status, incarnation)]
           /\ hlc' = [hlc EXCEPT ![n] = hlc_tick(hlc[n], wall[n])]
           /\ latest' = [latest EXCEPT ![n] = hlc_tick(hlc[n], wall[n])]
           /\ event_sequence' = [event_sequence EXCEPT ![n] = event_sequence[n] + 1]
           /\ event_sequence[n] < MaxEventSeq /\ hlc_tick(hlc[n], wall[n]).physical < MaxPhysical
<1>1. /\ view' = [view EXCEPT ![n] = Stamped(n, status, incarnation)]
      /\ hlc' = [hlc EXCEPT ![n] = hlc_tick(hlc[n], wall[n])]
      /\ latest' = [latest EXCEPT ![n] = hlc_tick(hlc[n], wall[n])]
      /\ event_sequence' = [event_sequence EXCEPT ![n] = event_sequence[n] + 1]
      /\ event_sequence[n] < MaxEventSeq /\ hlc_tick(hlc[n], wall[n]).physical < MaxPhysical
  BY Zenon DEF stamp_membership_event, SetClock, Stamped
<1>2. hlc_tick(hlc[n], wall[n]) \in HybridTimestamp /\ next_event_id(n) \in EventIds
  BY <1>1, StampFacts, Zenon
<1>3. /\ Stamped(n, status, incarnation) \in Event
      /\ Stamped(n, status, incarnation).status = status
      /\ Stamped(n, status, incarnation).timestamp = hlc_tick(hlc[n], wall[n])
      /\ Stamped(n, status, incarnation).event_id = next_event_id(n)
  BY <1>2, Zenon DEF Stamped, Event
<1> QED
  BY <1>1, <1>3, Zenon

\* Both kinds of change stamp the entry.
StampStep ==
    \E n \in Gossipers, status \in Statuses, incarnation \in Nat :
        /\ stamp_membership_event(n, status, incarnation)
        /\ UNCHANGED <<wall, seen, messages, restarts>>

LEMMA ChangesStamp ==
    ASSUME TypeInv, NEW n \in Gossipers,
           \/ \E s \in Statuses : ChangeLocally(n, s)
           \/ \E upd \in PlainUpdates : ApplyPlainGossip(n, upd)
    PROVE  StampStep
<1>1. ASSUME NEW s \in Statuses, ChangeLocally(n, s) PROVE StampStep
  <2>1. view[n].incarnation \in Nat
    BY WallTypes, Zenon DEF Event
  <2> QED
    BY <1>1, <2>1, Zenon DEF ChangeLocally, StampStep
<1>2. ASSUME NEW upd \in PlainUpdates, ApplyPlainGossip(n, upd) PROVE StampStep
  <2>1. upd.status \in Statuses /\ upd.incarnation \in Nat
    BY GossipAssumption DEF PlainUpdates
  <2> QED
    BY <1>2, <2>1, Zenon DEF ApplyPlainGossip, StampStep
<1> QED
  BY <1>1, <1>2, Zenon

----------------------------------------------------------------------------
(* The steps.                                                              *)

Newest ==
    restarts' = restarts => \A n \in Gossipers :
        /\ AtMost(latest[n], latest'[n])
        /\ view'[n] # view[n] => view'[n].timestamp = latest'[n]

\* The new id is above all numbers of the node, so no event that is held has it.
LEMMA FreshId ==
    ASSUME TypeInv, IdInv, restarts = 0, NEW n \in Gossipers, NEW e \in Held
    PROVE  e.event_id # next_event_id(n)
<1>1. Numbered(e, event_sequence)
  BY Zenon DEF IdInv
<1>2. next_event_id(n).source = n /\ next_event_id(n).sequence = event_sequence[n] + 1
  BY Zenon DEF next_event_id
<1>3. event_sequence[n] \in Nat
  BY WallTypes, GossipAssumption
<1>4. CASE e = NoView
  <2>1. e.event_id.sequence = 0
    BY <1>4, Zenon DEF NoView, NoEvent
  <2> QED
    BY <1>2, <1>3, <2>1
<1>5. CASE e # NoView
  <2>1. e.event_id.sequence \in 1..event_sequence[e.event_id.source]
    BY <1>1, <1>5, Zenon DEF Numbered
  <2> QED
    BY <1>2, <1>3, <2>1
<1> QED
  BY <1>4, <1>5, Zenon

\* Numbers are only added.
LEMMA StillNumbered ==
    ASSUME TypeInv, NEW n \in Gossipers,
           event_sequence' = [event_sequence EXCEPT ![n] = event_sequence[n] + 1],
           NEW e, Numbered(e, event_sequence)
    PROVE  Numbered(e, event_sequence')
<1>1. ASSUME NEW k \in Gossipers
      PROVE  /\ event_sequence[k] \in Int /\ event_sequence'[k] \in Int
             /\ event_sequence'[k] >= event_sequence[k]
  <2>1. event_sequence[k] \in Int /\ event_sequence[n] \in Int
    BY WallTypes
  <2>2. CASE k = n
    <3>1. event_sequence'[k] = event_sequence[k] + 1
      BY <2>2, Zenon DEF TypeInv
    <3> QED
      BY <2>1, <3>1
  <2>3. CASE k # n
    <3>1. event_sequence'[k] = event_sequence[k]
      BY <2>3, Zenon DEF TypeInv
    <3> QED
      BY <2>1, <3>1
  <2> QED
    BY <2>2, <2>3, Zenon
<1>2. CASE e = NoView
  BY <1>2, Zenon DEF Numbered
<1>3. CASE e # NoView
  <2> DEFINE s == e.event_id.source
             k == e.event_id.sequence
  <2>1. s \in Gossipers /\ k \in 1..event_sequence[s]
    BY <1>3, Zenon DEF Numbered
  <2> HIDE DEF s, k
  <2>2. k \in 1..event_sequence'[s]
    BY <1>1, <2>1
  <2> QED
    BY <2>1, <2>2, Zenon DEF Numbered, s, k
<1> QED
  BY <1>2, <1>3, Zenon

\* At the start, and after a restart.
LEMMA StampKeeps ==
    ASSUME GossipInv, StampStep
    PROVE  GossipInv' /\ Newest
<1>0. TypeInv /\ ClockInv /\ IdInv
  BY Zenon DEF GossipInv
<1>1. PICK n \in Gossipers, status \in Statuses, incarnation \in Nat :
        /\ stamp_membership_event(n, status, incarnation)
        /\ UNCHANGED <<wall, seen, messages, restarts>>
  BY Zenon DEF StampStep
<1> DEFINE e == Stamped(n, status, incarnation)
           t == hlc_tick(hlc[n], wall[n])
<1>2. /\ e \in Event /\ e.status = status /\ e.timestamp = t /\ e.event_id = next_event_id(n)
      /\ view' = [view EXCEPT ![n] = e] /\ hlc' = [hlc EXCEPT ![n] = t]
      /\ latest' = [latest EXCEPT ![n] = t]
      /\ event_sequence' = [event_sequence EXCEPT ![n] = event_sequence[n] + 1]
      /\ event_sequence[n] < MaxEventSeq /\ t.physical < MaxPhysical
  BY <1>0, <1>1, StampedTypes
<1> HIDE DEF e, t
<1>3. /\ t \in HybridTimestamp /\ Before(hlc[n], t) /\ event_sequence[n] + 1 \in 0..MaxEventSeq
      /\ next_event_id(n).source = n /\ next_event_id(n).sequence = event_sequence[n] + 1
  BY <1>0, <1>2, StampFacts, Zenon DEF t
<1>4. TypeInv'
  <2>1. /\ view' \in [Gossipers -> Event] /\ hlc' \in [Gossipers -> HybridTimestamp]
        /\ latest' \in [Gossipers -> HybridTimestamp]
        /\ event_sequence' \in [Gossipers -> 0..MaxEventSeq]
    BY <1>0, <1>2, <1>3, Zenon DEF TypeInv
  <2> QED
    BY <1>0, <1>1, <2>1, Zenon DEF TypeInv
<1>5. \A k \in Gossipers : /\ k = n => view'[k] = e /\ hlc'[k] = t /\ latest'[k] = t
                           /\ k # n => /\ view'[k] = view[k] /\ hlc'[k] = hlc[k]
                                       /\ latest'[k] = latest[k]
  BY <1>0, <1>2, Zenon DEF TypeInv
<1>6. AtMost(t, t) /\ status # "Unknown"
  BY <1>3, StampTypes, Zenon DEF Statuses
<1>7. ClockInv'
  BY <1>0, <1>1, <1>2, <1>5, <1>6, ZenonT(30) DEF ClockInv
<1>8. Newest
  <2>1. AtMost(latest[n], t)
    BY <1>0, <1>3, WallTypes, StampOrder, Zenon DEF ClockInv
  <2>2. \A k \in Gossipers : AtMost(latest[k], latest[k])
    BY <1>0, WallTypes, StampTypes, Zenon
  <2> QED
    BY <1>2, <1>5, <2>1, <2>2, Zenon DEF Newest
<1>9. IdInv'
  <2> SUFFICES ASSUME restarts' = 0
               PROVE  /\ \A d \in Held' : Numbered(d, event_sequence')
                      /\ \A d, f \in Held' : d.event_id = f.event_id => d = f
    BY Zenon DEF IdInv
  <2>1. restarts = 0 /\ \A d \in Held : Numbered(d, event_sequence)
    BY <1>0, <1>1, Zenon DEF IdInv
  <2>2. \A d \in Held' : d = e \/ d \in Held
    BY <1>1, <1>5, Zenon DEF Held
  <2>3. Numbered(e, event_sequence')
    <3>1. event_sequence'[n] = event_sequence[n] + 1
      BY <1>0, <1>2, Zenon DEF TypeInv
    <3>2. event_sequence[n] + 1 \in 1..event_sequence'[n]
      BY <1>0, <3>1, WallTypes, GossipAssumption
    <3> QED
      BY <1>2, <1>3, <3>2, Zenon DEF Numbered
  <2>4. \A d \in Held : Numbered(d, event_sequence')
    BY <1>0, <1>2, <2>1, StillNumbered, Zenon
  <2>5. \A d \in Held : d.event_id # e.event_id
    BY <1>0, <1>2, <2>1, FreshId, Zenon
  <2> QED
    BY <1>0, <2>1, <2>2, <2>3, <2>4, <2>5, Zenon DEF IdInv
<1> QED
  BY <1>4, <1>7, <1>8, <1>9, Zenon DEF GossipInv

LEMMA SendKeeps ==
    ASSUME GossipInv, NEW n \in Gossipers, SendGossip(n)
    PROVE  GossipInv' /\ Newest
<1>0. TypeInv /\ ClockInv /\ IdInv
  BY Zenon DEF GossipInv
<1> DEFINE t == hlc_tick(hlc[n], wall[n])
           m == [event_id |-> next_event_id(n), timestamp |-> t, event |-> view[n]]
<1>1. /\ view[n].status # "Unknown" /\ hlc' = [hlc EXCEPT ![n] = t] /\ messages' = messages \cup {m}
      /\ event_sequence' = [event_sequence EXCEPT ![n] = event_sequence[n] + 1]
      /\ event_sequence[n] < MaxEventSeq /\ t.physical < MaxPhysical
      /\ UNCHANGED <<wall, view, latest, seen, restarts>>
  BY Zenon DEF SendGossip, SetClock
<1>2. /\ t \in HybridTimestamp /\ Before(hlc[n], t) /\ event_sequence[n] + 1 \in 0..MaxEventSeq
      /\ next_event_id(n) \in EventIds
  BY <1>0, <1>1, StampFacts, Zenon
<1> HIDE DEF t
<1>3. m \in Envelope /\ m.event = view[n] /\ m.timestamp = t
  BY <1>0, <1>2, WallTypes, Zenon DEF Envelope
<1> HIDE DEF m
<1>4. TypeInv'
  <2>1. /\ hlc' \in [Gossipers -> HybridTimestamp]
        /\ event_sequence' \in [Gossipers -> 0..MaxEventSeq]
    BY <1>0, <1>1, <1>2, Zenon DEF TypeInv
  <2> QED
    BY <1>0, <1>1, <1>3, <2>1, Zenon DEF TypeInv
<1>5. \A k \in Gossipers : hlc'[k] = IF k = n THEN t ELSE hlc[k]
  BY <1>0, <1>1, Zenon DEF TypeInv
<1>6. AtMost(view[n].timestamp, t) /\ AtMost(latest[n], t)
  <2>1. AtMost(view[n].timestamp, hlc[n]) /\ AtMost(latest[n], hlc[n])
    BY <1>0, Zenon DEF ClockInv
  <2> QED
    BY <1>0, <1>2, <2>1, WallTypes, StampOrder, Zenon
<1>7. ClockInv'
  BY <1>0, <1>1, <1>3, <1>5, <1>6, Zenon DEF ClockInv
<1>8. Newest
  BY <1>0, <1>1, WallTypes, StampTypes, Zenon DEF Newest
<1>9. IdInv'
  <2>1. Held' \subseteq Held
    BY <1>1, <1>3, Zenon DEF Held
  <2>2. restarts' = 0 => \A d \in Held : Numbered(d, event_sequence')
    BY <1>0, <1>1, StillNumbered, Zenon DEF IdInv
  <2> QED
    BY <1>0, <1>1, <2>1, <2>2, Zenon DEF IdInv
<1> QED
  BY <1>4, <1>7, <1>8, <1>9, Zenon DEF GossipInv

\* What apply_hlc_gossip does with a message of n's view and newest stamp.
LEMMA ReceiveKeeps ==
    ASSUME GossipInv, NEW m \in messages, NEW n \in Gossipers, ReceiveGossip(n, m)
    PROVE  GossipInv' /\ Newest
<1>0. TypeInv /\ ClockInv /\ IdInv
  BY Zenon DEF GossipInv
<1> DEFINE t == hlc_receive(hlc[n], wall[n], m.timestamp)
           e == m.event
<1>1. /\ hlc' = [hlc EXCEPT ![n] = t] /\ t.physical < MaxPhysical
      /\ UNCHANGED <<wall, event_sequence, messages, restarts>>
  BY Zenon DEF ReceiveGossip, SetClock
<1>2. /\ m \in Envelope /\ m.timestamp \in HybridTimestamp /\ e \in Event
      /\ m.event_id \in EventIds /\ e.event_id \in EventIds /\ e.timestamp \in HybridTimestamp
      /\ AtMost(e.timestamp, m.timestamp) /\ e.status # "Unknown"
  BY <1>0, Zenon DEF TypeInv, ClockInv, Envelope, Event
<1>3. t \in HybridTimestamp /\ Before(hlc[n], t) /\ Before(m.timestamp, t)
  BY <1>0, <1>1, <1>2, WallTypes, ReceiveClimbs, Zenon
<1> HIDE DEF t
<1>4. AtMost(e.timestamp, t) /\ AtMost(hlc[n], t) /\ AtMost(latest[n], t) /\ AtMost(view[n].timestamp, t)
  <2>1. AtMost(latest[n], hlc[n]) /\ AtMost(view[n].timestamp, hlc[n])
    BY <1>0, Zenon DEF ClockInv
  <2> QED
    BY <1>0, <1>2, <1>3, <2>1, WallTypes, StampOrder, ZenonT(30)
<1>5. seen' \in [Gossipers -> SeenIds]
  <2>1. CASE m.event_id \in seen[n].messages
    BY <1>0, <2>1, Zenon DEF ReceiveGossip, TypeInv
  <2>2. CASE m.event_id \notin seen[n].messages
    <3> DEFINE q == [messages |-> seen[n].messages \cup {m.event_id},
                     events |-> seen[n].events \cup {e.event_id}]
    <3>1. seen' = [seen EXCEPT ![n] = q]
      BY <2>2, Zenon DEF ReceiveGossip
    <3>2. seen[n].messages \subseteq EventIds /\ seen[n].events \subseteq EventIds
      BY <1>0, Zenon DEF TypeInv, SeenIds
    <3>3. q \in SeenIds
      BY <1>2, <3>2, Zenon DEF SeenIds
    <3> HIDE DEF q
    <3> QED
      BY <1>0, <3>1, <3>3, Zenon DEF TypeInv
  <2> QED
    BY <2>1, <2>2, Zenon
<1>6. \/ UNCHANGED <<view, latest>>
      \/ /\ latest' = [latest EXCEPT ![n] = e.timestamp]
         /\ view[n].status = "Unknown" \/ ~AtMost(e.timestamp, latest[n])
         /\ view' = [view EXCEPT ![n] = e] \/ (view' = view /\ view[n].status # "Unknown")
  BY Zenon DEF ReceiveGossip, ApplyEvent, IsStale
<1> HIDE DEF e
<1>7. TypeInv'
  <2>1. /\ view' \in [Gossipers -> Event] /\ latest' \in [Gossipers -> HybridTimestamp]
        /\ hlc' \in [Gossipers -> HybridTimestamp]
    BY <1>0, <1>1, <1>2, <1>3, <1>6, Zenon DEF TypeInv
  <2> QED
    BY <1>0, <1>1, <1>5, <2>1, Zenon DEF TypeInv
<1>8. \A k \in Gossipers :
        /\ hlc'[k] = IF k = n THEN t ELSE hlc[k]
        /\ k # n => view'[k] = view[k] /\ latest'[k] = latest[k]
        /\ \/ view'[k] = view[k] /\ latest'[k] = latest[k]
           \/ /\ k = n /\ latest'[k] = e.timestamp
              /\ view[k].status = "Unknown" \/ ~AtMost(e.timestamp, latest[k])
              /\ view'[k] = e \/ (view'[k] = view[k] /\ view[k].status # "Unknown")
  BY <1>0, <1>1, <1>6, Zenon DEF TypeInv
<1>9. ClockInv'
  <2>1. ASSUME NEW k \in Gossipers
        PROVE  /\ AtMost(view'[k].timestamp, hlc'[k]) /\ AtMost(latest'[k], hlc'[k])
               /\ view'[k].status = "Unknown" => latest'[k] = Zero
    BY <1>0, <1>2, <1>4, <1>8, Zenon DEF ClockInv
  <2> QED
    BY <1>0, <1>1, <2>1, Zenon DEF ClockInv
<1>10. Newest
  <2>1. ASSUME NEW k \in Gossipers
        PROVE  AtMost(latest[k], latest'[k]) /\ (view'[k] # view[k] => view'[k].timestamp = latest'[k])
    <3>1. AtMost(latest[k], latest[k]) /\ AtMost(Zero, e.timestamp)
      BY <1>0, <1>2, WallTypes, StampTypes, Zenon
    <3>2. ~AtMost(e.timestamp, latest[k]) => AtMost(latest[k], e.timestamp)
      BY <1>0, <1>2, WallTypes, StampOrder, Zenon
    <3>3. view[k].status = "Unknown" => latest[k] = Zero
      BY <1>0, Zenon DEF ClockInv
    <3> QED
      BY <1>8, <3>1, <3>2, <3>3, Zenon
  <2> QED
    BY <2>1, Zenon DEF Newest
<1>11. IdInv'
  <2>1. Held' \subseteq Held
    BY <1>1, <1>8, Zenon DEF Held, e
  <2> QED
    BY <1>0, <1>1, <2>1, Zenon DEF IdInv
<1> QED
  BY <1>7, <1>9, <1>10, <1>11, Zenon DEF GossipInv

LEMMA SetWallKeeps ==
    ASSUME GossipInv, NEW n \in Gossipers, NEW t \in 0..MaxWall, SetWall(n, t)
    PROVE  GossipInv' /\ Newest
<1>0. TypeInv /\ ClockInv /\ IdInv
  BY Zenon DEF GossipInv
<1>1. wall' = [wall EXCEPT ![n] = t] /\ UNCHANGED <<hlc, event_sequence, view, latest, seen, messages, restarts>>
  BY Zenon DEF SetWall
<1>2. TypeInv'
  BY <1>0, <1>1, Zenon DEF TypeInv
<1>3. ClockInv'
  BY <1>0, <1>1, Zenon DEF ClockInv
<1>4. IdInv'
  <2>1. Held' = Held
    BY <1>1, Zenon DEF Held
  <2> QED
    BY <1>0, <1>1, <2>1, Zenon DEF IdInv
<1>5. Newest
  BY <1>0, <1>1, WallTypes, StampTypes, Zenon DEF Newest
<1> QED
  BY <1>2, <1>3, <1>4, <1>5, Zenon DEF GossipInv

LEMMA RestartKeeps ==
    ASSUME GossipInv, NEW n \in Gossipers, RestartEngine(n)
    PROVE  GossipInv' /\ Newest
<1>0. TypeInv /\ ClockInv /\ IdInv
  BY Zenon DEF GossipInv
<1> DEFINE t == [physical |-> wall[n], logical |-> 0]
           q == [messages |-> {}, events |-> {}]
<1>1. /\ restarts < MaxEngineRestarts /\ restarts' = restarts + 1
      /\ hlc' = [hlc EXCEPT ![n] = t] /\ event_sequence' = [event_sequence EXCEPT ![n] = 0]
      /\ view' = [view EXCEPT ![n] = NoView] /\ latest' = [latest EXCEPT ![n] = Zero]
      /\ seen' = [seen EXCEPT ![n] = q] /\ UNCHANGED <<wall, messages>>
  BY Zenon DEF RestartEngine
<1>2. t \in HybridTimestamp /\ q \in SeenIds
  <2>1. 0 \in 0..(LOGICAL_CARDINALITY - 1)
    BY WidthAssumption
  <2> QED
    BY <1>0, <2>1, WallTypes, Zenon DEF HybridTimestamp, SeenIds
<1> HIDE DEF t, q
<1>3. restarts' \in 0..MaxEngineRestarts /\ restarts' # 0 /\ restarts' # restarts
  <2>1. restarts \in 0..MaxEngineRestarts
    BY <1>0, Zenon DEF TypeInv
  <2> QED
    BY <1>1, <2>1, GossipAssumption
<1>4. 0 \in 0..MaxEventSeq
  BY GossipAssumption
<1>5. TypeInv'
  <2>1. /\ hlc' \in [Gossipers -> HybridTimestamp] /\ latest' \in [Gossipers -> HybridTimestamp]
        /\ event_sequence' \in [Gossipers -> 0..MaxEventSeq]
    BY <1>0, <1>1, <1>2, <1>4, ZeroTypes, Zenon DEF TypeInv
  <2>2. view' \in [Gossipers -> Event] /\ seen' \in [Gossipers -> SeenIds]
    BY <1>0, <1>1, <1>2, NoViewTypes, Zenon DEF TypeInv
  <2> QED
    BY <1>0, <1>1, <1>3, <2>1, <2>2, Zenon DEF TypeInv
<1>6. \A k \in Gossipers :
        /\ k = n => hlc'[k] = t /\ view'[k] = NoView /\ latest'[k] = Zero
        /\ k # n => hlc'[k] = hlc[k] /\ view'[k] = view[k] /\ latest'[k] = latest[k]
  BY <1>0, <1>1, Zenon DEF TypeInv
<1>7. AtMost(Zero, t)
  BY <1>2, StampTypes, Zenon
<1>8. ClockInv'
  BY <1>0, <1>1, <1>6, <1>7, NoViewTypes, ZenonT(30) DEF ClockInv
<1> QED
  BY <1>3, <1>5, <1>8, Zenon DEF GossipInv, IdInv, Newest

LEMMA QuietKeeps ==
    ASSUME GossipInv, UNCHANGED gossipVars
    PROVE  GossipInv' /\ Newest
<1>0. TypeInv /\ ClockInv /\ IdInv
  BY Zenon DEF GossipInv
<1>1. UNCHANGED <<wall, hlc, event_sequence, view, latest, seen, messages, restarts>>
  BY Zenon DEF gossipVars
<1>2. Newest
  BY <1>0, <1>1, WallTypes, StampTypes, Zenon DEF Newest
<1>3. Held' = Held
  BY <1>1, Zenon DEF Held
<1>4. TypeInv'
  BY <1>0, <1>1, ZenonT(30) DEF TypeInv
<1>5. ClockInv'
  BY <1>0, <1>1, Zenon DEF ClockInv
<1>6. IdInv'
  BY <1>0, <1>1, <1>3, Zenon DEF IdInv
<1> QED
  BY <1>2, <1>4, <1>5, <1>6, Zenon DEF GossipInv

----------------------------------------------------------------------------
(* The theorems.                                                           *)

LEMMA GossipInvStarts == GossipInit => GossipInv
<1> SUFFICES ASSUME GossipInit PROVE GossipInv
  BY Zenon
<1> DEFINE q == [messages |-> {}, events |-> {}]
<1>1. /\ wall = [n \in Gossipers |-> 0] /\ hlc = [n \in Gossipers |-> Zero]
      /\ event_sequence = [n \in Gossipers |-> 0] /\ view = [n \in Gossipers |-> NoView]
      /\ latest = [n \in Gossipers |-> Zero] /\ seen = [n \in Gossipers |-> q]
      /\ messages = {} /\ restarts = 0
  BY Zenon DEF GossipInit
<1>2. 0 \in 0..MaxWall /\ 0 \in 0..MaxEventSeq /\ 0 \in 0..MaxEngineRestarts
  BY GossipAssumption
<1>3. q \in SeenIds
  BY Zenon DEF SeenIds
<1> HIDE DEF q
<1>4. TypeInv
  BY <1>1, <1>2, <1>3, ZeroTypes, NoViewTypes, Zenon DEF TypeInv
<1>5. AtMost(Zero, Zero)
  BY ZeroTypes, StampTypes, Zenon
<1>6. ClockInv
  BY <1>1, <1>5, NoViewTypes, Zenon DEF ClockInv
<1>7. \A e \in Held : e = NoView
  BY <1>1, Zenon DEF Held
<1>8. IdInv
  BY <1>7, Zenon DEF IdInv, Numbered
<1> QED
  BY <1>4, <1>6, <1>8, Zenon DEF GossipInv

LEMMA GossipInvStep == GossipInv /\ [GossipNext]_gossipVars => GossipInv' /\ Newest
<1> SUFFICES ASSUME GossipInv, [GossipNext]_gossipVars PROVE GossipInv' /\ Newest
  BY Zenon
<1>0. TypeInv
  BY Zenon DEF GossipInv
<1>1. ASSUME NEW n \in Gossipers,
             \/ \E s \in Statuses : ChangeLocally(n, s)
             \/ \E upd \in PlainUpdates : ApplyPlainGossip(n, upd)
      PROVE  GossipInv' /\ Newest
  BY <1>0, <1>1, ChangesStamp, StampKeeps, Zenon
<1>2. ASSUME NEW n \in Gossipers, SendGossip(n) PROVE GossipInv' /\ Newest
  BY <1>2, SendKeeps, Zenon
<1>3. ASSUME NEW n \in Gossipers, RestartEngine(n) PROVE GossipInv' /\ Newest
  BY <1>3, RestartKeeps, Zenon
<1>4. ASSUME NEW n \in Gossipers, NEW t \in 0..MaxWall, SetWall(n, t) PROVE GossipInv' /\ Newest
  BY <1>4, SetWallKeeps, Zenon
<1>5. ASSUME NEW m \in messages, NEW n \in Gossipers, ReceiveGossip(n, m)
      PROVE  GossipInv' /\ Newest
  BY <1>5, ReceiveKeeps, Zenon
<1>6. ASSUME \/ UNCHANGED gossipVars
             \/ \E m \in messages, n \in Gossipers : RejectGossip(n, m)
      PROVE  GossipInv' /\ Newest
  BY <1>6, QuietKeeps, Zenon DEF RejectGossip
<1> QED
  BY <1>1, <1>2, <1>3, <1>4, <1>5, <1>6, Zenon DEF GossipNext

\* Whatever the wall clocks read, however messages are delayed, duplicated or
\* lost and whichever engines restart, a clock has passed all its node stamped
\* or applied, no envelope is invalid, and until an engine restarts two nodes
\* that hold an event of one id hold the same event.
THEOREM ClocksCoverViews == GossipSpec => []ViewIsSound
<1>1. GossipInv => GossipTypeOK
  BY Zenon DEF GossipInv, TypeInv, GossipTypeOK, Event, SeenIds
<1>2. GossipInv => ClockCoversView
  <2> SUFFICES ASSUME TypeInv, ClockInv PROVE ClockCoversView
    BY Zenon DEF GossipInv
  <2>1. ASSUME NEW m \in messages PROVE ~Before(m.timestamp, m.event.timestamp)
    <3>1. /\ m.timestamp \in HybridTimestamp /\ m.event.timestamp \in HybridTimestamp
          /\ AtMost(m.event.timestamp, m.timestamp)
      BY Zenon DEF TypeInv, ClockInv, Envelope, Event
    <3> QED
      BY <3>1, StampTypes DEF AtMost, Before
  <2> QED
    BY <2>1, Zenon DEF ClockCoversView, InvalidEnvelope, ClockInv
<1>3. GossipInv => SameEventSameState
  BY Zenon DEF GossipInv, IdInv, Held, SameEventSameState
<1> QED
  BY <1>1, <1>2, <1>3, GossipInvStarts, GossipInvStep, PTL DEF GossipSpec, ViewIsSound

\* Late and duplicate delivery never takes a view back: until an engine
\* restarts, latest_membership_timestamps only grows, and an entry that changes
\* takes the newest stamp.
THEOREM NewestStampWins == GossipSpec => NewestEventWins
<1>1. GossipInv /\ [GossipNext]_gossipVars =>
        [restarts' = restarts => \A n \in Gossipers :
           /\ AtMost(latest[n], latest'[n])
           /\ view'[n] # view[n] => view'[n].timestamp = latest'[n]]_gossipVars
  BY GossipInvStep, Zenon DEF Newest
<1>2. GossipInv /\ [GossipNext]_gossipVars => GossipInv'
  BY GossipInvStep, Zenon
<1> QED
  BY <1>1, <1>2, GossipInvStarts, PTL DEF GossipSpec, NewestEventWins
=============================================================================
