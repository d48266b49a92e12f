------------------------ MODULE DeterministicNetwork ------------------------
(***************************************************************************)
(* The seeded network the repository's distributed tests run on            *)
(* (chirps-mock: deterministic.rs): a clock that moves only when it is     *)
(* told to, a queue of packets ordered by their due time, links that are   *)
(* cut and healed, faults fixed in advance per message of a link, and      *)
(* nodes that leave and come back as a new generation.                     *)
(*                                                                         *)
(* One lock guards the state, so each call is a step; a broadcast reads    *)
(* its targets in one step and sends to each in steps of its own, and the  *)
(* closed flag of a handle is looked at before the lock is taken.          *)
(***************************************************************************)
EXTENDS Integers, Sequences, SequencesExt, FiniteSets

CONSTANTS
  NetNodes,          \* a set of numbers: node ids are ordered
  FaultSchedules,    \* the schedules a network is made with
  inbox_capacity,    \* 1024
  NetLinks,          \* the links that are used and cut
  NetTicks,          \* what advance_by is called with
  MaxGenerations,    \* bound: node -> generations
  MaxPackets, MaxNow, MaxNetCalls      \* bounds

Link(s, t) == [source |-> s, target |-> t]
Handle(n, g) == [node |-> n, generation |-> g]
Handles == UNION {{Handle(n, g) : g \in 0..MaxGenerations[n] - 1} : n \in NetNodes}
Absent  == -1

ASSUME NetworkAssumption ==
  /\ NetNodes \subseteq Nat /\ inbox_capacity \in Nat \ {0}
  /\ \A s \in FaultSchedules : \A r, q \in s :
       (r.link = q.link /\ r.occurrence = q.occurrence) => r = q     \* asserted by build

VARIABLES
  rules,         \* the FaultSchedule: records [link, occurrence, effects]
  now,
  net_peers,     \* node -> the generation registered, or Absent
  generations,   \* node -> the last generation given out, or Absent
  occurrences,   \* link -> messages sent so far
  partitions,
  packets,       \* the queue: records [due, packet_id, copy, link, source_generation, target_generation]
  next_packet_id,
  trace,         \* events
  inbox,         \* handle -> its channel
  receiving,     \* handles whose receiver is there
  closed,        \* handles whose closed flag is set
  sends,         \* handle -> targets a send or broadcast has still to reach
  checked,       \* handles whose send found the flag clear
  lostInDelivery, \* packets taken from the queue by a delivery that failed
  netCalls       \* calls that change nodes and links

netVars == <<rules, now, net_peers, generations, occurrences, partitions, packets, next_packet_id,
             trace, inbox, receiving, closed, sends, checked, lostInDelivery, netCalls>>

netNode == <<net_peers, generations, receiving, closed>>
netCall == <<sends, checked>>

CountCall == netCalls < MaxNetCalls /\ netCalls' = netCalls + 1

(* A network whose nodes have been added once and have subscribed. *)
NetStart(schedules) ==
  /\ rules \in schedules
  /\ now = 0 /\ next_packet_id = 0 /\ trace = <<>>
  /\ net_peers = [n \in NetNodes |-> 0] /\ generations = [n \in NetNodes |-> 0]
  /\ occurrences = [l \in NetLinks |-> 0]
  /\ partitions = {} /\ packets = {} /\ lostInDelivery = {}
  /\ inbox = [h \in Handles |-> <<>>] /\ receiving = {Handle(n, 0) : n \in NetNodes}
  /\ closed = {} /\ sends = [h \in Handles |-> <<>>] /\ checked = {} /\ netCalls = 0

NetInit == NetStart(FaultSchedules)

Event(kind, what) == [kind |-> kind, time |-> now, packet |-> what]

----------------------------------------------------------------------------
(* add_node: the next generation of the node takes its place, whether the   *)
(* one before was closed or not.                                            *)
AddNode(n) ==
  LET g == generations[n] + 1
  IN /\ CountCall /\ g < MaxGenerations[n]
     /\ generations' = [generations EXCEPT ![n] = g]
     /\ net_peers' = [net_peers EXCEPT ![n] = g]
     /\ receiving' = receiving \union {Handle(n, g)}
     /\ trace' = Append(trace, Event("Reconnected", Handle(n, g)))
     /\ UNCHANGED <<rules, now, occurrences, partitions, packets, next_packet_id, inbox,
                    closed, netCall, lostInDelivery>>

Partition(l) ==
  /\ l \notin partitions /\ CountCall
  /\ partitions' = partitions \union {l}
  /\ trace' = Append(trace, Event("Partitioned", l))
  /\ UNCHANGED <<rules, now, netNode, occurrences, packets, next_packet_id, inbox,
                 netCall, lostInDelivery>>

Heal(l) ==
  /\ l \in partitions /\ CountCall
  /\ partitions' = partitions \ {l}
  /\ trace' = Append(trace, Event("Healed", l))
  /\ UNCHANGED <<rules, now, netNode, occurrences, packets, next_packet_id, inbox,
                 netCall, lostInDelivery>>

----------------------------------------------------------------------------
(* enqueue.                                                                *)

effects_for(l) ==
  LET mine == {r \in rules : r.link = l /\ r.occurrence = occurrences[l]}
  IN IF mine = {} THEN <<>> ELSE (CHOOSE r \in mine : TRUE).effects

(* What the effects of a message add up to, in their order. *)
Delayed(effects) ==
  FoldLeft(LAMBDA sum, e : IF e.kind \in {"Delay", "Reorder"} THEN sum + e.n ELSE sum, 0, effects)

Copies(effects) ==
  FoldLeft(LAMBDA copies, e : CASE e.kind # "Duplicate" -> copies
                                [] e.n < 1 -> 1
                                [] OTHER -> e.n, 1, effects)

EnqueueRefused(h, t) == net_peers[h.node] # h.generation \/ net_peers[t] = Absent

(* The registration must be the handle's own and the target present; the    *)
(* message is counted, and dropped if the link is cut now, else queued in   *)
(* as many copies as its faults say.                                        *)
Enqueue(h, t) ==
  LET l == Link(h.node, t)
      effects == effects_for(l)
      drop == l \in partitions \/ \E k \in DOMAIN effects : effects[k].kind = "Drop"
      copy(k) == [due |-> now + Delayed(effects), packet_id |-> next_packet_id, copy |-> k, link |-> l,
                  source_generation |-> h.generation, target_generation |-> net_peers[t]]
  IN IF EnqueueRefused(h, t)
     THEN UNCHANGED <<next_packet_id, occurrences, packets, trace>>
     ELSE /\ next_packet_id' = next_packet_id + 1
          /\ occurrences' = [occurrences EXCEPT ![l] = @ + 1]
          /\ IF drop
             THEN trace' = Append(trace, Event("Dropped", copy(0))) /\ UNCHANGED packets
             ELSE /\ packets' = packets \union {copy(k) : k \in 0..Copies(effects) - 1}
                  /\ trace' = trace \o [k \in 1..Copies(effects) |-> Event("Scheduled", copy(k - 1))]

----------------------------------------------------------------------------
(* Backend handles.                                                        *)

Made(h) == h.generation <= generations[h.node]

SendOne(h, t) ==
  /\ Made(h) /\ sends[h] = <<>> /\ next_packet_id < MaxPackets
  /\ sends' = [sends EXCEPT ![h] = <<t>>]
  /\ UNCHANGED <<rules, now, netNode, occurrences, partitions, packets, next_packet_id, trace,
                 inbox, checked, lostInDelivery, netCalls>>

(* broadcast: the peers of the moment, in the order of their ids. *)
BroadcastAll(h) ==
  /\ Made(h) /\ sends[h] = <<>> /\ next_packet_id < MaxPackets
  /\ LET targets == {n \in NetNodes \ {h.node} : net_peers[n] # Absent}
     IN sends' = [sends EXCEPT ![h] = SetToSortSeq(targets, <)]
  /\ UNCHANGED <<rules, now, netNode, occurrences, partitions, packets, next_packet_id, trace,
                 inbox, checked, lostInDelivery, netCalls>>

(* The flag; a closed handle ends the call, and a broadcast with it. *)
CheckClosed(h) ==
  /\ sends[h] # <<>> /\ h \notin checked
  /\ IF h \in closed
     THEN sends' = [sends EXCEPT ![h] = <<>>] /\ UNCHANGED checked
     ELSE checked' = checked \union {h} /\ UNCHANGED sends
  /\ UNCHANGED <<rules, now, netNode, occurrences, partitions, packets, next_packet_id, trace,
                 inbox, lostInDelivery, netCalls>>

(* A target that cannot be reached ends a broadcast. *)
EnqueueNext(h) ==
  /\ h \in checked
  /\ Enqueue(h, Head(sends[h]))
  /\ checked' = checked \ {h}
  /\ sends' = [sends EXCEPT ![h] = IF EnqueueRefused(h, Head(@)) THEN <<>> ELSE Tail(@)]
  /\ UNCHANGED <<rules, now, netNode, partitions, inbox, lostInDelivery, netCalls>>

DropReceiver(h) ==
  /\ CountCall
  /\ h \in receiving
  /\ receiving' = receiving \ {h}
  /\ inbox' = [inbox EXCEPT ![h] = <<>>]
  /\ UNCHANGED <<rules, now, net_peers, generations, closed, occurrences, partitions, packets,
                 next_packet_id, trace, netCall, lostInDelivery>>

ReceiveFrame(h) ==
  /\ h \in receiving /\ inbox[h] # <<>>
  /\ inbox' = [inbox EXCEPT ![h] = Tail(@)]
  /\ UNCHANGED <<rules, now, netNode, occurrences, partitions, packets, next_packet_id, trace,
                 netCall, lostInDelivery, netCalls>>

CloseFlag(h) ==
  /\ CountCall
  /\ Made(h) /\ h \notin closed
  /\ closed' = closed \union {h}
  /\ UNCHANGED <<rules, now, net_peers, generations, receiving, occurrences, partitions, packets,
                 next_packet_id, trace, inbox, netCall, lostInDelivery>>

(* A defect the mutants use: whoever is registered is taken out. *)
CloseUnregister_Any(h) ==
  /\ h \in closed
  /\ net_peers' = [net_peers EXCEPT ![h.node] = Absent]
  /\ UNCHANGED <<rules, now, generations, receiving, closed, occurrences, partitions, packets,
                 next_packet_id, trace, inbox, netCall, lostInDelivery, netCalls>>

(* The rest of close: a later generation stays registered. *)
CloseUnregister(h) ==
  /\ h \in closed
  /\ net_peers' = [net_peers EXCEPT ![h.node] = IF @ = h.generation THEN Absent ELSE @]
  /\ UNCHANGED <<rules, now, generations, receiving, closed, occurrences, partitions, packets,
                 next_packet_id, trace, inbox, netCall, lostInDelivery, netCalls>>

----------------------------------------------------------------------------
(* Delivery.                                                               *)

Before(p, q) ==
  \/ p.due < q.due
  \/ p.due = q.due /\ p.packet_id < q.packet_id
  \/ p.due = q.due /\ p.packet_id = q.packet_id /\ p.copy < q.copy

(* The outcome of deliver_key at a time; the packet is off the queue unless *)
(* its link is cut.  A full or dropped channel refuses it.                  *)
Fate(p) ==
  LET t == Handle(p.link.target, p.target_generation)
  IN CASE p.link \in partitions -> "Held"
       [] net_peers[p.link.target] = Absent -> "Dropped"
       [] net_peers[p.link.source] # p.source_generation
            \/ net_peers[p.link.target] # p.target_generation -> "StaleGeneration"
       [] t \notin receiving \/ Len(inbox[t]) >= inbox_capacity -> "Refused"
       [] OTHER -> "Delivered"

(* deliver_key for each of keys in turn; the first refused one ends it, off *)
(* the queue and in no event.                                               *)
DeliverKeys(keys, time) ==
  LET start == [packets |-> packets, inbox |-> inbox, trace |-> trace, lost |-> lostInDelivery,
                failed |-> FALSE]
      target(p) == Handle(p.link.target, p.target_generation)
      full(s, p) == Len(s.inbox[target(p)]) >= inbox_capacity
      deliver(s, p) ==
        LET fate == IF Fate(p) = "Delivered" /\ full(s, p) THEN "Refused" ELSE Fate(p)
            out  == [s EXCEPT !.packets = @ \ {p}]
            told == [out EXCEPT !.trace = Append(@, [kind |-> fate, time |-> time, packet |-> p])]
        IN CASE s.failed \/ fate = "Held" -> s
             [] fate = "Refused" -> [out EXCEPT !.lost = @ \union {p}, !.failed = TRUE]
             [] fate = "Delivered" -> [told EXCEPT !.inbox[target(p)] = Append(@, p)]
             [] OTHER -> told
      end == FoldLeft(deliver, start, keys)
  IN /\ packets' = end.packets /\ inbox' = end.inbox /\ trace' = end.trace
     /\ lostInDelivery' = end.lost

(* advance_by: what is due by the new time is resolved in the order of the  *)
(* queue.                                                                   *)
AdvanceBy(ticks) ==
  /\ now + ticks <= MaxNow
  /\ now' = now + ticks
  /\ DeliverKeys(SetToSortSeq({p \in packets : p.due <= now + ticks}, Before), now + ticks)
  /\ UNCHANGED <<rules, netNode, occurrences, partitions, next_packet_id, netCall, netCalls>>

(* deliver_next: the first packet whose link is not cut, at its due time or *)
(* now.                                                                     *)
Deliverable == {p \in packets : p.link \notin partitions}

DeliverNext ==
  /\ Deliverable # {}
  /\ LET p == CHOOSE q \in Deliverable : \A r \in Deliverable \ {q} : Before(q, r)
         time == IF p.due > now THEN p.due ELSE now
     IN now' = time /\ DeliverKeys(<<p>>, time)
  /\ UNCHANGED <<rules, netNode, occurrences, partitions, next_packet_id, netCall, netCalls>>

NetNext ==
  \/ \E n \in NetNodes : AddNode(n)
  \/ \E l \in NetLinks : Partition(l) \/ Heal(l)
  \/ \E h \in Handles :
       \/ (\A n \in NetNodes \ {h.node} : Link(h.node, n) \in NetLinks) /\ BroadcastAll(h)
       \/ CheckClosed(h) \/ EnqueueNext(h) \/ DropReceiver(h)
       \/ ReceiveFrame(h) \/ CloseFlag(h) \/ CloseUnregister(h)
       \/ \E l \in NetLinks : l.source = h.node /\ SendOne(h, l.target)
  \/ \E k \in NetTicks : AdvanceBy(k)
  \/ DeliverNext

----------------------------------------------------------------------------
(* Every copy that was scheduled waits in the queue, or has exactly one     *)
(* event that tells its end, or was refused by its receiver: deliver_key,   *)
(* put back when the link is cut, neither loses nor repeats one.            *)
TraceIsComplete ==
  \A i \in DOMAIN trace : trace[i].kind = "Scheduled" =>
    LET p == trace[i].packet
    IN Cardinality({j \in DOMAIN trace : j # i /\ trace[j].packet = p})
         + Cardinality({q \in packets \union lostInDelivery : q = p}) = 1

(* On a link packets arrive in the order of their keys, whatever was cut,   *)
(* healed and delivered on other links in between: without a delaying fault *)
(* a link is first in, first out.  No packet arrives before it is due.      *)
LinkIsOrdered ==
  \A i, j \in DOMAIN trace :
    (trace[i].kind = "Delivered" /\ trace[j].kind = "Delivered") =>
      /\ trace[i].time >= trace[i].packet.due
      /\ (i < j /\ trace[i].packet.link = trace[j].packet.link)
           => Before(trace[i].packet, trace[j].packet)

(* A restart is a barrier: a node receives nothing that was sent to an      *)
(* earlier generation of it, and the newest generation stays registered     *)
(* until it is closed itself, although handles of earlier ones are closed   *)
(* late.                                                                    *)
GenerationsAreApart ==
  /\ \A h \in Handles : \A i \in DOMAIN inbox[h] :
       inbox[h][i].target_generation = h.generation /\ inbox[h][i].link.target = h.node
  /\ \A n \in NetNodes : generations[n] # Absent =>
       \/ net_peers[n] = generations[n]
       \/ Handle(n, generations[n]) \in closed /\ net_peers[n] = Absent

NetworkIsSound == TraceIsComplete /\ LinkIsOrdered /\ GenerationsAreApart
=============================================================================
