------------------------------ MODULE Harness ------------------------------
(***************************************************************************)
(* The deterministic fault harness (tools/chirps-deterministic-harness): a *)
(* coordinator drives worker processes over pipes and the seeded network   *)
(* of DeterministicNetwork between them.  It creates two groups on every   *)
(* worker, lets worker 1 send Raft votes for group A to worker 2, routes   *)
(* the first one that arrives, removes the group while the link is cut,    *)
(* and expects each later one to be refused; after every event of the      *)
(* network it observes all workers and records a batch of oracles.         *)
(*                                                                         *)
(* A worker answers one command at a time; while it emits a vote it waits  *)
(* for the coordinator to accept the frame, which the coordinator does     *)
(* inside the call.  A worker process may die at any time.                 *)
(***************************************************************************)
EXTENDS DeterministicNetwork

CONSTANT Votes       \* messages worker 1 emits, 16 in the scenario

Workers    == NetNodes
VoteLink   == Link(1, 2)
NoCall     == [node |-> 0, action |-> "none"]

VARIABLES
  at,            \* the stage of execute_inner, "ok" or "failed" at its end
  nth,           \* the step within the stage
  observing,     \* workers observe_all has still to ask; <<>> when it is not running
  call,          \* what the coordinator waits for
  to_worker, to_parent,     \* the pipes
  worker,        \* worker -> [alive, groups, applied, accepting]
  routed,        \* what the frames of the last delivery came to
  outcomes,      \* event -> route_outcomes
  batches,       \* events that have their batch of oracles
  excused        \* a worker died or could not commit

harnessVars == <<at, nth, observing, call, to_worker, to_parent, worker, routed, outcomes,
                 batches, excused>>

Stages == <<"create", "propose", "baseline", "emit", "route", "cut", "remove", "heal", "drain",
            "tick", "finish", "ok">>

After(stage) == Stages[(CHOOSE i \in DOMAIN Stages : Stages[i] = stage) + 1]

(* A worker that has been spawned and has sent Ready. *)
Spawned == [alive |-> TRUE, groups |-> {}, applied |-> {}, accepting |-> FALSE]

HarnessInit ==
  /\ at = "create" /\ nth = 1 /\ observing = <<>> /\ call = NoCall
  /\ to_worker = [w \in Workers |-> <<>>] /\ to_parent = [w \in Workers |-> <<>>]
  /\ worker = [w \in Workers |-> Spawned]
  /\ routed = FALSE /\ outcomes = <<>> /\ batches = 0 /\ excused = FALSE

Over == at \in {"ok", "failed"}
Free == ~Over /\ call = NoCall

----------------------------------------------------------------------------
(* WorkerClient::call, up to the answer.                                   *)

Call(w, action, g) ==
  /\ call' = [node |-> w, action |-> action, group |-> g]
  /\ to_worker' = [to_worker EXCEPT ![w] = Append(@, [type |-> "Command", action |-> action, group |-> g])]

(* The commands of a stage, in order: worker by worker, group by group. *)
InOrder    == SetToSortSeq(Workers, <)
Pairs      == [i \in 1..2 * Cardinality(Workers) |->
                 [node |-> InOrder[(i + 1) \div 2], group |-> IF i % 2 = 1 THEN "A" ELSE "B"]]
Commands(stage) ==
  CASE stage = "create" -> [i \in DOMAIN Pairs |-> <<Pairs[i].node, "CreateGroup", Pairs[i].group>>]
    [] stage = "propose" -> [i \in DOMAIN Pairs |-> <<Pairs[i].node, "Propose", Pairs[i].group>>]
    [] stage = "emit" -> [i \in 1..Votes |-> <<1, "EmitRaftVote", "A">>]
    [] stage = "remove" -> <<<<2, "RemoveGroup", "A">>>>
    [] stage = "tick" -> [i \in DOMAIN InOrder |-> <<InOrder[i], "TickRaft", "A">>]
    [] OTHER -> <<>>

Issue ==
  /\ Free /\ observing = <<>>
  /\ nth \in DOMAIN Commands(at)
  /\ LET c == Commands(at)[nth] IN Call(c[1], c[2], c[3])
  /\ UNCHANGED <<netVars, at, nth, observing, to_parent, worker, routed, outcomes, batches, excused>>

(* observe_all: one worker after the other. *)
AskNext ==
  /\ Free /\ observing # <<>>
  /\ Call(Head(observing), "Observe", "A")
  /\ UNCHANGED <<netVars, at, nth, observing, to_parent, worker, routed, outcomes, batches, excused>>

Fail ==
  /\ at' = "failed"
  /\ UNCHANGED <<nth, observing, batches, outcomes, routed>>

(* record_new_network_oracles: nothing to do without new events. *)
Observe(stage, step, events) ==
  /\ at' = stage /\ nth' = step
  /\ observing' = IF events > batches THEN InOrder ELSE <<>>

----------------------------------------------------------------------------
(* A worker (run_worker, execute_command).                                 *)

Answer(w, result) ==
  to_parent' = [to_parent EXCEPT ![w] = Append(@, [type |-> "Response", result |-> result])]

DeliverResult(w, g) == IF g \in worker[w].groups THEN "FrameAccepted" ELSE "unknown_group"

(* IpcBackend::send: the frame goes up the pipe, and the sender waits. *)
Emit(w) ==
  /\ worker' = [worker EXCEPT ![w].accepting = TRUE]
  /\ to_parent' = [to_parent EXCEPT ![w] = Append(@, [type |-> "OutboundFrame"])]

Execute(w) ==
  /\ worker[w].alive /\ ~worker[w].accepting /\ to_worker[w] # <<>>
  /\ LET m == Head(to_worker[w])
     IN CASE m.action = "CreateGroup" ->
               /\ worker' = [worker EXCEPT ![w].groups = @ \union {m.group}]
               /\ Answer(w, "Created") /\ UNCHANGED excused
          [] m.action = "Propose" ->
               \/ /\ worker' = [worker EXCEPT ![w].applied = @ \union {m.group}]
                  /\ Answer(w, "Proposed") /\ UNCHANGED excused
               \/ /\ excused' = TRUE       \* no leader within the attempts
                  /\ Answer(w, "proposal_failed") /\ UNCHANGED worker
          [] m.action = "EmitRaftVote" ->
               Emit(w) /\ UNCHANGED excused
          [] m.action = "DeliverFrame" ->
               Answer(w, DeliverResult(w, m.group)) /\ UNCHANGED <<worker, excused>>
          [] m.action = "RemoveGroup" ->
               /\ worker' = [worker EXCEPT ![w].groups = @ \ {m.group}]
               /\ Answer(w, IF m.group \in worker[w].groups THEN "Removed" ELSE "Missing")
               /\ UNCHANGED excused
          [] m.action = "TickRaft" -> Answer(w, "Ticked") /\ UNCHANGED <<worker, excused>>
          [] m.action = "Observe" ->
               Answer(w, "Observation") /\ UNCHANGED <<worker, excused>>
  /\ to_worker' = [to_worker EXCEPT ![w] = Tail(@)]
  /\ UNCHANGED <<netVars, at, nth, observing, call, routed, outcomes, batches>>

(* The reader task hands NetworkAccepted to the send that waits for it. *)
Accepted(w) ==
  /\ worker[w].alive /\ worker[w].accepting /\ to_worker[w] # <<>>
  /\ worker' = [worker EXCEPT ![w].accepting = FALSE]
  /\ Answer(w, IF Head(to_worker[w]).accepted THEN "Emitted" ELSE "network_enqueue_failed")
  /\ to_worker' = [to_worker EXCEPT ![w] = Tail(@)]
  /\ UNCHANGED <<netVars, at, nth, observing, call, routed, outcomes, batches, excused>>

Dies(w) ==
  /\ ~Over /\ worker[w].alive
  /\ worker' = [worker EXCEPT ![w].alive = FALSE]
  /\ excused' = TRUE
  /\ UNCHANGED <<netVars, at, nth, observing, call, to_worker, to_parent, routed, outcomes, batches>>

----------------------------------------------------------------------------
(* The coordinator, when something comes back.                             *)

(* An outbound frame goes into the network within the call. *)
TakeFrame ==
  /\ call # NoCall /\ to_parent[call.node] # <<>>
  /\ Head(to_parent[call.node]).type = "OutboundFrame"
  /\ Enqueue(Handle(1, 0), VoteLink.target)
  /\ to_parent' = [to_parent EXCEPT ![call.node] = Tail(@)]
  /\ to_worker' = [to_worker EXCEPT ![call.node] =
                     Append(@, [type |-> "NetworkAccepted",
                                accepted |-> ~EnqueueRefused(Handle(1, 0), VoteLink.target)])]
  /\ UNCHANGED <<rules, now, netNode, partitions, inbox, netCall, lostInDelivery, netCalls,
                 at, nth, observing, call, worker, routed, outcomes, batches, excused>>

(* Where the coordinator goes when a stage's command has succeeded. *)
Advance ==
  IF at = "emit" THEN Observe(IF nth = Votes THEN "route" ELSE "emit",
                              IF nth = Votes THEN 1 ELSE nth + 1, Len(trace))
  ELSE /\ at' = IF nth = Len(Commands(at)) THEN After(at) ELSE at
       /\ nth' = IF nth = Len(Commands(at)) THEN 1 ELSE nth + 1
       /\ UNCHANGED observing

(* A frame is routed before the group's removal and refused after it. *)
ExpectedDelivery == IF at = "route" THEN "FrameAccepted" ELSE "unknown_group"

Expected(action) ==
  CASE action = "CreateGroup" -> "Created" [] action = "Propose" -> "Proposed"
    [] action = "EmitRaftVote" -> "Emitted" [] action = "RemoveGroup" -> "Removed"
    [] action = "TickRaft" -> "Ticked" [] action = "Observe" -> "Observation"
    [] action = "DeliverFrame" -> ExpectedDelivery

(* assert_nontrivial_group_state, on the baseline. *)
NontrivialState == \A w \in Workers : {"A", "B"} \subseteq worker[w].groups \intersect worker[w].applied

(* assert_group_b_isolated: group B stands as in the baseline. *)
GroupBIsolated == \A w \in Workers : "B" \in worker[w].groups \intersect worker[w].applied

(* The last checks: every event has its batch. *)
Finished == batches = Len(trace) /\ GroupBIsolated

(* The last worker's observation completes one batch for each new event; a  *)
(* delivered frame must have been routed or refused as expected, and all    *)
(* workers be alive.                                                        *)
RecordBatches ==
  IF /\ GroupBIsolated
     /\ \A w \in Workers : worker[w].alive
     /\ \A e \in batches + 1..Len(trace) :
          trace[e].kind = "Delivered" => e \in DOMAIN outcomes /\ outcomes[e]
  THEN batches' = Len(trace) /\ observing' = <<>> /\ UNCHANGED <<at, nth, routed, outcomes>>
  ELSE Fail

(* The answer to a call; what the scenario did not expect ends the run. *)
TakeResponse ==
  /\ call # NoCall /\ to_parent[call.node] # <<>>
  /\ LET m == Head(to_parent[call.node])
     IN /\ m.type = "Response"
        /\ CASE m.result # Expected(call.action) -> Fail
             [] call.action = "Observe" ->
                  IF Len(observing) > 1
                  THEN observing' = Tail(observing) /\ UNCHANGED <<at, nth, batches, routed, outcomes>>
                  ELSE IF at \in {"baseline", "finish"}
                  THEN /\ at' = IF IF at = "finish" THEN Finished ELSE NontrivialState
                                THEN After(at) ELSE "failed"
                       /\ nth' = 1 /\ observing' = <<>>
                       /\ UNCHANGED <<batches, routed, outcomes>>
                  ELSE RecordBatches
             [] call.action = "DeliverFrame" ->
                  routed' = TRUE /\ UNCHANGED <<at, nth, observing, batches, outcomes>>
             [] OTHER -> Advance /\ UNCHANGED <<batches, routed, outcomes>>
  /\ call' = NoCall
  /\ to_parent' = [to_parent EXCEPT ![call.node] = Tail(@)]
  /\ UNCHANGED <<netVars, to_worker, worker, excused>>

(* read_message meets the end of the pipe of a dead worker, or a write      *)
(* fails: every worker is terminated.                                       *)
PipeEnds ==
  /\ call # NoCall /\ ~worker[call.node].alive /\ to_parent[call.node] = <<>>
  /\ Fail /\ call' = NoCall
  /\ UNCHANGED <<netVars, to_worker, to_parent, worker, excused>>

----------------------------------------------------------------------------
(* The stages that work on the network.                                    *)

StartObservation ==
  /\ Free /\ observing = <<>> /\ at \in {"baseline", "finish"}
  /\ observing' = InOrder
  /\ UNCHANGED <<netVars, at, nth, call, to_worker, to_parent, worker, routed, outcomes, batches, excused>>

FreeAt(stage) == Free /\ observing = <<>> /\ at = stage

(* deliver_next, in the loops of "route" and "drain": nth = 1 before the    *)
(* packet is resolved, 2 while its frames are handed to their worker.       *)
DeliverStep ==
  /\ (FreeAt("route") \/ FreeAt("drain")) /\ nth = 1
  /\ DeliverNext
  /\ nth' = 2 /\ routed' = FALSE
  /\ UNCHANGED <<at, observing, call, to_worker, to_parent, worker, outcomes, batches, excused>>

(* deliver_ready_frames: each frame in a receiver goes to its worker. *)
HandOver ==
  /\ (FreeAt("route") \/ FreeAt("drain")) /\ nth = 2
  /\ \E w \in Workers :
       /\ inbox[Handle(w, 0)] # <<>>
       /\ inbox' = [inbox EXCEPT ![Handle(w, 0)] = Tail(@)]
       /\ Call(w, "DeliverFrame", "A")
  /\ UNCHANGED <<rules, now, netNode, occurrences, partitions, packets, next_packet_id, trace,
                 netCall, lostInDelivery, netCalls, at, nth, observing, to_parent, worker, routed,
                 outcomes, batches, excused>>

(* Its end: the outcome is noted under the event, and the oracles run.      *)
Delivered ==
  /\ (FreeAt("route") \/ FreeAt("drain")) /\ nth = 2
  /\ \A w \in Workers : inbox[Handle(w, 0)] = <<>>
  /\ outcomes' = [e \in DOMAIN outcomes \union {Len(trace)} |->
                    IF e = Len(trace) THEN routed ELSE outcomes[e]]
  /\ at' = IF at = "route" /\ routed THEN "cut" ELSE at
  /\ nth' = 1 /\ observing' = InOrder
  /\ UNCHANGED <<netVars, call, to_worker, to_parent, worker, routed, batches, excused>>

(* The loop ends because nothing is left: the scenario requires that a      *)
(* frame was routed before the cut, and one refused after it.               *)
LoopEnds ==
  /\ (FreeAt("route") \/ FreeAt("drain")) /\ nth = 1 /\ Deliverable = {}
  /\ at' = IF at = "drain" /\ packets = {}
                /\ (\E e \in DOMAIN outcomes : outcomes[e] /\ \E c \in 1..e - 1 : trace[c].kind = "Healed")
           THEN "tick" ELSE "failed"
  /\ UNCHANGED <<netVars, nth, observing, call, to_worker, to_parent, worker, routed, outcomes,
                 batches, excused>>

CutOrHeal ==
  /\ \/ FreeAt("cut") /\ Partition(VoteLink)
     \/ FreeAt("heal") /\ Heal(VoteLink)
  /\ Observe(After(at), 1, Len(trace'))
  /\ UNCHANGED <<call, to_worker, to_parent, worker, routed, outcomes, batches, excused>>

HarnessStep ==
  \/ Issue \/ AskNext \/ TakeFrame \/ TakeResponse \/ PipeEnds
  \/ StartObservation \/ DeliverStep \/ HandOver \/ Delivered \/ LoopEnds \/ CutOrHeal
  \/ \E w \in Workers : Execute(w) \/ Accepted(w)

HarnessNext == HarnessStep \/ \E w \in Workers : Dies(w)

----------------------------------------------------------------------------
(* What a run of a schedule comes to, read off the schedule: the copies     *)
(* that reach the network, and whether one of them is a duplicate.          *)
VoteCopies(schedule, k) ==
  LET mine == {r \in schedule : r.link = VoteLink /\ r.occurrence = k}
      effects == IF mine = {} THEN <<>> ELSE (CHOOSE r \in mine : TRUE).effects
  IN IF \E i \in DOMAIN effects : effects[i].kind = "Drop" THEN 0 ELSE Copies(effects)

Verdict(schedule, votes) ==
  LET total == FoldLeft(LAMBDA sum, k : sum + VoteCopies(schedule, k - 1), 0, [k \in 1..votes |-> k])
  IN CASE total < 2 -> "error"
       [] \E k \in 0..votes - 1 : VoteCopies(schedule, k) > 1 -> "duplicate"
       [] OTHER -> "clean"

(* A run whose workers live ends well exactly when its schedule lets two    *)
(* copies through, one to be routed and one to be refused; then every event *)
(* of the network has its batch of oracles, every copy was delivered, and a *)
(* duplicate shows in the trace exactly when the schedule makes one.        *)
VerdictIsRight ==
  /\ at = "ok" =>
       /\ Verdict(rules, Votes) # "error" /\ batches = Len(trace) /\ packets = {}
       /\ (\E e \in DOMAIN trace : trace[e].kind = "Delivered" /\ trace[e].packet.copy > 0)
            <=> Verdict(rules, Votes) = "duplicate"
       /\ \A e \in DOMAIN trace : trace[e].kind = "Delivered" => e \in DOMAIN outcomes /\ outcomes[e]
  /\ at = "failed" => excused \/ Verdict(rules, Votes) = "error"

(* The coordinator and a worker never wait for each other: until the run is *)
(* over, one of them can go on, also when a worker dies in mid-call.        *)
NeverStuck == Over \/ ENABLED HarnessStep
=============================================================================
