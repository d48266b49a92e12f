------------------------------ MODULE GroupRpc ------------------------------
(***************************************************************************)
(* One Raft group hosted by one node: MultiRaftManager creates and removes *)
(* it, GroupHandle admits operations and drains them at shutdown, and      *)
(* ChirpsRaftTransport correlates the RPCs the group sends with the        *)
(* responses that come back.                                               *)
(*                                                                         *)
(* remove_group followed by create_group makes a new incarnation of the    *)
(* group, with a new GroupHandle and a new transport.  Tasks that hold an  *)
(* Arc of an old GroupHandle go on using it.                               *)
(*                                                                         *)
(* OpenRaft is external: a proposal returns once a peer has answered an    *)
(* RPC sent for it (or at once, when the node is not the leader), and the  *)
(* Background callers are its own elections and heartbeats.  An inbound    *)
(* request, a tick or a membership change takes the same permit as a       *)
(* proposal and, to the drain, is one that sends no RPC.                   *)
(***************************************************************************)
EXTENDS Integers, Sequences, FiniteSets

CONSTANTS
  Proposals,            \* tasks that call GroupHandle::propose, once each
  Background,           \* OpenRaft tasks that send an RPC, once each
  Managers,             \* tasks that call create_group and remove_group
  Closers,              \* tasks that call GroupHandle::shutdown directly
  None,
  MaxIncarnations,      \* bound: successful calls of RaftNode::new
  MaxFailures,          \* bound: RPCs that time out or cannot be sent, and
                        \* groups that cannot be initialized
  MaxCancels,           \* bound: dropped shutdown and remove_group calls
  proposal_concurrency

ASSUME GroupAssumption ==
  /\ MaxIncarnations \in Nat /\ MaxFailures \in Nat /\ MaxCancels \in Nat
  /\ proposal_concurrency \in Nat \ {0}

Callers      == Proposals \union Background
Shutters     == Managers \union Closers
Incarnations == 1..MaxIncarnations

\* Tasks are told apart from each other and from what stands for no task.
ASSUME TaskAssumption ==
  /\ Managers \intersect Closers = {}
  /\ Shutters \intersect {None, "empty", "ok", "err"} = {}

VARIABLES
  groups,       \* the manager's map: the routable incarnation, 0 for none
  lifecycle,    \* the task that holds the manager's lifecycle mutex
  creating,     \* the incarnation create_group is building, 0 for none
  made,         \* how many incarnations were built
  published,    \* those that were routable at some time: they have a handle
  node,         \* node[i]: "none", "running" or "stopped"
  handle,       \* handle[i]: GroupLifecycle
  transport,    \* transport[i]: ChirpsRaftTransport
  op,           \* op[o]: one operation on a GroupHandle
  shut,         \* shut[c]: one call of GroupHandle::shutdown
  rpc,          \* rpc[c]: one call of send_rpc
  sent,         \* requests sent, with the call that sent them: a peer's
                \* response to one may come at any time, and repeatedly
  failures, cancels

managerVars == <<groups, lifecycle, creating, made, published>>
vars == <<groups, lifecycle, creating, made, published, node, handle,
          transport, op, shut, rpc, sent, failures, cancels>>

Empty == "empty"    \* shutdown_result is not set, nobody is setting it

\* An operation that has returned, a call that has not begun or has failed.
Over    == [pc |-> "done", at |-> 0]
NoCall  == [pc |-> "none", at |-> 0, corr |-> 0, answer |-> None]
Failed  == [NoCall EXCEPT !.pc = "failed"]

Init ==
  /\ groups = 0 /\ lifecycle = None /\ creating = 0 /\ made = 0
  /\ published = {}
  /\ node = [i \in Incarnations |-> "none"]
  /\ handle = [i \in Incarnations |->
       [accepting |-> TRUE, readers |-> {}, queue |-> <<>>, writer |-> None,
        shutdown_result |-> Empty]]
  /\ transport = [i \in Incarnations |->
       [accepting_rpcs |-> TRUE, next_corr |-> 1, pending |-> {}]]
  /\ op = [o \in Proposals |-> [pc |-> "new", at |-> 0]]
  /\ shut = [c \in Shutters |-> [pc |-> "idle", at |-> 0]]
  /\ rpc = [c \in Callers |-> NoCall]
  /\ sent = {}
  /\ failures = 0 /\ cancels = 0

-----------------------------------------------------------------------------
(* GroupLifecycle::acquire.  operation_gate is tokio's RwLock, which serves*)
(* its queue in order: a reader behind a waiting writer waits.             *)

\* The first test of accepting.
Begin(o, i) ==
  /\ op[o].pc = "new" /\ i \in published
  /\ op' = [op EXCEPT ![o] = IF handle[i].accepting
                              THEN [pc |-> "checked", at |-> i] ELSE Over]
  /\ UNCHANGED <<managerVars, node, handle, transport, shut, rpc, sent,
                 failures, cancels>>

\* operation_gate.read() is polled for the first time.
Enqueue(o) ==
  /\ op[o].pc = "checked"
  /\ handle' = [handle EXCEPT ![op[o].at].queue = Append(@, o)]
  /\ op' = [op EXCEPT ![o].pc = "queued"]
  /\ UNCHANGED <<managerVars, node, transport, shut, rpc, sent, failures,
                 cancels>>

\* Mutant of Admitted: accepting is not tested again under the permit.
Admitted_Unchecked(i) == TRUE

\* The second test of accepting.
Admitted(i) == handle[i].accepting

\* The permit is granted; without admission it is dropped at once.
Acquire(o) ==
  LET i == op[o].at
      h == handle[i]
  IN  /\ op[o].pc = "queued"
      /\ h.queue # <<>> /\ Head(h.queue) = o /\ h.writer = None
      /\ handle' = [handle EXCEPT ![i] = [h EXCEPT !.queue = Tail(h.queue),
                      !.readers = IF Admitted(i) THEN h.readers \union {o}
                                  ELSE h.readers]]
      /\ op' = [op EXCEPT ![o] = IF Admitted(i) THEN [@ EXCEPT !.pc = "held"]
                                  ELSE Over]
      /\ UNCHANGED <<managerVars, node, transport, shut, rpc, sent, failures,
                     cancels>>

\* propose waits for proposal_gate.
Proposing(i) == {o \in Proposals : op[o].pc = "running" /\ op[o].at = i}
Run(o) ==
  /\ op[o].pc = "held"
  /\ Cardinality(Proposing(op[o].at)) < proposal_concurrency
  /\ op' = [op EXCEPT ![o].pc = "running"]
  /\ UNCHANGED <<managerVars, node, handle, transport, shut, rpc, sent,
                 failures, cancels>>

\* The proposal returns, answered or because this is not the leader, and its
\* permits are dropped.
Finish(o) ==
  /\ op[o].pc = "running" /\ rpc[o].pc \in {"none", "answered"}
  /\ op' = [op EXCEPT ![o] = Over]
  /\ rpc' = [rpc EXCEPT ![o] = NoCall]
  /\ handle' = [handle EXCEPT ![op[o].at].readers = @ \ {o}]
  /\ UNCHANGED <<managerVars, node, transport, shut, sent, failures, cancels>>

-----------------------------------------------------------------------------
(* send_rpc and consume_incoming_from.                                     *)

Entry(c) == [corr |-> rpc[c].corr, by |-> c,
             type |-> IF c \in Proposals THEN "append" ELSE "vote"]
Unregister(c) ==
  transport' = [transport EXCEPT ![rpc[c].at].pending = @ \ {Entry(c)}]
MayCall(c, i) ==
  IF c \in Proposals THEN op[c].pc = "running" /\ op[c].at = i
  ELSE node[i] = "running"

\* The first test of accepting_rpcs, and the correlation id.
Admit(c, i) ==
  /\ rpc[c].pc = "none" /\ MayCall(c, i)
  /\ \/ /\ transport[i].accepting_rpcs
        /\ rpc' = [rpc EXCEPT ![c] = [pc |-> "admitted", at |-> i, answer |-> None,
                                      corr |-> transport[i].next_corr]]
        /\ transport' = [transport EXCEPT ![i].next_corr = @ + 1]
     \/ /\ ~transport[i].accepting_rpcs
        /\ rpc' = [rpc EXCEPT ![c] = Failed]
        /\ UNCHANGED transport
  /\ UNCHANGED <<managerVars, node, handle, op, shut, sent, failures, cancels>>

\* Mutant of Register: accepting_rpcs is not tested again under the lock.
Register_Unchecked(c) ==
  /\ rpc[c].pc = "admitted"
  /\ rpc' = [rpc EXCEPT ![c].pc = "registered"]
  /\ transport' = [transport EXCEPT ![rpc[c].at].pending = @ \union {Entry(c)}]
  /\ UNCHANGED <<managerVars, node, handle, op, shut, sent, failures, cancels>>

\* The second test, under the lock of pending.
Register(c) ==
  /\ rpc[c].pc = "admitted"
  /\ \/ /\ transport[rpc[c].at].accepting_rpcs
        /\ rpc' = [rpc EXCEPT ![c].pc = "registered"]
        /\ transport' = [transport EXCEPT ![rpc[c].at].pending = @ \union {Entry(c)}]
     \/ /\ ~transport[rpc[c].at].accepting_rpcs
        /\ rpc' = [rpc EXCEPT ![c] = Failed]
        /\ UNCHANGED transport
  /\ UNCHANGED <<managerVars, node, handle, op, shut, sent, failures, cancels>>

\* backend.send succeeds.
Send(c) ==
  /\ rpc[c].pc = "registered"
  /\ rpc' = [rpc EXCEPT ![c].pc = "waiting"]
  /\ sent' = sent \union {[entry |-> Entry(c), at |-> rpc[c].at]}
  /\ UNCHANGED <<managerVars, node, handle, transport, op, shut,
                 failures, cancels>>

\* Mutant of CallFails: the registration outlives the call.
CallFails_Leaks(c) ==
  /\ rpc[c].pc \in {"registered", "waiting"} /\ failures < MaxFailures
  /\ rpc' = [rpc EXCEPT ![c] = Failed]
  /\ failures' = failures + 1
  /\ UNCHANGED <<managerVars, node, handle, transport, op, shut, sent, cancels>>

\* backend.send fails, or no response comes within hard_ttl: the call returns
\* and PendingRegistration is dropped.
CallFails(c) ==
  /\ rpc[c].pc \in {"registered", "waiting"} /\ failures < MaxFailures
  /\ Unregister(c)
  /\ rpc' = [rpc EXCEPT ![c] = Failed]
  /\ failures' = failures + 1
  /\ UNCHANGED <<managerVars, node, handle, op, shut, sent, cancels>>

\* "response channel closed": the entry was cleared by cancel_pending_rpcs.
CallCancelled(c) ==
  /\ rpc[c].pc = "waiting" /\ Entry(c) \notin transport[rpc[c].at].pending
  /\ rpc' = [rpc EXCEPT ![c] = Failed]
  /\ UNCHANGED <<managerVars, node, handle, transport, op, shut, sent,
                 failures, cancels>>

\* OpenRaft replicates again after a failed RPC.
Retry(o) ==
  /\ op[o].pc = "running" /\ rpc[o].pc = "failed"
  /\ rpc' = [rpc EXCEPT ![o] = NoCall]
  /\ UNCHANGED <<managerVars, node, handle, transport, op, shut, sent,
                 failures, cancels>>

\* A response goes to the incarnation that is routable, admission or not.
Deliverable(i) == i # 0

\* Mutant of Matches: the correlation id is not compared.
Matches_AnyCorr(e, q) == e.type = q.entry.type

\* consume_incoming_from's tests; there is one peer.
Matches(e, q) == e.corr = q.entry.corr /\ e.type = q.entry.type

\* dispatch_message of a response, which carries the correlation id and the type
\* of the request it answers: the pending entry with that id, from the same peer
\* and of the same type, is removed and its waiter woken.
Deliver(q) ==
  /\ q \in sent /\ Deliverable(groups)
  /\ \E e \in transport[groups].pending :
       /\ Matches(e, q)
       /\ transport' = [transport EXCEPT ![groups].pending = @ \ {e}]
       /\ rpc' = [rpc EXCEPT ![e.by] = [@ EXCEPT !.pc = "answered", !.answer = q]]
  /\ UNCHANGED <<managerVars, node, handle, op, shut, sent, failures, cancels>>

-----------------------------------------------------------------------------
(* GroupHandle::shutdown.                                                  *)

\* close_admission, then shutdown_result.get_or_init.
CloseAdmission(c, i) ==
  /\ handle' = [handle EXCEPT ![i].accepting = FALSE]
  /\ shut' = [shut EXCEPT ![c] = [pc |-> "cell", at |-> i]]

Shutdown(c, i) ==
  /\ shut[c].pc = "idle" /\ i \in published
  /\ CloseAdmission(c, i)
  /\ UNCHANGED <<managerVars, node, transport, op, rpc, sent, failures, cancels>>

\* The first caller runs the shutdown and asks for the write lock; the others
\* wait for its result.
EnterCell(c) ==
  LET i == shut[c].at
      h == handle[i]
  IN  /\ shut[c].pc = "cell"
      /\ \/ /\ h.shutdown_result = Empty
            /\ handle' = [handle EXCEPT ![i] =
                 [h EXCEPT !.shutdown_result = c, !.queue = Append(h.queue, c)]]
            /\ shut' = [shut EXCEPT ![c].pc = "drain"]
         \/ /\ h.shutdown_result \in {"ok", "err"}
            /\ shut' = [shut EXCEPT ![c].pc = "returned"]
            /\ UNCHANGED handle
      /\ UNCHANGED <<managerVars, node, transport, op, rpc, sent, failures,
                     cancels>>

\* Every permit is back.
Drain(c) ==
  LET i == shut[c].at
      h == handle[i]
  IN  /\ shut[c].pc = "drain"
      /\ h.queue # <<>> /\ Head(h.queue) = c
      /\ h.readers = {} /\ h.writer = None
      /\ handle' = [handle EXCEPT ![i] =
                      [h EXCEPT !.queue = Tail(h.queue), !.writer = c]]
      /\ shut' = [shut EXCEPT ![c].pc = "drained"]
      /\ UNCHANGED <<managerVars, node, transport, op, rpc, sent, failures,
                     cancels>>

\* close_transport_admission.
CloseTransport(c) ==
  /\ shut[c].pc = "drained"
  /\ transport' = [transport EXCEPT ![shut[c].at].accepting_rpcs = FALSE]
  /\ shut' = [shut EXCEPT ![c].pc = "closed"]
  /\ UNCHANGED <<managerVars, node, handle, op, rpc, sent, failures, cancels>>

\* cancel_pending_transport_rpcs.
CancelPending(c) ==
  /\ shut[c].pc = "closed"
  /\ transport' = [transport EXCEPT ![shut[c].at].pending = {}]
  /\ shut' = [shut EXCEPT ![c].pc = "stopping"]
  /\ UNCHANGED <<managerVars, node, handle, op, rpc, sent, failures, cancels>>

\* node.shutdown() has ended: its result is kept for every later caller.
StopNode(c) ==
  LET i == shut[c].at
  IN  /\ shut[c].pc = "stopping"
      /\ node' = [node EXCEPT ![i] = "stopped"]
      /\ \E result \in {"ok", "err"} :
           handle' = [handle EXCEPT ![i] =
                        [@ EXCEPT !.shutdown_result = result, !.writer = None]]
      /\ shut' = [shut EXCEPT ![c].pc = "returned"]
      /\ UNCHANGED <<managerVars, transport, op, rpc, sent, failures, cancels>>

Return(c) ==
  /\ c \in Closers /\ shut[c].pc = "returned"
  /\ shut' = [shut EXCEPT ![c] = [pc |-> "idle", at |-> 0]]
  /\ UNCHANGED <<managerVars, node, handle, transport, op, rpc, sent, failures,
                 cancels>>

\* The queue without a waiter, which is in it at most once.
Without(q, t) ==
  IF \A k \in 1..Len(q) : q[k] # t THEN q
  ELSE LET at == CHOOSE k \in 1..Len(q) : q[k] = t
       IN  SubSeq(q, 1, at - 1) \o SubSeq(q, at + 1, Len(q))

\* The future of a caller is dropped at an await: the lock and the cell are
\* given up, and the next caller starts over.
DropShutdown(c) ==
  LET i == shut[c].at
      h == handle[i]
  IN  /\ shut[c].pc \in {"cell", "drain", "stopping"} /\ cancels < MaxCancels
      /\ handle' = [handle EXCEPT ![i] =
           [h EXCEPT !.queue = Without(h.queue, c),
                     !.writer = IF h.writer = c THEN None ELSE h.writer,
                     !.shutdown_result = IF h.shutdown_result = c THEN Empty
                                         ELSE h.shutdown_result]]
      /\ shut' = [shut EXCEPT ![c] = [pc |-> "idle", at |-> 0]]
      /\ lifecycle' = IF lifecycle = c THEN None ELSE lifecycle
      /\ cancels' = cancels + 1
      /\ UNCHANGED <<groups, creating, made, published, node, transport, op,
                     rpc, sent, failures>>

-----------------------------------------------------------------------------
(* MultiRaftManager.                                                       *)

\* create_group up to RaftNode::new; an existing group is refused.
CreateGroup(m) ==
  /\ lifecycle = None /\ shut[m].pc = "idle"
  /\ groups = 0 /\ made < MaxIncarnations
  /\ lifecycle' = m
  /\ made' = made + 1 /\ creating' = made + 1
  /\ node' = [node EXCEPT ![made + 1] = "running"]
  /\ UNCHANGED <<groups, published, handle, transport, op, shut, rpc, sent,
                 failures, cancels>>

\* initialize succeeds, the storage is committed, the group becomes routable.
Publish(m) ==
  /\ lifecycle = m /\ creating # 0
  /\ groups' = creating /\ published' = published \union {creating}
  /\ creating' = 0 /\ lifecycle' = None
  /\ UNCHANGED <<made, node, handle, transport, op, shut, rpc, sent, failures,
                 cancels>>

\* initialize fails: the node is shut down and the storage rolled back.
AbortCreate(m) ==
  /\ lifecycle = m /\ creating # 0 /\ failures < MaxFailures
  /\ node' = [node EXCEPT ![creating] = "stopped"]
  /\ creating' = 0 /\ lifecycle' = None
  /\ failures' = failures + 1
  /\ UNCHANGED <<groups, made, published, handle, transport, op, shut, rpc,
                 sent, cancels>>

\* Mutant of RemoveGroup: the group leaves the map before it is shut down.
RemoveGroup_UnmapsFirst(m) ==
  /\ lifecycle = None /\ shut[m].pc = "idle" /\ groups # 0
  /\ lifecycle' = None
  /\ groups' = 0
  /\ CloseAdmission(m, groups)
  /\ UNCHANGED <<creating, made, published, node, transport, op, rpc, sent,
                 failures, cancels>>

\* remove_group: the lifecycle mutex is held while the group shuts down.
RemoveGroup(m) ==
  /\ lifecycle = None /\ shut[m].pc = "idle" /\ groups # 0
  /\ lifecycle' = m
  /\ CloseAdmission(m, groups)
  /\ UNCHANGED <<groups, creating, made, published, node, transport, op, rpc,
                 sent, failures, cancels>>

\* The group leaves the map when its shutdown succeeded.
FinishRemove(m) ==
  /\ m \in Managers /\ shut[m].pc = "returned"
  /\ groups' = IF handle[shut[m].at].shutdown_result = "ok" THEN 0 ELSE groups
  /\ lifecycle' = None
  /\ shut' = [shut EXCEPT ![m] = [pc |-> "idle", at |-> 0]]
  /\ UNCHANGED <<creating, made, published, node, handle, transport, op, rpc,
                 sent, failures, cancels>>

-----------------------------------------------------------------------------
OperationStep(o) ==
  Enqueue(o) \/ Acquire(o) \/ Run(o) \/ Finish(o)

CallStep(c) ==
  \/ Register(c) \/ Send(c) \/ CallCancelled(c)
  \/ c \in Proposals /\ Retry(c)

ShutdownStep(c) ==
  \/ EnterCell(c) \/ Drain(c) \/ CloseTransport(c) \/ CancelPending(c)
  \/ StopNode(c) \/ Return(c) \/ FinishRemove(c)

Next ==
  \/ \E o \in Proposals :
       OperationStep(o) \/ \E i \in Incarnations : Begin(o, i)
  \/ \E c \in Callers :
       CallStep(c) \/ CallFails(c) \/ \E i \in Incarnations : Admit(c, i)
  \/ \E q \in sent : Deliver(q)
  \/ \E c \in Shutters : ShutdownStep(c) \/ DropShutdown(c)
  \/ \E c \in Closers, i \in Incarnations : Shutdown(c, i)
  \/ \E m \in Managers :
       CreateGroup(m) \/ Publish(m) \/ AbortCreate(m) \/ RemoveGroup(m)

Spec == Init /\ [][Next]_vars

\* The tasks a shutdown waits for keep running and responses arrive; calls
\* begin, fail or are dropped only as their callers and the network please, and
\* nothing is assumed of OpenRaft's own calls.  At most MaxFailures RPCs fail,
\* so a proposal finds its quorum at last.
Fairness ==
  /\ \A o \in Proposals : WF_vars(OperationStep(o))
  /\ \A o \in Proposals : WF_vars(CallStep(o))
  /\ WF_vars(\E q \in sent : Deliver(q))
  /\ \A c \in Shutters : WF_vars(ShutdownStep(c))

FairSpec == Spec /\ Fairness

-----------------------------------------------------------------------------
(* Properties.                                                             *)

Entries == [corr : Nat, by : Callers, type : {"append", "vote"}]
Messages == [entry : Entries, at : Incarnations]

Handles == [accepting : BOOLEAN, readers : SUBSET Proposals,
            queue : Seq(Proposals \union Shutters),
            writer : Shutters \union {None},
            shutdown_result : Shutters \union {Empty, "ok", "err"}]
Transports == [accepting_rpcs : BOOLEAN, next_corr : Nat,
               pending : SUBSET Entries]
Operations == [pc : {"new", "checked", "queued", "held", "running", "done"},
               at : 0..MaxIncarnations]
Shutdowns == [pc : {"idle", "cell", "drain", "drained", "closed", "stopping",
                    "returned"},
              at : 0..MaxIncarnations]
Calls == [pc : {"none", "admitted", "registered", "waiting", "answered", "failed"},
          at : 0..MaxIncarnations, corr : Nat, answer : Messages \union {None}]

\* Every variable keeps its type.
TypeOK ==
  /\ groups \in 0..MaxIncarnations /\ creating \in 0..MaxIncarnations
  /\ lifecycle \in Managers \union {None}
  /\ made \in 0..MaxIncarnations /\ published \subseteq 1..made
  /\ node \in [Incarnations -> {"none", "running", "stopped"}]
  /\ handle \in [Incarnations -> Handles]
  /\ transport \in [Incarnations -> Transports]
  /\ op \in [Proposals -> Operations]
  /\ shut \in [Shutters -> Shutdowns]
  /\ rpc \in [Callers -> Calls]
  /\ sent \subseteq Messages
  /\ failures \in 0..MaxFailures /\ cancels \in 0..MaxCancels

\* At most one incarnation of the group runs a Raft node: a second one would
\* write the same WAL file (remove_group keeps the group in the map, and the
\* lifecycle mutex, until its node has stopped).
OneNodeRuns ==
  \A i, j \in Incarnations : node[i] = "running" /\ node[j] = "running" => i = j

\* "Shutdown closes admission first, then waits for all existing permits to
\* drain" (group.rs:13): no operation holds a permit once the drain is over,
\* so none runs on a node that is stopping or stopped.
DrainIsExclusive ==
  \A i \in Incarnations :
    handle[i].writer # None \/ handle[i].shutdown_result \in {"ok", "err"} =>
      /\ handle[i].readers = {}
      /\ \A o \in Proposals : op[o].at = i => op[o].pc \notin {"held", "running"}

\* After the shutdown no RPC is pending, and none becomes pending later: the
\* calls that passed the first test of accepting_rpcs fail the second.
NothingPendsAfterShutdown ==
  \A i \in Incarnations :
    handle[i].shutdown_result \in {"ok", "err"} => transport[i].pending = {}

\* A pending entry belongs to a call that still waits for it, and no two have
\* the same correlation id: a call that returns leaves no entry behind, and a
\* response finds at most one waiter.
PendingIsAwaited ==
  \A i \in Incarnations :
    /\ \A e \in transport[i].pending :
         rpc[e.by].pc \in {"registered", "waiting"} /\ rpc[e.by].at = i
           /\ rpc[e.by].corr = e.corr
    /\ \A e, f \in transport[i].pending : e.corr = f.corr => e = f

\* The types, and the pending map with the calls it stands for.
Consistent == TypeOK /\ PendingIsAwaited

\* Within one incarnation a call is woken by the response to its own request.
AnswersTheCall ==
  \A c \in Callers : rpc[c].pc = "answered" /\ rpc[c].answer.at = rpc[c].at =>
    rpc[c].answer.entry = Entry(c)

\* "correlated responses wake the correct pending group RPC" (manager.rs:366),
\* also when the group was removed and created again in between.
WakesTheCorrectCall ==
  \A c \in Callers : rpc[c].pc = "answered" =>
    rpc[c].answer = [entry |-> Entry(c), at |-> rpc[c].at]

\* A call of shutdown or remove_group that has not returned. It does, although
\* operations hold permits, wait for the proposal gate or for responses: "A
\* valid response completes work that already owns a lifecycle permit. It must
\* remain deliverable after shutdown closes admission" (group.rs:133).
ShutdownWaits(c) == shut[c].pc # "idle"

=============================================================================
