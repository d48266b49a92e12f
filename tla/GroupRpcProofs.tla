--------------------------- MODULE GroupRpcProofs ---------------------------
(***************************************************************************)
(* The invariants of GroupRpc, what each step does to the state they speak *)
(* of, and the theorems that follow, for any number of proposals,          *)
(* managers, closers and incarnations, and any number of failures and      *)
(* dropped futures.                                                        *)
(***************************************************************************)
EXTENDS GroupRpc, TLAPS

\* A leaf that names no prover is given thirty seconds of SMT.
USE SMTT(30)

\* The fields of the tasks, of a GroupLifecycle and of a transport.  The proofs
\* reason about them, and look into the records only to say what a step does to
\* each.
OpPc(o)      == op[o].pc
OpAt(o)      == op[o].at
ShutPc(c)    == shut[c].pc
ShutAt(c)    == shut[c].at
Accepting(i) == handle[i].accepting
Readers(i)   == handle[i].readers
Writer(i)    == handle[i].writer
Result(i)    == handle[i].shutdown_result
Node(i)      == node[i]
AcceptsRpcs(i) == transport[i].accepting_rpcs
NextCorr(i)  == transport[i].next_corr
Pending(i)   == transport[i].pending
CallPc(c)    == rpc[c].pc
CallAt(c)    == rpc[c].at
CallCorr(c)  == rpc[c].corr
Answer(c)    == rpc[c].answer

\* The shutdown_result of a group that has been shut down.
Results == {"ok", "err"}
Live(c) == CallPc(c) \in {"admitted", "registered", "waiting", "answered"}

\* What GroupLifecycle and its shutdown rely on.  An operation that is under
\* way, a shutdown that is under way: on a group that was published.
OpsPlaced ==
  \A o \in Proposals :
    OpPc(o) \in {"checked", "queued", "held", "running"} => OpAt(o) \in published
ShuttersPlaced ==
  \A c \in Shutters : ShutPc(c) # "idle" =>
    ShutAt(c) \in published /\ ~Accepting(ShutAt(c))
\* The readers of the gate are the operations with a permit.
ReadersHold ==
  \A i \in Incarnations, o \in Proposals :
    o \in Readers(i) <=> OpAt(o) = i /\ OpPc(o) \in {"held", "running"}
\* Whoever shuts down owns the cell while it works, and the gate once it has
\* drained it.
CellOwner ==
  \A c \in Shutters, i \in Incarnations :
    Result(i) = c <=>
      ShutAt(c) = i /\ ShutPc(c) \in {"drain", "drained", "closed", "stopping"}
GateOwner ==
  \A c \in Shutters, i \in Incarnations :
    Writer(i) = c <=> ShutAt(c) = i /\ ShutPc(c) \in {"drained", "closed", "stopping"}
\* A result is that of a group that was shut down.
HasResult ==
  /\ \A c \in Shutters : ShutPc(c) = "returned" => Result(ShutAt(c)) \in Results
  /\ \A i \in Incarnations : Result(i) \in Results => i \in published /\ ~Accepting(i)
\* No operation has a permit once the gate is drained.
GateIsDrained ==
  \A i \in Incarnations : Writer(i) # None \/ Result(i) \in Results => Readers(i) = {}

LifeInv ==
  /\ OpsPlaced /\ ShuttersPlaced /\ ReadersHold /\ CellOwner /\ GateOwner
  /\ HasResult /\ GateIsDrained

\* What the transport relies on.  A pending entry is that of the call it names,
\* which waits.
PendingIsEntry ==
  \A i \in Incarnations : \A e \in Pending(i) :
    CallPc(e.by) \in {"registered", "waiting"} /\ CallAt(e.by) = i /\ e = Entry(e.by)
\* Correlation ids are not used twice in an incarnation: those given out are
\* below next_corr, and no two calls share one.
CallsNumbered ==
  /\ \A c \in Callers : Live(c) =>
       CallAt(c) \in Incarnations /\ CallCorr(c) < NextCorr(CallAt(c))
  /\ \A q \in sent : q.entry.corr < NextCorr(q.at)
CallsDiffer ==
  \A c, d \in Callers :
    Live(c) /\ Live(d) /\ CallAt(c) = CallAt(d) /\ CallCorr(c) = CallCorr(d) => c = d
\* A request with the correlation id of a call is the request of that call.
SentMatches ==
  \A q \in sent, c \in Callers :
    Live(c) /\ CallAt(c) = q.at /\ CallCorr(c) = q.entry.corr => q.entry = Entry(c)
\* AnswersTheCall.
AnsweredByOwn ==
  \A c \in Callers : CallPc(c) = "answered" /\ Answer(c).at = CallAt(c) =>
    Answer(c).entry = Entry(c)

RpcInv == PendingIsEntry /\ CallsNumbered /\ CallsDiffer /\ SentMatches /\ AnsweredByOwn

\* The transport is closed, then emptied, then the node stops.
CloseInv ==
  /\ \A c \in Shutters : ShutPc(c) \in {"closed", "stopping"} => ~AcceptsRpcs(ShutAt(c))
  /\ \A c \in Shutters : ShutPc(c) = "stopping" => Pending(ShutAt(c)) = {}
  /\ \A i \in Incarnations : Result(i) \in Results => ~AcceptsRpcs(i) /\ Pending(i) = {}

\* What the lifecycle mutex protects: a group that is built, a group that is
\* removed, which is the routable one.
MutexHeld ==
  /\ groups # 0 => groups \in published
  /\ creating # 0 => groups = 0 /\ lifecycle # None
  /\ creating \in 0..made
  /\ \A m \in Managers : ShutPc(m) # "idle" =>
       lifecycle = m /\ groups = ShutAt(m) /\ creating = 0
\* A running node is the routable one or the one being built.
NodesPlaced ==
  /\ \A i \in Incarnations : Node(i) = "running" => i \in {groups, creating}
  /\ \A i \in Incarnations : Result(i) \in Results => Node(i) = "stopped"

ManagerInv == MutexHeld /\ NodesPlaced

GroupInv == TypeOK /\ LifeInv /\ RpcInv /\ CloseInv /\ ManagerInv

-----------------------------------------------------------------------------
(* The records the actions build have their types.                         *)

\* The queue of the gate stays a queue when a waiting future is dropped.
LEMMA WithoutIsSeq ==
  ASSUME NEW S, NEW q \in Seq(S), NEW t
  PROVE  Without(q, t) \in Seq(S)
<1>1. CASE \A k \in 1..Len(q) : q[k] # t
  BY <1>1, Zenon DEF Without
<1>2. CASE ~\A k \in 1..Len(q) : q[k] # t
  <2> DEFINE at == CHOOSE k \in 1..Len(q) : q[k] = t
  <2>1. at \in 1..Len(q) /\ Len(q) \in Nat
    BY <1>2
  <2>2. Without(q, t) = SubSeq(q, 1, at - 1) \o SubSeq(q, at + 1, Len(q))
    BY <1>2, Zenon DEF Without
  <2> HIDE DEF at
  <2>3. SubSeq(q, 1, at - 1) \in Seq(S) /\ SubSeq(q, at + 1, Len(q)) \in Seq(S)
    BY <2>1
  <2> QED
    BY <2>2, <2>3
<1> QED
  BY <1>1, <1>2, Zenon

\* What an update of one entry of a function does to its type.
LEMMA Update ==
  ASSUME NEW D, NEW R, NEW f \in [D -> R], NEW x, NEW r \in R
  PROVE  [f EXCEPT ![x] = r] \in [D -> R]
BY Zenon

\* The updates of a GroupLifecycle.
LEMMA HandleTypes ==
  ASSUME NEW h \in Handles
  PROVE  /\ [h EXCEPT !.accepting = FALSE] \in Handles
         /\ \A t \in Proposals \union Shutters : [h EXCEPT !.queue = Append(@, t)] \in Handles
         /\ \A o : [h EXCEPT !.readers = @ \ {o}] \in Handles
         /\ h.queue # <<>> =>
              /\ [h EXCEPT !.queue = Tail(@), !.readers = @] \in Handles
              /\ \A o \in Proposals :
                   [h EXCEPT !.queue = Tail(@), !.readers = @ \union {o}] \in Handles
              /\ \A c \in Shutters : [h EXCEPT !.queue = Tail(@), !.writer = c] \in Handles
         /\ \A c \in Shutters :
              [h EXCEPT !.shutdown_result = c, !.queue = Append(@, c)] \in Handles
         /\ \A r \in Results : [h EXCEPT !.shutdown_result = r, !.writer = None] \in Handles
         /\ \A c : [h EXCEPT !.queue = Without(@, c),
                             !.writer = IF @ = c THEN None ELSE @,
                             !.shutdown_result = IF @ = c THEN Empty ELSE @] \in Handles
<1>1. h.queue \in Seq(Proposals \union Shutters)
  BY Zenon DEF Handles
<1>2. \A t \in Proposals \union Shutters : Append(h.queue, t) \in Seq(Proposals \union Shutters)
  BY <1>1
<1>3. h.queue # <<>> => Tail(h.queue) \in Seq(Proposals \union Shutters)
  BY <1>1
<1>4. \A c : Without(h.queue, c) \in Seq(Proposals \union Shutters)
  BY <1>1, WithoutIsSeq, Zenon
<1>5. [h EXCEPT !.accepting = FALSE] \in Handles
  BY Zenon DEF Handles
<1>6. \A t \in Proposals \union Shutters : [h EXCEPT !.queue = Append(@, t)] \in Handles
  BY <1>2, Zenon DEF Handles
<1>7. \A o : [h EXCEPT !.readers = @ \ {o}] \in Handles
  BY Zenon DEF Handles
<1>8. ASSUME h.queue # <<>>, NEW o \in Proposals
      PROVE  [h EXCEPT !.queue = Tail(@), !.readers = @ \union {o}] \in Handles
  BY <1>3, <1>8, Zenon DEF Handles
<1>9. ASSUME h.queue # <<>>
      PROVE  [h EXCEPT !.queue = Tail(@), !.readers = @] \in Handles
  BY <1>3, <1>9, Zenon DEF Handles
<1>10. ASSUME h.queue # <<>>, NEW c \in Shutters
       PROVE  [h EXCEPT !.queue = Tail(@), !.writer = c] \in Handles
  BY <1>3, <1>10, Zenon DEF Handles
<1>11. \A c \in Shutters :
         [h EXCEPT !.shutdown_result = c, !.queue = Append(@, c)] \in Handles
  BY <1>2, Zenon DEF Handles
<1>12. \A r \in Results : [h EXCEPT !.shutdown_result = r, !.writer = None] \in Handles
  BY Zenon DEF Handles, Results
<1>13. \A c : [h EXCEPT !.queue = Without(@, c),
                        !.writer = IF @ = c THEN None ELSE @,
                        !.shutdown_result = IF @ = c THEN Empty ELSE @] \in Handles
  BY <1>4, Zenon DEF Handles
<1> QED
  BY <1>5, <1>6, <1>7, <1>8, <1>9, <1>10, <1>11, <1>12, <1>13, Zenon

\* The updates of a transport.
LEMMA TransportTypes ==
  ASSUME NEW t \in Transports
  PROVE  /\ [t EXCEPT !.next_corr = @ + 1] \in Transports
         /\ \A e \in Entries : [t EXCEPT !.pending = @ \union {e}] \in Transports
         /\ \A e : [t EXCEPT !.pending = @ \ {e}] \in Transports
         /\ [t EXCEPT !.accepting_rpcs = FALSE] \in Transports
         /\ [t EXCEPT !.pending = {}] \in Transports
<1>1. [t EXCEPT !.next_corr = @ + 1] \in Transports
  BY DEF Transports
<1>2. \A e \in Entries : [t EXCEPT !.pending = @ \union {e}] \in Transports
  BY Zenon DEF Transports
<1>3. \A e : [t EXCEPT !.pending = @ \ {e}] \in Transports
  BY Zenon DEF Transports
<1>4. [t EXCEPT !.accepting_rpcs = FALSE] \in Transports
  BY Zenon DEF Transports
<1>5. [t EXCEPT !.pending = {}] \in Transports
  BY Zenon DEF Transports
<1> QED
  BY <1>1, <1>2, <1>3, <1>4, <1>5, Zenon

\* The updates of an operation, of a shutdown and of a call.
LEMMA OperationTypes ==
  /\ Over \in Operations
  /\ \A i \in Incarnations : [pc |-> "checked", at |-> i] \in Operations
  /\ \A o \in Operations : \A p \in {"queued", "held", "running"} :
       [o EXCEPT !.pc = p] \in Operations
BY GroupAssumption DEF Operations, Over, Incarnations

LEMMA ShutdownTypes ==
  /\ [pc |-> "idle", at |-> 0] \in Shutdowns
  /\ \A i \in Incarnations : [pc |-> "cell", at |-> i] \in Shutdowns
  /\ \A c \in Shutdowns : \A p \in {"drain", "drained", "closed", "stopping", "returned"} :
       [c EXCEPT !.pc = p] \in Shutdowns
BY GroupAssumption DEF Shutdowns, Incarnations

LEMMA CallTypes ==
  /\ NoCall \in Calls /\ Failed \in Calls
  /\ \A i \in Incarnations, n \in Nat :
       [pc |-> "admitted", at |-> i, answer |-> None, corr |-> n] \in Calls
  /\ \A c \in Calls : \A p \in {"registered", "waiting"} : [c EXCEPT !.pc = p] \in Calls
  /\ \A c \in Calls, q \in Messages :
       [c EXCEPT !.pc = "answered", !.answer = q] \in Calls
<1>1. NoCall \in Calls
  BY GroupAssumption DEF Calls, NoCall
<1>2. Failed \in Calls
  BY GroupAssumption DEF Calls, NoCall, Failed
<1>3. \A i \in Incarnations, n \in Nat :
        [pc |-> "admitted", at |-> i, answer |-> None, corr |-> n] \in Calls
  BY GroupAssumption DEF Calls, Incarnations
<1>4. \A c \in Calls : \A p \in {"registered", "waiting"} : [c EXCEPT !.pc = p] \in Calls
  BY Zenon DEF Calls
<1>5. \A c \in Calls, q \in Messages :
        [c EXCEPT !.pc = "answered", !.answer = q] \in Calls
  BY Zenon DEF Calls
<1> QED
  BY <1>1, <1>2, <1>3, <1>4, <1>5, Zenon

-----------------------------------------------------------------------------
(* Every step preserves the types.                                         *)

\* Where the tasks are.
LEMMA Places ==
  ASSUME GroupInv
  PROVE  /\ \A i \in published : i \in Incarnations
         /\ \A o \in Proposals : op[o].pc \in {"checked", "queued", "held", "running"} =>
              op[o].at \in Incarnations
         /\ \A c \in Shutters : shut[c].pc # "idle" => shut[c].at \in Incarnations
         /\ \A c \in Callers : rpc[c].pc \in {"admitted", "registered", "waiting"} =>
              rpc[c].at \in Incarnations
         /\ \A c \in Callers : Entry(c) \in Entries
         /\ groups # 0 => groups \in Incarnations
         /\ creating # 0 => creating \in Incarnations
<1>1. \A i \in published : i \in Incarnations
  BY GroupAssumption DEF GroupInv, TypeOK, Incarnations
<1>2. \A c \in Callers : Entry(c) \in Entries
  BY Zenon DEF GroupInv, TypeOK, Entry, Entries, Calls
<1>3. /\ groups # 0 => groups \in Incarnations
      /\ creating # 0 => creating \in Incarnations
  BY GroupAssumption DEF GroupInv, TypeOK, Incarnations
<1> QED
  BY <1>1, <1>2, <1>3, Zenon DEF GroupInv, LifeInv, OpsPlaced, ShuttersPlaced, RpcInv,
     CallsNumbered, Live, OpPc, OpAt, ShutPc, ShutAt, CallPc, CallAt

LEMMA TypeStep == GroupInv /\ [Next]_vars => TypeOK'
<1> SUFFICES ASSUME GroupInv, [Next]_vars PROVE TypeOK'
  BY Zenon
<1> USE GroupAssumption DEF GroupInv
<1>0. /\ \A i \in published : i \in Incarnations
      /\ \A o \in Proposals : op[o].pc \in {"checked", "queued", "held", "running"} =>
           op[o].at \in Incarnations
      /\ \A c \in Shutters : shut[c].pc # "idle" => shut[c].at \in Incarnations
      /\ \A c \in Callers : rpc[c].pc \in {"admitted", "registered", "waiting"} =>
              rpc[c].at \in Incarnations
      /\ \A c \in Callers : Entry(c) \in Entries
      /\ groups # 0 => groups \in Incarnations
      /\ creating # 0 => creating \in Incarnations
  BY Places, Zenon
<1>1. ASSUME NEW o \in Proposals, Enqueue(o) PROVE TypeOK'
  <2>1. handle' \in [Incarnations -> Handles]
    BY <1>1, <1>0, HandleTypes, Zenon DEF TypeOK, Enqueue
  <2>2. op' \in [Proposals -> Operations]
    BY <1>1, <1>0, OperationTypes, Zenon DEF TypeOK, Enqueue
  <2> QED
    BY <1>1, <2>1, <2>2, Zenon DEF TypeOK, Enqueue, managerVars
<1>2. ASSUME NEW o \in Proposals, Acquire(o) PROVE TypeOK'
  <2>1. handle' \in [Incarnations -> Handles]
    <3> DEFINE h == handle[op[o].at]
    <3>1. op[o].at \in Incarnations /\ h \in Handles /\ h.queue # <<>>
      BY <1>2, <1>0, Zenon DEF TypeOK, Acquire
    <3>2. handle' = [handle EXCEPT ![op[o].at] = [h EXCEPT !.queue = Tail(@),
                       !.readers = IF h.accepting THEN @ \union {o} ELSE @]]
      BY <1>2, Zenon DEF Acquire, Admitted
    <3>3. [h EXCEPT !.queue = Tail(@),
             !.readers = IF h.accepting THEN @ \union {o} ELSE @] \in Handles
      <4> HIDE DEF h
      <4>1. CASE h.accepting
        BY <3>1, <4>1, HandleTypes, Zenon
      <4>2. CASE ~h.accepting
        BY <3>1, <4>2, HandleTypes, Zenon
      <4> QED BY <4>1, <4>2, Zenon
    <3> QED
      BY <3>2, <3>3, Update, Zenon DEF TypeOK
  <2>2. op' \in [Proposals -> Operations]
    BY <1>2, <1>0, OperationTypes, Zenon DEF TypeOK, Acquire, Admitted
  <2> QED
    BY <1>2, <2>1, <2>2, Zenon DEF TypeOK, Acquire, Admitted, managerVars
<1>3. ASSUME NEW o \in Proposals, Run(o) PROVE TypeOK'
  <2>1. op' \in [Proposals -> Operations]
    BY <1>3, <1>0, OperationTypes, Zenon DEF TypeOK, Run
  <2> QED
    BY <1>3, <2>1, Zenon DEF TypeOK, Run, managerVars
<1>4. ASSUME NEW o \in Proposals, Finish(o) PROVE TypeOK'
  <2>1. op' \in [Proposals -> Operations]
    BY <1>4, <1>0, OperationTypes, Zenon DEF TypeOK, Finish
  <2>2. rpc' \in [Callers -> Calls]
    BY <1>4, <1>0, CallTypes, Zenon DEF TypeOK, Finish, Callers
  <2>3. handle' \in [Incarnations -> Handles]
    BY <1>4, <1>0, HandleTypes, Zenon DEF TypeOK, Finish
  <2> QED
    BY <1>4, <2>1, <2>2, <2>3, Zenon DEF TypeOK, Finish, managerVars
<1>5. ASSUME NEW o \in Proposals, NEW i \in Incarnations, Begin(o, i) PROVE TypeOK'
  <2>1. op' \in [Proposals -> Operations]
    BY <1>5, <1>0, OperationTypes, Zenon DEF TypeOK, Begin
  <2> QED
    BY <1>5, <2>1, Zenon DEF TypeOK, Begin, managerVars
<1>6. ASSUME NEW c \in Callers, Register(c) PROVE TypeOK'
  <2>1. rpc' \in [Callers -> Calls]
    <3>1. \/ rpc' = [rpc EXCEPT ![c] = [rpc[c] EXCEPT !.pc = "registered"]]
          \/ rpc' = [rpc EXCEPT ![c] = Failed]
      BY <1>6, Zenon DEF Register
    <3>2. [rpc[c] EXCEPT !.pc = "registered"] \in Calls /\ Failed \in Calls
      BY CallTypes, Zenon DEF TypeOK
    <3> QED
      BY <3>1, <3>2, Update, Zenon DEF TypeOK
  <2>2. transport' \in [Incarnations -> Transports]
    <3>1. rpc[c].at \in Incarnations /\ transport[rpc[c].at] \in Transports
      BY <1>6, <1>0, Zenon DEF TypeOK, Register
    <3>2. [transport[rpc[c].at] EXCEPT !.pending = @ \union {Entry(c)}] \in Transports
      BY <1>0, <3>1, TransportTypes, Zenon
    <3> QED
      BY <1>6, <3>1, <3>2, Zenon DEF TypeOK, Register
  <2> QED
    BY <1>6, <2>1, <2>2, Zenon DEF TypeOK, Register, managerVars
<1>7. ASSUME NEW c \in Callers, Send(c) PROVE TypeOK'
  <2>1. rpc' \in [Callers -> Calls]
    BY <1>7, <1>0, CallTypes, Zenon DEF TypeOK, Send, Callers
  <2>2. sent' \subseteq Messages
    BY <1>7, <1>0 DEF TypeOK, Send, Messages
  <2> QED
    BY <1>7, <2>1, <2>2, Zenon DEF TypeOK, Send, managerVars
<1>8. ASSUME NEW c \in Callers, CallCancelled(c) PROVE TypeOK'
  <2>1. rpc' \in [Callers -> Calls]
    BY <1>8, <1>0, CallTypes, Zenon DEF TypeOK, CallCancelled, Callers
  <2> QED
    BY <1>8, <2>1, Zenon DEF TypeOK, CallCancelled, managerVars
<1>9. ASSUME NEW c \in Callers, CallFails(c) PROVE TypeOK'
  <2>1. transport' \in [Incarnations -> Transports]
    BY <1>9, <1>0, TransportTypes, Zenon DEF TypeOK, CallFails, Unregister
  <2>2. rpc' \in [Callers -> Calls]
    BY <1>9, <1>0, CallTypes, Zenon DEF TypeOK, CallFails, Unregister, Callers
  <2> QED
    BY <1>9, <2>1, <2>2 DEF TypeOK, CallFails, Unregister, managerVars
<1>10. ASSUME NEW c \in Proposals, Retry(c) PROVE TypeOK'
  <2>1. rpc' \in [Callers -> Calls]
    BY <1>10, <1>0, CallTypes, Zenon DEF TypeOK, Retry, Callers
  <2> QED
    BY <1>10, <2>1, Zenon DEF TypeOK, Retry, managerVars
<1>11. ASSUME NEW c \in Callers, NEW i \in Incarnations, Admit(c, i) PROVE TypeOK'
  <2>1. rpc' \in [Callers -> Calls]
    <3>1. transport[i].next_corr \in Nat
      BY Zenon DEF TypeOK, Transports
    <3>2. \/ rpc' = [rpc EXCEPT ![c] = [pc |-> "admitted", at |-> i, answer |-> None,
                                        corr |-> transport[i].next_corr]]
          \/ rpc' = [rpc EXCEPT ![c] = Failed]
      BY <1>11, Zenon DEF Admit
    <3>3. /\ [pc |-> "admitted", at |-> i, answer |-> None,
              corr |-> transport[i].next_corr] \in Calls
          /\ Failed \in Calls
      BY <3>1, CallTypes, Zenon
    <3> QED
      BY <3>2, <3>3, Update, ZenonT(30) DEF TypeOK
  <2>2. transport' \in [Incarnations -> Transports]
    <3>1. [transport[i] EXCEPT !.next_corr = @ + 1] \in Transports
      BY TransportTypes, Zenon DEF TypeOK
    <3> QED
      BY <1>11, <3>1, Zenon DEF TypeOK, Admit
  <2> QED
    BY <1>11, <2>1, <2>2, Zenon DEF TypeOK, Admit, managerVars
<1>12. ASSUME NEW q \in sent, Deliver(q) PROVE TypeOK'
  <2>1. transport' \in [Incarnations -> Transports]
    <3>1. groups \in Incarnations
      BY <1>12, <1>0, Zenon DEF Deliver, Deliverable
    <3>2. \A e : [transport[groups] EXCEPT !.pending = @ \ {e}] \in Transports
      BY <3>1, TransportTypes, Zenon DEF TypeOK
    <3> QED
      BY <1>12, <3>1, <3>2 DEF TypeOK, Deliver
  <2>2. rpc' \in [Callers -> Calls]
    <3>1. groups \in Incarnations /\ q \in Messages
      BY <1>12, <1>0, Zenon DEF Deliver, Deliverable, TypeOK
    <3>2. PICK e \in transport[groups].pending :
            rpc' = [rpc EXCEPT ![e.by] = [@ EXCEPT !.pc = "answered", !.answer = q]]
      BY <1>12, Zenon DEF Deliver
    <3>3. e.by \in Callers
      BY <3>1, <3>2 DEF TypeOK, Transports, Entries
    <3>4. [rpc[e.by] EXCEPT !.pc = "answered", !.answer = q] \in Calls
      BY <3>1, <3>3, CallTypes, Zenon DEF TypeOK
    <3> QED
      BY <3>2, <3>4, Zenon DEF TypeOK
  <2> QED
    BY <1>12, <2>1, <2>2, Zenon DEF TypeOK, Deliver, Deliverable, Matches, managerVars
<1>13. ASSUME NEW c \in Shutters, EnterCell(c) PROVE TypeOK'
  <2>1. handle' \in [Incarnations -> Handles]
    <3> DEFINE h == handle[shut[c].at]
    <3>1. h \in Handles
      BY <1>13, <1>0, Zenon DEF TypeOK, EnterCell
    <3>2. \/ handle' = [handle EXCEPT ![shut[c].at] =
                          [h EXCEPT !.shutdown_result = c, !.queue = Append(@, c)]]
          \/ handle' = handle
      BY <1>13, Zenon DEF EnterCell
    <3>3. [h EXCEPT !.shutdown_result = c, !.queue = Append(@, c)] \in Handles
      BY <3>1, HandleTypes, Zenon
    <3> QED
      BY <3>2, <3>3, Update, ZenonT(30) DEF TypeOK
  <2>2. shut' \in [Shutters -> Shutdowns]
    <3>1. \/ shut' = [shut EXCEPT ![c] = [shut[c] EXCEPT !.pc = "drain"]]
          \/ shut' = [shut EXCEPT ![c] = [shut[c] EXCEPT !.pc = "returned"]]
      BY <1>13, Zenon DEF EnterCell
    <3>2. /\ [shut[c] EXCEPT !.pc = "drain"] \in Shutdowns
          /\ [shut[c] EXCEPT !.pc = "returned"] \in Shutdowns
      BY ShutdownTypes, Zenon DEF TypeOK
    <3> QED
      BY <3>1, <3>2, Update, Zenon DEF TypeOK
  <2> QED
    BY <1>13, <2>1, <2>2, Zenon DEF TypeOK, EnterCell, managerVars
<1>14. ASSUME NEW c \in Shutters, Drain(c) PROVE TypeOK'
  <2>1. handle' \in [Incarnations -> Handles]
    <3> DEFINE h == handle[shut[c].at]
    <3>1. h \in Handles /\ h.queue # <<>>
      BY <1>14, <1>0, Zenon DEF TypeOK, Drain
    <3>2. handle' = [handle EXCEPT ![shut[c].at] = [h EXCEPT !.queue = Tail(@), !.writer = c]]
      BY <1>14, Zenon DEF Drain
    <3>3. [h EXCEPT !.queue = Tail(@), !.writer = c] \in Handles
      BY <3>1, HandleTypes, Zenon
    <3> QED
      BY <3>2, <3>3, Update, Zenon DEF TypeOK
  <2>2. shut' \in [Shutters -> Shutdowns]
    BY <1>14, <1>0, ShutdownTypes, Zenon DEF TypeOK, Drain, Shutters
  <2> QED
    BY <1>14, <2>1, <2>2, Zenon DEF TypeOK, Drain, managerVars
<1>15. ASSUME NEW c \in Shutters, CloseTransport(c) PROVE TypeOK'
  <2>1. transport' \in [Incarnations -> Transports]
    BY <1>15, <1>0, TransportTypes, Zenon DEF TypeOK, CloseTransport
  <2>2. shut' \in [Shutters -> Shutdowns]
    BY <1>15, <1>0, ShutdownTypes, Zenon DEF TypeOK, CloseTransport, Shutters
  <2> QED
    BY <1>15, <2>1, <2>2, Zenon DEF TypeOK, CloseTransport, managerVars
<1>16. ASSUME NEW c \in Shutters, CancelPending(c) PROVE TypeOK'
  <2>1. transport' \in [Incarnations -> Transports]
    BY <1>16, <1>0, TransportTypes, Zenon DEF TypeOK, CancelPending
  <2>2. shut' \in [Shutters -> Shutdowns]
    BY <1>16, <1>0, ShutdownTypes, Zenon DEF TypeOK, CancelPending, Shutters
  <2> QED
    BY <1>16, <2>1, <2>2, Zenon DEF TypeOK, CancelPending, managerVars
<1>17. ASSUME NEW c \in Shutters, StopNode(c) PROVE TypeOK'
  <2>1. handle' \in [Incarnations -> Handles]
    <3>1. shut[c].at \in Incarnations /\ handle[shut[c].at] \in Handles
      BY <1>17, <1>0, Zenon DEF TypeOK, StopNode
    <3>2. \A r \in {"ok", "err"} :
            [handle[shut[c].at] EXCEPT !.shutdown_result = r, !.writer = None] \in Handles
      BY <3>1, HandleTypes, Zenon DEF Results
    <3> QED
      BY <1>17, <3>1, <3>2, Zenon DEF TypeOK, StopNode
  <2>2. shut' \in [Shutters -> Shutdowns]
    BY <1>17, <1>0, ShutdownTypes, Zenon DEF TypeOK, StopNode, Shutters
  <2> QED
    BY <1>17, <2>1, <2>2, Zenon DEF TypeOK, StopNode, managerVars
<1>18. ASSUME NEW c \in Shutters, Return(c) PROVE TypeOK'
  <2>1. shut' \in [Shutters -> Shutdowns]
    BY <1>18, <1>0, ShutdownTypes, Zenon DEF TypeOK, Return, Shutters
  <2> QED
    BY <1>18, <2>1, Zenon DEF TypeOK, Return, managerVars
<1>19. ASSUME NEW c \in Shutters, FinishRemove(c) PROVE TypeOK'
  <2>1. shut' \in [Shutters -> Shutdowns]
    BY <1>19, <1>0, ShutdownTypes, Zenon DEF TypeOK, FinishRemove, Shutters
  <2> QED
    BY <1>19, <2>1 DEF TypeOK, FinishRemove, managerVars
<1>20. ASSUME NEW c \in Shutters, DropShutdown(c) PROVE TypeOK'
  <2>1. handle' \in [Incarnations -> Handles]
    <3> DEFINE h == handle[shut[c].at]
               g == [h EXCEPT !.queue = Without(@, c),
                              !.writer = IF @ = c THEN None ELSE @,
                              !.shutdown_result = IF @ = c THEN Empty ELSE @]
    <3>1. h \in Handles
      BY <1>20, <1>0, Zenon DEF TypeOK, DropShutdown
    <3>2. handle' = [handle EXCEPT ![shut[c].at] = g]
      BY <1>20, Zenon DEF DropShutdown
    <3>3. g \in Handles
      BY <3>1, HandleTypes, Zenon
    <3> HIDE DEF g
    <3> QED
      BY <3>2, <3>3, Update, Zenon DEF TypeOK
  <2>2. shut' \in [Shutters -> Shutdowns]
    BY <1>20, <1>0, ShutdownTypes, Zenon DEF TypeOK, DropShutdown, Shutters
  <2> QED
    BY <1>20, <2>1, <2>2 DEF TypeOK, DropShutdown, managerVars
<1>21. ASSUME NEW c \in Closers, NEW i \in Incarnations, Shutdown(c, i) PROVE TypeOK'
  <2>1. handle' \in [Incarnations -> Handles]
    BY <1>21, <1>0, HandleTypes, Zenon DEF TypeOK, Shutdown, CloseAdmission
  <2>2. shut' \in [Shutters -> Shutdowns]
    BY <1>21, <1>0, ShutdownTypes, Zenon DEF TypeOK, Shutdown, CloseAdmission, Shutters
  <2> QED
    BY <1>21, <2>1, <2>2, Zenon DEF TypeOK, Shutdown, CloseAdmission, managerVars
<1>22. ASSUME NEW m \in Managers, CreateGroup(m) PROVE TypeOK'
  BY <1>22 DEF TypeOK, ManagerInv, MutexHeld, CreateGroup, Incarnations
<1>23. ASSUME NEW m \in Managers, Publish(m) PROVE TypeOK'
  BY <1>23 DEF TypeOK, ManagerInv, MutexHeld, Publish, Incarnations
<1>24. ASSUME NEW m \in Managers, AbortCreate(m) PROVE TypeOK'
  BY <1>24 DEF TypeOK, ManagerInv, MutexHeld, AbortCreate, Incarnations
<1>25. ASSUME NEW m \in Managers, RemoveGroup(m) PROVE TypeOK'
  <2>1. handle' \in [Incarnations -> Handles]
    BY <1>25, <1>0, HandleTypes, Zenon DEF TypeOK, RemoveGroup, CloseAdmission
  <2>2. shut' \in [Shutters -> Shutdowns]
    BY <1>25, <1>0, ShutdownTypes, Zenon DEF TypeOK, RemoveGroup, CloseAdmission, Shutters
  <2> QED
    BY <1>25, <2>1, <2>2, Zenon DEF TypeOK, RemoveGroup, CloseAdmission, managerVars
<1>26. ASSUME NEW o \in Proposals, OperationStep(o) PROVE TypeOK'
  BY <1>1, <1>2, <1>3, <1>4, <1>26, Zenon DEF OperationStep
<1>27. ASSUME NEW c \in Callers, CallStep(c) PROVE TypeOK'
  BY <1>6, <1>7, <1>8, <1>10, <1>27, Zenon DEF CallStep
<1>28. ASSUME NEW c \in Shutters, ShutdownStep(c) PROVE TypeOK'
  BY <1>13, <1>14, <1>15, <1>16, <1>17, <1>18, <1>19, <1>28, Zenon DEF ShutdownStep
<1>29. CASE UNCHANGED vars
  BY <1>29, Zenon DEF TypeOK, vars
<1> QED
  BY Zenon, <1>5, <1>9, <1>11, <1>12, <1>20, <1>21, <1>22, <1>23, <1>24, <1>25, <1>26, <1>27,
     <1>28,
     <1>29, Zenon DEF Next

-----------------------------------------------------------------------------
(* What the steps do to the fields.                                        *)

\* The fields that stay as they are, for all and for all but one.
SameOp(o) == OpPc(o)' = OpPc(o) /\ OpAt(o)' = OpAt(o)
SameOps == \A o \in Proposals : SameOp(o)
OtherOps(o) == \A p \in Proposals : p # o => SameOp(p)
SameShut(c) == ShutPc(c)' = ShutPc(c) /\ ShutAt(c)' = ShutAt(c)
SameShuts == \A c \in Shutters : SameShut(c)
OtherShuts(c) == \A d \in Shutters : d # c => SameShut(d)
SameHandle(i) ==
  /\ Accepting(i)' <=> Accepting(i)
  /\ Readers(i)' = Readers(i) /\ Writer(i)' = Writer(i) /\ Result(i)' = Result(i)
SameHandles == \A i \in Incarnations : SameHandle(i)
OtherHandles(i) == \A j \in Incarnations : j # i => SameHandle(j)
SameNodes == \A i \in Incarnations : Node(i)' = Node(i)
SameManager == UNCHANGED <<groups, lifecycle, creating, made, published>> /\ SameNodes

\* Where the tasks are, and of which kind the fields.
FieldsTyped ==
  /\ \A i \in published : i \in Incarnations
  /\ \A i \in Incarnations :
       /\ Writer(i) \in Shutters \union {None}
       /\ Result(i) \in Shutters \union {"empty", "ok", "err"}
       /\ Readers(i) \subseteq Proposals
  /\ \A c \in Shutters : ~(c \in {None, "empty", "ok", "err"})
  /\ \A m \in Managers : m \in Shutters /\ m # None /\ m \notin Closers
  /\ \A c \in Closers : c \in Shutters /\ c \notin Managers
  /\ lifecycle \in Managers \union {None}
  /\ ~(0 \in Incarnations)

LEMMA Typed ==
  ASSUME GroupInv
  PROVE  FieldsTyped
<1>1. /\ \A i \in published : i \in Incarnations
      /\ lifecycle \in Managers \union {None}
      /\ handle \in [Incarnations -> Handles]
  BY Places, Zenon DEF GroupInv, TypeOK
<1>2. \A i \in Incarnations :
        /\ Writer(i) \in Shutters \union {None}
        /\ Result(i) \in Shutters \union {"empty", "ok", "err"}
        /\ Readers(i) \subseteq Proposals
  BY <1>1, Zenon DEF Handles, Empty, Writer, Result, Readers
<1>3. /\ \A c \in Shutters : ~(c \in {None, "empty", "ok", "err"})
      /\ \A m \in Managers : m \in Shutters /\ m # None /\ m \notin Closers
      /\ \A c \in Closers : c \in Shutters /\ c \notin Managers
  BY TaskAssumption, Zenon DEF Shutters
<1>4. ~(0 \in Incarnations)
  BY GroupAssumption DEF Incarnations
<1> QED
  BY <1>1, <1>2, <1>3, <1>4, Zenon DEF FieldsTyped

\* An update of one record, in terms of the fields.
LEMMA OpUpdate ==
  ASSUME TypeOK, NEW o \in Proposals, NEW r, op' = [op EXCEPT ![o] = r]
  PROVE  OtherOps(o) /\ OpPc(o)' = r.pc /\ OpAt(o)' = r.at
BY Zenon DEF TypeOK, OtherOps, SameOp, OpPc, OpAt

LEMMA ShutUpdate ==
  ASSUME TypeOK, NEW c \in Shutters, NEW r, shut' = [shut EXCEPT ![c] = r]
  PROVE  OtherShuts(c) /\ ShutPc(c)' = r.pc /\ ShutAt(c)' = r.at
BY Zenon DEF TypeOK, OtherShuts, SameShut, ShutPc, ShutAt

LEMMA ShutMoves ==
  ASSUME TypeOK, NEW c \in Shutters, NEW p, shut' = [shut EXCEPT ![c].pc = p]
  PROVE  OtherShuts(c) /\ ShutPc(c)' = p /\ ShutAt(c)' = ShutAt(c)
BY Zenon DEF TypeOK, Shutdowns, OtherShuts, SameShut, ShutPc, ShutAt

LEMMA HandleUpdate ==
  ASSUME TypeOK, NEW i \in Incarnations, NEW h, handle' = [handle EXCEPT ![i] = h]
  PROVE  /\ OtherHandles(i) /\ Accepting(i)' = h.accepting /\ Readers(i)' = h.readers
         /\ Writer(i)' = h.writer /\ Result(i)' = h.shutdown_result
BY Zenon DEF TypeOK, OtherHandles, SameHandle, Accepting, Readers, Writer, Result

\* The queue of a gate is none of the fields.
LEMMA QueueUpdate ==
  ASSUME TypeOK, NEW i \in Incarnations, NEW q, handle' = [handle EXCEPT ![i].queue = q]
  PROVE  SameHandles
<1>1. handle[i] \in Handles
  BY Zenon DEF TypeOK
<1>2. /\ [handle[i] EXCEPT !.queue = q].accepting = handle[i].accepting
      /\ [handle[i] EXCEPT !.queue = q].readers = handle[i].readers
      /\ [handle[i] EXCEPT !.queue = q].writer = handle[i].writer
      /\ [handle[i] EXCEPT !.queue = q].shutdown_result = handle[i].shutdown_result
  BY <1>1, Zenon DEF Handles
<1>3. handle' = [handle EXCEPT ![i] = [handle[i] EXCEPT !.queue = q]]
  BY Zenon
<1>4. /\ OtherHandles(i)
      /\ Accepting(i)' = [handle[i] EXCEPT !.queue = q].accepting
      /\ Readers(i)' = [handle[i] EXCEPT !.queue = q].readers
      /\ Writer(i)' = [handle[i] EXCEPT !.queue = q].writer
      /\ Result(i)' = [handle[i] EXCEPT !.queue = q].shutdown_result
  BY <1>3, HandleUpdate, Zenon
<1>5. SameHandle(i)
  BY <1>2, <1>4, Zenon DEF SameHandle, Accepting, Readers, Writer, Result
<1> QED
  BY <1>4, <1>5, Zenon DEF SameHandles, OtherHandles

\* A variable that stays as it is.
LEMMA Keeps ==
  /\ UNCHANGED op => SameOps
  /\ UNCHANGED shut => SameShuts
  /\ UNCHANGED handle => SameHandles
  /\ UNCHANGED node => SameNodes
BY Zenon DEF SameOps, SameOp, OpPc, OpAt, SameShuts, SameShut, ShutPc, ShutAt, SameHandles,
   SameHandle, Accepting, Readers, Writer, Result, SameNodes, Node

\* Begin, Enqueue and Run: the permit of o stays as it is.
MoveEffect(o) ==
  /\ OtherOps(o) /\ SameHandles /\ SameShuts /\ SameManager
  /\ OpPc(o)' \in {"checked", "queued", "held", "running"} => OpAt(o)' \in published
  /\ OpPc(o)' \in {"held", "running"} <=> OpPc(o) \in {"held", "running"}
  /\ OpPc(o) \in {"held", "running"} => OpAt(o)' = OpAt(o)

LEMMA Moves ==
  ASSUME GroupInv, NEW o \in Proposals,
         Enqueue(o) \/ Run(o) \/ \E i \in Incarnations : Begin(o, i)
  PROVE  MoveEffect(o)
<1>1. /\ OpsPlaced /\ TypeOK /\ op[o] \in Operations
      /\ SameShuts /\ SameManager
  BY Keeps, Zenon DEF GroupInv, LifeInv, TypeOK, Enqueue, Run, Begin, managerVars,
     SameManager
<1>2. ASSUME NEW p, op' = [op EXCEPT ![o].pc = p]
      PROVE  OtherOps(o) /\ OpPc(o)' = p /\ OpAt(o)' = OpAt(o)
  BY <1>1, <1>2, Zenon DEF TypeOK, Operations, OtherOps, SameOp, OpPc, OpAt
<1>3. CASE Enqueue(o)
  <2>1. PICK i \in Incarnations : i = op[o].at /\ op[o].pc = "checked"
    BY <1>3, Places, Zenon DEF Enqueue
  <2>2. SameHandles
    <3>1. handle' = [handle EXCEPT ![i].queue = Append(handle[i].queue, o)]
      BY <1>3, <2>1, Zenon DEF Enqueue
    <3> QED
      BY <1>1, <3>1, QueueUpdate, Zenon
  <2>3. OtherOps(o) /\ OpPc(o)' = "queued" /\ OpAt(o)' = OpAt(o)
    BY <1>2, <1>3, Zenon DEF Enqueue
  <2>4. OpPc(o) = "checked"
    BY <2>1, Zenon DEF OpPc
  <2> QED
    BY <1>1, <2>2, <2>3, <2>4, Zenon DEF MoveEffect, OpsPlaced
<1>4. CASE Run(o)
  <2>1. OtherOps(o) /\ OpPc(o)' = "running" /\ OpAt(o)' = OpAt(o)
    BY <1>2, <1>4, Zenon DEF Run
  <2>2. SameHandles /\ OpPc(o) = "held"
    BY <1>4, Keeps, Zenon DEF Run, OpPc
  <2> QED
    BY <1>1, <2>1, <2>2, Zenon DEF MoveEffect, OpsPlaced
<1>5. ASSUME NEW i \in Incarnations, Begin(o, i) PROVE MoveEffect(o)
  <2> DEFINE r == IF handle[i].accepting THEN [pc |-> "checked", at |-> i] ELSE Over
  <2>1. op' = [op EXCEPT ![o] = r] /\ i \in published
    BY <1>5, Zenon DEF Begin
  <2>2. r.pc \in {"checked", "done"} /\ (r.pc = "checked" => r.at = i)
    BY Zenon DEF Over
  <2> HIDE DEF r
  <2>3. OtherOps(o) /\ OpPc(o)' = r.pc /\ OpAt(o)' = r.at
    BY <1>1, <2>1, OpUpdate, Zenon
  <2>4. SameHandles /\ OpPc(o) = "new"
    BY <1>5, Keeps, Zenon DEF Begin, OpPc
  <2> QED
    BY <1>1, <2>1, <2>2, <2>3, <2>4, Zenon DEF MoveEffect
<1> QED
  BY <1>3, <1>4, <1>5, Zenon

\* The permit of o is granted, and kept if the group still accepts.
AcquireEffect(o, i) ==
  /\ OtherOps(o) /\ OtherHandles(i) /\ SameShuts /\ SameManager
  /\ OpPc(o) = "queued" /\ OpAt(o) = i /\ i \in published /\ Writer(i) = None
  /\ (Accepting(i)' <=> Accepting(i)) /\ Writer(i)' = Writer(i) /\ Result(i)' = Result(i)
  /\ \/ /\ Accepting(i) /\ Readers(i)' = Readers(i) \union {o}
        /\ OpPc(o)' = "held" /\ OpAt(o)' = i
     \/ /\ ~Accepting(i) /\ Readers(i)' = Readers(i) /\ OpPc(o)' = "done"

LEMMA Acquires ==
  ASSUME GroupInv, NEW o \in Proposals, Acquire(o)
  PROVE  \E i \in Incarnations : AcquireEffect(o, i)
<1>0. PICK i \in Incarnations : i = op[o].at
  BY Places, Zenon DEF Acquire
<1> DEFINE h == handle[i]
           g == [h EXCEPT !.queue = Tail(h.queue),
                          !.readers = IF h.accepting THEN h.readers \union {o} ELSE h.readers]
           r == IF h.accepting THEN [op[o] EXCEPT !.pc = "held"] ELSE Over
<1>1. h \in Handles /\ op[o] \in Operations /\ TypeOK
  BY Zenon DEF GroupInv, TypeOK
<1>2. /\ handle' = [handle EXCEPT ![i] = g] /\ op' = [op EXCEPT ![o] = r]
      /\ h.writer = None /\ op[o].pc = "queued"
  BY <1>0, Zenon DEF Acquire, Admitted
<1>3. SameShuts /\ SameManager
  BY Keeps, Zenon DEF Acquire, managerVars, SameManager
<1>4. /\ (g.accepting <=> h.accepting) /\ g.writer = h.writer
      /\ g.shutdown_result = h.shutdown_result
      /\ h.accepting => g.readers = h.readers \union {o}
      /\ ~h.accepting => g.readers = h.readers
  BY <1>1, Zenon DEF Handles
<1>5. /\ h.accepting => r.pc = "held" /\ r.at = i
      /\ ~h.accepting => r.pc = "done"
  BY <1>0, <1>1, Zenon DEF Operations, Over
<1>6. /\ OpPc(o) = "queued" /\ OpAt(o) = i /\ Writer(i) = None /\ Accepting(i) = h.accepting
      /\ Writer(i) = h.writer /\ Result(i) = h.shutdown_result /\ Readers(i) = h.readers
  BY <1>0, <1>2, Zenon DEF OpPc, OpAt, Writer, Accepting, Result, Readers
<1>7. i \in published
  BY <1>6, Zenon DEF GroupInv, LifeInv, OpsPlaced
<1> HIDE DEF h, g, r
<1>8. OtherOps(o) /\ OpPc(o)' = r.pc /\ OpAt(o)' = r.at
  BY <1>1, <1>2, OpUpdate, Zenon
<1>9. /\ OtherHandles(i) /\ Accepting(i)' = g.accepting /\ Readers(i)' = g.readers
      /\ Writer(i)' = g.writer /\ Result(i)' = g.shutdown_result
  BY <1>1, <1>2, HandleUpdate, Zenon
<1>10. AcquireEffect(o, i)
  BY <1>3, <1>4, <1>5, <1>6, <1>7, <1>8, <1>9, Zenon DEF AcquireEffect
<1> QED
  BY <1>10, Zenon

\* The permit of o is dropped.
FinishEffect(o, i) ==
  /\ OtherOps(o) /\ OtherHandles(i) /\ SameShuts /\ SameManager
  /\ OpPc(o) = "running" /\ OpAt(o) = i /\ OpPc(o)' = "done"
  /\ (Accepting(i)' <=> Accepting(i)) /\ Writer(i)' = Writer(i) /\ Result(i)' = Result(i)
  /\ Readers(i)' = Readers(i) \ {o}

LEMMA Finishes ==
  ASSUME GroupInv, NEW o \in Proposals, Finish(o)
  PROVE  \E i \in Incarnations : FinishEffect(o, i)
<1>0. PICK i \in Incarnations : i = op[o].at
  BY Places, Zenon DEF Finish
<1> DEFINE h == handle[i]
           g == [h EXCEPT !.readers = h.readers \ {o}]
<1>1. h \in Handles /\ TypeOK
  BY Zenon DEF GroupInv, TypeOK
<1>2. /\ handle' = [handle EXCEPT ![i] = g] /\ op' = [op EXCEPT ![o] = Over]
      /\ op[o].pc = "running"
  BY <1>0, Zenon DEF Finish
<1>3. SameShuts /\ SameManager
  BY Keeps, Zenon DEF Finish, managerVars, SameManager
<1>4. /\ (g.accepting <=> h.accepting) /\ g.writer = h.writer
      /\ g.shutdown_result = h.shutdown_result /\ g.readers = h.readers \ {o}
  BY <1>1, Zenon DEF Handles
<1>5. /\ OpPc(o) = "running" /\ OpAt(o) = i /\ Accepting(i) = h.accepting
      /\ Writer(i) = h.writer /\ Result(i) = h.shutdown_result /\ Readers(i) = h.readers
  BY <1>0, <1>2, Zenon DEF OpPc, OpAt, Writer, Accepting, Result, Readers
<1>6. OtherOps(o) /\ OpPc(o)' = "done"
  <2>1. OtherOps(o) /\ OpPc(o)' = Over.pc
    BY <1>1, <1>2, OpUpdate, Zenon
  <2> QED
    BY <2>1, Zenon DEF Over
<1> HIDE DEF h, g
<1>7. /\ OtherHandles(i) /\ Accepting(i)' = g.accepting /\ Readers(i)' = g.readers
      /\ Writer(i)' = g.writer /\ Result(i)' = g.shutdown_result
  BY <1>1, <1>2, HandleUpdate, Zenon
<1>8. FinishEffect(o, i)
  BY <1>3, <1>4, <1>5, <1>6, <1>7, Zenon DEF FinishEffect
<1> QED
  BY <1>8, Zenon

\* The two ways get_or_init goes: the cell is empty, or it holds a result.
EnterCellEffect(c, i) ==
  /\ SameOps /\ OtherHandles(i) /\ OtherShuts(c) /\ SameManager
  /\ ShutPc(c) = "cell" /\ ShutAt(c) = i /\ ShutAt(c)' = i
  /\ (Accepting(i)' <=> Accepting(i)) /\ Readers(i)' = Readers(i) /\ Writer(i)' = Writer(i)
  /\ \/ Result(i) = "empty" /\ Result(i)' = c /\ ShutPc(c)' = "drain"
     \/ Result(i) \in Results /\ Result(i)' = Result(i) /\ ShutPc(c)' = "returned"

LEMMA EntersCell ==
  ASSUME GroupInv, NEW c \in Shutters, EnterCell(c)
  PROVE  \E i \in Incarnations : EnterCellEffect(c, i)
<1>0. PICK i \in Incarnations : i = shut[c].at
  BY Places, Zenon DEF EnterCell
<1> DEFINE h == handle[i]
           g == [h EXCEPT !.shutdown_result = c, !.queue = Append(h.queue, c)]
<1>1. h \in Handles /\ TypeOK
  BY Zenon DEF GroupInv, TypeOK
<1>2. /\ shut[c].pc = "cell"
      /\ \/ /\ h.shutdown_result = "empty" /\ handle' = [handle EXCEPT ![i] = g]
            /\ shut' = [shut EXCEPT ![c].pc = "drain"]
         \/ /\ h.shutdown_result \in {"ok", "err"} /\ handle' = handle
            /\ shut' = [shut EXCEPT ![c].pc = "returned"]
  BY <1>0, Zenon DEF EnterCell, Empty
<1>3. SameOps /\ SameManager
  BY Keeps, Zenon DEF EnterCell, managerVars, SameManager
<1>4. /\ (g.accepting <=> h.accepting) /\ g.writer = h.writer
      /\ g.shutdown_result = c /\ g.readers = h.readers
  BY <1>1, Zenon DEF Handles
<1>5. /\ ShutPc(c) = "cell" /\ ShutAt(c) = i /\ Accepting(i) = h.accepting
      /\ Writer(i) = h.writer /\ Result(i) = h.shutdown_result /\ Readers(i) = h.readers
  BY <1>0, <1>2, Zenon DEF ShutPc, ShutAt, Writer, Accepting, Result, Readers
<1> HIDE DEF h, g
<1>6. CASE /\ h.shutdown_result = "empty" /\ handle' = [handle EXCEPT ![i] = g]
           /\ shut' = [shut EXCEPT ![c].pc = "drain"]
  <2>1. OtherShuts(c) /\ ShutPc(c)' = "drain" /\ ShutAt(c)' = ShutAt(c)
    BY <1>1, <1>6, ShutMoves, Zenon
  <2>2. /\ OtherHandles(i) /\ Accepting(i)' = g.accepting /\ Readers(i)' = g.readers
        /\ Writer(i)' = g.writer /\ Result(i)' = g.shutdown_result
    BY <1>1, <1>6, HandleUpdate, Zenon
  <2>3. EnterCellEffect(c, i)
    BY <1>3, <1>4, <1>5, <1>6, <2>1, <2>2, Zenon DEF EnterCellEffect
  <2> QED
    BY <2>3, Zenon
<1>7. CASE /\ h.shutdown_result \in {"ok", "err"} /\ handle' = handle
           /\ shut' = [shut EXCEPT ![c].pc = "returned"]
  <2>1. OtherShuts(c) /\ ShutPc(c)' = "returned" /\ ShutAt(c)' = ShutAt(c)
    BY <1>1, <1>7, ShutMoves, Zenon
  <2>2. SameHandles
    BY <1>7, Keeps, Zenon
  <2>3. EnterCellEffect(c, i)
    BY <1>3, <1>5, <1>7, <2>1, <2>2, Zenon DEF EnterCellEffect, SameHandles, OtherHandles,
       SameHandle,
       Results
  <2> QED
    BY <2>3, Zenon
<1> QED
  BY <1>2, <1>6, <1>7, Zenon

\* The write half of the gate is granted to c.
DrainEffect(c, i) ==
  /\ SameOps /\ OtherHandles(i) /\ OtherShuts(c) /\ SameManager
  /\ ShutPc(c) = "drain" /\ ShutAt(c) = i /\ ShutPc(c)' = "drained" /\ ShutAt(c)' = i
  /\ Readers(i) = {} /\ Writer(i) = None
  /\ (Accepting(i)' <=> Accepting(i)) /\ Readers(i)' = Readers(i) /\ Writer(i)' = c
  /\ Result(i)' = Result(i)

LEMMA Drains ==
  ASSUME GroupInv, NEW c \in Shutters, Drain(c)
  PROVE  \E i \in Incarnations : DrainEffect(c, i)
<1>0. PICK i \in Incarnations : i = shut[c].at
  BY Places, Zenon DEF Drain
<1> DEFINE h == handle[i]
           g == [h EXCEPT !.queue = Tail(h.queue), !.writer = c]
<1>1. h \in Handles /\ TypeOK
  BY Zenon DEF GroupInv, TypeOK
<1>2. /\ handle' = [handle EXCEPT ![i] = g] /\ shut' = [shut EXCEPT ![c].pc = "drained"]
      /\ h.readers = {} /\ h.writer = None /\ shut[c].pc = "drain"
  BY <1>0, Zenon DEF Drain
<1>3. SameOps /\ SameManager
  BY Keeps, Zenon DEF Drain, managerVars, SameManager
<1>4. /\ (g.accepting <=> h.accepting) /\ g.writer = c
      /\ g.shutdown_result = h.shutdown_result /\ g.readers = h.readers
  BY <1>1, Zenon DEF Handles
<1>5. /\ ShutPc(c) = "drain" /\ ShutAt(c) = i /\ Accepting(i) = h.accepting
      /\ Writer(i) = h.writer /\ Result(i) = h.shutdown_result /\ Readers(i) = h.readers
  BY <1>0, <1>2, Zenon DEF ShutPc, ShutAt, Writer, Accepting, Result, Readers
<1> HIDE DEF h, g
<1>6. OtherShuts(c) /\ ShutPc(c)' = "drained" /\ ShutAt(c)' = ShutAt(c)
  BY <1>1, <1>2, ShutMoves, Zenon
<1>7. /\ OtherHandles(i) /\ Accepting(i)' = g.accepting /\ Readers(i)' = g.readers
      /\ Writer(i)' = g.writer /\ Result(i)' = g.shutdown_result
  BY <1>1, <1>2, HandleUpdate, Zenon
<1>8. DrainEffect(c, i)
  BY <1>2, <1>3, <1>4, <1>5, <1>6, <1>7, Zenon DEF DrainEffect
<1> QED
  BY <1>8, Zenon

\* CloseTransport and CancelPending.
CloseEffect(c, i) ==
  /\ SameOps /\ SameHandles /\ OtherShuts(c) /\ SameManager
  /\ ShutAt(c) = i /\ ShutAt(c)' = i
  /\ \/ ShutPc(c) = "drained" /\ ShutPc(c)' = "closed" /\ ~AcceptsRpcs(i)'
     \/ ShutPc(c) = "closed" /\ ShutPc(c)' = "stopping" /\ Pending(i)' = {}

LEMMA Closes ==
  ASSUME GroupInv, NEW c \in Shutters, CloseTransport(c) \/ CancelPending(c)
  PROVE  \E i \in Incarnations : CloseEffect(c, i)
<1>0. PICK i \in Incarnations : i = shut[c].at
  BY Places, Zenon DEF CloseTransport, CancelPending
<1>1. transport[i] \in Transports /\ TypeOK
  BY Zenon DEF GroupInv, TypeOK
<1>2. SameOps /\ SameHandles /\ SameManager
  BY Keeps, Zenon DEF CloseTransport, CancelPending, managerVars, SameManager
<1>3. ShutAt(c) = i /\ ShutPc(c) = shut[c].pc
  BY <1>0, Zenon DEF ShutPc, ShutAt
<1>4. CASE CloseTransport(c)
  <2>1. OtherShuts(c) /\ ShutPc(c)' = "closed" /\ ShutAt(c)' = ShutAt(c) /\ shut[c].pc = "drained"
    BY <1>1, <1>4, ShutMoves, Zenon DEF CloseTransport
  <2>2. ~AcceptsRpcs(i)'
    BY <1>0, <1>1, <1>4, Zenon DEF CloseTransport, AcceptsRpcs, Transports, TypeOK
  <2>3. CloseEffect(c, i)
    BY <1>2, <1>3, <2>1, <2>2, Zenon DEF CloseEffect
  <2> QED
    BY <2>3, Zenon
<1>5. CASE CancelPending(c)
  <2>1. OtherShuts(c) /\ ShutPc(c)' = "stopping" /\ ShutAt(c)' = ShutAt(c) /\ shut[c].pc = "closed"
    BY <1>1, <1>5, ShutMoves, Zenon DEF CancelPending
  <2>2. Pending(i)' = {}
    BY <1>0, <1>1, <1>5, Zenon DEF CancelPending, Pending, Transports, TypeOK
  <2>3. CloseEffect(c, i)
    BY <1>2, <1>3, <2>1, <2>2, Zenon DEF CloseEffect
  <2> QED
    BY <2>3, Zenon
<1> QED
  BY <1>4, <1>5, Zenon

\* node.shutdown() has ended.
StopEffect(c, i) ==
  /\ SameOps /\ OtherHandles(i) /\ OtherShuts(c)
  /\ UNCHANGED <<groups, lifecycle, creating, made, published>>
  /\ Node(i)' = "stopped" /\ \A j \in Incarnations : j # i => Node(j)' = Node(j)
  /\ ShutPc(c) = "stopping" /\ ShutAt(c) = i /\ ShutPc(c)' = "returned" /\ ShutAt(c)' = i
  /\ (Accepting(i)' <=> Accepting(i)) /\ Readers(i)' = Readers(i)
  /\ Writer(i)' = None /\ Result(i)' \in Results

LEMMA Stops ==
  ASSUME GroupInv, NEW c \in Shutters, StopNode(c)
  PROVE  \E i \in Incarnations : StopEffect(c, i)
<1>0. PICK i \in Incarnations : i = shut[c].at
  BY Places, Zenon DEF StopNode
<1>a. PICK r \in Results : handle' = [handle EXCEPT ![i] =
        [handle[i] EXCEPT !.shutdown_result = r, !.writer = None]]
  BY <1>0, Zenon DEF StopNode, Results
<1> DEFINE h == handle[i]
           g == [h EXCEPT !.shutdown_result = r, !.writer = None]
<1>1. h \in Handles /\ TypeOK
  BY Zenon DEF GroupInv, TypeOK
<1>2. /\ handle' = [handle EXCEPT ![i] = g] /\ shut' = [shut EXCEPT ![c].pc = "returned"]
      /\ shut[c].pc = "stopping" /\ node' = [node EXCEPT ![i] = "stopped"]
      /\ UNCHANGED <<groups, lifecycle, creating, made, published, op>>
  BY <1>0, <1>a, Zenon DEF StopNode, managerVars
<1>3. SameOps
  BY <1>2, Keeps, Zenon
<1>4. /\ (g.accepting <=> h.accepting) /\ g.writer = None
      /\ g.shutdown_result = r /\ g.readers = h.readers
  BY <1>1, Zenon DEF Handles
<1>5. /\ ShutPc(c) = "stopping" /\ ShutAt(c) = i /\ Accepting(i) = h.accepting
      /\ Readers(i) = h.readers
  BY <1>0, <1>2, Zenon DEF ShutPc, ShutAt, Accepting, Readers
<1> HIDE DEF h, g
<1>6. OtherShuts(c) /\ ShutPc(c)' = "returned" /\ ShutAt(c)' = ShutAt(c)
  BY <1>1, <1>2, ShutMoves, Zenon
<1>7. /\ OtherHandles(i) /\ Accepting(i)' = g.accepting /\ Readers(i)' = g.readers
      /\ Writer(i)' = g.writer /\ Result(i)' = g.shutdown_result
  BY <1>1, <1>2, HandleUpdate, Zenon
<1>8. Node(i)' = "stopped" /\ \A j \in Incarnations : j # i => Node(j)' = Node(j)
  BY <1>1, <1>2, Zenon DEF TypeOK, Node
<1>9. StopEffect(c, i)
  BY <1>2, <1>3, <1>4, <1>5, <1>6, <1>7, <1>8, Zenon DEF StopEffect
<1> QED
  BY <1>9, Zenon

\* Return and FinishRemove: the call has its result.
LeaveEffect(c) ==
  /\ SameOps /\ SameHandles /\ OtherShuts(c) /\ SameNodes
  /\ UNCHANGED <<creating, made, published>>
  /\ ShutPc(c) = "returned" /\ ShutPc(c)' = "idle"
  /\ \/ c \in Closers /\ UNCHANGED <<groups, lifecycle>>
     \/ /\ c \in Managers /\ lifecycle' = None
        /\ groups' \in {0, groups}
        /\ groups' = 0 => Result(ShutAt(c)) \in Results

LEMMA Leaves ==
  ASSUME GroupInv, NEW c \in Shutters, Return(c) \/ FinishRemove(c)
  PROVE  LeaveEffect(c)
<1>1. TypeOK /\ HasResult
  BY Zenon DEF GroupInv, LifeInv
<1>2. /\ SameOps /\ SameHandles /\ SameNodes /\ UNCHANGED <<creating, made, published>>
      /\ shut' = [shut EXCEPT ![c] = [pc |-> "idle", at |-> 0]] /\ shut[c].pc = "returned"
  BY Keeps, Zenon DEF Return, FinishRemove, managerVars
<1>3. /\ OtherShuts(c) /\ ShutPc(c)' = [pc |-> "idle", at |-> 0].pc /\ ShutPc(c) = "returned"
  BY <1>1, <1>2, ShutUpdate, Zenon DEF ShutPc
<1>4. \/ c \in Closers /\ UNCHANGED <<groups, lifecycle>>
      \/ c \in Managers /\ lifecycle' = None /\ groups' \in {0, groups}
  BY Zenon DEF Return, FinishRemove, managerVars
<1>5. Result(ShutAt(c)) \in Results
  BY <1>1, <1>3, Zenon DEF HasResult
<1> QED
  BY <1>2, <1>3, <1>4, <1>5, Zenon DEF LeaveEffect

\* The future of c is dropped.
DropEffect(c, i) ==
  /\ SameOps /\ OtherHandles(i) /\ OtherShuts(c) /\ SameNodes
  /\ UNCHANGED <<groups, creating, made, published>>
  /\ lifecycle' = IF lifecycle = c THEN None ELSE lifecycle
  /\ ShutPc(c) \in {"cell", "drain", "stopping"} /\ ShutAt(c) = i
  /\ ShutPc(c)' = "idle"
  /\ (Accepting(i)' <=> Accepting(i)) /\ Readers(i)' = Readers(i)
  /\ Writer(i)' = IF Writer(i) = c THEN None ELSE Writer(i)
  /\ Result(i)' = IF Result(i) = c THEN "empty" ELSE Result(i)

LEMMA Drops ==
  ASSUME GroupInv, NEW c \in Shutters, DropShutdown(c)
  PROVE  \E i \in Incarnations : DropEffect(c, i)
<1>0. PICK i \in Incarnations : i = shut[c].at
  BY Places, Zenon DEF DropShutdown
<1> DEFINE h == handle[i]
           g == [h EXCEPT !.queue = Without(h.queue, c),
                          !.writer = IF h.writer = c THEN None ELSE h.writer,
                          !.shutdown_result = IF h.shutdown_result = c THEN "empty"
                                              ELSE h.shutdown_result]
<1>1. h \in Handles /\ TypeOK
  BY Zenon DEF GroupInv, TypeOK
<1>2. /\ handle' = [handle EXCEPT ![i] = g] /\ shut' = [shut EXCEPT ![c] = [pc |-> "idle", at |-> 0]]
      /\ shut[c].pc \in {"cell", "drain", "stopping"}
      /\ UNCHANGED <<groups, creating, made, published>>
      /\ lifecycle' = IF lifecycle = c THEN None ELSE lifecycle
  BY <1>0, Zenon DEF DropShutdown, Empty
<1>3. SameOps /\ SameNodes
  BY Keeps, Zenon DEF DropShutdown
<1>4. /\ (g.accepting <=> h.accepting) /\ g.readers = h.readers
      /\ g.writer = IF h.writer = c THEN None ELSE h.writer
      /\ g.shutdown_result = IF h.shutdown_result = c THEN "empty" ELSE h.shutdown_result
  BY <1>1, Zenon DEF Handles
<1>5. /\ ShutPc(c) \in {"cell", "drain", "stopping"} /\ ShutAt(c) = i
      /\ Accepting(i) = h.accepting
      /\ Writer(i) = h.writer /\ Result(i) = h.shutdown_result /\ Readers(i) = h.readers
  BY <1>0, <1>2, Zenon DEF ShutPc, ShutAt, Writer, Accepting, Result, Readers
<1> HIDE DEF h, g
<1>6. OtherShuts(c) /\ ShutPc(c)' = [pc |-> "idle", at |-> 0].pc
  BY <1>1, <1>2, ShutUpdate, Zenon
<1>7. /\ OtherHandles(i) /\ Accepting(i)' = g.accepting /\ Readers(i)' = g.readers
      /\ Writer(i)' = g.writer /\ Result(i)' = g.shutdown_result
  BY <1>1, <1>2, HandleUpdate, Zenon
<1>8. DropEffect(c, i)
  BY <1>2, <1>3, <1>4, <1>5, <1>6, <1>7, Zenon DEF DropEffect
<1> QED
  BY <1>8, Zenon

\* Shutdown and RemoveGroup.
CloseAdmissionEffect(c, i) ==
  /\ SameOps /\ OtherHandles(i) /\ OtherShuts(c) /\ SameNodes
  /\ UNCHANGED <<groups, creating, made, published>>
  /\ i \in published /\ ShutPc(c) = "idle" /\ ShutPc(c)' = "cell" /\ ShutAt(c)' = i
  /\ ~Accepting(i)' /\ Readers(i)' = Readers(i) /\ Writer(i)' = Writer(i)
  /\ Result(i)' = Result(i)
  /\ \/ c \in Closers /\ UNCHANGED lifecycle
     \/ c \in Managers /\ i = groups /\ lifecycle = None /\ lifecycle' = c

LEMMA ClosesAdmission ==
  ASSUME GroupInv, NEW c \in Shutters, NEW i \in Incarnations, CloseAdmission(c, i),
         i \in published, shut[c].pc = "idle",
         UNCHANGED <<op, node, groups, creating, made, published>>,
         \/ c \in Closers /\ UNCHANGED lifecycle
         \/ c \in Managers /\ i = groups /\ lifecycle = None /\ lifecycle' = c
  PROVE  CloseAdmissionEffect(c, i)
<1> DEFINE h == handle[i]
           g == [h EXCEPT !.accepting = FALSE]
<1>1. h \in Handles /\ TypeOK
  BY Zenon DEF GroupInv, TypeOK
<1>2. /\ handle' = [handle EXCEPT ![i] = g] /\ shut' = [shut EXCEPT ![c] = [pc |-> "cell", at |-> i]]
  BY Zenon DEF CloseAdmission
<1>3. SameOps /\ SameNodes
  BY Keeps, Zenon
<1>4. /\ ~g.accepting /\ g.writer = h.writer
      /\ g.shutdown_result = h.shutdown_result /\ g.readers = h.readers
  BY <1>1, Zenon DEF Handles
<1>5. /\ ShutPc(c) = "idle"
      /\ Writer(i) = h.writer /\ Result(i) = h.shutdown_result /\ Readers(i) = h.readers
  BY Zenon DEF ShutPc, Writer, Result, Readers
<1> HIDE DEF h, g
<1>6. /\ OtherShuts(c) /\ ShutPc(c)' = [pc |-> "cell", at |-> i].pc
      /\ ShutAt(c)' = [pc |-> "cell", at |-> i].at
  BY <1>1, <1>2, ShutUpdate, Zenon
<1>7. /\ OtherHandles(i) /\ Accepting(i)' = g.accepting /\ Readers(i)' = g.readers
      /\ Writer(i)' = g.writer /\ Result(i)' = g.shutdown_result
  BY <1>1, <1>2, HandleUpdate, Zenon
<1> QED
  BY <1>3, <1>4, <1>5, <1>6, <1>7, Zenon DEF CloseAdmissionEffect

\* create_group: the node is built, then the group becomes routable or is given
\* up.
CreateEffect(m, i) ==
  /\ SameOps /\ SameHandles /\ SameShuts /\ UNCHANGED <<groups, published>>
  /\ lifecycle = None /\ lifecycle' = m /\ groups = 0
  /\ made \in Nat /\ i = made + 1 /\ made' = i /\ creating' = i
  /\ Node(i)' = "running" /\ \A j \in Incarnations : j # i => Node(j)' = Node(j)
  /\ i \notin published
PublishEffect ==
  /\ SameOps /\ SameHandles /\ SameShuts /\ SameNodes /\ UNCHANGED made
  /\ creating # 0 /\ groups' = creating /\ published' = published \union {creating}
  /\ creating' = 0 /\ lifecycle' = None /\ made \in Nat
AbortEffect(i) ==
  /\ SameOps /\ SameHandles /\ SameShuts /\ UNCHANGED <<groups, made, published>>
  /\ creating = i /\ creating' = 0 /\ lifecycle' = None /\ made \in Nat
  /\ Node(i)' = "stopped" /\ \A j \in Incarnations : j # i => Node(j)' = Node(j)

LEMMA Creates ==
  ASSUME GroupInv, NEW m \in Managers, CreateGroup(m)
  PROVE  \E i \in Incarnations : CreateEffect(m, i)
<1>1. TypeOK /\ made \in Nat /\ made + 1 \in Incarnations /\ published \subseteq 1..made
  BY GroupAssumption DEF GroupInv, TypeOK, CreateGroup, Incarnations
<1>2. SameOps /\ SameHandles /\ SameShuts
  BY Keeps, Zenon DEF CreateGroup
<1>3. PICK i \in Incarnations : i = made + 1
  BY <1>1, Zenon
<1>4. /\ UNCHANGED <<groups, published>> /\ lifecycle = None /\ lifecycle' = m /\ groups = 0
      /\ made' = i /\ creating' = i /\ node' = [node EXCEPT ![i] = "running"]
  BY <1>3, Zenon DEF CreateGroup
<1>5. Node(i)' = "running" /\ \A j \in Incarnations : j # i => Node(j)' = Node(j)
  BY <1>1, <1>4, Zenon DEF TypeOK, Node
<1>6. i \notin published
  BY <1>1, <1>3
<1>7. CreateEffect(m, i)
  BY <1>1, <1>2, <1>3, <1>4, <1>5, <1>6, Zenon DEF CreateEffect
<1> QED
  BY <1>7, Zenon

LEMMA Publishes ==
  ASSUME GroupInv, NEW m \in Managers, Publish(m)
  PROVE  PublishEffect
<1>1. made \in Nat
  BY GroupAssumption DEF GroupInv, TypeOK
<1>2. SameOps /\ SameHandles /\ SameShuts /\ SameNodes
  BY Keeps, Zenon DEF Publish
<1> QED
  BY <1>1, <1>2, Zenon DEF Publish, PublishEffect

LEMMA Aborts ==
  ASSUME GroupInv, NEW m \in Managers, AbortCreate(m)
  PROVE  \E i \in Incarnations : AbortEffect(i)
<1>1. TypeOK /\ made \in Nat
  BY GroupAssumption DEF GroupInv, TypeOK
<1>2. SameOps /\ SameHandles /\ SameShuts
  BY Keeps, Zenon DEF AbortCreate
<1>3. PICK i \in Incarnations : i = creating
  BY Places, Zenon DEF AbortCreate
<1>4. /\ UNCHANGED <<groups, made, published>> /\ creating' = 0 /\ lifecycle' = None
      /\ node' = [node EXCEPT ![i] = "stopped"]
  BY <1>3, Zenon DEF AbortCreate
<1>5. Node(i)' = "stopped" /\ \A j \in Incarnations : j # i => Node(j)' = Node(j)
  BY <1>1, <1>4, Zenon DEF TypeOK, Node
<1>6. AbortEffect(i)
  BY <1>1, <1>2, <1>3, <1>4, <1>5, Zenon DEF AbortEffect
<1> QED
  BY <1>6, Zenon

\* The steps of the calls do not touch the lifecycle.
KeepEffect == SameOps /\ SameHandles /\ SameShuts /\ SameManager

\* Every step is, to the lifecycles and to the manager, one of these.
LEMMA LifeKinds ==
  ASSUME GroupInv, [Next]_vars
  PROVE  \/ KeepEffect \/ PublishEffect
         \/ \E o \in Proposals : \/ MoveEffect(o)
                                 \/ \E i \in Incarnations : AcquireEffect(o, i) \/ FinishEffect(o, i)
         \/ \E c \in Shutters :
              \/ LeaveEffect(c)
              \/ \E i \in Incarnations :
                   \/ EnterCellEffect(c, i) \/ DrainEffect(c, i) \/ CloseEffect(c, i)
                   \/ StopEffect(c, i) \/ DropEffect(c, i) \/ CloseAdmissionEffect(c, i)
         \/ \E m \in Managers, i \in Incarnations : CreateEffect(m, i)
         \/ \E i \in Incarnations : AbortEffect(i)
<1>1. ASSUME NEW o \in Proposals, OperationStep(o) \/ \E i \in Incarnations : Begin(o, i)
      PROVE  MoveEffect(o) \/ \E i \in Incarnations : AcquireEffect(o, i) \/ FinishEffect(o, i)
  BY <1>1, Moves, Acquires, Finishes, Zenon DEF OperationStep
<1>2. ASSUME NEW c \in Callers, CallStep(c) \/ CallFails(c) \/ \E i \in Incarnations : Admit(c, i)
      PROVE  KeepEffect
  BY <1>2, Keeps, Zenon DEF CallStep, Register, Send, CallCancelled, Retry, CallFails,
     Admit,
     managerVars, KeepEffect, SameManager
<1>3. ASSUME NEW q \in sent, Deliver(q) PROVE KeepEffect
  BY <1>3, Keeps, Zenon DEF Deliver, managerVars, KeepEffect, SameManager
<1>4. ASSUME NEW c \in Shutters, ShutdownStep(c) \/ DropShutdown(c)
      PROVE  \/ LeaveEffect(c)
             \/ \E i \in Incarnations :
                  \/ EnterCellEffect(c, i) \/ DrainEffect(c, i) \/ CloseEffect(c, i)
                  \/ StopEffect(c, i) \/ DropEffect(c, i)
  BY <1>4, EntersCell, Drains, Closes, Stops, Leaves, Drops, Zenon DEF ShutdownStep
<1>5. ASSUME NEW c \in Closers, NEW i \in Incarnations, Shutdown(c, i)
      PROVE  c \in Shutters /\ CloseAdmissionEffect(c, i)
  BY <1>5, ClosesAdmission, Zenon DEF Shutdown, managerVars, Shutters
<1>6. ASSUME NEW m \in Managers, RemoveGroup(m)
      PROVE  m \in Shutters /\ \E i \in Incarnations : CloseAdmissionEffect(m, i)
  <2>1. PICK i \in Incarnations : i = groups
    BY <1>6, Places, Zenon DEF RemoveGroup
  <2>2. i \in published /\ m \in Shutters
    BY <1>6, <2>1, Zenon DEF RemoveGroup, GroupInv, ManagerInv, MutexHeld, Shutters
  <2> QED
    BY <1>6, <2>1, <2>2, ClosesAdmission, Zenon DEF RemoveGroup
<1>7. UNCHANGED vars => KeepEffect
  BY Keeps, Zenon DEF vars, KeepEffect, SameManager
<1> QED
  BY <1>1, <1>2, <1>3, <1>4, <1>5, <1>6, <1>7, Creates, Publishes, Aborts, Zenon DEF Next

-----------------------------------------------------------------------------
(* What the steps that change a call or a transport do.                    *)

\* The calls other than c stay as they are; what the call c keeps.
SameCall(c) ==
  /\ CallPc(c)' = CallPc(c) /\ CallAt(c)' = CallAt(c) /\ CallCorr(c)' = CallCorr(c)
  /\ Answer(c)' = Answer(c) /\ Entry(c)' = Entry(c)
SameCalls == \A c \in Callers : SameCall(c)
OtherCalls(c) == \A d \in Callers : d # c => SameCall(d)
SameNumber(c) == CallAt(c)' = CallAt(c) /\ CallCorr(c)' = CallCorr(c) /\ Entry(c)' = Entry(c)

\* What a step may do to a transport: closed, it stays so and gets no entries.
SameCorrs == \A i \in Incarnations : NextCorr(i)' = NextCorr(i)
PendingShrinks == \A i \in Incarnations : Pending(i)' \subseteq Pending(i)
StaysClosed ==
  \A i \in Incarnations : ~AcceptsRpcs(i) => ~AcceptsRpcs(i)' /\ Pending(i)' \subseteq Pending(i)

RpcTyped ==
  /\ \A i \in Incarnations : NextCorr(i) \in Nat /\ \A e \in Pending(i) : e.by \in Callers
  /\ \A q \in sent : q.at \in Incarnations /\ q.entry.corr \in Nat
  /\ \A c \in Callers : CallCorr(c) \in Nat /\ Entry(c).by = c /\ Entry(c).corr = CallCorr(c)

LEMMA CallsTyped ==
  ASSUME GroupInv
  PROVE  RpcTyped
<1>1. \A i \in Incarnations : NextCorr(i) \in Nat /\ \A e \in Pending(i) : e.by \in Callers
  BY DEF GroupInv, TypeOK, Transports, Entries, NextCorr, Pending
<1>2. \A q \in sent : q.at \in Incarnations /\ q.entry.corr \in Nat
  BY Zenon DEF GroupInv, TypeOK, Entries, Messages
<1>3. \A c \in Callers : CallCorr(c) \in Nat /\ Entry(c).by = c /\ Entry(c).corr = CallCorr(c)
  BY Zenon DEF GroupInv, TypeOK, Calls, CallCorr, Entry
<1> QED
  BY <1>1, <1>2, <1>3, Zenon DEF RpcTyped

\* An update of one record, in terms of the fields.
LEMMA CallUpdate ==
  ASSUME TypeOK, NEW c \in Callers, NEW r, rpc' = [rpc EXCEPT ![c] = r]
  PROVE  /\ OtherCalls(c) /\ CallPc(c)' = r.pc /\ CallAt(c)' = r.at /\ CallCorr(c)' = r.corr
         /\ Answer(c)' = r.answer
BY Zenon DEF TypeOK, OtherCalls, SameCall, CallPc, CallAt, CallCorr, Answer, Entry

LEMMA SameCorr ==
  ASSUME NEW c \in Callers, CallCorr(c)' = CallCorr(c)
  PROVE  Entry(c)' = Entry(c)
BY Zenon DEF CallCorr, Entry

LEMMA TransportUpdate ==
  ASSUME TypeOK, NEW i \in Incarnations, NEW t, transport' = [transport EXCEPT ![i] = t]
  PROVE  /\ AcceptsRpcs(i)' = t.accepting_rpcs /\ NextCorr(i)' = t.next_corr
         /\ Pending(i)' = t.pending
         /\ \A j \in Incarnations : j # i =>
              /\ AcceptsRpcs(j)' = AcceptsRpcs(j) /\ NextCorr(j)' = NextCorr(j)
              /\ Pending(j)' = Pending(j)
BY Zenon DEF TypeOK, AcceptsRpcs, NextCorr, Pending

\* The pending map of one transport changes.
LEMMA PendingUpdate ==
  ASSUME TypeOK, NEW i \in Incarnations, NEW p,
         transport' = [transport EXCEPT ![i].pending = p]
  PROVE  /\ SameCorrs /\ Pending(i)' = p
         /\ \A j \in Incarnations : AcceptsRpcs(j)' = AcceptsRpcs(j)
         /\ \A j \in Incarnations : j # i => Pending(j)' = Pending(j)
<1> DEFINE t == [transport[i] EXCEPT !.pending = p]
<1>1. /\ t.accepting_rpcs = transport[i].accepting_rpcs /\ t.pending = p
      /\ t.next_corr = transport[i].next_corr
  BY Zenon DEF TypeOK, Transports
<1>2. transport' = [transport EXCEPT ![i] = t]
  BY Zenon
<1> HIDE DEF t
<1>3. /\ AcceptsRpcs(i)' = t.accepting_rpcs /\ NextCorr(i)' = t.next_corr
      /\ Pending(i)' = t.pending
      /\ \A j \in Incarnations : j # i =>
           /\ AcceptsRpcs(j)' = AcceptsRpcs(j) /\ NextCorr(j)' = NextCorr(j)
           /\ Pending(j)' = Pending(j)
  BY <1>2, TransportUpdate, Zenon
<1>4. AcceptsRpcs(i) = transport[i].accepting_rpcs /\ NextCorr(i) = transport[i].next_corr
  BY Zenon DEF AcceptsRpcs, NextCorr
<1> QED
  BY <1>1, <1>3, <1>4, Zenon DEF SameCorrs

\* Variables that stay as they are.
LEMMA KeepsCalls ==
  /\ UNCHANGED rpc => SameCalls
  /\ UNCHANGED transport => SameCorrs /\ PendingShrinks /\ StaysClosed
BY Zenon DEF SameCalls, SameCall, CallPc, CallAt, CallCorr, Answer, Entry, SameCorrs,
   PendingShrinks, StaysClosed, NextCorr, Pending, AcceptsRpcs

\* The calls do not move; the transport may be closed or emptied.
RestEffect == SameCalls /\ SameCorrs /\ PendingShrinks /\ StaysClosed /\ UNCHANGED sent

LEMMA Shrinks ==
  ASSUME GroupInv, NEW c \in Shutters, CloseTransport(c) \/ CancelPending(c)
  PROVE  RestEffect
<1>0. PICK i \in Incarnations : i = shut[c].at
  BY Places, Zenon DEF CloseTransport, CancelPending
<1>1. TypeOK /\ SameCalls /\ UNCHANGED sent
  BY KeepsCalls, Zenon DEF GroupInv, CloseTransport, CancelPending
<1>2. CASE CancelPending(c)
  <2>1. transport' = [transport EXCEPT ![i].pending = {}]
    BY <1>0, <1>2, Zenon DEF CancelPending
  <2>2. /\ SameCorrs /\ Pending(i)' = {}
        /\ \A j \in Incarnations : AcceptsRpcs(j)' = AcceptsRpcs(j)
        /\ \A j \in Incarnations : j # i => Pending(j)' = Pending(j)
    BY <1>1, <2>1, PendingUpdate, Zenon
  <2> QED
    BY <1>1, <2>2, Zenon DEF RestEffect, PendingShrinks, StaysClosed
<1>3. CASE CloseTransport(c)
  <2> DEFINE t == [transport[i] EXCEPT !.accepting_rpcs = FALSE]
  <2>1. /\ ~t.accepting_rpcs /\ t.pending = Pending(i) /\ t.next_corr = NextCorr(i)
    BY <1>1, Zenon DEF TypeOK, Transports, Pending, NextCorr
  <2>2. transport' = [transport EXCEPT ![i] = t]
    BY <1>0, <1>3, Zenon DEF CloseTransport
  <2> HIDE DEF t
  <2>3. /\ AcceptsRpcs(i)' = t.accepting_rpcs /\ NextCorr(i)' = t.next_corr
        /\ Pending(i)' = t.pending
        /\ \A j \in Incarnations : j # i =>
             /\ AcceptsRpcs(j)' = AcceptsRpcs(j) /\ NextCorr(j)' = NextCorr(j)
             /\ Pending(j)' = Pending(j)
    BY <1>1, <2>2, TransportUpdate, Zenon
  <2> QED
    BY <1>1, <2>1, <2>3, Zenon DEF RestEffect, PendingShrinks, StaysClosed, SameCorrs
<1> QED
  BY <1>2, <1>3, Zenon

\* A call ends, in the ways it can: it has no entry any more.
ForgetEffect(c) ==
  /\ OtherCalls(c) /\ SameCorrs /\ PendingShrinks /\ StaysClosed /\ UNCHANGED sent
  /\ CallPc(c)' \in {"none", "failed"}
  /\ \A i \in Incarnations : \A e \in Pending(i)' : e.by # c

LEMMA Forgets ==
  ASSUME GroupInv, NEW c \in Callers, NEW r \in {NoCall, Failed},
         rpc' = [rpc EXCEPT ![c] = r], UNCHANGED sent,
         \/ /\ UNCHANGED transport /\ CallPc(c) # "registered"
            /\ CallPc(c) = "waiting" => Entry(c) \notin Pending(CallAt(c))
         \/ Unregister(c) /\ Live(c)
  PROVE  ForgetEffect(c)
<1>1. TypeOK /\ PendingIsEntry /\ RpcTyped
  BY CallsTyped, Zenon DEF GroupInv, RpcInv
<1>2. OtherCalls(c) /\ CallPc(c)' = r.pc
  BY <1>1, CallUpdate, Zenon
<1>3. r.pc \in {"none", "failed"}
  BY DEF NoCall, Failed
<1>4. CASE /\ UNCHANGED transport /\ CallPc(c) # "registered"
           /\ CallPc(c) = "waiting" => Entry(c) \notin Pending(CallAt(c))
  <2>1. SameCorrs /\ PendingShrinks /\ StaysClosed
    BY <1>4, KeepsCalls, Zenon
  <2>2. \A i \in Incarnations : \A e \in Pending(i)' : e.by # c
    BY <1>1, <1>4, <2>1, ZenonT(30) DEF PendingIsEntry, PendingShrinks
  <2> QED
    BY <1>2, <1>3, <2>1, <2>2, Zenon DEF ForgetEffect
<1>5. CASE Unregister(c) /\ Live(c)
  <2>1. PICK i \in Incarnations : i = CallAt(c)
    BY <1>5, Zenon DEF GroupInv, RpcInv, CallsNumbered
  <2>2. transport' = [transport EXCEPT ![i].pending = transport[i].pending \ {Entry(c)}]
    BY <1>5, <2>1, Zenon DEF Unregister, CallAt
  <2>3. /\ SameCorrs /\ Pending(i)' = transport[i].pending \ {Entry(c)}
        /\ \A j \in Incarnations : AcceptsRpcs(j)' = AcceptsRpcs(j)
        /\ \A j \in Incarnations : j # i => Pending(j)' = Pending(j)
    BY <1>1, <2>2, PendingUpdate, Zenon
  <2>4. Pending(i)' = Pending(i) \ {Entry(c)}
    BY <2>3, Zenon DEF Pending
  <2>5. \A j \in Incarnations : \A e \in Pending(j)' : e.by # c
    BY <1>1, <2>1, <2>3, <2>4 DEF PendingIsEntry
  <2> QED
    BY <1>2, <1>3, <2>3, <2>4, <2>5, Zenon DEF ForgetEffect, PendingShrinks, StaysClosed
<1> QED
  BY <1>4, <1>5, Zenon

\* Finish, Retry, CallFails and CallCancelled.
LEMMA Ends ==
  ASSUME GroupInv, NEW c \in Callers, Finish(c) \/ Retry(c) \/ CallFails(c) \/ CallCancelled(c)
  PROVE  ForgetEffect(c)
<1>1. CASE Finish(c) \/ Retry(c)
  <2>1. /\ rpc' = [rpc EXCEPT ![c] = NoCall] /\ UNCHANGED <<transport, sent>>
        /\ CallPc(c) \in {"none", "answered", "failed"}
    BY <1>1, Zenon DEF Finish, Retry, CallPc
  <2> QED
    BY <2>1, Forgets, Zenon
<1>2. CASE CallFails(c)
  <2>1. rpc' = [rpc EXCEPT ![c] = Failed] /\ Unregister(c) /\ Live(c) /\ UNCHANGED sent
    BY <1>2, Zenon DEF CallFails, Live, CallPc
  <2> QED
    BY <2>1, Forgets, Zenon
<1>3. CASE CallCancelled(c)
  <2>1. /\ rpc' = [rpc EXCEPT ![c] = Failed] /\ UNCHANGED <<transport, sent>>
        /\ CallPc(c) = "waiting" /\ Entry(c) \notin Pending(CallAt(c))
    BY <1>3, Zenon DEF CallCancelled, CallPc, CallAt, Pending
  <2> QED
    BY <2>1, Forgets, Zenon
<1> QED
  BY <1>1, <1>2, <1>3, Zenon

\* A correlation id is given out.
AdmitEffect(c, i) ==
  /\ OtherCalls(c) /\ PendingShrinks /\ StaysClosed /\ UNCHANGED sent
  /\ ~Live(c) /\ CallPc(c)' = "admitted" /\ CallAt(c)' = i /\ CallCorr(c)' = NextCorr(i)
  /\ NextCorr(i)' = NextCorr(i) + 1
  /\ \A j \in Incarnations : j # i => NextCorr(j)' = NextCorr(j)

LEMMA Admits ==
  ASSUME GroupInv, NEW c \in Callers, NEW i \in Incarnations, Admit(c, i)
  PROVE  AdmitEffect(c, i) \/ ForgetEffect(c)
<1>1. CASE transport[i].accepting_rpcs
  <2> DEFINE r == [pc |-> "admitted", at |-> i, answer |-> None,
                   corr |-> transport[i].next_corr]
             t == [transport[i] EXCEPT !.next_corr = transport[i].next_corr + 1]
  <2>1. /\ rpc' = [rpc EXCEPT ![c] = r] /\ transport' = [transport EXCEPT ![i] = t]
        /\ rpc[c].pc = "none" /\ UNCHANGED sent
    BY <1>1, Zenon DEF Admit
  <2>2. /\ r.pc = "admitted" /\ r.at = i /\ r.corr = NextCorr(i)
        /\ t.next_corr = NextCorr(i) + 1 /\ t.pending = Pending(i)
        /\ t.accepting_rpcs = AcceptsRpcs(i)
    BY Zenon DEF GroupInv, TypeOK, Transports, NextCorr, Pending, AcceptsRpcs
  <2>3. TypeOK /\ ~Live(c)
    BY <2>1, Zenon DEF GroupInv, Live, CallPc
  <2> HIDE DEF r, t
  <2>4. OtherCalls(c) /\ CallPc(c)' = r.pc /\ CallAt(c)' = r.at /\ CallCorr(c)' = r.corr
    BY <2>1, <2>3, CallUpdate, Zenon
  <2>5. /\ AcceptsRpcs(i)' = t.accepting_rpcs /\ NextCorr(i)' = t.next_corr
        /\ Pending(i)' = t.pending
        /\ \A j \in Incarnations : j # i =>
             /\ AcceptsRpcs(j)' = AcceptsRpcs(j) /\ NextCorr(j)' = NextCorr(j)
             /\ Pending(j)' = Pending(j)
    BY <2>1, <2>3, TransportUpdate, Zenon
  <2> QED
    BY <2>1, <2>2, <2>3, <2>4, <2>5, Zenon DEF AdmitEffect, PendingShrinks, StaysClosed
<1>2. CASE ~transport[i].accepting_rpcs
  <2>1. /\ rpc' = [rpc EXCEPT ![c] = Failed] /\ UNCHANGED <<transport, sent>>
        /\ CallPc(c) = "none"
    BY <1>2, Zenon DEF Admit, CallPc
  <2> QED
    BY <2>1, Forgets, Zenon
<1> QED
  BY <1>1, <1>2, Zenon

\* An entry is made.
RegisterEffect(c, i) ==
  /\ OtherCalls(c) /\ SameNumber(c) /\ SameCorrs /\ StaysClosed /\ UNCHANGED sent
  /\ CallPc(c) = "admitted" /\ CallAt(c) = i /\ CallPc(c)' = "registered"
  /\ Pending(i)' = Pending(i) \union {Entry(c)}
  /\ \A j \in Incarnations : j # i => Pending(j)' = Pending(j)

LEMMA CallMoves ==
  ASSUME TypeOK, NEW c \in Callers, NEW p, rpc' = [rpc EXCEPT ![c].pc = p]
  PROVE  OtherCalls(c) /\ SameNumber(c) /\ CallPc(c)' = p
<1> DEFINE r == [rpc[c] EXCEPT !.pc = p]
<1>1. r.pc = p /\ r.at = rpc[c].at /\ r.corr = rpc[c].corr
  BY Zenon DEF TypeOK, Calls
<1>2. rpc' = [rpc EXCEPT ![c] = r]
  BY Zenon
<1> HIDE DEF r
<1>3. OtherCalls(c) /\ CallPc(c)' = r.pc /\ CallAt(c)' = r.at /\ CallCorr(c)' = r.corr
  BY <1>2, CallUpdate, Zenon
<1>4. CallAt(c)' = CallAt(c) /\ CallCorr(c)' = CallCorr(c)
  BY <1>1, <1>3, Zenon DEF CallAt, CallCorr
<1> QED
  BY <1>1, <1>3, <1>4, SameCorr, Zenon DEF SameNumber

LEMMA Registers ==
  ASSUME GroupInv, NEW c \in Callers, Register(c)
  PROVE  ForgetEffect(c) \/ \E i \in Incarnations : RegisterEffect(c, i)
<1>0. PICK i \in Incarnations : i = rpc[c].at
  BY Places, Zenon DEF Register
<1>1. CASE transport[i].accepting_rpcs
  <2>1. /\ rpc' = [rpc EXCEPT ![c].pc = "registered"]
        /\ transport' = [transport EXCEPT ![i].pending = transport[i].pending \union {Entry(c)}]
        /\ rpc[c].pc = "admitted" /\ UNCHANGED sent
    BY <1>0, <1>1, Zenon DEF Register
  <2>2. TypeOK /\ CallPc(c) = "admitted" /\ CallAt(c) = i /\ AcceptsRpcs(i)
    BY <1>0, <1>1, <2>1, Zenon DEF GroupInv, CallPc, CallAt, AcceptsRpcs
  <2>3. OtherCalls(c) /\ SameNumber(c) /\ CallPc(c)' = "registered"
    BY <2>1, <2>2, CallMoves, Zenon
  <2>4. /\ SameCorrs /\ Pending(i)' = transport[i].pending \union {Entry(c)}
        /\ \A j \in Incarnations : AcceptsRpcs(j)' = AcceptsRpcs(j)
        /\ \A j \in Incarnations : j # i => Pending(j)' = Pending(j)
    BY <2>1, <2>2, PendingUpdate, Zenon
  <2>5. Pending(i)' = Pending(i) \union {Entry(c)}
    BY <2>4, Zenon DEF Pending
  <2>6. RegisterEffect(c, i)
    BY <2>1, <2>2, <2>3, <2>4, <2>5, Zenon DEF RegisterEffect, StaysClosed
  <2> QED
    BY <2>6, Zenon
<1>2. CASE ~transport[i].accepting_rpcs
  <2>1. /\ rpc' = [rpc EXCEPT ![c] = Failed] /\ UNCHANGED <<transport, sent>>
        /\ CallPc(c) = "admitted"
    BY <1>0, <1>2, Zenon DEF Register, CallPc
  <2> QED
    BY <2>1, Forgets, Zenon
<1> QED
  BY <1>1, <1>2, Zenon

\* The request goes out.
SendEffect(c) ==
  /\ OtherCalls(c) /\ SameNumber(c) /\ SameCorrs /\ PendingShrinks /\ StaysClosed
  /\ CallPc(c) = "registered" /\ CallPc(c)' = "waiting"
  /\ \A q \in sent' : q \in sent \/ (q.entry = Entry(c) /\ q.at = CallAt(c))

LEMMA Sends ==
  ASSUME GroupInv, NEW c \in Callers, Send(c)
  PROVE  SendEffect(c)
<1>1. /\ rpc' = [rpc EXCEPT ![c].pc = "waiting"] /\ UNCHANGED transport
      /\ sent' = sent \union {[entry |-> Entry(c), at |-> CallAt(c)]}
      /\ CallPc(c) = "registered" /\ TypeOK
  BY Zenon DEF Send, GroupInv, CallPc, CallAt
<1>2. OtherCalls(c) /\ SameNumber(c) /\ CallPc(c)' = "waiting"
  BY <1>1, CallMoves, Zenon
<1>3. SameCorrs /\ PendingShrinks /\ StaysClosed
  BY <1>1, KeepsCalls, Zenon
<1>4. \A q \in sent' : q \in sent \/ (q.entry = Entry(c) /\ q.at = CallAt(c))
  BY <1>1
<1> QED
  BY <1>1, <1>2, <1>3, <1>4, Zenon DEF SendEffect

\* A response finds the entry of the call c.
DeliverEffect(c, q) ==
  /\ OtherCalls(c) /\ SameNumber(c) /\ SameCorrs /\ PendingShrinks /\ StaysClosed
  /\ UNCHANGED sent
  /\ CallPc(c) \in {"registered", "waiting"} /\ CallPc(c)' = "answered" /\ Answer(c)' = q
  /\ CallCorr(c) = q.entry.corr
  /\ \A i \in Incarnations : \A e \in Pending(i)' : e.by # c

LEMMA Delivers ==
  ASSUME GroupInv, NEW q \in sent, Deliver(q)
  PROVE  \E c \in Callers : DeliverEffect(c, q)
<1>1. PICK i \in Incarnations : i = groups
  BY Places, Zenon DEF Deliver, Deliverable
<1>2. PICK e \in Pending(i) :
        /\ e.corr = q.entry.corr
        /\ transport' = [transport EXCEPT ![i].pending = transport[i].pending \ {e}]
        /\ rpc' = [rpc EXCEPT ![e.by] = [rpc[e.by] EXCEPT !.pc = "answered", !.answer = q]]
  BY <1>1, Zenon DEF Deliver, Matches, Pending
<1>3. TypeOK /\ PendingIsEntry /\ RpcTyped
  BY CallsTyped, Zenon DEF GroupInv, RpcInv
<1>4. PICK c \in Callers : c = e.by
  BY <1>2, <1>3, Zenon DEF RpcTyped
<1> DEFINE r == [rpc[c] EXCEPT !.pc = "answered", !.answer = q]
<1>5. r.pc = "answered" /\ r.answer = q /\ r.at = rpc[c].at /\ r.corr = rpc[c].corr
  BY <1>3, Zenon DEF TypeOK, Calls
<1>6. rpc' = [rpc EXCEPT ![c] = r] /\ UNCHANGED sent
  BY <1>2, <1>4, Zenon DEF Deliver
<1> HIDE DEF r
<1>7. /\ OtherCalls(c) /\ CallPc(c)' = r.pc /\ CallAt(c)' = r.at /\ CallCorr(c)' = r.corr
      /\ Answer(c)' = r.answer
  BY <1>3, <1>6, CallUpdate, Zenon
<1>8. SameNumber(c) /\ CallPc(c)' = "answered" /\ Answer(c)' = q
  <2>1. CallAt(c)' = CallAt(c) /\ CallCorr(c)' = CallCorr(c)
    BY <1>5, <1>7, Zenon DEF CallAt, CallCorr
  <2> QED
    BY <1>5, <1>7, <2>1, SameCorr, Zenon DEF SameNumber
<1>9. /\ SameCorrs /\ Pending(i)' = transport[i].pending \ {e}
      /\ \A j \in Incarnations : AcceptsRpcs(j)' = AcceptsRpcs(j)
      /\ \A j \in Incarnations : j # i => Pending(j)' = Pending(j)
  BY <1>2, <1>3, PendingUpdate, Zenon
<1>10. Pending(i)' = Pending(i) \ {e}
  BY <1>9, Zenon DEF Pending
<1>11. PendingShrinks /\ StaysClosed
  BY <1>9, <1>10, Zenon DEF PendingShrinks, StaysClosed
<1>12. /\ CallPc(c) \in {"registered", "waiting"} /\ CallAt(c) = i /\ e = Entry(c)
  BY <1>2, <1>3, <1>4, Zenon DEF PendingIsEntry
<1>13. \A j \in Incarnations : \A f \in Pending(j)' : f.by # c
  BY <1>3, <1>9, <1>10, <1>12 DEF PendingIsEntry
<1>14. CallCorr(c) = q.entry.corr
  BY <1>2, <1>3, <1>12, Zenon DEF RpcTyped
<1>15. DeliverEffect(c, q)
  BY <1>6, <1>7, <1>8, <1>9, <1>11, <1>12, <1>13, <1>14, Zenon DEF DeliverEffect
<1> QED
  BY <1>15, Zenon

\* Every step is, to the calls, one of these.
LEMMA CallKinds ==
  ASSUME GroupInv, [Next]_vars
  PROVE  \/ RestEffect
         \/ \E c \in Callers :
              \/ ForgetEffect(c) \/ SendEffect(c)
              \/ \E i \in Incarnations : AdmitEffect(c, i) \/ RegisterEffect(c, i)
              \/ \E q \in sent : DeliverEffect(c, q)
<1>0. UNCHANGED <<rpc, transport, sent>> => RestEffect
  BY KeepsCalls, Zenon DEF RestEffect
<1>1. ASSUME NEW o \in Proposals, OperationStep(o)
      PROVE  o \in Callers /\ (ForgetEffect(o) \/ UNCHANGED <<rpc, transport, sent>>)
  <2>1. o \in Callers
    BY Zenon DEF Callers
  <2> QED
    BY <1>1, <2>1, Ends, Zenon DEF OperationStep, Enqueue, Acquire, Run
<1>2. ASSUME NEW c \in Callers, CallStep(c) \/ CallFails(c)
      PROVE  ForgetEffect(c) \/ SendEffect(c) \/ \E i \in Incarnations : RegisterEffect(c, i)
  BY <1>2, Registers, Sends, Ends, Zenon DEF CallStep
<1>3. ASSUME NEW c \in Shutters, ShutdownStep(c) \/ DropShutdown(c)
      PROVE  RestEffect
  <2>1. CASE CloseTransport(c) \/ CancelPending(c)
    BY <2>1, Shrinks, Zenon
  <2>2. CASE \/ EnterCell(c) \/ Drain(c) \/ StopNode(c) \/ Return(c) \/ FinishRemove(c)
             \/ DropShutdown(c)
    BY <1>0, <2>2, Zenon DEF EnterCell, Drain, StopNode, Return, FinishRemove, DropShutdown
  <2> QED
    BY <1>3, <2>1, <2>2, Zenon DEF ShutdownStep
<1>4. ASSUME \/ \E o \in Proposals, i \in Incarnations : Begin(o, i)
             \/ \E c \in Closers, i \in Incarnations : Shutdown(c, i)
             \/ \E m \in Managers : \/ CreateGroup(m) \/ Publish(m) \/ AbortCreate(m)
                                    \/ RemoveGroup(m)
             \/ UNCHANGED vars
      PROVE  RestEffect
  BY <1>0, <1>4, Zenon DEF Begin, Shutdown, CreateGroup, Publish, AbortCreate, RemoveGroup,
     vars
<1> QED
  BY <1>0, <1>1, <1>2, <1>3, <1>4, Admits, Delivers, Zenon DEF Next

-----------------------------------------------------------------------------
(* The steps preserve RpcInv.                                              *)

-----------------------------------------------------------------------------
(* Every step keeps the invariant.                                         *)

\* Of what a step does to the calls, only its effect is needed.
LEMMA RpcInvStep ==
  ASSUME GroupInv, [Next]_vars
  PROVE  RpcInv'
<1> USE DEF RpcTyped, PendingIsEntry, CallsNumbered, CallsDiffer, SentMatches, AnsweredByOwn,
            Live, SameCall, SameCalls, OtherCalls, SameNumber, SameCorrs, PendingShrinks
<1>1. /\ RpcTyped /\ PendingIsEntry /\ CallsNumbered /\ CallsDiffer /\ SentMatches
      /\ AnsweredByOwn
  BY CallsTyped, Zenon DEF GroupInv, RpcInv
<1>2. CASE RestEffect
  BY <1>1, <1>2 DEF RestEffect, RpcInv
<1>3. ASSUME NEW c \in Callers, ForgetEffect(c) PROVE RpcInv'
  BY <1>1, <1>3 DEF ForgetEffect, RpcInv
<1>4. ASSUME NEW c \in Callers, NEW i \in Incarnations, AdmitEffect(c, i) PROVE RpcInv'
  BY <1>1, <1>4 DEF AdmitEffect, RpcInv
<1>5. ASSUME NEW c \in Callers, NEW i \in Incarnations, RegisterEffect(c, i) PROVE RpcInv'
  BY <1>1, <1>5 DEF RegisterEffect, RpcInv
<1>6. ASSUME NEW c \in Callers, SendEffect(c) PROVE RpcInv'
  BY <1>1, <1>6 DEF SendEffect, RpcInv
<1>7. ASSUME NEW c \in Callers, NEW q \in sent, DeliverEffect(c, q) PROVE RpcInv'
  BY <1>1, <1>7 DEF DeliverEffect, RpcInv
<1> QED
  BY <1>2, <1>3, <1>4, <1>5, <1>6, <1>7, CallKinds, ZenonT(30)

-----------------------------------------------------------------------------
(* The steps preserve LifeInv, CloseInv and ManagerInv.                    *)

LEMMA CreateKeeps ==
  ASSUME NEW m, NEW i, CreateEffect(m, i)
  PROVE  SameOps /\ SameHandles /\ SameShuts /\ groups' = groups /\ published' = published
BY Zenon DEF CreateEffect

\* A step that changes no task and no group keeps both.
LEMMA LifeKept ==
  ASSUME FieldsTyped, LifeInv, SameOps, SameHandles, SameShuts, published' = published
  PROVE  LifeInv'
<1> USE DEF SameOps, SameOp, SameHandles, SameHandle, SameShuts, SameShut, FieldsTyped, LifeInv
<1>1. OpsPlaced' /\ ReadersHold' /\ GateIsDrained'
  BY DEF OpsPlaced, ReadersHold, GateIsDrained
<1>2. ShuttersPlaced'
  BY ZenonT(30) DEF ShuttersPlaced
<1>3. CellOwner' /\ GateOwner'
  BY DEF CellOwner, GateOwner, ShuttersPlaced
<1>4. HasResult'
  BY DEF HasResult, ShuttersPlaced
<1> QED
  BY <1>1, <1>2, <1>3, <1>4, Zenon

LEMMA CloseKept ==
  ASSUME FieldsTyped, ShuttersPlaced, CloseInv, StaysClosed, SameShuts, SameHandles
  PROVE  CloseInv'
<1>1. \A c \in Shutters : ShutPc(c)' = ShutPc(c) /\ ShutAt(c)' = ShutAt(c)
  BY Zenon DEF SameShuts, SameShut
<1>2. \A c \in Shutters : ShutPc(c) \in {"closed", "stopping"} => ShutAt(c) \in Incarnations
  BY Zenon DEF ShuttersPlaced, FieldsTyped
<1>3. \A i \in Incarnations : ~AcceptsRpcs(i) /\ Pending(i) = {} => ~AcceptsRpcs(i)' /\ Pending(i)' = {}
  BY Zenon DEF StaysClosed
<1>4. \A i \in Incarnations : ~AcceptsRpcs(i) => ~AcceptsRpcs(i)'
  BY Zenon DEF StaysClosed
<1>5. \A i \in Incarnations : Result(i)' = Result(i)
  BY Zenon DEF SameHandles, SameHandle
<1>6. \A c \in Shutters : ShutPc(c)' \in {"closed", "stopping"} => ~AcceptsRpcs(ShutAt(c))'
  BY <1>1, <1>2, <1>4, Zenon DEF CloseInv
<1>7. \A c \in Shutters : ShutPc(c)' = "stopping" => Pending(ShutAt(c))' = {}
  BY <1>1, <1>2, <1>3, Zenon DEF CloseInv
<1>8. \A i \in Incarnations : Result(i)' \in Results => ~AcceptsRpcs(i)' /\ Pending(i)' = {}
  BY <1>3, <1>5, Zenon DEF CloseInv
<1> QED
  BY <1>6, <1>7, <1>8, Zenon DEF CloseInv, Results

\* One case per kind of step; so below.
LEMMA LifeInvStep ==
  ASSUME GroupInv, [Next]_vars
  PROVE  LifeInv'
<1> USE DEF FieldsTyped, Results, SameOps, OtherOps, SameOp, SameShuts, OtherShuts, SameShut,
            SameHandles, OtherHandles, SameHandle, SameManager,
            OpsPlaced, ShuttersPlaced, ReadersHold, CellOwner, GateOwner, HasResult, GateIsDrained
<1>1. FieldsTyped /\ LifeInv
  BY Typed, Zenon DEF GroupInv
<1>2. CASE KeepEffect
  BY <1>1, <1>2 DEF KeepEffect, LifeInv
<1>3. CASE PublishEffect
  BY <1>1, <1>3 DEF PublishEffect, LifeInv
<1>4. ASSUME NEW o \in Proposals, MoveEffect(o) PROVE LifeInv'
  BY <1>1, <1>4 DEF MoveEffect, LifeInv
<1>5. ASSUME NEW o \in Proposals, NEW i \in Incarnations, AcquireEffect(o, i)
       PROVE  LifeInv'
  BY <1>1, <1>5 DEF AcquireEffect, LifeInv
<1>6. ASSUME NEW o \in Proposals, NEW i \in Incarnations, FinishEffect(o, i)
       PROVE  LifeInv'
  BY <1>1, <1>6 DEF FinishEffect, LifeInv
<1>7. ASSUME NEW c \in Shutters, NEW i \in Incarnations, EnterCellEffect(c, i)
       PROVE  LifeInv'
  BY <1>1, <1>7 DEF EnterCellEffect, LifeInv
<1>8. ASSUME NEW c \in Shutters, NEW i \in Incarnations, DrainEffect(c, i)
       PROVE  LifeInv'
  BY <1>1, <1>8 DEF DrainEffect, LifeInv
<1>9. ASSUME NEW c \in Shutters, NEW i \in Incarnations, CloseEffect(c, i)
       PROVE  LifeInv'
  BY <1>1, <1>9 DEF CloseEffect, LifeInv
<1>10. ASSUME NEW c \in Shutters, NEW i \in Incarnations, StopEffect(c, i)
       PROVE  LifeInv'
  BY <1>1, <1>10 DEF StopEffect, LifeInv
<1>11. ASSUME NEW c \in Shutters, LeaveEffect(c) PROVE LifeInv'
  BY <1>1, <1>11 DEF LeaveEffect, LifeInv
<1>12. ASSUME NEW c \in Shutters, NEW i \in Incarnations, DropEffect(c, i)
       PROVE  LifeInv'
  BY <1>1, <1>12 DEF DropEffect, LifeInv
<1>13. ASSUME NEW c \in Shutters, NEW i \in Incarnations, CloseAdmissionEffect(c, i)
       PROVE  LifeInv'
  BY <1>1, <1>13 DEF CloseAdmissionEffect, LifeInv
<1>14. ASSUME NEW m \in Managers, NEW i \in Incarnations, CreateEffect(m, i)
       PROVE  LifeInv'
  <2>1. SameOps /\ SameHandles /\ SameShuts /\ published' = published
    BY <1>14, CreateKeeps, Zenon
  <2> QED
    BY <1>1, <2>1, LifeKept, Zenon
<1>15. ASSUME NEW i \in Incarnations, AbortEffect(i) PROVE LifeInv'
  BY <1>1, <1>15 DEF AbortEffect, LifeInv
<1> QED
  BY Zenon, <1>2, <1>3, <1>4, <1>5, <1>6, <1>7, <1>8, <1>9, <1>10, <1>11, <1>12, <1>13, <1>14,
     <1>15, LifeKinds, Zenon

\* A closed transport gets no entries, and stays closed.
LEMMA CloseInvStep ==
  ASSUME GroupInv, [Next]_vars
  PROVE  CloseInv'
<1>0. StaysClosed
  BY CallKinds, Zenon DEF RestEffect, ForgetEffect, SendEffect, AdmitEffect,
     RegisterEffect, DeliverEffect
<1> USE DEF FieldsTyped, Results, SameOps, OtherOps, SameOp, SameShuts, OtherShuts, SameShut,
            SameHandles, OtherHandles, SameHandle, SameManager, StaysClosed, ShuttersPlaced
<1>1. FieldsTyped /\ ShuttersPlaced /\ CloseInv /\ StaysClosed
  BY <1>0, Typed, Zenon DEF GroupInv, LifeInv
<1>2. CASE KeepEffect
  BY <1>1, <1>2, ZenonT(30) DEF KeepEffect, CloseInv
<1>3. CASE PublishEffect
  BY <1>1, <1>3, ZenonT(30) DEF PublishEffect, CloseInv
<1>4. ASSUME NEW o \in Proposals, MoveEffect(o) PROVE CloseInv'
  BY <1>1, <1>4, ZenonT(30) DEF MoveEffect, CloseInv
<1>5. ASSUME NEW o \in Proposals, NEW i \in Incarnations, AcquireEffect(o, i)
       PROVE  CloseInv'
  BY <1>1, <1>5 DEF AcquireEffect, CloseInv
<1>6. ASSUME NEW o \in Proposals, NEW i \in Incarnations, FinishEffect(o, i)
       PROVE  CloseInv'
  BY <1>1, <1>6, ZenonT(30) DEF FinishEffect, CloseInv
<1>7. ASSUME NEW c \in Shutters, NEW i \in Incarnations, EnterCellEffect(c, i)
       PROVE  CloseInv'
  BY <1>1, <1>7 DEF EnterCellEffect, CloseInv
<1>8. ASSUME NEW c \in Shutters, NEW i \in Incarnations, DrainEffect(c, i)
       PROVE  CloseInv'
  BY <1>1, <1>8 DEF DrainEffect, CloseInv
<1>9. ASSUME NEW c \in Shutters, NEW i \in Incarnations, CloseEffect(c, i)
       PROVE  CloseInv'
  BY <1>1, <1>9 DEF CloseEffect, CloseInv
<1>10. ASSUME NEW c \in Shutters, NEW i \in Incarnations, StopEffect(c, i)
       PROVE  CloseInv'
  BY <1>1, <1>10 DEF StopEffect, CloseInv
<1>11. ASSUME NEW c \in Shutters, LeaveEffect(c) PROVE CloseInv'
  BY <1>1, <1>11, ZenonT(30) DEF LeaveEffect, CloseInv
<1>12. ASSUME NEW c \in Shutters, NEW i \in Incarnations, DropEffect(c, i)
       PROVE  CloseInv'
  BY <1>1, <1>12 DEF DropEffect, CloseInv
<1>13. ASSUME NEW c \in Shutters, NEW i \in Incarnations, CloseAdmissionEffect(c, i)
       PROVE  CloseInv'
  BY <1>1, <1>13 DEF CloseAdmissionEffect, CloseInv
<1>14. ASSUME NEW m \in Managers, NEW i \in Incarnations, CreateEffect(m, i)
       PROVE  CloseInv'
  <2>1. SameOps /\ SameHandles /\ SameShuts /\ published' = published
    BY <1>14, CreateKeeps, Zenon
  <2> QED
    BY <1>1, <2>1, CloseKept, Zenon
<1>15. ASSUME NEW i \in Incarnations, AbortEffect(i) PROVE CloseInv'
  BY <1>1, <1>15, ZenonT(30) DEF AbortEffect, CloseInv
<1> QED
  BY Zenon, <1>2, <1>3, <1>4, <1>5, <1>6, <1>7, <1>8, <1>9, <1>10, <1>11, <1>12, <1>13, <1>14,
     <1>15, LifeKinds, Zenon

\* create_group runs with the mutex, so nothing else is being built or removed.
LEMMA CreateManager ==
  ASSUME FieldsTyped, HasResult, ManagerInv, NEW m \in Managers, NEW i \in Incarnations,
         CreateEffect(m, i)
  PROVE  ManagerInv'
<1>1. m # None /\ \A d \in Managers : d \in Shutters /\ d # None
  BY Zenon DEF FieldsTyped
<1>2. /\ SameHandles /\ SameShuts /\ groups = 0 /\ groups' = 0 /\ published' = published
      /\ lifecycle = None /\ lifecycle' = m /\ creating' = i /\ i \notin published
      /\ Node(i)' = "running" /\ \A j \in Incarnations : j # i => Node(j)' = Node(j)
  BY CreateKeeps, Zenon DEF CreateEffect
<1>3. creating = 0 /\ \A d \in Managers : ShutPc(d) = "idle"
  BY <1>1, <1>2, Zenon DEF ManagerInv, MutexHeld
<1>4. \A d \in Managers : ShutPc(d)' = "idle"
  BY <1>1, <1>2, <1>3, Zenon DEF SameShuts, SameShut
<1>5. creating' \in 0..made'
  BY DEF CreateEffect, Incarnations
<1>6. MutexHeld'
  BY <1>1, <1>2, <1>4, <1>5, Zenon DEF MutexHeld
<1>7. NodesPlaced'
  BY <1>2, <1>3 DEF ManagerInv, NodesPlaced, SameHandles, SameHandle, HasResult, FieldsTyped
<1> QED
  BY <1>6, <1>7, Zenon DEF ManagerInv

LEMMA AbortManager ==
  ASSUME FieldsTyped, HasResult, ManagerInv, NEW i \in Incarnations, AbortEffect(i)
  PROVE  ManagerInv'
<1>1. /\ SameHandles /\ SameShuts /\ groups' = groups /\ published' = published /\ made' = made
      /\ creating = i /\ creating' = 0 /\ made \in Nat /\ i # 0
      /\ Node(i)' = "stopped" /\ \A j \in Incarnations : j # i => Node(j)' = Node(j)
  BY Zenon DEF AbortEffect, FieldsTyped
<1>2. groups = 0 /\ \A d \in Managers : d \in Shutters /\ ShutPc(d) = "idle"
  BY <1>1, Zenon DEF ManagerInv, MutexHeld, FieldsTyped
<1>3. \A d \in Managers : ShutPc(d)' = "idle"
  BY <1>1, <1>2, Zenon DEF SameShuts, SameShut
<1>4. MutexHeld'
  BY <1>1, <1>2, <1>3 DEF MutexHeld
<1>5. NodesPlaced'
  BY <1>1, <1>2, Zenon DEF ManagerInv, NodesPlaced, SameHandles, SameHandle
<1> QED
  BY <1>4, <1>5, Zenon DEF ManagerInv

\* The mutex is held while a group is built or removed.
LEMMA ManagerInvStep ==
  ASSUME GroupInv, [Next]_vars
  PROVE  ManagerInv'
<1> USE DEF FieldsTyped, Results, SameOps, OtherOps, SameOp, SameShuts, OtherShuts, SameShut,
            SameHandles, OtherHandles, SameHandle, SameManager,
            SameNodes, ShuttersPlaced, HasResult, MutexHeld, NodesPlaced
<1>1. FieldsTyped /\ ShuttersPlaced /\ HasResult /\ ManagerInv
  BY Typed, Zenon DEF GroupInv, LifeInv
<1>2. CASE KeepEffect
  BY <1>1, <1>2, Zenon DEF KeepEffect, ManagerInv
<1>3. CASE PublishEffect
  BY <1>1, <1>3 DEF PublishEffect, ManagerInv
<1>4. ASSUME NEW o \in Proposals, MoveEffect(o) PROVE ManagerInv'
  BY <1>1, <1>4, ZenonT(30) DEF MoveEffect, ManagerInv
<1>5. ASSUME NEW o \in Proposals, NEW i \in Incarnations, AcquireEffect(o, i)
       PROVE  ManagerInv'
  BY <1>1, <1>5 DEF AcquireEffect, ManagerInv
<1>6. ASSUME NEW o \in Proposals, NEW i \in Incarnations, FinishEffect(o, i)
       PROVE  ManagerInv'
  BY <1>1, <1>6 DEF FinishEffect, ManagerInv
<1>7. ASSUME NEW c \in Shutters, NEW i \in Incarnations, EnterCellEffect(c, i)
       PROVE  ManagerInv'
  BY <1>1, <1>7 DEF EnterCellEffect, ManagerInv
<1>8. ASSUME NEW c \in Shutters, NEW i \in Incarnations, DrainEffect(c, i)
       PROVE  ManagerInv'
  BY <1>1, <1>8 DEF DrainEffect, ManagerInv
<1>9. ASSUME NEW c \in Shutters, NEW i \in Incarnations, CloseEffect(c, i)
       PROVE  ManagerInv'
  BY <1>1, <1>9 DEF CloseEffect, ManagerInv
<1>10. ASSUME NEW c \in Shutters, NEW i \in Incarnations, StopEffect(c, i)
       PROVE  ManagerInv'
  BY <1>1, <1>10 DEF StopEffect, ManagerInv
<1>11. ASSUME NEW c \in Shutters, LeaveEffect(c) PROVE ManagerInv'
  BY <1>1, <1>11 DEF LeaveEffect, ManagerInv
<1>12. ASSUME NEW c \in Shutters, NEW i \in Incarnations, DropEffect(c, i)
       PROVE  ManagerInv'
  BY <1>1, <1>12, ZenonT(30) DEF DropEffect, ManagerInv
<1>13. ASSUME NEW c \in Shutters, NEW i \in Incarnations, CloseAdmissionEffect(c, i)
       PROVE  ManagerInv'
  BY <1>1, <1>13 DEF CloseAdmissionEffect, ManagerInv
<1>14. ASSUME NEW m \in Managers, NEW i \in Incarnations, CreateEffect(m, i)
       PROVE  ManagerInv'
  BY <1>1, <1>14, CreateManager, Zenon
<1>15. ASSUME NEW i \in Incarnations, AbortEffect(i) PROVE ManagerInv'
  BY <1>1, <1>15, AbortManager, Zenon
<1> QED
  BY Zenon, <1>2, <1>3, <1>4, <1>5, <1>6, <1>7, <1>8, <1>9, <1>10, <1>11, <1>12, <1>13, <1>14,
     <1>15, LifeKinds, Zenon

-----------------------------------------------------------------------------
(* The invariant, and what follows from it.                                *)

LEMMA GroupInvInit == Init => GroupInv
<1> SUFFICES ASSUME Init PROVE GroupInv
  BY Zenon
<1>1. TypeOK
  <2>1. handle \in [Incarnations -> Handles]
    <3>1. <<>> \in Seq(Proposals \union Shutters)
      OBVIOUS
    <3>2. [accepting |-> TRUE, readers |-> {}, queue |-> <<>>, writer |-> None,
           shutdown_result |-> Empty] \in Handles
      BY <3>1, Zenon DEF Handles
    <3> QED
      BY <3>2, Zenon DEF Init
  <2>2. transport \in [Incarnations -> Transports]
    <3>1. [accepting_rpcs |-> TRUE, next_corr |-> 1, pending |-> {}] \in Transports
      BY Zenon DEF Transports
    <3> QED
      BY <3>1, Zenon DEF Init
  <2>3. op \in [Proposals -> Operations] /\ shut \in [Shutters -> Shutdowns]
    BY GroupAssumption DEF Init, Operations, Shutdowns
  <2>4. rpc \in [Callers -> Calls]
    BY CallTypes, Zenon DEF Init
  <2>5. /\ groups \in 0..MaxIncarnations /\ creating \in 0..MaxIncarnations
        /\ made \in 0..MaxIncarnations /\ failures \in 0..MaxFailures /\ cancels \in 0..MaxCancels
    BY GroupAssumption DEF Init
  <2>6. /\ lifecycle \in Managers \union {None} /\ published \subseteq 1..made
        /\ node \in [Incarnations -> {"none", "running", "stopped"}] /\ sent \subseteq Messages
    BY Zenon DEF Init
  <2> QED
    BY <2>1, <2>2, <2>3, <2>4, <2>5, <2>6, Zenon DEF TypeOK
<1>2. /\ \A o \in Proposals : OpPc(o) = "new"
      /\ \A c \in Shutters : ShutPc(c) = "idle"
      /\ \A c \in Callers : CallPc(c) = "none"
      /\ sent = {}
  BY Zenon DEF Init, OpPc, ShutPc, CallPc, NoCall
<1>3. \A i \in Incarnations : /\ Readers(i) = {} /\ Writer(i) = None /\ Result(i) = "empty"
                              /\ Pending(i) = {} /\ Node(i) = "none"
  BY Zenon DEF Init, Readers, Writer, Result, Empty, Pending, Node
<1>4. \A c \in Shutters : ~(c \in {None, "empty", "ok", "err"})
  BY TaskAssumption, Zenon
<1>5. LifeInv
  BY <1>2, <1>3, <1>4, Zenon DEF LifeInv, OpsPlaced, ShuttersPlaced, ReadersHold, CellOwner,
     GateOwner,
     HasResult, GateIsDrained, Results
<1>6. RpcInv
  BY <1>2, <1>3, Zenon DEF RpcInv, PendingIsEntry, CallsNumbered, CallsDiffer, SentMatches,
     AnsweredByOwn, Live
<1>7. CloseInv
  BY <1>2, <1>3, Zenon DEF CloseInv, Results
<1>8. ManagerInv
  <2>1. groups = 0 /\ creating = 0 /\ made = 0 /\ \A m \in Managers : ShutPc(m) = "idle"
    BY <1>2, Zenon DEF Init, Shutters
  <2> QED
    BY <1>3, <2>1 DEF ManagerInv, MutexHeld, NodesPlaced, Results
<1> QED
  BY <1>1, <1>5, <1>6, <1>7, <1>8, Zenon DEF GroupInv

LEMMA GroupInvStep == GroupInv /\ [Next]_vars => GroupInv'
BY TypeStep, LifeInvStep, RpcInvStep, CloseInvStep, ManagerInvStep, Zenon DEF GroupInv

LEMMA GroupInvHolds == Spec => []GroupInv
BY GroupInvInit, GroupInvStep, PTL DEF Spec

\* PendingIsAwaited with the types: in every reachable state each pending entry
\* of a transport is that of a call that waits for it in that incarnation, and
\* no two entries have the same correlation id (send_rpc,
\* consume_incoming_from, PendingRegistration).
THEOREM PendingEntriesAreAwaited == Spec => []Consistent
<1>1. ASSUME GroupInv, NEW i \in Incarnations
      PROVE  /\ \A e \in Pending(i) :
                  CallPc(e.by) \in {"registered", "waiting"} /\ CallAt(e.by) = i
                    /\ CallCorr(e.by) = e.corr
             /\ \A e, f \in Pending(i) : e.corr = f.corr => e = f
  BY <1>1, CallsTyped DEF GroupInv, RpcTyped, RpcInv, PendingIsEntry, CallsDiffer, Live
<1>2. GroupInv => PendingIsAwaited
  BY <1>1, Zenon DEF PendingIsAwaited, Pending, CallPc, CallAt, CallCorr
<1>3. GroupInv => Consistent
  BY <1>2, Zenon DEF GroupInv, Consistent
<1> QED
  BY <1>3, GroupInvHolds, PTL

\* At most one incarnation of the group runs a Raft node, however create_group,
\* remove_group, shutdown and dropped futures interleave: the WAL file has one
\* writer.
THEOREM OneWriterOfTheWal == Spec => []OneNodeRuns
<1>1. ASSUME GroupInv, NEW i \in Incarnations, NEW j \in Incarnations,
             Node(i) = "running", Node(j) = "running"
      PROVE  i = j
  BY <1>1, Typed, Zenon DEF GroupInv, ManagerInv, NodesPlaced, MutexHeld, FieldsTyped
<1>2. GroupInv => OneNodeRuns
  BY <1>1, Zenon DEF OneNodeRuns, Node
<1> QED
  BY <1>2, GroupInvHolds, PTL

\* Shutdown drains every permit before it goes on (group.rs:13): whoever holds
\* the write half of operation_gate, and every later state of the group, finds
\* no operation with a permit.
THEOREM ShutdownDrainsFirst == Spec => []DrainIsExclusive
<1>1. ASSUME GroupInv, NEW i \in Incarnations, Writer(i) # None \/ Result(i) \in {"ok", "err"}
      PROVE  /\ Readers(i) = {}
             /\ \A o \in Proposals : OpAt(o) = i => OpPc(o) \notin {"held", "running"}
  BY <1>1, Zenon DEF GroupInv, LifeInv, GateIsDrained, ReadersHold, Results
<1>2. GroupInv => DrainIsExclusive
  BY <1>1, Zenon DEF DrainIsExclusive, Writer, Result, Readers, OpAt, OpPc
<1> QED
  BY <1>2, GroupInvHolds, PTL

\* After the shutdown no RPC is pending and none becomes pending: the calls that
\* passed the first test of accepting_rpcs fail the second, under the lock.
THEOREM ShutdownLeavesNothingPending == Spec => []NothingPendsAfterShutdown
<1>1. GroupInv => NothingPendsAfterShutdown
  BY Zenon DEF GroupInv, CloseInv, NothingPendsAfterShutdown, Results, Result, Pending
<1> QED
  BY <1>1, GroupInvHolds, PTL

\* Within one incarnation a call is woken by the response to its own request,
\* also when responses are late, repeated or out of order.
THEOREM ResponsesWakeTheirCall == Spec => []AnswersTheCall
<1>1. GroupInv => AnswersTheCall
  BY Zenon DEF GroupInv, RpcInv, AnsweredByOwn, AnswersTheCall, CallPc, CallAt, Answer
<1> QED
  BY <1>1, GroupInvHolds, PTL
=============================================================================
