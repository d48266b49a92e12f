-------------------------------- MODULE Tso --------------------------------
(***************************************************************************)
(* The timestamp oracle: the replicated TsoStateMachine, the leader-side   *)
(* TimestampOracle of every node, and the TsoClients that fetch and cache  *)
(* ranges (crates/alopex-chirps/src/tso).                                  *)
(*                                                                         *)
(* The Raft group that orders the commands is external: a proposed command *)
(* may be applied at any later time or never, and a caller whose proposal  *)
(* fails does not know which.  What a node's Raft metrics say of the       *)
(* leader may be stale, so is_leader is TRUE or FALSE at every read.  The  *)
(* physical clock of a request is arbitrary; the lease clock is            *)
(* nondecreasing and comparable across nodes, as tso/clock.rs demands.     *)
(***************************************************************************)
EXTENDS HybridTimestamps, Sequences, FiniteSetsExt

CONSTANTS
    Nodes, Clients,
    NoNode, NoTimestamp,   \* Option::None of a node id and of a timestamp
    LeaseDuration,         \* timestamp_ttl in milliseconds
    BatchSize,             \* TsoClientConfig::batch_size
    MaxCount,              \* bound: largest count a caller asks for at once
    PrefetchThreshold,     \* TsoClientConfig::prefetch_threshold
    MaxRetries,            \* TsoClientConfig::max_retries
    MaxAttempts,           \* bound: requests one client sends
    PhysicalReadings       \* bound: what physical_millis() may return

ASSUME TsoAssumption ==
    /\ NoNode \notin Nodes
    /\ NoTimestamp \notin HybridTimestamp
    /\ LeaseDuration \in Nat \ {0}
    /\ BatchSize \in Nat \ {0} /\ MaxCount \in Nat /\ BatchSize <= MaxCount
    /\ PrefetchThreshold \in Nat /\ MaxRetries \in Nat /\ MaxAttempts \in Nat
    /\ PhysicalReadings \subseteq 0..MaxPhysical

VARIABLES
    state,          \* the TsoState that the committed commands produced
    proposals,      \* commands proposed and not (yet) committed
    lease_clock,    \* lease_millis()
    lease_expiry,   \* lease_expiry[n]: the oracle's cached expiry, 0 for None
    lease_lock,     \* lease_lock[n]: call that holds the mutex around it
    calls,          \* calls[id]: the oracle's side of one client request
    clients,        \* clients[c]: TsoClient
    granted,        \* ghost: the ranges the state machine allocated, in order
    returned        \* ghost: returned[c], timestamps c gave to its callers

oracleVars == <<lease_clock, lease_expiry, lease_lock>>
vars == <<state, proposals, lease_clock, lease_expiry, lease_lock,
          calls, clients, granted, returned>>

CallIds == Clients \X (1..MaxAttempts)
Unlocked == <<>>
NoReply == [kind |-> "none"]

\* NewCall(n, count, floor): a request as node n receives it.  floor is a
\* ghost, the last timestamp allocated when the client sent the request.
NewCall(n, count, floor) ==
    [pc |-> "received", node |-> n, count |-> count, physical_ms |-> 0,
     lease_now_ms |-> 0, reply |-> NoReply, floor |-> floor]

ActivePcs == {"received", "lease", "acquiring", "acquired", "allocate", "allocating",
              "allocated"}

----------------------------------------------------------------------------
\* TsoStateMachine::transition: a command and a state give a state and a
\* response.  (InvalidCount is not modelled: no caller sends a count of 0.)
Answer(s, r) == [state |-> s, response |-> r]
LeasePending == [kind |-> "LeasePending"]
TimestampOverflow == [kind |-> "TimestampOverflow"]

\* Mutant of acquire_lease: the owner renews a lease that is still running
\* from the clock value its command carries.
acquire_lease_RenewsEarly(s, cmd) ==
    LET expires == cmd.now_ms + LeaseDuration
    IN  IF s.lease_owner \notin {NoNode, cmd.leader_id} /\ cmd.now_ms < s.lease_expires_at_ms
        THEN Answer(s, LeasePending)
        ELSE IF expires > MaxPhysical
        THEN Answer(s, TimestampOverflow)
        ELSE Answer([s EXCEPT !.lease_owner = cmd.leader_id,
                              !.lease_expires_at_ms = expires],
                    [kind |-> "LeaseAcquired", expires_at_ms |-> expires])

acquire_lease(s, cmd) ==
    LET held == cmd.now_ms < s.lease_expires_at_ms
        expires == cmd.now_ms + LeaseDuration
    IN  IF s.lease_owner \notin {NoNode, cmd.leader_id} /\ held
        THEN Answer(s, LeasePending)
        ELSE IF s.lease_owner = cmd.leader_id /\ held
        THEN Answer(s, [kind |-> "LeaseAcquired",
                        expires_at_ms |-> s.lease_expires_at_ms])
        ELSE IF expires > MaxPhysical
        THEN Answer(s, TimestampOverflow)
        ELSE Answer([s EXCEPT !.lease_owner = cmd.leader_id,
                              !.lease_expires_at_ms = expires],
                    [kind |-> "LeaseAcquired", expires_at_ms |-> expires])

\* Mutant of StartAfter: < for <= in the comparison with the last timestamp.
StartAfter_Less(last, physical_ms) ==
    IF last # NoTimestamp /\ physical_ms < last.physical
    THEN checked_next(last)
    ELSE [physical |-> physical_ms, logical |-> 0]

\* Mutant of StartAfter: a clock that went back is trusted.
StartAfter_TrustsClock(last, physical_ms) ==
    IF last # NoTimestamp /\ physical_ms = last.physical
    THEN checked_next(last)
    ELSE [physical |-> physical_ms, logical |-> 0]

\* Where an allocation starts: above the last one, also when the physical
\* clock has gone back.
StartAfter(last, physical_ms) ==
    IF last # NoTimestamp /\ physical_ms <= last.physical
    THEN checked_next(last)
    ELSE [physical |-> physical_ms, logical |-> 0]

allocate(s, cmd) ==
    LET start == StartAfter(s.last, cmd.physical_ms)
        range == from_start(start, cmd.count)
    IN  IF s.lease_owner # cmd.leader_id \/ cmd.lease_now_ms >= s.lease_expires_at_ms
        THEN Answer(s, LeasePending)
        ELSE IF Overflows(start) \/ Overflows(range.end)
        THEN Answer(s, TimestampOverflow)
        ELSE Answer([s EXCEPT !.last = range.end, !.committed_ranges = @ + 1],
                    [kind |-> "Allocated", range |-> range])

transition(s, cmd) ==
    IF cmd.kind = "AcquireLease" THEN acquire_lease(s, cmd) ELSE allocate(s, cmd)

----------------------------------------------------------------------------
Init ==
    /\ state = [last |-> NoTimestamp, lease_owner |-> NoNode,
                lease_expires_at_ms |-> 0, committed_ranges |-> 0]
    /\ proposals = {}
    /\ lease_clock = 0
    /\ lease_expiry = [n \in Nodes |-> 0]
    /\ lease_lock = [n \in Nodes |-> Unlocked]
    /\ calls = [id \in CallIds |-> [NewCall(NoNode, 1, NoTimestamp) EXCEPT !.pc = "none"]]
    /\ clients = [c \in Clients |->
                    [pc |-> "check", leader |-> NoNode, attempt |-> 0, failures |-> 0,
                     count |-> BatchSize, then |-> "check", cache |-> <<>>,
                     last_returned |-> NoTimestamp]]
    /\ granted = <<>>
    /\ returned = [c \in Clients |-> {}]

----------------------------------------------------------------------------
\* The oracle's side of request id, addressed to node calls[id].node.

\* The request ends with this reply; its locals are gone.
Ended(call, pc, reply) ==
    [call EXCEPT !.pc = pc, !.reply = reply, !.physical_ms = 0, !.lease_now_ms = 0]
Finish(id, reply) == calls' = [calls EXCEPT ![id] = Ended(@, "done", reply)]
NotLeader == [kind |-> "NotLeader"]
LeaseNotReady == [kind |-> "LeaseNotReady"]
RaftError == [kind |-> "Raft"]

\* TsoService::get_timestamps refuses the credential.
RejectCall(id) ==
    /\ calls[id].pc = "received"
    /\ Finish(id, [kind |-> "Unauthenticated"])
    /\ UNCHANGED <<state, proposals, oracleVars, clients, granted, returned>>

\* get_timestamps_inner up to ensure_lease: both clocks are read before the
\* lease is looked at.
BeginCall(id) ==
    /\ calls[id].pc = "received"
    /\ \/ \E physical \in PhysicalReadings :
            calls' = [calls EXCEPT ![id].pc = "lease",
                                   ![id].physical_ms = physical,
                                   ![id].lease_now_ms = lease_clock]
       \/ Finish(id, NotLeader)
    /\ UNCHANGED <<state, proposals, oracleVars, clients, granted, returned>>

\* ensure_lease: use the cached expiry, or propose AcquireLease and keep the
\* mutex until the answer is there.
EnsureLease(id) ==
    LET n == calls[id].node
        now == calls[id].lease_now_ms
    IN  /\ calls[id].pc = "lease"
        /\ lease_lock[n] = Unlocked
        /\ \/ /\ now < lease_expiry[n]
              /\ calls' = [calls EXCEPT ![id].pc = "allocate"]
              /\ UNCHANGED <<proposals, lease_lock>>
           \/ /\ now >= lease_expiry[n]
              /\ proposals' = proposals \cup
                   {[kind |-> "AcquireLease", id |-> id, leader_id |-> n, now_ms |-> now]}
              /\ lease_lock' = [lease_lock EXCEPT ![n] = id]
              /\ calls' = [calls EXCEPT ![id].pc = "acquiring"]
           \/ /\ now >= lease_expiry[n]
              /\ Finish(id, NotLeader)
              /\ UNCHANGED <<proposals, lease_lock>>
        /\ UNCHANGED <<state, lease_clock, lease_expiry, clients,
                       granted, returned>>

\* get_timestamps_inner: propose Allocate with the clocks read at the start.
ProposeAllocate(id) ==
    LET call == calls[id]
    IN  /\ call.pc = "allocate"
        /\ \/ /\ proposals' = proposals \cup
                   {[kind |-> "Allocate", id |-> id, leader_id |-> call.node,
                     lease_now_ms |-> call.lease_now_ms,
                     physical_ms |-> call.physical_ms, count |-> call.count]}
              /\ calls' = [calls EXCEPT ![id].pc = "allocating"]
           \/ Finish(id, NotLeader) /\ UNCHANGED proposals
        /\ UNCHANGED <<state, oracleVars, clients, granted, returned>>

\* The caller of a committed command still waits for it.
Awaits(cmd) ==
    calls[cmd.id].pc = IF cmd.kind = "AcquireLease" THEN "acquiring" ELSE "allocating"

\* The Raft group commits a command: the state machine applies it, and the
\* response is there for the proposer if it still waits.
Commit(cmd) ==
    LET answer == transition(state, cmd)
    IN  /\ cmd \in proposals
        /\ proposals' = proposals \ {cmd}
        /\ state' = answer.state
        /\ granted' = IF answer.response.kind = "Allocated"
                      THEN Append(granted, answer.response.range) ELSE granted
        /\ calls' = IF Awaits(cmd)
                    THEN [calls EXCEPT ![cmd.id].pc = IF @ = "acquiring" THEN "acquired"
                                                                         ELSE "allocated",
                                       ![cmd.id].reply = answer.response]
                    ELSE calls
        /\ UNCHANGED <<oracleVars, clients, returned>>

\* Mutant of LeaseAnswered: the duration is added to the expiry that was answered.
LeaseAnswered_AddsDuration(id) ==
    LET call == calls[id]
    IN  /\ call.pc = "acquired"
        /\ lease_lock' = [lease_lock EXCEPT ![call.node] = Unlocked]
        /\ \/ /\ call.reply.kind = "LeaseAcquired"
              /\ lease_expiry' = [lease_expiry EXCEPT ![call.node] =
                                   call.reply.expires_at_ms + LeaseDuration]
              /\ calls' = [calls EXCEPT ![id].pc = "allocate"]
           \/ /\ call.reply.kind = "LeasePending"
              /\ Finish(id, LeaseNotReady)
              /\ UNCHANGED lease_expiry
           \/ /\ call.reply.kind = "TimestampOverflow"
              /\ Finish(id, TimestampOverflow)
              /\ UNCHANGED lease_expiry
        /\ UNCHANGED <<state, proposals, lease_clock, clients, granted,
                       returned>>

\* ensure_lease, once AcquireLease is answered.
LeaseAnswered(id) ==
    LET call == calls[id]
    IN  /\ call.pc = "acquired"
        /\ lease_lock' = [lease_lock EXCEPT ![call.node] = Unlocked]
        /\ \/ /\ call.reply.kind = "LeaseAcquired"
              /\ lease_expiry' = [lease_expiry EXCEPT ![call.node] = call.reply.expires_at_ms]
              /\ calls' = [calls EXCEPT ![id].pc = "allocate"]
           \/ /\ call.reply.kind = "LeasePending"
              /\ Finish(id, LeaseNotReady)
              /\ UNCHANGED lease_expiry
           \/ /\ call.reply.kind = "TimestampOverflow"
              /\ Finish(id, TimestampOverflow)
              /\ UNCHANGED lease_expiry
        /\ UNCHANGED <<state, proposals, lease_clock, clients, granted,
                       returned>>

\* get_timestamps_inner, once Allocate is answered: a refusal first forgets
\* the cached expiry, under the mutex.
AllocateAnswered(id) ==
    LET call == calls[id]
    IN  /\ call.pc = "allocated"
        /\ \/ /\ call.reply.kind \in {"Allocated", "TimestampOverflow"}
              /\ Finish(id, call.reply)
              /\ UNCHANGED lease_expiry
           \/ /\ call.reply.kind = "LeasePending"
              /\ lease_lock[call.node] = Unlocked
              /\ lease_expiry' = [lease_expiry EXCEPT ![call.node] = 0]
              /\ Finish(id, LeaseNotReady)
        /\ UNCHANGED <<state, proposals, lease_clock, lease_lock, clients,
                       granted, returned>>

\* propose fails (leadership lost, group shut down): the caller gives up, the
\* command may be committed all the same.
ProposalFails(id) ==
    /\ calls[id].pc \in {"acquiring", "allocating"}
    /\ \E error \in {NotLeader, RaftError} : Finish(id, error)
    /\ lease_lock' = [n \in Nodes |-> IF lease_lock[n] = id THEN Unlocked ELSE lease_lock[n]]
    /\ UNCHANGED <<state, proposals, lease_clock, lease_expiry, clients,
                   granted, returned>>

\* A command that nobody waits for never commits.
LoseProposal(cmd) ==
    /\ cmd \in proposals
    /\ ~Awaits(cmd)
    /\ proposals' = proposals \ {cmd}
    /\ UNCHANGED <<state, oracleVars, calls, clients, granted, returned>>

\* The process of node n stops and starts again: its requests end without
\* an answer and the oracle is built anew.
RestartNode(n) ==
    /\ \E id \in CallIds : calls[id].pc \in ActivePcs /\ calls[id].node = n
    /\ calls' = [id \in CallIds |->
                   IF calls[id].pc \in ActivePcs /\ calls[id].node = n
                   THEN Ended(calls[id], "dead", NoReply) ELSE calls[id]]
    /\ lease_expiry' = [lease_expiry EXCEPT ![n] = 0]
    /\ lease_lock' = [lease_lock EXCEPT ![n] = Unlocked]
    /\ UNCHANGED <<state, proposals, lease_clock, clients, granted, returned>>

\* lease_millis advances.
LeaseTick ==
    /\ lease_clock < MaxPhysical
    /\ lease_clock' = lease_clock + 1
    /\ UNCHANGED <<state, proposals, lease_expiry, lease_lock, calls,
                   clients, granted, returned>>

----------------------------------------------------------------------------
\* TsoClient.  A client is owned by one task, which runs get_timestamps:
\* "check" is the head of its loop, "refill" the head of refill's loop,
\* "waiting" a request in the transport and "pop" the call of pop_cache.

cache_remaining(c) ==
    LET cache == clients[c].cache
    IN  MapThenSumSet(LAMBDA i : cache[i].range.count - cache[i].next_offset, DOMAIN cache)

BeginRefill(c, count, then) ==
    clients' = [clients EXCEPT ![c].pc = "refill", ![c].failures = 0,
                               ![c].count = count, ![c].then = then]

\* The head of get_timestamps' loop: prefetch when few timestamps are left,
\* fetch what the call still needs (at least a batch) when none is.
CheckCache(c) ==
    /\ clients[c].pc = "check"
    /\ \/ /\ cache_remaining(c) \in 1..PrefetchThreshold
          /\ BeginRefill(c, BatchSize, "pop")
       \/ /\ cache_remaining(c) = 0
          /\ \E count \in BatchSize..MaxCount : BeginRefill(c, count, "check")
       \/ /\ cache_remaining(c) > PrefetchThreshold
          /\ clients' = [clients EXCEPT ![c].pc = "pop"]
    /\ UNCHANGED <<state, proposals, oracleVars, calls, granted, returned>>

\* refill returns an error: get_timestamps fails, the cache stays.
RefillFails(c) == clients' = [clients EXCEPT ![c].pc = "check"]

\* refill's treatment of a Transport or LeaseNotReady error.
RetryOrFail(c) ==
    IF clients[c].failures >= MaxRetries
    THEN RefillFails(c)
    ELSE clients' = [clients EXCEPT ![c].pc = "refill", ![c].failures = @ + 1]

\* refresh_leader: the answer is any node's stale view of the leader.
DiscoverLeader(c) ==
    /\ clients[c].pc = "refill"
    /\ clients[c].leader = NoNode
    /\ \/ \E n \in Nodes : clients' = [clients EXCEPT ![c].leader = n]
       \/ RetryOrFail(c)    \* Transport
       \/ RefillFails(c)    \* Unauthenticated
    /\ UNCHANGED <<state, proposals, oracleVars, calls, granted, returned>>

\* Every request has a correlation id of its own.
SendRequest(c) ==
    LET id == <<c, clients[c].attempt + 1>>
    IN  /\ clients[c].pc = "refill"
        /\ clients[c].leader # NoNode
        /\ clients[c].attempt < MaxAttempts
        /\ clients' = [clients EXCEPT ![c].pc = "waiting", ![c].attempt = @ + 1]
        /\ calls' = [calls EXCEPT ![id] = NewCall(clients[c].leader, clients[c].count,
                                                  state.last)]
        /\ UNCHANGED <<state, proposals, oracleVars, granted, returned>>

\* The request or its answer is lost or late, or the target is unreachable;
\* the pending entry is removed, so a late answer finds nobody.
RequestTimesOut(c) ==
    /\ clients[c].pc = "waiting"
    /\ RetryOrFail(c)
    /\ UNCHANGED <<state, proposals, oracleVars, calls, granted, returned>>

\* Mutant of Answers: the correlation id of an answer is ignored.
Answers_AnyAttempt(c) ==
    {calls[<<c, k>>].reply : k \in {i \in 1..MaxAttempts : calls[<<c, i>>].pc = "done"}}

Answers(c) ==
    {calls[<<c, k>>].reply : k \in {i \in {clients[c].attempt} \cap (1..MaxAttempts) :
                                      calls[<<c, i>>].pc = "done"}}

\* refill, the answer has come.
ReceiveAnswer(c) ==
    /\ clients[c].pc = "waiting"
    /\ \E reply \in Answers(c) :
         \/ /\ reply.kind = "Allocated"
            /\ IF /\ reply.range.count = clients[c].count
                  /\ at(reply.range, clients[c].count - 1) = reply.range.end
               THEN clients' = [clients EXCEPT ![c].pc = clients[c].then,
                                  ![c].cache = Append(@, [range |-> reply.range,
                                                          next_offset |-> 0])]
               ELSE RefillFails(c)    \* Codec
         \/ /\ reply.kind = "NotLeader"
            /\ \E hint \in Nodes \cup {NoNode} :
                 clients' = [clients EXCEPT ![c].leader = hint,
                               ![c].failures = @ + 1,
                               ![c].pc = IF clients[c].failures + 1 > MaxRetries
                                         THEN "check" ELSE "refill"]
         \/ /\ reply.kind = "LeaseNotReady"
            /\ RetryOrFail(c)
         \/ /\ reply.kind \in {"Raft", "TimestampOverflow", "Unauthenticated"}
            /\ RefillFails(c)
    /\ UNCHANGED <<state, proposals, oracleVars, calls, granted, returned>>

\* pop_cache: the exhausted ranges at the front go, the next timestamp of
\* the first other one is taken.  NonMonotonicResponse empties the cache.
PopCache(c) ==
    LET cache == clients[c].cache
        last == clients[c].last_returned
        Exhausted(i) == cache[i].next_offset >= cache[i].range.count
    IN  /\ clients[c].pc = "pop"
        /\ \E i \in DOMAIN cache :
             LET value == at(cache[i].range, cache[i].next_offset)
             IN  /\ ~Exhausted(i) /\ \A j \in 1..(i - 1) : Exhausted(j)
                 /\ IF last # NoTimestamp /\ AtMost(value, last)
                    THEN /\ clients' = [clients EXCEPT ![c].pc = "check", ![c].cache = <<>>]
                         /\ UNCHANGED returned
                    ELSE /\ clients' = [clients EXCEPT ![c].pc = "check",
                              ![c].cache = SubSeq([cache EXCEPT ![i].next_offset = @ + 1],
                                                  i, Len(cache)),
                              ![c].last_returned = value]
                         /\ returned' = [returned EXCEPT ![c] = @ \cup {value}]
        /\ UNCHANGED <<state, proposals, oracleVars, calls, granted>>

----------------------------------------------------------------------------
OracleStep(id) ==
    \/ RejectCall(id) \/ BeginCall(id) \/ EnsureLease(id) \/ LeaseAnswered(id)
    \/ ProposeAllocate(id) \/ AllocateAnswered(id) \/ ProposalFails(id)

ClientStep(c) ==
    \/ CheckCache(c) \/ DiscoverLeader(c) \/ SendRequest(c) \/ RequestTimesOut(c)
    \/ ReceiveAnswer(c) \/ PopCache(c)

Next ==
    \/ \E id \in CallIds : OracleStep(id)
    \/ \E cmd \in proposals : Commit(cmd) \/ LoseProposal(cmd)
    \/ \E n \in Nodes : RestartNode(n)
    \/ LeaseTick
    \/ \E c \in Clients : ClientStep(c)

Spec == Init /\ [][Next]_vars

----------------------------------------------------------------------------
Responses ==
    [kind: {"none", "LeasePending", "TimestampOverflow", "NotLeader", "LeaseNotReady",
            "Raft", "Unauthenticated"}]
    \cup [kind: {"LeaseAcquired"}, expires_at_ms: 0..MaxPhysical]
    \cup [kind: {"Allocated"}, range: TimestampRange]

Commands ==
    [kind: {"AcquireLease"}, id: CallIds, leader_id: Nodes, now_ms: 0..MaxPhysical]
    \cup [kind: {"Allocate"}, id: CallIds, leader_id: Nodes,
          lease_now_ms: 0..MaxPhysical, physical_ms: 0..MaxPhysical, count: 1..MaxCount]

OptTimestamp == HybridTimestamp \cup {NoTimestamp}

TsoState == [last: OptTimestamp, lease_owner: Nodes \cup {NoNode},
             lease_expires_at_ms: 0..MaxPhysical, committed_ranges: Nat]

Call == [pc: ActivePcs \cup {"none", "done", "dead"}, node: Nodes \cup {NoNode},
         count: 1..MaxCount, physical_ms: 0..MaxPhysical, lease_now_ms: 0..MaxPhysical,
         reply: Responses, floor: OptTimestamp]

CachedRange == [range: TimestampRange, next_offset: Nat]

Client == [pc: {"check", "refill", "waiting", "pop"}, leader: Nodes \cup {NoNode},
           attempt: 0..MaxAttempts, failures: 0..(MaxRetries + 1), count: 1..MaxCount,
           then: {"check", "pop"}, cache: Seq(CachedRange), last_returned: OptTimestamp]

\* Every variable has its type; in particular no TimestampRange that
\* overflows u64 milliseconds is ever stored or answered.
TypeOK ==
    /\ state \in TsoState
    /\ proposals \subseteq Commands
    /\ lease_clock \in 0..MaxPhysical
    /\ lease_expiry \in [Nodes -> 0..MaxPhysical]
    /\ lease_lock \in [Nodes -> CallIds \cup {Unlocked}]
    /\ calls \in [CallIds -> Call]
    /\ clients \in [Clients -> Client]
    /\ granted \in Seq(TimestampRange)
    /\ returned \in [Clients -> SUBSET HybridTimestamp]

\* A node whose cached expiry lies in the future owns the replicated lease
\* until then, so no two nodes use a lease at once (ensure_lease answers from
\* the cache without asking the group).
CachedLeaseIsHeld ==
    \A n \in Nodes : lease_clock < lease_expiry[n] =>
        state.lease_owner = n /\ state.lease_expires_at_ms = lease_expiry[n]

\* The lease changes hands only after it has run out, and its expiry never
\* goes back, although AcquireLease commands carry a clock read long before
\* they commit.
LeaseIsWaitedOut ==
    [][/\ state'.lease_expires_at_ms >= state.lease_expires_at_ms
       /\ state'.lease_owner # state.lease_owner
            => lease_clock >= state.lease_expires_at_ms]_vars

\* A request answered with a range gets timestamps above everything that was
\* allocated when the request was sent, whatever the physical clock did.
RealTimeOrder ==
    \A id \in CallIds :
        (calls[id].reply.kind = "Allocated" /\ calls[id].floor # NoTimestamp)
            => Before(calls[id].floor, calls[id].reply.range.start)

\* What a client has cached ascends, and lies above what it has returned: the
\* NonMonotonicResponse of pop_cache cannot happen, whichever requests timed
\* out, were answered late or were retried at another leader.
CacheAscends ==
    \A c \in Clients : LET cache == clients[c].cache IN
        /\ \A i, j \in DOMAIN cache : i < j => Before(cache[i].range.end, cache[j].range.start)
        /\ \A i \in DOMAIN cache :
             (clients[c].last_returned # NoTimestamp
                /\ cache[i].next_offset < cache[i].range.count)
               => Before(clients[c].last_returned, at(cache[i].range, cache[i].next_offset))

\* Every range the group commits lies above all it committed before, so no two
\* share a timestamp, also when a command commits after its proposer gave up.
RangesAreDisjoint ==
    \A i, j \in DOMAIN granted : i < j => Before(granted[i].end, granted[j].start)

\* The oracle and its clients implement the timestamp service: ranges are
\* granted upwards and every timestamp is returned once, in order per client.
Service == INSTANCE TimestampService
ImplementsService == Service!Spec
=============================================================================
