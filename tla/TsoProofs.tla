----------------------------- MODULE TsoProofs -----------------------------
(***************************************************************************)
(* Theorems about the timestamp oracle, for any number of nodes, clients   *)
(* and requests, any clock readings and any width of the timestamps. They  *)
(* rest on facts about the timestamps of crates/chirps-core/src/time.rs:   *)
(* the order is transitive, and checked_add climbs it through              *)
(* every carry.  Clients observe what TimestampService promises: their     *)
(* answers respect real time, each client's timestamps ascend, and the     *)
(* whole implements it.                                                    *)
(***************************************************************************)
EXTENDS Tso, TLAPS

\* Before is transitive, also combined with AtMost (derived Ord).
LEMMA BeforeTransitive ==
    ASSUME NEW r, NEW s, NEW t,
           r.physical \in Int, s.physical \in Int, t.physical \in Int,
           r.logical \in Int, s.logical \in Int, t.logical \in Int
    PROVE  /\ Before(r, s) /\ Before(s, t) => Before(r, t)
           /\ AtMost(r, s) /\ Before(s, t) => Before(r, t)
           /\ Before(r, s) /\ AtMost(s, t) => Before(r, t)
           /\ AtMost(r, s) /\ AtMost(s, t) => AtMost(r, t)
BY DEF Before, AtMost

\* Quotient and remainder by LOGICAL_CARDINALITY.
LEMMA DivMod ==
    ASSUME NEW x \in Nat
    PROVE  /\ x \div LOGICAL_CARDINALITY \in Nat
           /\ x % LOGICAL_CARDINALITY \in 0..(LOGICAL_CARDINALITY - 1)
           /\ x = LOGICAL_CARDINALITY * (x \div LOGICAL_CARDINALITY)
                    + (x % LOGICAL_CARDINALITY)
BY WidthAssumption

\* A greater counter has a greater quotient, or the same one and a greater
\* remainder.
LEMMA DivModAscends ==
    ASSUME NEW x \in Nat, NEW y \in Nat, x < y
    PROVE  \/ x \div LOGICAL_CARDINALITY < y \div LOGICAL_CARDINALITY
           \/ /\ x \div LOGICAL_CARDINALITY = y \div LOGICAL_CARDINALITY
              /\ x % LOGICAL_CARDINALITY < y % LOGICAL_CARDINALITY
<1> DEFINE L == LOGICAL_CARDINALITY
           p == x \div L
           q == y \div L
           r == x % L
           s == y % L
<1>1. /\ p \in Nat /\ q \in Nat /\ r \in 0..(L - 1) /\ s \in 0..(L - 1)
      /\ x = L * p + r /\ y = L * q + s
  BY DivMod, Zenon
<1>2. L \in Nat \ {0}
  BY WidthAssumption, Zenon
<1>3. (p < q) \/ (p = q /\ r < s)
  <2> HIDE DEF L, p, q, r, s
  <2>1. CASE q < p
    <3>1. L * q <= L * p - L
      BY <1>1, <1>2, <2>1
    <3> QED
      BY <1>1, <1>2, <3>1
  <2>2. CASE q = p
    BY <1>1, <1>2, <2>2
  <2> QED
    BY <1>1, <2>1, <2>2
<1> QED
  BY <1>3, Zenon

\* checked_add gives a timestamp unless it overflows, and later offsets give
\* later timestamps.
LEMMA AddAscends ==
    ASSUME NEW t \in HybridTimestamp, NEW d \in Nat, NEW e \in Nat
    PROVE  /\ checked_add(t, d).physical \in Nat
           /\ checked_add(t, d).logical \in 0..(LOGICAL_CARDINALITY - 1)
           /\ ~Overflows(checked_add(t, d)) => checked_add(t, d) \in HybridTimestamp
           /\ d < e => Before(checked_add(t, d), checked_add(t, e))
           /\ d <= e => AtMost(checked_add(t, d), checked_add(t, e))
<1> DEFINE x == t.logical + d
           y == t.logical + e
<1>1. x \in Nat /\ y \in Nat /\ t.physical \in Nat /\ MaxPhysical \in Nat
  BY WidthAssumption DEF HybridTimestamp
<1>2. /\ x \div LOGICAL_CARDINALITY \in Nat
      /\ y \div LOGICAL_CARDINALITY \in Nat
      /\ x % LOGICAL_CARDINALITY \in 0..(LOGICAL_CARDINALITY - 1)
  BY <1>1, DivMod, Zenon
<1>3. d < e => Before(checked_add(t, d), checked_add(t, e))
  <2> SUFFICES ASSUME d < e PROVE Before(checked_add(t, d), checked_add(t, e))
    BY Zenon
  <2>1. x < y
    BY DEF HybridTimestamp
  <2>2. \/ x \div LOGICAL_CARDINALITY < y \div LOGICAL_CARDINALITY
        \/ /\ x \div LOGICAL_CARDINALITY = y \div LOGICAL_CARDINALITY
           /\ x % LOGICAL_CARDINALITY < y % LOGICAL_CARDINALITY
    BY <1>1, <2>1, DivModAscends, Zenon
  <2> HIDE DEF x, y
  <2> QED
    BY <1>1, <1>2, <2>2 DEF Before, checked_add, x, y
<1>4. ~Overflows(checked_add(t, d)) => checked_add(t, d) \in HybridTimestamp
  BY <1>1, <1>2 DEF Overflows, checked_add, HybridTimestamp
<1>5. d <= e => AtMost(checked_add(t, d), checked_add(t, e))
  BY <1>3 DEF AtMost
<1> QED
  BY <1>1, <1>2, <1>3, <1>4, <1>5 DEF checked_add

\* Adding nothing changes nothing.
LEMMA AddZero ==
    ASSUME NEW t \in HybridTimestamp
    PROVE  checked_add(t, 0) = t
<1>1. t.logical \in 0..(LOGICAL_CARDINALITY - 1) /\ t.physical \in Nat
  BY WidthAssumption DEF HybridTimestamp
<1>2. t.logical \div LOGICAL_CARDINALITY = 0 /\ t.logical % LOGICAL_CARDINALITY = t.logical
  BY <1>1, WidthAssumption
<1> QED
  BY <1>1, <1>2 DEF checked_add, HybridTimestamp

----------------------------------------------------------------------------
\* What from_start returns when nothing overflows.
WellFormed(r) ==
    /\ r \in TimestampRange
    /\ r.count \in Nat \ {0}
    /\ r.end = checked_add(r.start, r.count - 1)

\* A client that has lost its cache.
LEMMA NoRanges == <<>> \in Seq(CachedRange)
OBVIOUS

----------------------------------------------------------------------------
\* The state machine, one command at a time.

\* acquire_lease answers with a type-correct state; it hands the lease over
\* only when the command's clock is past the old expiry, and an acquired lease
\* is the one in the state.
LEMMA AcquireLeaseFacts ==
    ASSUME NEW s \in TsoState, NEW cmd \in Commands, cmd.kind = "AcquireLease"
    PROVE  LET answer == acquire_lease(s, cmd)
           IN  /\ answer.state \in TsoState
               /\ answer.response \in Responses
               /\ answer.response.kind # "Allocated"
               /\ answer.state.last = s.last
               /\ answer.response.kind = "LeaseAcquired" =>
                    /\ answer.state.lease_owner = cmd.leader_id
                    /\ answer.state.lease_expires_at_ms = answer.response.expires_at_ms
               /\ \/ answer.state = s
                  \/ /\ s.lease_owner = NoNode \/ s.lease_expires_at_ms <= cmd.now_ms
                     /\ answer.state.lease_expires_at_ms > cmd.now_ms
                     /\ answer.state.lease_owner \in Nodes
<1> DEFINE expires == cmd.now_ms + LeaseDuration
<1>1. /\ cmd.now_ms \in 0..MaxPhysical /\ cmd.leader_id \in Nodes
      /\ LeaseDuration \in Nat \ {0} /\ MaxPhysical \in Nat
      /\ NoNode \notin Nodes
  BY TsoAssumption, WidthAssumption, Zenon DEF Commands
<1>2. expires \in Nat /\ expires > cmd.now_ms
  BY <1>1
<1>3. CASE acquire_lease(s, cmd).state = s
  BY <1>1, <1>2, <1>3, ZenonT(30) DEF acquire_lease, Answer, LeasePending, TimestampOverflow,
     Responses, TsoState
<1>4. CASE acquire_lease(s, cmd).state # s
  <2>1. /\ ~(s.lease_owner \notin {NoNode, cmd.leader_id}
             /\ cmd.now_ms < s.lease_expires_at_ms)
        /\ ~(s.lease_owner = cmd.leader_id /\ cmd.now_ms < s.lease_expires_at_ms)
        /\ ~(expires > MaxPhysical)
    BY <1>4, Zenon DEF acquire_lease, Answer
  <2>2. acquire_lease(s, cmd) =
          Answer([s EXCEPT !.lease_owner = cmd.leader_id, !.lease_expires_at_ms = expires],
                 [kind |-> "LeaseAcquired", expires_at_ms |-> expires])
    BY <2>1, Zenon DEF acquire_lease
  <2> HIDE DEF expires
  <2>3. s.lease_expires_at_ms \in Nat
    BY <1>1 DEF TsoState
  <2>4. s.lease_owner = NoNode \/ s.lease_expires_at_ms <= cmd.now_ms
    BY <1>1, <2>1, <2>3
  <2> DEFINE new == [s EXCEPT !.lease_owner = cmd.leader_id,
                              !.lease_expires_at_ms = expires]
             response == [kind |-> "LeaseAcquired", expires_at_ms |-> expires]
  <2>5. expires \in 0..MaxPhysical
    BY <1>1, <1>2, <2>1
  <2>6. response \in Responses
    BY <2>5, Zenon DEF Responses
  <2>7. /\ new \in TsoState /\ new.last = s.last /\ new.lease_owner = cmd.leader_id
        /\ new.lease_expires_at_ms = expires
    BY <1>1, <2>5, Zenon DEF TsoState
  <2>8. /\ acquire_lease(s, cmd).state = new
        /\ acquire_lease(s, cmd).response = response
    BY <2>2 DEF Answer
  <2>9. response.kind = "LeaseAcquired" /\ response.expires_at_ms = expires
    BY Zenon
  <2> HIDE DEF new, response
  <2> QED
    BY <1>1, <1>2, <2>4, <2>6, <2>7, <2>8, <2>9, Zenon
<1> QED
  BY <1>3, <1>4, Zenon

\* allocate answers with a type-correct state, leaves the lease alone, and
\* starts a range above the last timestamp that was allocated before.
LEMMA AllocateFacts ==
    ASSUME NEW s \in TsoState, NEW cmd \in Commands, cmd.kind = "Allocate"
    PROVE  LET answer == allocate(s, cmd)
           IN  /\ answer.state \in TsoState
               /\ answer.response \in Responses
               /\ answer.response.kind # "LeaseAcquired"
               /\ answer.state.lease_owner = s.lease_owner
               /\ answer.state.lease_expires_at_ms = s.lease_expires_at_ms
               /\ answer.response.kind # "Allocated" => answer.state = s
               /\ answer.response.kind = "Allocated" =>
                    /\ WellFormed(answer.response.range)
                    /\ answer.state.last = answer.response.range.end
                    /\ s.last # NoTimestamp => Before(s.last, answer.response.range.start)
<1> DEFINE start == StartAfter(s.last, cmd.physical_ms)
           range == from_start(start, cmd.count)
<1>1. /\ cmd.physical_ms \in 0..MaxPhysical /\ cmd.count \in Nat \ {0}
      /\ MaxPhysical \in Nat /\ LOGICAL_CARDINALITY \in Nat \ {0}
      /\ s.last \in OptTimestamp
  BY TsoAssumption, WidthAssumption DEF Commands, TsoState
<1>2. CASE /\ ~(s.lease_owner # cmd.leader_id \/ cmd.lease_now_ms >= s.lease_expires_at_ms)
           /\ ~(Overflows(start) \/ Overflows(range.end))
  <2>1. allocate(s, cmd) =
          Answer([s EXCEPT !.last = range.end, !.committed_ranges = @ + 1],
                 [kind |-> "Allocated", range |-> range])
    BY <1>2, Zenon DEF allocate
  <2>2. /\ start \in HybridTimestamp
        /\ s.last # NoTimestamp => Before(s.last, start)
    <3>1. CASE s.last # NoTimestamp /\ cmd.physical_ms <= s.last.physical
      <4>1. s.last \in HybridTimestamp /\ start = checked_add(s.last, 1)
        BY <1>1, <3>1, Zenon DEF OptTimestamp, StartAfter, checked_next
      <4>2. Before(checked_add(s.last, 0), checked_add(s.last, 1))
        BY <4>1, AddAscends
      <4>3. ~Overflows(start) => start \in HybridTimestamp
        BY <4>1, AddAscends, Zenon
      <4> QED
        BY <1>2, <4>1, <4>2, <4>3, AddZero, Zenon
    <3>2. CASE ~(s.last # NoTimestamp /\ cmd.physical_ms <= s.last.physical)
      <4>1. start = [physical |-> cmd.physical_ms, logical |-> 0]
        BY <3>2, Zenon DEF StartAfter
      <4>2. start \in HybridTimestamp
        BY <1>1, <4>1 DEF HybridTimestamp
      <4>3. s.last # NoTimestamp => s.last.physical < start.physical
        BY <1>1, <3>2, <4>1 DEF OptTimestamp, HybridTimestamp
      <4> QED
        BY <4>2, <4>3, Zenon DEF Before
    <3> QED
      BY <3>1, <3>2, Zenon
  <2>3. WellFormed(range)
    <3>1. range.end = checked_add(start, cmd.count - 1) /\ cmd.count - 1 \in Nat
      BY <1>1 DEF from_start
    <3>2. range.end \in HybridTimestamp
      BY <1>2, <2>2, <3>1, AddAscends, Zenon
    <3> HIDE DEF start
    <3> QED
      BY <1>1, <2>2, <3>1, <3>2, Zenon DEF WellFormed, TimestampRange, from_start
  <2> HIDE DEF start, range
  <2>4. range \in TimestampRange /\ range.end \in OptTimestamp
    BY <2>3, Zenon DEF WellFormed, TimestampRange, OptTimestamp
  <2>5. range.start = start
    BY Zenon DEF range, from_start
  <2> DEFINE new == [s EXCEPT !.last = range.end, !.committed_ranges = @ + 1]
             response == [kind |-> "Allocated", range |-> range]
  <2>6. response \in Responses /\ response.kind = "Allocated" /\ response.range = range
    BY <2>4, Zenon DEF Responses
  <2>7. /\ new \in TsoState /\ new.last = range.end
        /\ new.lease_owner = s.lease_owner
        /\ new.lease_expires_at_ms = s.lease_expires_at_ms
    <3>1. ASSUME NEW end \in OptTimestamp, NEW n \in Nat
          PROVE  LET t == [s EXCEPT !.last = end, !.committed_ranges = n]
                 IN  /\ t \in TsoState /\ t.last = end
                     /\ t.lease_owner = s.lease_owner
                     /\ t.lease_expires_at_ms = s.lease_expires_at_ms
      BY Zenon DEF TsoState
    <3>2. s.committed_ranges + 1 \in Nat
      BY DEF TsoState
    <3> QED
      BY <2>4, <3>1, <3>2, Zenon
  <2>8. allocate(s, cmd).state = new /\ allocate(s, cmd).response = response
    BY <2>1 DEF Answer
  <2> HIDE DEF new, response
  <2> QED
    BY <2>2, <2>3, <2>5, <2>6, <2>7, <2>8, Zenon
<1>3. CASE ~(/\ ~(s.lease_owner # cmd.leader_id \/ cmd.lease_now_ms >= s.lease_expires_at_ms)
             /\ ~(Overflows(start) \/ Overflows(range.end)))
  <2>1. \/ allocate(s, cmd) = Answer(s, LeasePending)
        \/ allocate(s, cmd) = Answer(s, TimestampOverflow)
    BY <1>3, Zenon DEF allocate
  <2> QED
    BY <2>1 DEF Answer, LeasePending, TimestampOverflow, Responses
<1> QED
  BY <1>2, <1>3, Zenon

----------------------------------------------------------------------------
\* The inductive invariant.

\* Cached ranges are well formed, so that at never overflows inside one, and
\* refill has retries left while it runs.
ClientOK(client) ==
    /\ \A i \in DOMAIN client.cache : WellFormed(client.cache[i].range)
    /\ client.pc \in {"refill", "waiting"} => client.failures <= MaxRetries

CacheInv == \A c \in Clients : ClientOK(clients[c])

\* Everything granted lies at or below the last timestamp of the state.
RangeInv ==
    /\ \A i \in DOMAIN granted : /\ WellFormed(granted[i])
                                 /\ state.last # NoTimestamp
                                 /\ AtMost(granted[i].end, state.last)
    /\ RangesAreDisjoint

\* A proposal carries the id of a request that was sent, and its node; active
\* requests have a node.
CallInv ==
    /\ \A cmd \in proposals : /\ cmd.id[2] <= clients[cmd.id[1]].attempt
                              /\ cmd.leader_id = calls[cmd.id].node
    /\ \A id \in CallIds : /\ calls[id].pc \in ActivePcs => calls[id].node \in Nodes
                           /\ calls[id].pc # "none" => id[2] <= clients[id[1]].attempt

\* A clock value read earlier is not in the future, and an answer that says
\* LeaseAcquired is out of date or says what the state says.
LeaseInv ==
    /\ state.lease_owner = NoNode => state.lease_expires_at_ms = 0
    /\ \A id \in CallIds : calls[id].lease_now_ms <= lease_clock
    /\ \A cmd \in proposals : cmd.kind = "AcquireLease" => cmd.now_ms <= lease_clock
    /\ \A id \in CallIds :
         (/\ calls[id].pc = "acquired" /\ calls[id].reply.kind = "LeaseAcquired"
          /\ lease_clock < calls[id].reply.expires_at_ms)
           => /\ state.lease_owner = calls[id].node
              /\ state.lease_expires_at_ms = calls[id].reply.expires_at_ms
    /\ CachedLeaseIsHeld

TsoInv == TypeOK /\ CacheInv /\ RangeInv /\ CallInv /\ LeaseInv

----------------------------------------------------------------------------
\* Typing.

\* What an oracle step does to a call keeps it a Call.
LEMMA CallTypes ==
    ASSUME NEW call \in Call, NEW reply \in Responses,
           NEW pc \in ActivePcs \cup {"none", "done", "dead"}
    PROVE  /\ [call EXCEPT !.pc = pc] \in Call
           /\ [call EXCEPT !.pc = pc, !.reply = reply] \in Call
           /\ Ended(call, pc, reply) \in Call
<1>1. [call EXCEPT !.pc = pc] \in Call
  BY Zenon DEF Call
<1>2. [call EXCEPT !.pc = pc, !.reply = reply] \in Call
  BY Zenon DEF Call
<1>3. ASSUME NEW zero \in 0..MaxPhysical
      PROVE  [call EXCEPT !.pc = pc, !.reply = reply, !.physical_ms = zero,
                          !.lease_now_ms = zero] \in Call
  BY Zenon DEF Call
<1>4. 0 \in 0..MaxPhysical
  BY WidthAssumption
<1> QED
  BY <1>1, <1>2, <1>3, <1>4, Zenon DEF Ended

LEMMA ReplyTypes ==
    /\ NoReply \in Responses /\ LeasePending \in Responses
    /\ TimestampOverflow \in Responses /\ NotLeader \in Responses
    /\ LeaseNotReady \in Responses /\ RaftError \in Responses
    /\ [kind |-> "Unauthenticated"] \in Responses
BY Zenon DEF Responses, NoReply, LeasePending, TimestampOverflow, NotLeader, LeaseNotReady,
   RaftError

\* The steps of the oracle keep the types.
LEMMA OracleTypes ==
    ASSUME TypeOK, CallInv, NEW id \in CallIds, OracleStep(id)
    PROVE  TypeOK'
<1> USE DEF TypeOK, oracleVars
<1>0. calls[id] \in Call
  BY Zenon
<1>1. ASSUME NEW r \in Responses, Finish(id, r) PROVE calls' \in [CallIds -> Call]
  <2>1. Ended(calls[id], "done", r) \in Call
    BY <1>0, CallTypes, Zenon
  <2> QED
    BY <1>1, <2>1, Zenon DEF Finish
<1>2. ASSUME NEW pc \in ActivePcs, calls' = [calls EXCEPT ![id].pc = pc]
      PROVE  calls' \in [CallIds -> Call]
  <2>1. [calls[id] EXCEPT !.pc = pc] \in Call
    BY <1>0, ReplyTypes, CallTypes, Zenon
  <2> QED
    BY <1>2, <2>1, Zenon
<1>3. CASE RejectCall(id)
  BY <1>1, <1>3, ReplyTypes, Zenon DEF RejectCall
<1>4. CASE BeginCall(id)
  <2>1. CASE Finish(id, NotLeader)
    BY <1>1, <1>4, <2>1, ReplyTypes, Zenon DEF BeginCall
  <2>2. ASSUME NEW physical \in PhysicalReadings,
               calls' = [calls EXCEPT ![id].pc = "lease", ![id].physical_ms = physical,
                                      ![id].lease_now_ms = lease_clock]
        PROVE  TypeOK'
    <3>1. physical \in 0..MaxPhysical
      BY TsoAssumption, Zenon
    <3>2. [calls[id] EXCEPT !.pc = "lease", !.physical_ms = physical,
                            !.lease_now_ms = lease_clock] \in Call
      BY <1>0, <3>1, Zenon DEF Call, ActivePcs
    <3> QED
      BY <1>4, <2>2, <3>2, Zenon DEF BeginCall
  <2> QED
    BY <1>4, <2>1, <2>2, Zenon DEF BeginCall
<1>5. CASE EnsureLease(id)
  <2>1. calls[id].pc \in ActivePcs /\ calls[id].node \in Nodes
    BY <1>5, Zenon DEF EnsureLease, CallInv, ActivePcs
  <2>2. calls' \in [CallIds -> Call]
    BY <1>1, <1>2, <1>5, ReplyTypes, Zenon DEF EnsureLease, ActivePcs
  <2>3. [kind |-> "AcquireLease", id |-> id, leader_id |-> calls[id].node,
         now_ms |-> calls[id].lease_now_ms] \in Commands
    BY <1>0, <2>1, Zenon DEF Commands, Call
  <2>4. proposals' \subseteq Commands
    BY <1>5, <2>3, Zenon DEF EnsureLease
  <2>5. lease_lock' \in [Nodes -> CallIds \cup {Unlocked}]
    BY <1>5, SMTT(30) DEF EnsureLease
  <2> QED
    BY <1>5, <2>2, <2>4, <2>5, Zenon DEF EnsureLease
<1>6. CASE LeaseAnswered(id)
  <2>1. calls[id].pc \in ActivePcs /\ calls[id].node \in Nodes
    BY <1>6, Zenon DEF LeaseAnswered, CallInv, ActivePcs
  <2>2. calls' \in [CallIds -> Call]
    BY <1>1, <1>2, <1>6, ReplyTypes, Zenon DEF LeaseAnswered, ActivePcs
  <2>3. lease_lock' \in [Nodes -> CallIds \cup {Unlocked}]
    BY <1>6, Zenon DEF LeaseAnswered
  <2>4. calls[id].reply.kind = "LeaseAcquired" => calls[id].reply.expires_at_ms \in 0..MaxPhysical
    BY <1>0, Zenon DEF Call, Responses
  <2>5. lease_expiry' \in [Nodes -> 0..MaxPhysical]
    BY <1>6, <2>4, Zenon DEF LeaseAnswered
  <2> QED
    BY <1>6, <2>2, <2>3, <2>5, Zenon DEF LeaseAnswered
<1>7. CASE ProposeAllocate(id)
  <2>1. calls[id].pc \in ActivePcs /\ calls[id].node \in Nodes
    BY <1>7, Zenon DEF ProposeAllocate, CallInv, ActivePcs
  <2>2. calls' \in [CallIds -> Call]
    BY <1>1, <1>2, <1>7, ReplyTypes, Zenon DEF ProposeAllocate, ActivePcs
  <2>3. [kind |-> "Allocate", id |-> id, leader_id |-> calls[id].node,
         lease_now_ms |-> calls[id].lease_now_ms,
         physical_ms |-> calls[id].physical_ms, count |-> calls[id].count] \in Commands
    BY <1>0, <2>1, Zenon DEF Commands, Call
  <2>4. proposals' \subseteq Commands
    BY <1>7, <2>3, Zenon DEF ProposeAllocate
  <2> QED
    BY <1>7, <2>2, <2>4, Zenon DEF ProposeAllocate
<1>8. CASE AllocateAnswered(id)
  <2>1. calls[id].reply \in Responses
    BY <1>0, Zenon DEF Call
  <2>2. calls' \in [CallIds -> Call]
    BY <1>1, <1>8, <2>1, ReplyTypes, Zenon DEF AllocateAnswered
  <2>3. lease_expiry' \in [Nodes -> 0..MaxPhysical]
    BY <1>8, WidthAssumption DEF AllocateAnswered
  <2> QED
    BY <1>8, <2>2, <2>3, Zenon DEF AllocateAnswered
<1>9. CASE ProposalFails(id)
  <2>1. calls' \in [CallIds -> Call]
    BY <1>1, <1>9, ReplyTypes, Zenon DEF ProposalFails
  <2>2. lease_lock' \in [Nodes -> CallIds \cup {Unlocked}]
    BY <1>9, Zenon DEF ProposalFails
  <2> QED
    BY <1>9, <2>1, <2>2, Zenon DEF ProposalFails
<1> QED
  BY <1>3, <1>4, <1>5, <1>6, <1>7, <1>8, <1>9, Zenon DEF OracleStep

\* Commits, lost proposals, restarts and the clock keep the types.
LEMMA EnvironmentTypes ==
    ASSUME TypeOK, CallInv,
           \/ \E cmd \in proposals : Commit(cmd) \/ LoseProposal(cmd)
           \/ \E n \in Nodes : RestartNode(n)
           \/ LeaseTick
    PROVE  TypeOK'
<1> USE DEF TypeOK, oracleVars
<1>1. ASSUME NEW cmd \in proposals, Commit(cmd) PROVE TypeOK'
  <2> DEFINE answer == transition(state, cmd)
  <2>1. cmd \in Commands /\ cmd.kind \in {"AcquireLease", "Allocate"} /\ cmd.id \in CallIds
    BY SMTT(30) DEF Commands
  <2>2. /\ answer.state \in TsoState /\ answer.response \in Responses
        /\ answer.response.kind = "Allocated" => answer.response.range \in TimestampRange
    BY <2>1, AcquireLeaseFacts, AllocateFacts, Zenon DEF transition, WellFormed
  <2> HIDE DEF answer
  <2>3. ASSUME NEW pc \in {"acquired", "allocated"}
        PROVE  [calls[cmd.id] EXCEPT !.pc = pc, !.reply = answer.response] \in Call
    BY <2>1, <2>2, CallTypes, Zenon DEF ActivePcs
  <2>4. calls' \in [CallIds -> Call]
    <3> DEFINE pc == IF calls[cmd.id].pc = "acquiring" THEN "acquired" ELSE "allocated"
    <3>1. pc \in {"acquired", "allocated"}
      BY Zenon
    <3>2. \/ calls' = calls
          \/ calls' = [calls EXCEPT ![cmd.id] =
                         [calls[cmd.id] EXCEPT !.pc = pc, !.reply = answer.response]]
      BY <1>1, <2>1, ZenonT(30) DEF Commit, answer
    <3> QED
      BY <2>1, <2>3, <3>1, <3>2, Zenon
  <2>5. granted' \in Seq(TimestampRange)
    <3>1. granted' = IF answer.response.kind = "Allocated"
                     THEN Append(granted, answer.response.range) ELSE granted
      BY <1>1, Zenon DEF Commit, answer
    <3> QED
      BY <2>2, <3>1
  <2>6. state' = answer.state /\ proposals' \subseteq Commands
    BY <1>1, Zenon DEF Commit, answer
  <2> QED
    BY <1>1, <2>2, <2>4, <2>5, <2>6, Zenon DEF Commit
<1>2. ASSUME NEW cmd \in proposals, LoseProposal(cmd) PROVE TypeOK'
  BY <1>2, Zenon DEF LoseProposal
<1>3. ASSUME NEW n \in Nodes, RestartNode(n) PROVE TypeOK'
  <2>1. \A id \in CallIds : Ended(calls[id], "dead", NoReply) \in Call
    BY ReplyTypes, CallTypes, Zenon
  <2>2. calls' \in [CallIds -> Call]
    BY <1>3, <2>1, Zenon DEF RestartNode
  <2>3. lease_expiry' \in [Nodes -> 0..MaxPhysical]
    BY <1>3, WidthAssumption DEF RestartNode
  <2>4. lease_lock' \in [Nodes -> CallIds \cup {Unlocked}]
    BY <1>3, Zenon DEF RestartNode
  <2> QED
    BY <1>3, <2>2, <2>3, <2>4, Zenon DEF RestartNode
<1>4. CASE LeaseTick
  BY <1>4, WidthAssumption DEF LeaseTick
<1> QED
  BY <1>1, <1>2, <1>3, <1>4, SMTT(30)

\* The steps of a client keep the types; PopCache takes a timestamp of a
\* well-formed range, which cannot overflow.
LEMMA ClientTypes ==
    ASSUME TypeOK, CacheInv, NEW c \in Clients, ClientStep(c)
    PROVE  TypeOK' /\ CacheInv'
<1> USE DEF TypeOK, oracleVars
<1> DEFINE client == clients[c]
<1>0. /\ client \in Client
      /\ BatchSize \in 1..MaxCount /\ MaxCount \in Nat /\ MaxRetries \in Nat
      /\ MaxAttempts \in Nat /\ NoNode \notin Nodes
  BY TsoAssumption, SMTT(30)
<1>1. ASSUME NEW new \in Client, clients' = [clients EXCEPT ![c] = new], ClientOK(new)
      PROVE  clients' \in [Clients -> Client] /\ CacheInv'
  BY <1>1, ZenonT(30) DEF CacheInv, ClientOK, WellFormed
<1>2. ASSUME NEW new \in Client, clients' = [clients EXCEPT ![c] = new],
             new.cache = client.cache,
             new.pc \in {"refill", "waiting"} => new.failures <= MaxRetries
      PROVE  clients' \in [Clients -> Client] /\ CacheInv'
  <2>1. ClientOK(new)
    BY <1>2, Zenon DEF CacheInv, ClientOK
  <2> QED
    BY <1>1, <1>2, <2>1, Zenon
<1>3. ASSUME RefillFails(c) PROVE clients' \in [Clients -> Client] /\ CacheInv'
  <2> DEFINE new == [client EXCEPT !.pc = "check"]
  <2>1. new \in Client /\ new.cache = client.cache /\ new.pc = "check"
    BY <1>0, Zenon DEF Client
  <2>2. clients' = [clients EXCEPT ![c] = new]
    BY <1>3, Zenon DEF RefillFails
  <2> QED
    BY <1>2, <2>1, <2>2, Zenon
<1>4. ASSUME RetryOrFail(c) PROVE clients' \in [Clients -> Client] /\ CacheInv'
  <2>1. CASE client.failures >= MaxRetries
    BY <1>3, <1>4, <2>1, Zenon DEF RetryOrFail
  <2>2. CASE ~(client.failures >= MaxRetries)
    <3> DEFINE n == client.failures + 1
               new == [client EXCEPT !.pc = "refill", !.failures = n]
    <3>1. n \in 0..(MaxRetries + 1) /\ n <= MaxRetries
      BY <1>0, <2>2, SMTT(30) DEF Client
    <3> HIDE DEF n
    <3>2. new \in Client /\ new.cache = client.cache /\ new.failures <= MaxRetries
      BY <1>0, <3>1, Zenon DEF Client
    <3>3. clients' = [clients EXCEPT ![c] = new]
      BY <1>4, <2>2, Zenon DEF RetryOrFail, n
    <3> QED
      BY <1>2, <3>2, <3>3, Zenon
  <2> QED
    BY <2>1, <2>2, Zenon
<1>5. ASSUME NEW count \in 1..MaxCount, NEW then \in {"check", "pop"},
             BeginRefill(c, count, then)
      PROVE  clients' \in [Clients -> Client] /\ CacheInv'
  <2> DEFINE new == [client EXCEPT !.pc = "refill", !.failures = 0, !.count = count,
                                   !.then = then]
  <2>1. 0 \in 0..(MaxRetries + 1) /\ 0 <= MaxRetries
    BY <1>0
  <2>2. new \in Client /\ new.cache = client.cache /\ new.failures <= MaxRetries
    BY <1>0, <2>1, Zenon DEF Client
  <2>3. clients' = [clients EXCEPT ![c] = new]
    BY <1>5, Zenon DEF BeginRefill
  <2> QED
    BY <1>2, <2>2, <2>3, Zenon
<1>6. CASE CheckCache(c)
  <2>1. ASSUME clients' = [clients EXCEPT ![c].pc = "pop"]
        PROVE  clients' \in [Clients -> Client] /\ CacheInv'
    <3>1. /\ [client EXCEPT !.pc = "pop"] \in Client
          /\ [client EXCEPT !.pc = "pop"].cache = client.cache
          /\ [client EXCEPT !.pc = "pop"].pc = "pop"
      BY <1>0, Zenon DEF Client
    <3> QED
      BY <1>2, <2>1, <3>1, Zenon
  <2>2. \A count \in BatchSize..MaxCount : count \in 1..MaxCount
    BY <1>0
  <2>3. clients' \in [Clients -> Client] /\ CacheInv'
    BY <1>0, <1>5, <1>6, <2>1, <2>2, Zenon DEF CheckCache
  <2> QED
    BY <1>6, <2>3, Zenon DEF CheckCache
<1>7. CASE DiscoverLeader(c)
  <2>1. ASSUME NEW n \in Nodes, clients' = [clients EXCEPT ![c].leader = n]
        PROVE  clients' \in [Clients -> Client] /\ CacheInv'
    <3>1. /\ [client EXCEPT !.leader = n] \in Client
          /\ [client EXCEPT !.leader = n].cache = client.cache
          /\ [client EXCEPT !.leader = n].failures = client.failures
          /\ client.pc = "refill"
      BY <1>0, <1>7, Zenon DEF Client, DiscoverLeader
    <3>2. client.failures <= MaxRetries
      BY <3>1, Zenon DEF CacheInv, ClientOK
    <3> QED
      BY <1>2, <2>1, <3>1, <3>2, Zenon
  <2>2. clients' \in [Clients -> Client] /\ CacheInv'
    BY <1>3, <1>4, <1>7, <2>1, Zenon DEF DiscoverLeader
  <2> QED
    BY <1>7, <2>2, Zenon DEF DiscoverLeader
<1>8. CASE SendRequest(c)
  <2> DEFINE k == client.attempt + 1
             new == [client EXCEPT !.pc = "waiting", !.attempt = k]
             call == NewCall(client.leader, client.count, state.last)
  <2>1. k \in 0..MaxAttempts /\ k \in 1..MaxAttempts
    BY <1>0, <1>8, SMTT(30) DEF SendRequest, Client
  <2>2. call \in Call
    <3>1. 0 \in 0..MaxPhysical
      BY WidthAssumption
    <3> QED
      BY <1>0, <3>1, ReplyTypes, Zenon DEF NewCall, Call, Client, TsoState, ActivePcs
  <2>3. <<c, k>> \in CallIds
    BY <2>1, Zenon DEF CallIds
  <2>4. clients' = [clients EXCEPT ![c] = new] /\ calls' = [calls EXCEPT ![<<c, k>>] = call]
    BY <1>8, Zenon DEF SendRequest
  <2> HIDE DEF k
  <2>5. new \in Client /\ new.cache = client.cache /\ new.failures = client.failures
    BY <1>0, <2>1, Zenon DEF Client
  <2>8. client.failures <= MaxRetries
    BY <1>8, Zenon DEF SendRequest, CacheInv, ClientOK
  <2>6. clients' \in [Clients -> Client] /\ CacheInv'
    BY <1>2, <2>4, <2>5, <2>8, Zenon
  <2>7. calls' \in [CallIds -> Call]
    BY <2>2, <2>3, <2>4, Zenon
  <2> QED
    BY <1>8, <2>6, <2>7, Zenon DEF SendRequest
<1>9. CASE RequestTimesOut(c)
  BY <1>4, <1>9, Zenon DEF RequestTimesOut
<1>10. CASE ReceiveAnswer(c)
  <2>1. PICK reply \in Answers(c) :
          \/ /\ reply.kind = "Allocated"
             /\ IF /\ reply.range.count = client.count
                   /\ at(reply.range, client.count - 1) = reply.range.end
                THEN clients' = [clients EXCEPT ![c].pc = client.then,
                                   ![c].cache = Append(@, [range |-> reply.range,
                                                           next_offset |-> 0])]
                ELSE RefillFails(c)
          \/ \E hint \in Nodes \cup {NoNode} :
                 clients' = [clients EXCEPT ![c].leader = hint,
                               ![c].failures = @ + 1,
                               ![c].pc = IF client.failures + 1 > MaxRetries
                                         THEN "check" ELSE "refill"]
          \/ RetryOrFail(c)
          \/ RefillFails(c)
    BY <1>10, Zenon DEF ReceiveAnswer
  <2>2. /\ reply \in Responses /\ client.failures <= MaxRetries
        /\ reply.kind = "Allocated" => reply.range \in TimestampRange
    <3>1. reply \in Responses
      BY Zenon DEF Answers, Call, CallIds
    <3> QED
      BY <1>10, <3>1, Zenon DEF ReceiveAnswer, CacheInv, ClientOK, Responses
  <2>3. ASSUME reply.kind = "Allocated", reply.range.count = client.count,
               at(reply.range, client.count - 1) = reply.range.end,
               clients' = [clients EXCEPT ![c].pc = client.then,
                             ![c].cache = Append(@, [range |-> reply.range,
                                                     next_offset |-> 0])]
        PROVE  clients' \in [Clients -> Client] /\ CacheInv'
    <3> DEFINE entry == [range |-> reply.range, next_offset |-> 0]
               cache == Append(client.cache, entry)
               new == [client EXCEPT !.pc = client.then, !.cache = cache]
    <3>1. WellFormed(reply.range)
      BY <1>0, <2>2, <2>3, SMTT(30) DEF WellFormed, at, Client
    <3>2. entry \in CachedRange /\ entry.range = reply.range
      BY <2>2, <2>3, Zenon DEF CachedRange
    <3> HIDE DEF entry
    <3>3. /\ client.cache \in Seq(CachedRange) /\ cache \in Seq(CachedRange)
          /\ \A i \in DOMAIN cache : \/ i \in DOMAIN client.cache /\ cache[i] = client.cache[i]
                                     \/ cache[i] = entry
      BY <1>0, <3>2, SMTT(30) DEF Client
    <3>4. \A i \in DOMAIN cache : WellFormed(cache[i].range)
      BY <3>1, <3>2, <3>3, Zenon DEF CacheInv, ClientOK
    <3> HIDE DEF cache
    <3>5. new \in Client /\ new.cache = cache /\ new.pc \notin {"refill", "waiting"}
      BY <1>0, <3>3, Zenon DEF Client
    <3>6. clients' = [clients EXCEPT ![c] = new]
      BY <2>3, Zenon DEF cache, entry
    <3> HIDE DEF new
    <3>7. ClientOK(new)
      BY <3>4, <3>5, Zenon DEF ClientOK
    <3> QED
      BY <1>1, <3>5, <3>6, <3>7, Zenon
  <2>4. ASSUME NEW hint \in Nodes \cup {NoNode},
               clients' = [clients EXCEPT ![c].leader = hint,
                             ![c].failures = @ + 1,
                             ![c].pc = IF client.failures + 1 > MaxRetries
                                       THEN "check" ELSE "refill"]
        PROVE  clients' \in [Clients -> Client] /\ CacheInv'
    <3> DEFINE n == client.failures + 1
               pc == IF n > MaxRetries THEN "check" ELSE "refill"
               new == [client EXCEPT !.leader = hint, !.failures = n, !.pc = pc]
    <3>1. n \in 0..(MaxRetries + 1) /\ (pc # "check" => n <= MaxRetries)
      BY <1>0, <2>2, SMTT(30) DEF Client
    <3>2. clients' = [clients EXCEPT ![c] = new]
      BY <2>4, Zenon
    <3>3. pc \in {"check", "refill"}
      BY Zenon
    <3> HIDE DEF n, pc
    <3>4. new \in Client /\ new.cache = client.cache /\ new.failures = n /\ new.pc = pc
      BY <1>0, <3>1, <3>3, Zenon DEF Client
    <3> HIDE DEF new
    <3> QED
      BY <1>2, <3>1, <3>2, <3>4, ZenonT(30)
  <2>5. clients' \in [Clients -> Client] /\ CacheInv'
    BY <1>3, <1>4, <2>1, <2>3, <2>4, Zenon
  <2> QED
    BY <1>10, <2>5, Zenon DEF ReceiveAnswer
<1>11. CASE PopCache(c)
  <2> DEFINE cache == client.cache
  <2>1. PICK i \in DOMAIN cache :
          LET value == at(cache[i].range, cache[i].next_offset)
          IN  /\ ~(cache[i].next_offset >= cache[i].range.count)
              /\ \/ /\ clients' = [clients EXCEPT ![c].pc = "check", ![c].cache = <<>>]
                    /\ UNCHANGED returned
                 \/ /\ clients' = [clients EXCEPT ![c].pc = "check",
                          ![c].cache = SubSeq([cache EXCEPT ![i].next_offset = @ + 1],
                                              i, Len(cache)),
                          ![c].last_returned = value]
                    /\ returned' = [returned EXCEPT ![c] = @ \cup {value}]
    BY <1>11, Zenon DEF PopCache
  <2> DEFINE value == at(cache[i].range, cache[i].next_offset)
             moved == [cache EXCEPT ![i].next_offset = @ + 1]
             rest == SubSeq(moved, i, Len(cache))
  <2>2. cache \in Seq(CachedRange) /\ i \in 1..Len(cache) /\ cache[i] \in CachedRange
    <3>1. cache \in Seq(CachedRange)
      BY <1>0, Zenon DEF Client
    <3>2. i \in DOMAIN cache
      BY Zenon
    <3> HIDE DEF cache
    <3> QED
      BY <3>1, <3>2
  <2>3. value \in HybridTimestamp
    <3> DEFINE range == cache[i].range
               offset == cache[i].next_offset
    <3>1. /\ WellFormed(range) /\ offset \in Nat /\ offset <= range.count - 1
          /\ range.start \in HybridTimestamp /\ range.end \in HybridTimestamp
          /\ range.count - 1 \in Nat
      <4>1. WellFormed(range)
        BY <2>1, Zenon DEF CacheInv, ClientOK
      <4>2. range \in TimestampRange /\ offset \in Nat
        BY <2>2, Zenon DEF CachedRange
      <4>3. ~(offset >= range.count)
        BY <2>1, SMTT(30)
      <4> HIDE DEF range, offset
      <4> QED
        BY <4>1, <4>2, <4>3, SMTT(30) DEF WellFormed, TimestampRange
    <3>2. AtMost(value, range.end) /\ range.end = checked_add(range.start, range.count - 1)
      BY <3>1, AddAscends, SMTT(30) DEF at, WellFormed
    <3>3. value.physical \in Nat /\ (~Overflows(value) => value \in HybridTimestamp)
      BY <3>1, AddAscends, SMTT(30) DEF at
    <3>4. range.end.physical \in 0..MaxPhysical
      BY <3>1, Zenon DEF HybridTimestamp
    <3> HIDE DEF value, range, offset
    <3> QED
      BY <3>2, <3>3, <3>4, WidthAssumption DEF AtMost, Before, Overflows
  <2>4. CASE clients' = [clients EXCEPT ![c].pc = "check", ![c].cache = <<>>]
             /\ UNCHANGED returned
    <3>0. PICK empty \in Seq(CachedRange) : empty = <<>>
      BY NoRanges, Zenon
    <3> DEFINE new == [client EXCEPT !.pc = "check", !.cache = empty]
    <3>1. new \in Client /\ new.cache = empty /\ new.pc = "check"
      BY <1>0, Zenon DEF Client
    <3>4. clients' = [clients EXCEPT ![c] = new]
      BY <2>4, <3>0, Zenon
    <3>5. DOMAIN empty = {}
      BY <3>0
    <3> HIDE DEF new
    <3>2. ClientOK(new)
      BY <3>1, <3>5, Zenon DEF ClientOK
    <3>3. clients' \in [Clients -> Client] /\ CacheInv'
      BY <1>1, <3>1, <3>2, <3>4, ZenonT(30)
    <3> QED
      BY <1>11, <2>4, <3>3, Zenon DEF PopCache
  <2>5. CASE /\ clients' = [clients EXCEPT ![c].pc = "check", ![c].cache = rest,
                                           ![c].last_returned = value]
             /\ returned' = [returned EXCEPT ![c] = @ \cup {value}]
    <3> DEFINE new == [client EXCEPT !.pc = "check", !.cache = rest,
                                     !.last_returned = value]
               n == cache[i].next_offset + 1
    <3>1. n \in Nat
      BY <2>2 DEF CachedRange
    <3>2. moved = [cache EXCEPT ![i] = [cache[i] EXCEPT !.next_offset = n]]
      BY <2>2, Zenon
    <3> HIDE DEF n, moved
    <3>3. /\ [cache[i] EXCEPT !.next_offset = n] \in CachedRange
          /\ [cache[i] EXCEPT !.next_offset = n].range = cache[i].range
      BY <2>2, <3>1, Zenon DEF CachedRange
    <3>4. /\ moved \in Seq(CachedRange) /\ Len(moved) = Len(cache)
          /\ \A j \in 1..Len(cache) : moved[j].range = cache[j].range
      BY <2>2, <3>2, <3>3
    <3>5. /\ rest \in Seq(CachedRange)
          /\ \A j \in DOMAIN rest : /\ i + j - 1 \in 1..Len(cache)
                                    /\ rest[j] = moved[i + j - 1]
      <4>1. Len(cache) \in Nat /\ i \in Int /\ \A j \in i..Len(cache) : moved[j] \in CachedRange
        BY <2>2, <3>4
      <4>2. /\ rest \in Seq(CachedRange) /\ Len(rest) = Len(cache) - i + 1
            /\ \A j \in 1..(Len(cache) - i + 1) : rest[j] = moved[i + j - 1]
        BY <2>2, <4>1
      <4> HIDE DEF rest, cache
      <4>3. DOMAIN rest = 1..(Len(cache) - i + 1)
        BY <4>1, <4>2
      <4> QED
        BY <2>2, <4>1, <4>2, <4>3, SMTT(30)
    <3>6. \A j \in DOMAIN rest : WellFormed(rest[j].range)
      <4>1. \A k \in 1..Len(cache) : WellFormed(cache[k].range)
        BY <2>2 DEF CacheInv, ClientOK
      <4>2. \A k \in 1..Len(cache) : WellFormed(moved[k].range)
        BY <3>4, <4>1, Zenon
      <4> HIDE DEF rest, cache
      <4> QED
        BY <3>5, <4>2, Zenon
    <3> HIDE DEF rest, value
    <3>7. new \in Client /\ new.cache = rest /\ new.pc = "check"
      BY <1>0, <2>3, <3>5, Zenon DEF Client, OptTimestamp
    <3>8. clients' = [clients EXCEPT ![c] = new]
      BY <2>5, Zenon
    <3> HIDE DEF new
    <3>9. ClientOK(new)
      BY <3>6, <3>7, Zenon DEF ClientOK
    <3>10. clients' \in [Clients -> Client] /\ CacheInv'
      BY <1>1, <3>7, <3>8, <3>9, Zenon
    <3>11. returned' \in [Clients -> SUBSET HybridTimestamp]
      BY <2>3, <2>5, Zenon
    <3> QED
      BY <1>11, <3>10, <3>11, Zenon DEF PopCache
  <2> QED
    BY <2>1, <2>4, <2>5, Zenon
<1> QED
  BY <1>6, <1>7, <1>8, <1>9, <1>10, <1>11, Zenon DEF ClientStep

----------------------------------------------------------------------------
\* Requests and their proposals.

\* What the steps of oracle, group and clock do to calls: the node of a call
\* never changes, and an idle one stays idle.
CallsKeepNode ==
    /\ \A i \in CallIds : /\ calls'[i].node = calls[i].node
                          /\ calls[i].pc \notin ActivePcs => calls'[i].pc = calls[i].pc
    /\ clients' = clients

LEMMA OracleCalls ==
    ASSUME TypeOK, CallInv, NEW id \in CallIds, OracleStep(id)
    PROVE  /\ CallsKeepNode
           /\ \A cmd \in proposals' : \/ cmd \in proposals
                                      \/ cmd.id = id /\ cmd.leader_id = calls[id].node
           /\ calls[id].pc \in ActivePcs
<1> USE DEF TypeOK, oracleVars
<1>0. calls[id] \in Call
  BY Zenon
<1>1. ASSUME NEW r, Finish(id, r)
      PROVE  \A i \in CallIds : /\ calls'[i].node = calls[i].node
                                /\ i # id => calls'[i] = calls[i]
  <2>1. Ended(calls[id], "done", r).node = calls[id].node
    BY <1>0, Zenon DEF Call, Ended
  <2> QED
    BY <1>1, <2>1, Zenon DEF Finish
<1>2. ASSUME NEW pc, calls' = [calls EXCEPT ![id].pc = pc]
      PROVE  \A i \in CallIds : /\ calls'[i].node = calls[i].node
                                /\ i # id => calls'[i] = calls[i]
  <2>1. [calls[id] EXCEPT !.pc = pc].node = calls[id].node
    BY <1>0, Zenon DEF Call
  <2> QED
    BY <1>2, <2>1, Zenon
<1>3. ASSUME NEW p, NEW t, calls' = [calls EXCEPT ![id].pc = "lease", ![id].physical_ms = p,
                                                  ![id].lease_now_ms = t]
      PROVE  \A i \in CallIds : /\ calls'[i].node = calls[i].node
                                /\ i # id => calls'[i] = calls[i]
  <2>1. [calls[id] EXCEPT !.pc = "lease", !.physical_ms = p,
                          !.lease_now_ms = t].node = calls[id].node
    BY <1>0, Zenon DEF Call
  <2> QED
    BY <1>3, <2>1, Zenon
<1>4. calls[id].pc \in ActivePcs /\ clients' = clients
  BY Zenon DEF OracleStep, RejectCall, BeginCall, EnsureLease, LeaseAnswered,
     ProposeAllocate,
     AllocateAnswered, ProposalFails, ActivePcs
<1> DEFINE SameNodes == \A i \in CallIds : /\ calls'[i].node = calls[i].node
                                           /\ i # id => calls'[i] = calls[i]
           OwnProposals == \A cmd \in proposals' :
                              \/ cmd \in proposals
                              \/ cmd.id = id /\ cmd.leader_id = calls[id].node
<1>5. SameNodes => CallsKeepNode
  <2> SUFFICES ASSUME SameNodes, NEW i \in CallIds
               PROVE  calls[i].pc \notin ActivePcs => calls'[i].pc = calls[i].pc
    BY <1>4, Zenon DEF CallsKeepNode
  <2> QED
    BY <1>4, ZenonT(30)
<1>6. proposals' = proposals => OwnProposals
  BY Zenon
<1>7. SameNodes
  BY <1>1, <1>2, <1>3, Zenon DEF OracleStep, RejectCall, BeginCall, EnsureLease,
     LeaseAnswered,
     ProposeAllocate, AllocateAnswered, ProposalFails
<1>8. OwnProposals
  <2>1. CASE EnsureLease(id)
    <3>1. ASSUME NEW t,
                 proposals' = proposals \cup {[kind |-> "AcquireLease", id |-> id,
                                               leader_id |-> calls[id].node, now_ms |-> t]}
          PROVE  OwnProposals
      BY <3>1
    <3> HIDE DEF OwnProposals
    <3> QED
      BY <1>6, <2>1, <3>1, Zenon DEF EnsureLease
  <2>2. CASE ProposeAllocate(id)
    <3>1. ASSUME NEW t, NEW p, NEW n,
                 proposals' = proposals \cup
                   {[kind |-> "Allocate", id |-> id, leader_id |-> calls[id].node,
                     lease_now_ms |-> t, physical_ms |-> p, count |-> n]}
          PROVE  OwnProposals
      BY <3>1
    <3> HIDE DEF OwnProposals
    <3> QED
      BY <1>6, <2>2, <3>1, Zenon DEF ProposeAllocate
  <2> HIDE DEF OwnProposals
  <2> QED
    BY <1>6, <2>1, <2>2, Zenon DEF OracleStep, RejectCall, BeginCall, LeaseAnswered,
       AllocateAnswered, ProposalFails
<1> QED
  BY <1>4, <1>5, <1>7, <1>8, Zenon

LEMMA EnvironmentCalls ==
    ASSUME TypeOK,
           \/ \E cmd \in proposals : Commit(cmd) \/ LoseProposal(cmd)
           \/ \E n \in Nodes : RestartNode(n)
           \/ LeaseTick
    PROVE  CallsKeepNode /\ proposals' \subseteq proposals
<1> USE DEF TypeOK, oracleVars
<1>1. ASSUME NEW cmd \in proposals, Commit(cmd)
      PROVE  CallsKeepNode /\ proposals' \subseteq proposals
  <2> DEFINE r == transition(state, cmd).response
             pc == IF calls[cmd.id].pc = "acquiring" THEN "acquired" ELSE "allocated"
  <2>1. cmd.id \in CallIds
    BY Zenon DEF Commands
  <2>2. [calls[cmd.id] EXCEPT !.pc = pc, !.reply = r].node = calls[cmd.id].node
    BY <2>1, ZenonT(30) DEF Call
  <2>3. Awaits(cmd) => calls[cmd.id].pc \in ActivePcs
    BY Zenon DEF Awaits, ActivePcs
  <2>4. \/ calls' = calls
        \/ /\ Awaits(cmd)
           /\ calls' = [calls EXCEPT ![cmd.id] = [calls[cmd.id] EXCEPT !.pc = pc, !.reply = r]]
    BY <1>1, <2>1, Zenon DEF Commit
  <2> HIDE DEF r, pc
  <2> QED
    BY <1>1, <2>1, <2>2, <2>3, <2>4, SMTT(30) DEF Commit, CallsKeepNode
<1>2. ASSUME NEW cmd \in proposals, LoseProposal(cmd)
      PROVE  CallsKeepNode /\ proposals' \subseteq proposals
  BY <1>2, SMTT(30) DEF LoseProposal, CallsKeepNode
<1>3. ASSUME NEW n \in Nodes, RestartNode(n)
      PROVE  CallsKeepNode /\ proposals' \subseteq proposals
  <2>1. \A id \in CallIds : Ended(calls[id], "dead", NoReply).node = calls[id].node
    BY Zenon DEF Call, Ended
  <2> QED
    BY <1>3, <2>1, Zenon DEF RestartNode, CallsKeepNode
<1>4. ASSUME LeaseTick PROVE CallsKeepNode /\ proposals' \subseteq proposals
  BY <1>4, SMTT(30) DEF LeaseTick, CallsKeepNode
<1> QED
  BY <1>1, <1>2, <1>3, <1>4, SMTT(30)

\* A client step sends at most one request, under an id never used before.
LEMMA ClientCalls ==
    ASSUME TypeOK, NEW c \in Clients, ClientStep(c)
    PROVE  /\ UNCHANGED <<state, proposals, oracleVars, granted>>
           /\ \A d \in Clients : clients'[d].attempt >= clients[d].attempt
           /\ \/ calls' = calls
              \/ \E id \in CallIds :
                   /\ id[2] > clients[id[1]].attempt /\ id[2] <= clients'[id[1]].attempt
                   /\ \E call \in Call :
                        /\ call.node \in Nodes /\ call.pc = "received"
                        /\ call.lease_now_ms = 0
                        /\ calls' = [calls EXCEPT ![id] = call]
<1> USE DEF TypeOK, oracleVars
<1>0. /\ clients[c] \in Client /\ NoNode \notin Nodes
      /\ \A d \in Clients : clients[d].attempt \in Nat
  BY TsoAssumption DEF Client
<1>1. CASE SendRequest(c)
  <2> DEFINE k == clients[c].attempt + 1
             call == NewCall(clients[c].leader, clients[c].count, state.last)
  <2>1. k \in 1..MaxAttempts
    BY <1>0, <1>1, TsoAssumption, SMTT(30) DEF SendRequest, Client
  <2>2. <<c, k>> \in CallIds /\ <<c, k>>[1] = c /\ <<c, k>>[2] = k
    BY <2>1, Zenon DEF CallIds
  <2>3. /\ call \in Call /\ call.node \in Nodes /\ call.pc = "received"
        /\ call.lease_now_ms = 0
    <3>1. 0 \in 0..MaxPhysical
      BY WidthAssumption
    <3> QED
      BY <1>0, <1>1, <3>1, ReplyTypes, Zenon DEF SendRequest, NewCall, Call, Client, TsoState,
         ActivePcs
  <2>4. calls' = [calls EXCEPT ![<<c, k>>] = call]
    BY <1>1, Zenon DEF SendRequest
  <2>5. clients'[c].attempt = k /\ \A d \in Clients : d # c => clients'[d] = clients[d]
    BY <1>0, <1>1, Zenon DEF SendRequest, Client
  <2>6. UNCHANGED <<state, proposals, oracleVars, granted>>
    BY <1>1, Zenon DEF SendRequest
  <2>7. k > clients[c].attempt /\ k <= k
    BY <1>0
  <2> HIDE DEF k, call
  <2>8. \A d \in Clients : clients'[d].attempt >= clients[d].attempt
    BY <1>0, <2>1, <2>5, <2>7
  <2> QED
    BY <2>2, <2>3, <2>4, <2>5, <2>6, <2>7, <2>8, Zenon
<1>2. CASE ~SendRequest(c)
  <2>1. UNCHANGED <<state, proposals, oracleVars, granted, calls>>
    BY <1>2, Zenon DEF ClientStep, CheckCache, DiscoverLeader, RequestTimesOut,
       ReceiveAnswer, PopCache
  <2> DEFINE SameAttempts == /\ clients'[c].attempt = clients[c].attempt
                             /\ \A d \in Clients : d # c => clients'[d] = clients[d]
  <2>2. SameAttempts
    <3>1. ASSUME RefillFails(c) PROVE SameAttempts
      BY <1>0, <3>1, Zenon DEF RefillFails, Client
    <3>2. ASSUME RetryOrFail(c) PROVE SameAttempts
      BY <1>0, <3>1, <3>2 DEF RetryOrFail, Client
    <3>3. CASE CheckCache(c)
      <4>1. ASSUME NEW count, NEW then, BeginRefill(c, count, then) PROVE SameAttempts
        BY <1>0, <4>1, Zenon DEF BeginRefill, Client
      <4>2. ASSUME clients' = [clients EXCEPT ![c].pc = "pop"] PROVE SameAttempts
        BY <1>0, <4>2, Zenon DEF Client
      <4> QED
        BY <3>3, <4>1, <4>2, Zenon DEF CheckCache
    <3>4. CASE DiscoverLeader(c)
      <4>1. ASSUME NEW n, clients' = [clients EXCEPT ![c].leader = n] PROVE SameAttempts
        BY <1>0, <4>1, Zenon DEF Client
      <4> QED
        BY <3>1, <3>2, <3>4, <4>1, Zenon DEF DiscoverLeader
    <3>5. CASE RequestTimesOut(c)
      BY <3>2, <3>5, Zenon DEF RequestTimesOut
    <3>6. CASE ReceiveAnswer(c)
      <4>1. ASSUME NEW pc, NEW e, clients' = [clients EXCEPT ![c].pc = pc,
                                               ![c].cache = Append(@, e)]
            PROVE  SameAttempts
        BY <1>0, <4>1, Zenon DEF Client
      <4>2. ASSUME NEW hint, NEW pc, clients' = [clients EXCEPT ![c].leader = hint,
                                 ![c].failures = @ + 1, ![c].pc = pc]
            PROVE  SameAttempts
        BY <1>0, <4>2, Zenon DEF Client
      <4> HIDE DEF SameAttempts
      <4>3. PICK reply \in Answers(c) :
              \/ clients' = [clients EXCEPT ![c].pc = clients[c].then,
                               ![c].cache = Append(@, [range |-> reply.range,
                                                       next_offset |-> 0])]
              \/ \E hint \in Nodes \cup {NoNode} :
                   clients' = [clients EXCEPT ![c].leader = hint,
                                 ![c].failures = @ + 1,
                                 ![c].pc = IF clients[c].failures + 1 > MaxRetries
                                           THEN "check" ELSE "refill"]
              \/ RetryOrFail(c)
              \/ RefillFails(c)
        BY <3>6, Zenon DEF ReceiveAnswer
      <4> QED
        BY <3>1, <3>2, <4>1, <4>2, <4>3, Zenon
    <3>7. CASE PopCache(c)
      <4>1. ASSUME NEW pc, NEW e, clients' = [clients EXCEPT ![c].pc = pc, ![c].cache = e]
            PROVE  SameAttempts
        BY <1>0, <4>1, Zenon DEF Client
      <4>2. ASSUME NEW pc, NEW e, NEW v,
                   clients' = [clients EXCEPT ![c].pc = pc, ![c].cache = e,
                                              ![c].last_returned = v]
            PROVE  SameAttempts
        BY <1>0, <4>2, Zenon DEF Client
      <4> HIDE DEF SameAttempts
      <4>3. PICK i \in DOMAIN clients[c].cache :
              \/ clients' = [clients EXCEPT ![c].pc = "check", ![c].cache = <<>>]
              \/ clients' = [clients EXCEPT ![c].pc = "check",
                   ![c].cache = SubSeq([clients[c].cache EXCEPT ![i].next_offset = @ + 1],
                                       i, Len(clients[c].cache)),
                   ![c].last_returned = at(clients[c].cache[i].range,
                                           clients[c].cache[i].next_offset)]
        BY <3>7, Zenon DEF PopCache
      <4> QED
        BY <4>1, <4>2, <4>3, Zenon
    <3> QED
      BY <1>2, <3>3, <3>4, <3>5, <3>6, <3>7, Zenon DEF ClientStep
  <2> QED
    BY <1>0, <2>1, <2>2, SMTT(30)
<1> QED
  BY <1>1, <1>2, SMTT(30)

\* The steps that are not a client's.
EnvironmentStep ==
    \/ \E cmd \in proposals : Commit(cmd) \/ LoseProposal(cmd)
    \/ \E n \in Nodes : RestartNode(n)
    \/ LeaseTick

LEMMA IdTypes ==
    ASSUME TypeOK
    PROVE  /\ \A cmd \in proposals : cmd.id \in CallIds
           /\ \A id \in CallIds : id[1] \in Clients /\ id[2] \in Nat
           /\ \A d \in Clients : clients[d].attempt \in Nat
BY TsoAssumption, SMTT(30) DEF TypeOK, Commands, CallIds, Client

LEMMA CallInvPreserved ==
    ASSUME TypeOK, TypeOK', CallInv, Next PROVE CallInv'
<1>0. /\ \A cmd \in proposals : cmd.id \in CallIds
      /\ \A id \in CallIds : id[1] \in Clients /\ id[2] \in Nat
      /\ \A d \in Clients : clients[d].attempt \in Nat
  BY IdTypes, Zenon
<1>1. ASSUME NEW id \in CallIds, OracleStep(id) PROVE CallInv'
  <2>1. CallsKeepNode /\ calls[id].pc \in ActivePcs
    BY <1>1, OracleCalls, Zenon
  <2>2. \A cmd \in proposals' : \/ cmd \in proposals
                                \/ cmd.id = id /\ cmd.leader_id = calls[id].node
    BY <1>1, OracleCalls, Zenon
  <2>3. "none" \notin ActivePcs
    BY Zenon DEF ActivePcs
  <2>4. id[2] <= clients[id[1]].attempt
    BY <2>1, <2>3, Zenon DEF CallInv
  <2>5. ASSUME NEW cmd \in proposals'
        PROVE  cmd.id[2] <= clients'[cmd.id[1]].attempt /\ cmd.leader_id = calls'[cmd.id].node
    BY <1>0, <2>1, <2>2, <2>4, SMTT(30) DEF CallInv, CallsKeepNode
  <2>6. ASSUME NEW i \in CallIds
        PROVE  /\ calls'[i].pc \in ActivePcs => calls'[i].node \in Nodes
               /\ calls'[i].pc # "none" => i[2] <= clients'[i[1]].attempt
    BY <2>1, <2>3, Zenon DEF CallInv, CallsKeepNode
  <2> QED
    BY <2>5, <2>6, Zenon DEF CallInv
<1>2. CASE EnvironmentStep
  <2>1. CallsKeepNode /\ proposals' \subseteq proposals
    BY <1>2, EnvironmentCalls, Zenon DEF EnvironmentStep
  <2>2. "none" \notin ActivePcs
    BY Zenon DEF ActivePcs
  <2>3. ASSUME NEW cmd \in proposals'
        PROVE  cmd.id[2] <= clients'[cmd.id[1]].attempt /\ cmd.leader_id = calls'[cmd.id].node
    BY <1>0, <2>1, Zenon DEF CallInv, CallsKeepNode
  <2>4. ASSUME NEW i \in CallIds
        PROVE  /\ calls'[i].pc \in ActivePcs => calls'[i].node \in Nodes
               /\ calls'[i].pc # "none" => i[2] <= clients'[i[1]].attempt
    BY <2>1, <2>2, Zenon DEF CallInv, CallsKeepNode
  <2> QED
    BY <2>3, <2>4, Zenon DEF CallInv
<1>3. ASSUME NEW c \in Clients, ClientStep(c) PROVE CallInv'
  <2>1. proposals' = proposals /\ \A d \in Clients : clients'[d].attempt >= clients[d].attempt
    BY <1>3, ClientCalls, Zenon
  <2>2. \A d \in Clients : clients'[d].attempt \in Nat
    BY TsoAssumption, SMTT(30) DEF TypeOK, Client
  <2>3. CASE calls' = calls
    BY <1>0, <2>1, <2>2, <2>3, SMTT(30) DEF CallInv
  <2>4. ASSUME NEW id \in CallIds, NEW call \in Call,
               id[2] > clients[id[1]].attempt, id[2] <= clients'[id[1]].attempt,
               call.node \in Nodes, calls' = [calls EXCEPT ![id] = call]
        PROVE  CallInv'
    <3>1. \A i \in CallIds : calls'[i] = IF i = id THEN call ELSE calls[i]
      BY <2>4, Zenon DEF TypeOK
    <3>2. ASSUME NEW cmd \in proposals'
          PROVE  cmd.id[2] <= clients'[cmd.id[1]].attempt /\ cmd.leader_id = calls'[cmd.id].node
      <4>1. cmd \in proposals /\ cmd.id \in CallIds
        BY <1>0, <2>1, Zenon
      <4>2. cmd.id[2] <= clients[cmd.id[1]].attempt /\ cmd.leader_id = calls[cmd.id].node
        BY <4>1, Zenon DEF CallInv
      <4>3. cmd.id # id
        BY <1>0, <2>4, <4>1, <4>2, SMTT(30)
      <4> QED
        BY <1>0, <2>1, <2>2, <3>1, <4>1, <4>2, <4>3
    <3>3. ASSUME NEW i \in CallIds
          PROVE  /\ calls'[i].pc \in ActivePcs => calls'[i].node \in Nodes
                 /\ calls'[i].pc # "none" => i[2] <= clients'[i[1]].attempt
      BY <1>0, <2>1, <2>2, <2>4, <3>1 DEF CallInv
    <3> QED
      BY <3>2, <3>3, Zenon DEF CallInv
  <2> QED
    BY <1>3, <2>3, <2>4, ClientCalls, Zenon
<1> QED
  BY <1>1, <1>2, <1>3, Zenon DEF Next, EnvironmentStep

----------------------------------------------------------------------------
\* Ranges.

LEMMA RangeInvPreserved ==
    ASSUME TypeOK, RangeInv, Next PROVE RangeInv'
<1>1. ASSUME NEW cmd \in proposals, Commit(cmd) PROVE RangeInv'
  <2> DEFINE answer == transition(state, cmd)
             range == answer.response.range
  <2>1. /\ cmd \in Commands /\ cmd.kind \in {"AcquireLease", "Allocate"}
        /\ state \in TsoState
    BY SMTT(30) DEF TypeOK, Commands
  <2>2. answer.response.kind # "Allocated" => answer.state.last = state.last
    BY <2>1, AcquireLeaseFacts, AllocateFacts, SMTT(30) DEF transition
  <2>3. answer.response.kind = "Allocated" =>
          /\ WellFormed(range) /\ answer.state.last = range.end
          /\ state.last # NoTimestamp => Before(state.last, range.start)
    BY <2>1, AcquireLeaseFacts, AllocateFacts, Zenon DEF transition
  <2>4. /\ state' = answer.state
        /\ granted' = IF answer.response.kind = "Allocated" THEN Append(granted, range) ELSE granted
    BY <1>1, SMTT(30) DEF Commit
  <2> HIDE DEF answer, range
  <2>5. CASE answer.response.kind # "Allocated"
    BY <2>2, <2>4, <2>5, Zenon DEF RangeInv, RangesAreDisjoint
  <2>6. CASE answer.response.kind = "Allocated"
    <3>1. ASSUME NEW r, WellFormed(r)
          PROVE  /\ r.start \in HybridTimestamp /\ r.end \in HybridTimestamp
                 /\ AtMost(r.start, r.end)
      <4>1. /\ r.start \in HybridTimestamp /\ r.end \in HybridTimestamp
            /\ r.count - 1 \in Nat /\ r.end = checked_add(r.start, r.count - 1)
        BY <3>1 DEF WellFormed, TimestampRange
      <4> QED
        BY <4>1, AddAscends, AddZero
    <3>2. \A t \in HybridTimestamp : t.physical \in Int /\ t.logical \in Int
      BY WidthAssumption DEF HybridTimestamp
    <3>3. NoTimestamp \notin HybridTimestamp
      BY TsoAssumption, Zenon
    <3>4. WellFormed(range) /\ state'.last = range.end /\ granted' = Append(granted, range)
      BY <2>3, <2>4, <2>6, Zenon
    <3>5. ASSUME NEW i \in DOMAIN granted
          PROVE  /\ WellFormed(granted[i]) /\ Before(granted[i].end, range.start)
                 /\ AtMost(granted[i].end, range.end)
      <4> DEFINE r == granted[i]
      <4>1. /\ WellFormed(r) /\ state.last # NoTimestamp /\ AtMost(r.end, state.last)
            /\ Before(state.last, range.start) /\ state.last \in HybridTimestamp
        BY <2>1, <2>3, <2>6, Zenon DEF RangeInv, TsoState, OptTimestamp
      <4> HIDE DEF r
      <4>2. Before(r.end, range.start)
        BY <3>1, <3>2, <3>4, <4>1, BeforeTransitive, ZenonT(30)
      <4>3. Before(r.end, range.end)
        BY <3>1, <3>2, <3>4, <4>1, <4>2, BeforeTransitive, Zenon
      <4> QED
        BY <4>1, <4>2, <4>3, Zenon DEF AtMost, r
    <3>6. range.end # NoTimestamp /\ AtMost(range.end, range.end)
      BY <3>1, <3>3, <3>4, Zenon DEF AtMost
    <3> DEFINE n == Len(granted)
    <3>7. /\ n \in Nat /\ DOMAIN granted = 1..n /\ DOMAIN granted' = 1..(n + 1)
          /\ granted'[n + 1] = range
          /\ \A i \in 1..n : granted'[i] = granted[i]
      BY <3>4 DEF TypeOK
    <3> HIDE DEF n
    <3>8. \A i \in 1..(n + 1) : i \in 1..n \/ i = n + 1
      BY <3>7
    <3>9. \A i \in DOMAIN granted' : /\ WellFormed(granted'[i]) /\ state'.last # NoTimestamp
                                     /\ AtMost(granted'[i].end, state'.last)
      BY <3>4, <3>5, <3>6, <3>7, <3>8, Zenon
    <3>10. RangesAreDisjoint'
      <4> SUFFICES ASSUME NEW i \in 1..(n + 1), NEW j \in 1..(n + 1), i < j
                   PROVE  Before(granted'[i].end, granted'[j].start)
        BY <3>7, Zenon DEF RangesAreDisjoint
      <4>1. i \in 1..n
        BY <3>7
      <4>2. CASE j = n + 1
        BY <3>5, <3>7, <4>1, <4>2, Zenon
      <4>3. CASE j \in 1..n
        BY <3>7, <4>1, <4>3, Zenon DEF RangesAreDisjoint, RangeInv
      <4> QED
        BY <3>8, <4>2, <4>3, Zenon
    <3> QED
      BY <3>9, <3>10, Zenon DEF RangeInv
  <2> QED
    BY <2>5, <2>6, SMTT(30)
<1>2. CASE UNCHANGED <<state, granted>>
  BY <1>2, Zenon DEF RangeInv, RangesAreDisjoint
<1>3. ASSUME NEW id \in CallIds, OracleStep(id) PROVE UNCHANGED <<state, granted>>
  BY <1>3, Zenon DEF OracleStep, RejectCall, BeginCall, EnsureLease, LeaseAnswered,
     ProposeAllocate,
     AllocateAnswered, ProposalFails
<1>4. ASSUME NEW c \in Clients, ClientStep(c) PROVE UNCHANGED <<state, granted>>
  BY <1>4, ClientCalls, Zenon
<1> QED
  BY <1>1, <1>2, <1>3, <1>4, Zenon DEF Next, LoseProposal, RestartNode, LeaseTick

----------------------------------------------------------------------------
\* The lease.

LEMMA LeaseInvPreserved ==
    ASSUME TypeOK, TypeOK', CallInv, LeaseInv, Next PROVE LeaseInv'
<1>0. /\ lease_clock \in Nat /\ lease_clock' \in Nat
      /\ \A id \in CallIds : calls[id] \in Call /\ calls'[id] \in Call
      /\ state \in TsoState
  BY WidthAssumption, SMTT(30) DEF TypeOK
<1>1. ASSUME NEW id \in CallIds, OracleStep(id) PROVE LeaseInv'
  <2>1. state' = state /\ lease_clock' = lease_clock
    BY <1>1, Zenon DEF OracleStep, RejectCall, BeginCall, EnsureLease, LeaseAnswered,
       ProposeAllocate,
       AllocateAnswered, ProposalFails, oracleVars
  <2>2. \A i \in CallIds : i # id => calls'[i] = calls[i]
    <3>1. ASSUME NEW r, Finish(id, r) PROVE \A i \in CallIds : i # id => calls'[i] = calls[i]
      BY <3>1, Zenon DEF Finish, TypeOK
    <3> QED
      BY <1>1, <3>1, Zenon DEF OracleStep, RejectCall, BeginCall, EnsureLease,
         LeaseAnswered,
         ProposeAllocate, AllocateAnswered, ProposalFails, TypeOK
  <2>3. calls'[id].lease_now_ms <= lease_clock /\ calls'[id].pc # "acquired"
    <3>1. ASSUME NEW r, Finish(id, r)
          PROVE  calls'[id].lease_now_ms <= lease_clock /\ calls'[id].pc # "acquired"
      <4>1. calls'[id] = Ended(calls[id], "done", r)
        BY <3>1, Zenon DEF Finish, TypeOK
      <4>2. /\ Ended(calls[id], "done", r).lease_now_ms = 0
            /\ Ended(calls[id], "done", r).pc = "done"
        BY <1>0, Zenon DEF Ended, Call
      <4> QED
        BY <1>0, <4>1, <4>2
    <3>2. ASSUME NEW pc, pc # "acquired", calls' = [calls EXCEPT ![id].pc = pc]
          PROVE  calls'[id].lease_now_ms <= lease_clock /\ calls'[id].pc # "acquired"
      <4>1. calls'[id] = [calls[id] EXCEPT !.pc = pc]
        BY <3>2, Zenon DEF TypeOK
      <4>2. /\ [calls[id] EXCEPT !.pc = pc].lease_now_ms = calls[id].lease_now_ms
            /\ [calls[id] EXCEPT !.pc = pc].pc = pc
        BY <1>0, Zenon DEF Call
      <4> QED
        BY <3>2, <4>1, <4>2, Zenon DEF LeaseInv
    <3>3. ASSUME NEW p, calls' = [calls EXCEPT ![id].pc = "lease", ![id].physical_ms = p,
                                               ![id].lease_now_ms = lease_clock]
          PROVE  calls'[id].lease_now_ms <= lease_clock /\ calls'[id].pc # "acquired"
      <4>1. calls'[id] = [calls[id] EXCEPT !.pc = "lease", !.physical_ms = p,
                                           !.lease_now_ms = lease_clock]
        BY <3>3, Zenon DEF TypeOK
      <4>2. calls'[id].lease_now_ms = lease_clock /\ calls'[id].pc = "lease"
        BY <1>0, <4>1, Zenon DEF Call
      <4> QED
        BY <1>0, <4>2
    <3> QED
      BY <1>1, <3>1, <3>2, <3>3, Zenon DEF OracleStep, RejectCall, BeginCall, EnsureLease,
         LeaseAnswered, ProposeAllocate, AllocateAnswered, ProposalFails
  <2>4. ASSUME NEW cmd \in proposals', cmd.kind = "AcquireLease"
        PROVE  cmd.now_ms <= lease_clock
    <3>1. CASE cmd \in proposals
      BY <2>4, <3>1, Zenon DEF LeaseInv
    <3>2. CASE cmd \notin proposals
      <4>1. \/ cmd = [kind |-> "AcquireLease", id |-> id, leader_id |-> calls[id].node,
                      now_ms |-> calls[id].lease_now_ms]
            \/ cmd.kind = "Allocate"
        <5>1. CASE EnsureLease(id)
          BY <2>4, <3>2, <5>1, Zenon DEF EnsureLease
        <5>2. CASE ProposeAllocate(id)
          <6>1. ASSUME NEW t, NEW p, NEW k, NEW n,
                       proposals' = proposals \cup
                         {[kind |-> "Allocate", id |-> id, leader_id |-> n,
                           lease_now_ms |-> t, physical_ms |-> p, count |-> k]}
                PROVE  cmd.kind = "Allocate"
            BY <2>4, <3>2, <6>1
          <6> QED
            BY <2>4, <3>2, <5>2, <6>1 DEF ProposeAllocate
        <5>3. CASE proposals' = proposals
          BY <2>4, <3>2, <5>3, Zenon
        <5> QED
          BY <1>1, <5>1, <5>2, <5>3, Zenon DEF OracleStep, RejectCall, BeginCall,
             LeaseAnswered,
             AllocateAnswered, ProposalFails
      <4>2. cmd.now_ms = calls[id].lease_now_ms
        BY <2>4, <4>1
      <4> QED
        BY <4>2, Zenon DEF LeaseInv
    <3> QED
      BY <3>1, <3>2, Zenon
  <2>5. CachedLeaseIsHeld'
    <3>1. CASE lease_expiry' = lease_expiry
      BY <2>1, <3>1, SMTT(30) DEF LeaseInv, CachedLeaseIsHeld
    <3>2. CASE lease_expiry' = [lease_expiry EXCEPT ![calls[id].node] = 0]
      BY <1>0, <2>1, <3>2, SMTT(30) DEF LeaseInv, CachedLeaseIsHeld, TypeOK
    <3>3. CASE /\ calls[id].pc = "acquired" /\ calls[id].reply.kind = "LeaseAcquired"
               /\ lease_expiry' = [lease_expiry EXCEPT ![calls[id].node]
                                                         = calls[id].reply.expires_at_ms]
      BY <2>1, <3>3, Zenon DEF LeaseInv, CachedLeaseIsHeld, TypeOK
    <3>4. \/ lease_expiry' = lease_expiry
          \/ lease_expiry' = [lease_expiry EXCEPT ![calls[id].node] = 0]
          \/ /\ calls[id].pc = "acquired" /\ calls[id].reply.kind = "LeaseAcquired"
             /\ lease_expiry' = [lease_expiry EXCEPT ![calls[id].node]
                                                       = calls[id].reply.expires_at_ms]
      BY <1>1, Zenon DEF OracleStep, RejectCall, BeginCall, EnsureLease, LeaseAnswered,
         ProposeAllocate, AllocateAnswered, ProposalFails, oracleVars
    <3> QED
      BY <3>1, <3>2, <3>3, <3>4, Zenon
  <2>6. ASSUME NEW i \in CallIds
        PROVE  /\ calls'[i].lease_now_ms <= lease_clock'
               /\ (/\ calls'[i].pc = "acquired" /\ calls'[i].reply.kind = "LeaseAcquired"
                   /\ lease_clock' < calls'[i].reply.expires_at_ms)
                    => /\ state'.lease_owner = calls'[i].node
                       /\ state'.lease_expires_at_ms = calls'[i].reply.expires_at_ms
    BY <2>1, <2>2, <2>3, Zenon DEF LeaseInv
  <2>7. state'.lease_owner = NoNode => state'.lease_expires_at_ms = 0
    BY <2>1, SMTT(30) DEF LeaseInv
  <2> QED
    BY <2>1, <2>4, <2>5, <2>6, <2>7, Zenon DEF LeaseInv
<1>2. ASSUME NEW cmd \in proposals, Commit(cmd) PROVE LeaseInv'
  <2> DEFINE answer == transition(state, cmd)
             response == answer.response
  <2>1. /\ cmd \in Commands /\ cmd.id \in CallIds /\ cmd.leader_id = calls[cmd.id].node
        /\ cmd.kind = "AcquireLease" => cmd.now_ms \in Nat /\ cmd.now_ms <= lease_clock
        /\ cmd.kind \in {"AcquireLease", "Allocate"}
    BY SMTT(30) DEF TypeOK, Commands, CallInv, LeaseInv
  <2>2. UNCHANGED <<lease_clock, lease_expiry>> /\ state' = answer.state
        /\ proposals' \subseteq proposals
    BY <1>2, Zenon DEF Commit, oracleVars
  <2>3. \/ /\ state'.lease_owner = state.lease_owner
           /\ state'.lease_expires_at_ms = state.lease_expires_at_ms
        \/ /\ state.lease_expires_at_ms <= lease_clock
           /\ state'.lease_owner # NoNode
    <3>1. CASE cmd.kind = "Allocate"
      BY <1>0, <2>1, <2>2, <3>1, AllocateFacts, SMTT(30) DEF transition
    <3>2. CASE cmd.kind = "AcquireLease"
      <4>1. \/ answer.state = state
            \/ /\ state.lease_owner = NoNode \/ state.lease_expires_at_ms <= cmd.now_ms
               /\ answer.state.lease_owner \in Nodes
        BY <1>0, <2>1, <3>2, AcquireLeaseFacts, SMTT(30) DEF transition
      <4>2. state.lease_expires_at_ms \in Nat /\ NoNode \notin Nodes
        BY <1>0, TsoAssumption, WidthAssumption DEF TsoState
      <4>3. state.lease_owner = NoNode => state.lease_expires_at_ms = 0
        BY SMTT(30) DEF LeaseInv
      <4> HIDE DEF answer
      <4> QED
        BY <1>0, <2>1, <2>2, <3>2, <4>1, <4>2, <4>3, SMTT(30)
    <3> QED
      BY <2>1, <3>1, <3>2, SMTT(30)
  <2>4. response.kind = "LeaseAcquired" =>
          /\ state'.lease_owner = calls[cmd.id].node
          /\ state'.lease_expires_at_ms = response.expires_at_ms
    <3>1. CASE cmd.kind = "Allocate"
      BY <1>0, <2>1, <3>1, AllocateFacts, SMTT(30) DEF transition
    <3>2. CASE cmd.kind = "AcquireLease"
      BY <1>0, <2>1, <2>2, <3>2, AcquireLeaseFacts, Zenon DEF transition
    <3> QED
      BY <2>1, <3>1, <3>2, SMTT(30)
  <2>5. /\ \A i \in CallIds : i # cmd.id => calls'[i] = calls[i]
        /\ calls'[cmd.id].lease_now_ms = calls[cmd.id].lease_now_ms
        /\ \/ calls'[cmd.id] = calls[cmd.id]
           \/ calls'[cmd.id].reply = response /\ calls'[cmd.id].node = calls[cmd.id].node
    <3> DEFINE pc == IF calls[cmd.id].pc = "acquiring" THEN "acquired" ELSE "allocated"
    <3>1. \/ calls' = calls
          \/ calls' = [calls EXCEPT ![cmd.id] =
                         [calls[cmd.id] EXCEPT !.pc = pc, !.reply = response]]
      BY <1>2, <2>1, Zenon DEF Commit, TypeOK
    <3> HIDE DEF pc, response
    <3>2. /\ [calls[cmd.id] EXCEPT !.pc = pc, !.reply = response].reply = response
          /\ [calls[cmd.id] EXCEPT !.pc = pc, !.reply = response].node = calls[cmd.id].node
          /\ [calls[cmd.id] EXCEPT !.pc = pc, !.reply = response].lease_now_ms
               = calls[cmd.id].lease_now_ms
      BY <1>0, <2>1, SMTT(30) DEF Call
    <3> QED
      BY <2>1, <3>1, <3>2, Zenon DEF TypeOK
  <2> HIDE DEF answer, response
  <2>6. ASSUME NEW i \in CallIds
        PROVE  /\ calls'[i].lease_now_ms <= lease_clock'
               /\ (/\ calls'[i].pc = "acquired" /\ calls'[i].reply.kind = "LeaseAcquired"
                   /\ lease_clock' < calls'[i].reply.expires_at_ms)
                    => /\ state'.lease_owner = calls'[i].node
                       /\ state'.lease_expires_at_ms = calls'[i].reply.expires_at_ms
    <3>1. calls'[i].lease_now_ms <= lease_clock'
      BY <2>2, <2>5, Zenon DEF LeaseInv
    <3>2. CASE calls'[i] = calls[i]
      <4>1. ASSUME calls[i].pc = "acquired", calls[i].reply.kind = "LeaseAcquired",
                   lease_clock < calls[i].reply.expires_at_ms
            PROVE  /\ state'.lease_owner = calls[i].node
                   /\ state'.lease_expires_at_ms = calls[i].reply.expires_at_ms
        <5>1. /\ state.lease_owner = calls[i].node
              /\ state.lease_expires_at_ms = calls[i].reply.expires_at_ms
          BY <4>1, Zenon DEF LeaseInv
        <5>2. state.lease_expires_at_ms \in Nat
          BY <1>0, WidthAssumption DEF TsoState
        <5> QED
          BY <1>0, <2>3, <4>1, <5>1, <5>2
      <4> QED
        BY <2>2, <3>1, <3>2, <4>1, SMTT(30)
    <3>3. CASE i = cmd.id /\ calls'[i].reply = response /\ calls'[i].node = calls[i].node
      BY <2>4, <3>1, <3>3, Zenon
    <3> QED
      BY <2>5, <3>2, <3>3, SMTT(30)
  <2>7. CachedLeaseIsHeld'
    <3> SUFFICES ASSUME NEW n \in Nodes, lease_clock < lease_expiry[n]
                 PROVE  state'.lease_owner = n /\ state'.lease_expires_at_ms = lease_expiry[n]
      BY <2>2, Zenon DEF CachedLeaseIsHeld
    <3>1. state.lease_owner = n /\ state.lease_expires_at_ms = lease_expiry[n]
      BY Zenon DEF LeaseInv, CachedLeaseIsHeld
    <3>2. lease_expiry[n] \in Nat
      BY WidthAssumption DEF TypeOK
    <3> QED
      BY <1>0, <2>3, <3>1, <3>2
  <2>8. state'.lease_owner = NoNode => state'.lease_expires_at_ms = 0
    BY <2>3, SMTT(30) DEF LeaseInv
  <2>9. \A p \in proposals' : p.kind = "AcquireLease" => p.now_ms <= lease_clock'
    BY <2>2, SMTT(30) DEF LeaseInv
  <2> QED
    BY <2>6, <2>7, <2>8, <2>9, SMTT(30) DEF LeaseInv
<1>3. ASSUME NEW cmd \in proposals, LoseProposal(cmd) PROVE LeaseInv'
  BY <1>3, Zenon DEF LoseProposal, LeaseInv, CachedLeaseIsHeld, oracleVars
<1>4. ASSUME NEW n \in Nodes, RestartNode(n) PROVE LeaseInv'
  <2>1. ASSUME NEW i \in CallIds
        PROVE  \/ calls'[i] = calls[i]
               \/ calls'[i].lease_now_ms = 0 /\ calls'[i].pc = "dead"
    <3>1. /\ Ended(calls[i], "dead", NoReply).lease_now_ms = 0
          /\ Ended(calls[i], "dead", NoReply).pc = "dead"
      BY <1>0, Zenon DEF Ended, Call
    <3> QED
      BY <1>4, <3>1, Zenon DEF RestartNode
  <2>2. UNCHANGED <<state, proposals, lease_clock>>
    BY <1>4, SMTT(30) DEF RestartNode
  <2>3. CachedLeaseIsHeld'
    <3>1. lease_expiry' = [lease_expiry EXCEPT ![n] = 0]
      BY <1>4, SMTT(30) DEF RestartNode
    <3> QED
      BY <1>0, <2>2, <3>1 DEF LeaseInv, CachedLeaseIsHeld, TypeOK
  <2>4. ASSUME NEW i \in CallIds
        PROVE  /\ calls'[i].lease_now_ms <= lease_clock'
               /\ (/\ calls'[i].pc = "acquired" /\ calls'[i].reply.kind = "LeaseAcquired"
                   /\ lease_clock' < calls'[i].reply.expires_at_ms)
                    => /\ state'.lease_owner = calls'[i].node
                       /\ state'.lease_expires_at_ms = calls'[i].reply.expires_at_ms
    BY <1>0, <2>1, <2>2, SMTT(30) DEF LeaseInv
  <2> QED
    BY <2>2, <2>3, <2>4, SMTT(30) DEF LeaseInv
<1>5. ASSUME LeaseTick PROVE LeaseInv'
  <2>1. /\ UNCHANGED <<state, proposals, lease_expiry, calls>>
        /\ lease_clock' = lease_clock + 1
    BY <1>5, SMTT(30) DEF LeaseTick
  <2>2. CachedLeaseIsHeld'
    BY <1>0, <2>1, WidthAssumption, SMTT(30) DEF LeaseInv, CachedLeaseIsHeld, TypeOK
  <2>3. ASSUME NEW i \in CallIds
        PROVE  /\ calls[i].lease_now_ms <= lease_clock'
               /\ (/\ calls[i].pc = "acquired" /\ calls[i].reply.kind = "LeaseAcquired"
                   /\ lease_clock' < calls[i].reply.expires_at_ms)
                    => /\ state.lease_owner = calls[i].node
                       /\ state.lease_expires_at_ms = calls[i].reply.expires_at_ms
    <3>1. calls[i].lease_now_ms \in Nat
          /\ (calls[i].reply.kind = "LeaseAcquired" => calls[i].reply.expires_at_ms \in Nat)
      BY <1>0, WidthAssumption DEF Call, Responses
    <3> QED
      BY <1>0, <2>1, <3>1, SMTT(30) DEF LeaseInv
  <2>4. \A p \in proposals : p.kind = "AcquireLease" => p.now_ms <= lease_clock'
    <3>1. \A p \in proposals : p.kind = "AcquireLease" => p.now_ms \in Nat
      BY WidthAssumption, SMTT(30) DEF TypeOK, Commands
    <3> QED
      BY <1>0, <2>1, <3>1, SMTT(30) DEF LeaseInv
  <2> QED
    BY <2>1, <2>2, <2>3, <2>4, Zenon DEF LeaseInv
<1>6. ASSUME NEW c \in Clients, ClientStep(c) PROVE LeaseInv'
  <2>1. UNCHANGED <<state, proposals, lease_clock, lease_expiry>>
    BY <1>6, ClientCalls, SMTT(30) DEF oracleVars
  <2>2. ASSUME NEW i \in CallIds
        PROVE  calls'[i] = calls[i] \/ (calls'[i].lease_now_ms = 0 /\ calls'[i].pc = "received")
    BY <1>6, ClientCalls, SMTT(30) DEF TypeOK
  <2>3. ASSUME NEW i \in CallIds
        PROVE  /\ calls'[i].lease_now_ms <= lease_clock'
               /\ (/\ calls'[i].pc = "acquired" /\ calls'[i].reply.kind = "LeaseAcquired"
                   /\ lease_clock' < calls'[i].reply.expires_at_ms)
                    => /\ state'.lease_owner = calls'[i].node
                       /\ state'.lease_expires_at_ms = calls'[i].reply.expires_at_ms
    BY <1>0, <2>1, <2>2, SMTT(30) DEF LeaseInv
  <2> QED
    BY <2>1, <2>3, SMTT(30) DEF LeaseInv, CachedLeaseIsHeld
<1> QED
  BY <1>1, <1>2, <1>3, <1>4, <1>5, <1>6, Zenon DEF Next

----------------------------------------------------------------------------
\* The theorems.

LEMMA TsoInvInit == Init => TsoInv
<1> SUFFICES ASSUME Init PROVE TsoInv
  BY Zenon
<1>1. /\ MaxPhysical \in Nat /\ LOGICAL_CARDINALITY \in Nat \ {0}
      /\ BatchSize \in 1..MaxCount /\ MaxCount \in Nat /\ MaxRetries \in Nat
      /\ MaxAttempts \in Nat /\ 1 \in 1..MaxCount /\ 0 \in 0..MaxPhysical
      /\ 0 \in 0..MaxAttempts /\ 0 \in 0..(MaxRetries + 1)
  BY TsoAssumption, WidthAssumption
<1> DEFINE call == [NewCall(NoNode, 1, NoTimestamp) EXCEPT !.pc = "none"]
           client == [pc |-> "check", leader |-> NoNode, attempt |-> 0, failures |-> 0,
                      count |-> BatchSize, then |-> "check", cache |-> <<>>,
                      last_returned |-> NoTimestamp]
<1>2. call \in Call /\ call.pc = "none" /\ call.lease_now_ms = 0
  BY <1>1, ReplyTypes, Zenon DEF NewCall, Call, OptTimestamp
<1>3. client \in Client /\ client.cache = <<>> /\ client.pc = "check"
  <2>1. PICK empty \in Seq(CachedRange) : empty = <<>>
    BY NoRanges, ZenonT(30)
  <2>2. [pc |-> "check", leader |-> NoNode, attempt |-> 0, failures |-> 0,
         count |-> BatchSize, then |-> "check", cache |-> empty,
         last_returned |-> NoTimestamp] \in Client
    BY <1>1, Zenon DEF Client, OptTimestamp
  <2> QED
    BY <2>1, <2>2, Zenon
<1>4. /\ calls = [id \in CallIds |-> call] /\ clients = [c \in Clients |-> client]
      /\ state = [last |-> NoTimestamp, lease_owner |-> NoNode,
                  lease_expires_at_ms |-> 0, committed_ranges |-> 0]
      /\ proposals = {} /\ granted = <<>> /\ lease_clock = 0
      /\ lease_expiry = [n \in Nodes |-> 0] /\ lease_lock = [n \in Nodes |-> Unlocked]
      /\ returned = [c \in Clients |-> {}]
  BY Zenon DEF Init
<1> HIDE DEF call, client
<1>5. state \in TsoState
  BY <1>1, <1>4, SMTT(30) DEF TsoState, OptTimestamp
<1>6. TypeOK
  BY <1>1, <1>2, <1>3, <1>4, <1>5, SMTT(30) DEF TypeOK
<1>7. CacheInv
  <2>1. ClientOK(client)
    BY <1>3 DEF ClientOK
  <2> QED
    BY <1>4, <2>1, Zenon DEF CacheInv
<1>8. RangeInv
  BY <1>4, SMTT(30) DEF RangeInv, RangesAreDisjoint
<1>9. CallInv
  <2>1. proposals = {} /\ \A id \in CallIds : calls[id] = call
    BY <1>4, SMTT(30)
  <2> QED
    BY <1>2, <2>1, Zenon DEF CallInv, ActivePcs
<1>10. LeaseInv
  BY <1>2, <1>4 DEF LeaseInv, CachedLeaseIsHeld
<1> QED
  BY <1>6, <1>7, <1>8, <1>9, <1>10, Zenon DEF TsoInv

LEMMA TsoInvStep == TsoInv /\ [Next]_vars => TsoInv'
<1> SUFFICES ASSUME TsoInv, [Next]_vars PROVE TsoInv'
  BY Zenon
<1>0. TypeOK /\ CacheInv /\ RangeInv /\ CallInv /\ LeaseInv
  BY Zenon DEF TsoInv
<1>1. CASE Next
  <2>1. ASSUME NEW id \in CallIds, OracleStep(id) PROVE TypeOK' /\ CacheInv'
    <3>1. clients' = clients
      BY <1>0, <2>1, OracleCalls, SMTT(30) DEF CallsKeepNode
    <3> QED
      BY <1>0, <2>1, <3>1, OracleTypes, Zenon DEF CacheInv, ClientOK, WellFormed
  <2>2. ASSUME EnvironmentStep PROVE TypeOK' /\ CacheInv'
    <3>1. clients' = clients
      BY <1>0, <2>2, EnvironmentCalls, Zenon DEF EnvironmentStep, CallsKeepNode
    <3> QED
      BY <1>0, <2>2, <3>1, EnvironmentTypes, Zenon DEF EnvironmentStep, CacheInv, ClientOK,
         WellFormed
  <2>3. ASSUME NEW c \in Clients, ClientStep(c) PROVE TypeOK' /\ CacheInv'
    BY <1>0, <2>3, ClientTypes, Zenon
  <2>4. TypeOK' /\ CacheInv'
    BY <1>1, <2>1, <2>2, <2>3, Zenon DEF Next, EnvironmentStep
  <2> QED
    BY <1>0, <1>1, <2>4, RangeInvPreserved, CallInvPreserved, LeaseInvPreserved, SMTT(30)
       DEF TsoInv
<1>2. CASE UNCHANGED vars
  <2>1. UNCHANGED <<state, proposals, lease_clock, lease_expiry, lease_lock, calls, clients,
                    granted, returned>>
    BY <1>2, Zenon DEF vars
  <2>2. TypeOK'
    BY <1>0, <2>1, SMTT(30) DEF TypeOK
  <2>3. CacheInv'
    BY <1>0, <2>1, Zenon DEF CacheInv, ClientOK, WellFormed
  <2>4. RangeInv'
    BY <1>0, <2>1, SMTT(30) DEF RangeInv, RangesAreDisjoint
  <2>5. CallInv'
    BY <1>0, <2>1, SMTT(30) DEF CallInv
  <2>6. LeaseInv'
    BY <1>0, <2>1, Zenon DEF LeaseInv, CachedLeaseIsHeld
  <2> QED
    BY <2>2, <2>3, <2>4, <2>5, <2>6, Zenon DEF TsoInv
<1> QED
  BY <1>1, <1>2, Zenon

LEMMA TsoInvariant == Spec => []TsoInv
BY TsoInvInit, TsoInvStep, PTL DEF Spec

\* Types hold, so no range that overflows u64 milliseconds is ever stored,
\* answered or cached, and no cached offset leaves its range.
THEOREM TsoTypeCorrect == Spec => []TypeOK
BY TsoInvariant, PTL DEF TsoInv

\* No two committed ranges share a timestamp, whatever the clocks read and
\* whichever proposals commit after their callers gave up.
THEOREM CommittedRangesDisjoint == Spec => []RangesAreDisjoint
BY TsoInvariant, PTL DEF TsoInv, RangeInv

\* ensure_lease may answer from its cache: a cached expiry in the future is
\* the lease the group has given to that node.
THEOREM CachedLeaseHeld == Spec => []CachedLeaseIsHeld
BY TsoInvariant, PTL DEF TsoInv, LeaseInv

\* A step that changes the lease's owner happens after the expiry, and the
\* expiry never goes back.
THEOREM LeaseWaitedOut == Spec => LeaseIsWaitedOut
<1>1. ASSUME TsoInv, [Next]_vars
      PROVE  [/\ state'.lease_expires_at_ms >= state.lease_expires_at_ms
              /\ state'.lease_owner # state.lease_owner
                   => lease_clock >= state.lease_expires_at_ms]_vars
  <2>0. /\ state \in TsoState /\ lease_clock \in Nat /\ state.lease_expires_at_ms \in Nat
        /\ state.lease_owner = NoNode => state.lease_expires_at_ms = 0
    <3>1. state \in TsoState /\ lease_clock \in 0..MaxPhysical
      BY <1>1, Zenon DEF TsoInv, TypeOK
    <3>2. state.lease_owner = NoNode => state.lease_expires_at_ms = 0
      BY <1>1, Zenon DEF TsoInv, LeaseInv
    <3>3. state.lease_expires_at_ms \in 0..MaxPhysical
      BY <3>1, Zenon DEF TsoState
    <3> QED
      BY <3>1, <3>2, <3>3, WidthAssumption
  <2>1. CASE state' = state
    BY <2>0, <2>1
  <2>2. ASSUME NEW cmd \in proposals, Commit(cmd)
        PROVE  /\ state'.lease_expires_at_ms >= state.lease_expires_at_ms
               /\ state'.lease_owner # state.lease_owner
                    => lease_clock >= state.lease_expires_at_ms
    <3> DEFINE answer == transition(state, cmd)
    <3>1. /\ cmd \in Commands /\ cmd.kind \in {"AcquireLease", "Allocate"}
          /\ cmd.kind = "AcquireLease" => cmd.now_ms \in Nat /\ cmd.now_ms <= lease_clock
      <4>1. cmd \in Commands
        BY <1>1, Zenon DEF TsoInv, TypeOK
      <4>2. /\ cmd.kind \in {"AcquireLease", "Allocate"}
            /\ cmd.kind = "AcquireLease" => cmd.now_ms \in 0..MaxPhysical
        BY <4>1, Zenon DEF Commands
      <4>3. cmd.kind = "AcquireLease" => cmd.now_ms <= lease_clock
        BY <1>1, Zenon DEF TsoInv, LeaseInv
      <4> QED
        BY <4>1, <4>2, <4>3, WidthAssumption
    <3>2. state' = answer.state
      BY <2>2, SMTT(30) DEF Commit
    <3>3. CASE cmd.kind = "Allocate"
      BY <2>0, <3>1, <3>2, <3>3, AllocateFacts, SMTT(30) DEF transition
    <3>4. CASE cmd.kind = "AcquireLease"
      <4>1. \/ answer.state = state
            \/ /\ state.lease_owner = NoNode \/ state.lease_expires_at_ms <= cmd.now_ms
               /\ answer.state.lease_expires_at_ms > cmd.now_ms
        BY <2>0, <3>1, <3>4, AcquireLeaseFacts, SMTT(30) DEF transition
      <4>2. answer.state.lease_expires_at_ms \in Nat
        <5>1. answer.state \in TsoState
          BY <2>0, <3>1, <3>4, AcquireLeaseFacts, Zenon DEF transition
        <5> QED
          BY <5>1, WidthAssumption, SMTT(30) DEF TsoState
      <4> HIDE DEF answer
      <4> QED
        BY <2>0, <3>1, <3>2, <3>4, <4>1, <4>2, SMTT(30)
    <3> QED
      BY <3>1, <3>3, <3>4, Zenon
  <2>3. ASSUME NEW id \in CallIds, OracleStep(id) PROVE state' = state
    BY <2>3, Zenon DEF OracleStep, RejectCall, BeginCall, EnsureLease, LeaseAnswered,
       ProposeAllocate, AllocateAnswered, ProposalFails
  <2>4. ASSUME NEW c \in Clients, ClientStep(c) PROVE state' = state
    BY <1>1, <2>4, ClientCalls, Zenon DEF TsoInv
  <2> QED
    BY <1>1, <2>1, <2>2, <2>3, <2>4, Zenon DEF Next, LoseProposal, RestartNode, LeaseTick, vars
<1> QED
  BY <1>1, TsoInvariant, PTL DEF Spec, LeaseIsWaitedOut

----------------------------------------------------------------------------
\* From here a leaf that names no prover is given thirty seconds of SMT.
USE SMTT(30)

----------------------------------------------------------------------------
\* What clients are given.

\* Request id was answered with a range.
Holds(id) == calls[id].reply.kind = "Allocated"

Apart(r, s) == Before(r.end, s.start) \/ Before(s.end, r.start)

\* What was the last timestamp when a request was sent is at or below the last
\* one now, and below the range the request is answered with.
FloorInv ==
    /\ \A id \in CallIds : calls[id].floor # NoTimestamp =>
         state.last # NoTimestamp /\ AtMost(calls[id].floor, state.last)
    /\ RealTimeOrder

\* Answers are granted ranges, and no two requests are answered with the same.
AnswerInv ==
    /\ \A id \in CallIds : Holds(id) => \E g \in DOMAIN granted : granted[g] = calls[id].reply.range
    /\ \A i, j \in CallIds : i # j /\ Holds(i) /\ Holds(j)
                               => Apart(calls[i].reply.range, calls[j].reply.range)

\* r is the range that one of client c's requests was answered with.
Owns(c, r) == \E k \in 1..MaxAttempts : /\ calls[<<c, k>>].pc = "done" /\ Holds(<<c, k>>)
                                        /\ calls[<<c, k>>].reply.range = r

\* t is no later than what was the last timestamp of the state.
Below(t, last) == last # NoTimestamp /\ AtMost(t, last)

\* A client's cache holds answers to its own requests, and while it waits for
\* another one, all it has is no later than that request's floor.
OwnCache(c) ==
    LET client == clients[c]
        floor == calls[<<c, client.attempt>>].floor
    IN  /\ \A i \in DOMAIN client.cache : Owns(c, client.cache[i].range)
        /\ client.pc = "waiting" =>
             /\ client.attempt \in 1..MaxAttempts
             /\ \A i \in DOMAIN client.cache : Below(client.cache[i].range.end, floor)
             /\ client.last_returned # NoTimestamp => Below(client.last_returned, floor)
        /\ client.last_returned # NoTimestamp => Below(client.last_returned, state.last)

\* What a client returned is no later than the last one, and comes from ranges
\* it was answered with.
OwnReturns(c) ==
    \A u \in returned[c] :
        /\ Below(u, clients[c].last_returned)
        /\ \E r \in TimestampRange : Owns(c, r) /\ Within(u, r)

\* The part of CacheAscends about client c.
Ascends(c) ==
    LET cache == clients[c].cache IN
        /\ \A i, j \in DOMAIN cache : i < j => Before(cache[i].range.end, cache[j].range.start)
        /\ \A i \in DOMAIN cache :
             (clients[c].last_returned # NoTimestamp
                /\ cache[i].next_offset < cache[i].range.count)
               => Before(clients[c].last_returned, at(cache[i].range, cache[i].next_offset))

ClientInv == \A c \in Clients : OwnCache(c) /\ OwnReturns(c) /\ Ascends(c)

ServiceInv == FloorInv /\ AnswerInv /\ ClientInv

\* Timestamps are compared by two integers.
LEMMA OrderTypes == \A t \in HybridTimestamp : t.physical \in Int /\ t.logical \in Int
BY WidthAssumption DEF HybridTimestamp

\* The timestamps of a well-formed range ascend from its start to its end.
LEMMA AtFacts ==
    ASSUME NEW r, WellFormed(r), NEW o \in Nat
    PROVE  /\ r.start \in HybridTimestamp /\ r.end \in HybridTimestamp
           /\ AtMost(r.start, r.end)
           /\ at(r, o).physical \in Int /\ at(r, o).logical \in Int
           /\ AtMost(r.start, at(r, o))
           /\ Before(at(r, o), at(r, o + 1))
           /\ o < r.count => at(r, o) \in HybridTimestamp /\ AtMost(at(r, o), r.end)
<1> DEFINE last == r.count - 1
           end == checked_add(r.start, last)
           value == checked_add(r.start, o)
<1>1. /\ r.start \in HybridTimestamp /\ r.end \in HybridTimestamp /\ last \in Nat /\ r.end = end
      /\ 0 \in Nat /\ 0 <= last /\ 0 <= o /\ o < o + 1 /\ o + 1 \in Nat
      /\ o < r.count => o <= last
  BY DEF WellFormed, TimestampRange
<1>2. AtMost(r.start, r.end)
  BY <1>1, AddAscends, AddZero, ZenonT(30)
<1>3. /\ value.physical \in Nat /\ value.logical \in 0..(LOGICAL_CARDINALITY - 1)
      /\ ~Overflows(value) => value \in HybridTimestamp
      /\ Before(value, checked_add(r.start, o + 1))
  BY <1>1, AddAscends, Zenon
<1>4. AtMost(r.start, value)
  BY <1>1, AddAscends, AddZero, ZenonT(30)
<1>5. o < r.count => AtMost(value, r.end)
  BY <1>1, AddAscends, ZenonT(30)
<1>6. value.logical \in Int
  BY <1>3, WidthAssumption
<1>7. o < r.count => value \in HybridTimestamp
  <2> SUFFICES ASSUME o < r.count PROVE ~Overflows(value)
    BY <1>3, Zenon
  <2>1. r.end.physical \in 0..MaxPhysical
    BY <1>1, Zenon DEF HybridTimestamp
  <2> HIDE DEF value, end, last
  <2> QED
    BY <1>3, <1>5, <2>1, WidthAssumption DEF AtMost, Before, Overflows
<1> QED
  BY <1>1, <1>2, <1>3, <1>4, <1>5, <1>6, <1>7 DEF at

----------------------------------------------------------------------------
\* What the steps do to answers and caches.

\* No step of oracle, group or clock touches clients, floors, or a request
\* that has its answer.
AnswersKept ==
    /\ clients' = clients /\ returned' = returned
    /\ \A i \in CallIds : /\ calls'[i].floor = calls[i].floor
                          /\ calls[i].pc = "done" => calls'[i] = calls[i]

QuietStep ==
    /\ AnswersKept
    /\ state'.last = state.last /\ granted' = granted
    /\ \A i \in CallIds : Holds(i)' => calls'[i].reply = calls[i].reply

GrantStep(r) ==
    /\ AnswersKept
    /\ WellFormed(r) /\ r.count \in 1..MaxCount
    /\ state'.last = r.end /\ (state.last # NoTimestamp => Before(state.last, r.start))
    /\ granted' = Append(granted, r)
    /\ \E id \in CallIds : \A i \in CallIds :
         Holds(i)' => \/ calls'[i].reply = calls[i].reply
                      \/ i = id /\ calls'[i].reply.range = r

LEMMA OracleIsQuiet ==
    ASSUME TypeOK, NEW id \in CallIds, OracleStep(id)
    PROVE  QuietStep
<1> USE DEF TypeOK, oracleVars
<1>0. /\ calls[id] \in Call /\ calls[id].pc # "done"
      /\ UNCHANGED <<state, granted, clients, returned>>
  BY Zenon DEF OracleStep, RejectCall, BeginCall, EnsureLease, LeaseAnswered, ProposeAllocate,
     AllocateAnswered, ProposalFails
<1> DEFINE Kept == \A i \in CallIds : /\ calls'[i].floor = calls[i].floor
                                      /\ i # id => calls'[i] = calls[i]
                                      /\ Holds(i)' => calls'[i].reply = calls[i].reply
<1>1. ASSUME NEW r, Finish(id, r), r.kind = "Allocated" => r = calls[id].reply
      PROVE  Kept
  <2>1. Ended(calls[id], "done", r).floor = calls[id].floor /\ Ended(calls[id], "done", r).reply = r
    BY <1>0, Zenon DEF Call, Ended
  <2>2. \A i \in CallIds : calls'[i] = IF i = id THEN Ended(calls[id], "done", r) ELSE calls[i]
    BY <1>1, Zenon DEF Finish
  <2> QED
    BY <1>1, <2>1, <2>2, Zenon DEF Holds
<1>2. ASSUME NEW pc, calls' = [calls EXCEPT ![id].pc = pc]
      PROVE  Kept
  <2>1. /\ [calls[id] EXCEPT !.pc = pc].floor = calls[id].floor
        /\ [calls[id] EXCEPT !.pc = pc].reply = calls[id].reply
    BY <1>0, Zenon DEF Call
  <2>2. \A i \in CallIds : calls'[i] = IF i = id THEN [calls[id] EXCEPT !.pc = pc] ELSE calls[i]
    BY <1>2, Zenon
  <2> QED
    BY <2>1, <2>2, Zenon
<1>3. ASSUME NEW p, NEW t, calls' = [calls EXCEPT ![id].pc = "lease", ![id].physical_ms = p,
                                                  ![id].lease_now_ms = t]
      PROVE  Kept
  <2> DEFINE new == [calls[id] EXCEPT !.pc = "lease", !.physical_ms = p, !.lease_now_ms = t]
  <2>1. new.floor = calls[id].floor /\ new.reply = calls[id].reply
    BY <1>0, Zenon DEF Call
  <2>2. \A i \in CallIds : calls'[i] = IF i = id THEN new ELSE calls[i]
    BY <1>3, Zenon
  <2> HIDE DEF new
  <2> QED
    BY <2>1, <2>2, Zenon
<1>4. /\ NotLeader.kind # "Allocated" /\ LeaseNotReady.kind # "Allocated"
      /\ RaftError.kind # "Allocated" /\ TimestampOverflow.kind # "Allocated"
      /\ [kind |-> "Unauthenticated"].kind # "Allocated"
  BY Zenon DEF NotLeader, LeaseNotReady, RaftError, TimestampOverflow
<1> HIDE DEF Kept
<1>5. Kept
  BY <1>1, <1>2, <1>3, <1>4, Zenon DEF OracleStep, RejectCall, BeginCall, EnsureLease, LeaseAnswered,
     ProposeAllocate, AllocateAnswered, ProposalFails
<1> QED
  BY <1>0, <1>5, Zenon DEF Kept, QuietStep, AnswersKept

LEMMA EnvironmentIsQuiet ==
    ASSUME TypeOK, EnvironmentStep
    PROVE  QuietStep \/ \E r \in TimestampRange : GrantStep(r)
<1> USE DEF TypeOK, oracleVars
<1>1. ASSUME NEW cmd \in proposals, Commit(cmd)
      PROVE  QuietStep \/ \E r \in TimestampRange : GrantStep(r)
  <2> DEFINE answer == transition(state, cmd)
             response == answer.response
             pc == IF calls[cmd.id].pc = "acquiring" THEN "acquired" ELSE "allocated"
             new == [calls[cmd.id] EXCEPT !.pc = pc, !.reply = response]
  <2>1. /\ cmd \in Commands /\ cmd.kind \in {"AcquireLease", "Allocate"} /\ cmd.id \in CallIds
        /\ state \in TsoState
    BY SMTT(30) DEF Commands
  <2>2. new.floor = calls[cmd.id].floor /\ new.reply = response
    BY <2>1 DEF Call
  <2>3. Awaits(cmd) => calls[cmd.id].pc # "done"
    BY Zenon DEF Awaits
  <2>4. \/ calls' = calls
        \/ Awaits(cmd) /\ calls' = [calls EXCEPT ![cmd.id] = new]
    BY <1>1, <2>1, Zenon DEF Commit
  <2>5. \/ calls' = calls
        \/ /\ calls[cmd.id].pc # "done"
           /\ \A i \in CallIds : calls'[i] = IF i = cmd.id THEN new ELSE calls[i]
    BY <2>1, <2>3, <2>4, Zenon
  <2>6. /\ clients' = clients /\ returned' = returned /\ state' = answer.state
        /\ granted' = IF response.kind = "Allocated" THEN Append(granted, response.range)
                                                     ELSE granted
    BY SMTT(30), <1>1 DEF Commit
  <2>7. response.kind # "Allocated" => answer.state.last = state.last
    BY SMTT(30), <2>1, AcquireLeaseFacts, AllocateFacts DEF transition
  <2>8. response.kind = "Allocated" =>
          /\ WellFormed(response.range) /\ answer.state.last = response.range.end
          /\ state.last # NoTimestamp => Before(state.last, response.range.start)
    BY <2>1, AcquireLeaseFacts, AllocateFacts, Zenon DEF transition
  <2>9. response.kind = "Allocated" => response.range.count \in 1..MaxCount
    <3>1. CASE cmd.kind = "AcquireLease"
      BY <2>1, <3>1, AcquireLeaseFacts, ZenonT(30) DEF transition
    <3>2. CASE cmd.kind = "Allocate"
      <4>1. cmd.count \in 1..MaxCount
        BY <2>1, <3>2, Zenon DEF Commands
      <4>2. answer = allocate(state, cmd)
        BY <3>2, Zenon DEF transition
      <4>3. response.kind = "Allocated" =>
              response.range = from_start(StartAfter(state.last, cmd.physical_ms), cmd.count)
        BY <4>2 DEF allocate, Answer, LeasePending, TimestampOverflow
      <4> QED
        BY <4>1, <4>3 DEF from_start
    <3> QED
      BY <2>1, <3>1, <3>2, Zenon
  <2> HIDE DEF answer, response, new
  <2>10. AnswersKept
    BY <2>2, <2>5, <2>6, Zenon DEF AnswersKept
  <2>11. \A i \in CallIds : \/ calls'[i].reply = calls[i].reply
                            \/ i = cmd.id /\ calls'[i].reply = response
    BY <2>2, <2>5, Zenon
  <2>12. CASE response.kind # "Allocated"
    BY <2>6, <2>7, <2>10, <2>11, <2>12, Zenon DEF QuietStep, Holds
  <2>13. CASE response.kind = "Allocated"
    <3>1. response.range \in TimestampRange
      BY <2>8, <2>13, Zenon DEF WellFormed
    <3>2. GrantStep(response.range)
      BY <2>1, <2>6, <2>8, <2>9, <2>10, <2>11, <2>13, Zenon DEF GrantStep
    <3> QED
      BY <3>1, <3>2, Zenon
  <2> QED
    BY <2>12, <2>13, Zenon
<1>2. ASSUME NEW cmd \in proposals, LoseProposal(cmd) PROVE QuietStep
  BY <1>2, Zenon DEF LoseProposal, QuietStep, AnswersKept
<1>3. ASSUME NEW n \in Nodes, RestartNode(n) PROVE QuietStep
  <2>1. \A id \in CallIds : /\ Ended(calls[id], "dead", NoReply).floor = calls[id].floor
                            /\ Ended(calls[id], "dead", NoReply).reply = NoReply
    BY Zenon DEF Call, Ended
  <2>2. NoReply.kind # "Allocated" /\ "done" \notin ActivePcs
    BY Zenon DEF NoReply, ActivePcs
  <2>3. /\ \A id \in CallIds : \/ calls'[id] = calls[id]
                               \/ /\ calls[id].pc \in ActivePcs
                                  /\ calls'[id] = Ended(calls[id], "dead", NoReply)
        /\ UNCHANGED <<state, granted, clients, returned>>
    BY <1>3, Zenon DEF RestartNode
  <2> QED
    BY <2>1, <2>2, <2>3, Zenon DEF QuietStep, AnswersKept, Holds
<1>4. ASSUME LeaseTick PROVE QuietStep
  BY <1>4, Zenon DEF LeaseTick, QuietStep, AnswersKept
<1> QED
  BY <1>1, <1>2, <1>3, <1>4, Zenon DEF EnvironmentStep

\* A step of client c leaves the oracle's state and the other clients alone.
OthersKept(c) ==
    /\ UNCHANGED <<state, granted>>
    /\ \A d \in Clients : d # c => clients'[d] = clients[d] /\ returned'[d] = returned[d]

SameClient(c) ==
    /\ clients'[c].cache = clients[c].cache
    /\ clients'[c].last_returned = clients[c].last_returned

IdleStep(c) ==
    /\ OthersKept(c) /\ SameClient(c)
    /\ UNCHANGED <<calls, returned>>
    /\ clients'[c].attempt = clients[c].attempt
    /\ clients'[c].pc = "waiting" => clients[c].pc = "waiting"

SendStep(c) ==
    LET k == clients'[c].attempt
    IN  /\ OthersKept(c) /\ SameClient(c)
        /\ UNCHANGED returned
        /\ k \in 1..MaxAttempts /\ k > clients[c].attempt
        /\ calls'[<<c, k>>].floor = state.last /\ calls'[<<c, k>>].reply = NoReply
        /\ \A i \in CallIds : i # <<c, k>> => calls'[i] = calls[i]

CacheStep(c) ==
    LET client == clients[c]
        id == <<c, client.attempt>>
    IN  /\ OthersKept(c)
        /\ UNCHANGED <<calls, returned>>
        /\ client.pc = "waiting" /\ clients'[c].pc # "waiting"
        /\ client.attempt \in 1..MaxAttempts /\ calls[id].pc = "done" /\ Holds(id)
        /\ clients'[c].last_returned = client.last_returned
        /\ clients'[c].cache = Append(client.cache, [range |-> calls[id].reply.range,
                                                     next_offset |-> 0])

DropStep(c) ==
    /\ OthersKept(c)
    /\ UNCHANGED <<calls, returned>>
    /\ clients'[c].pc # "waiting"
    /\ clients'[c].last_returned = clients[c].last_returned
    /\ clients'[c].cache = <<>>

\* pop_cache takes the next timestamp of the i-th range.
TakeStep(c, i) ==
    LET cache == clients[c].cache
        new == clients'[c]
        value == at(cache[i].range, cache[i].next_offset)
    IN  /\ OthersKept(c)
        /\ UNCHANGED calls
        /\ new.pc # "waiting"
        /\ cache[i].next_offset < cache[i].range.count
        /\ new.last_returned = value
        /\ returned' = [returned EXCEPT ![c] = @ \cup {value}]
        /\ \A j \in DOMAIN new.cache :
             /\ i + j - 1 \in DOMAIN cache
             /\ new.cache[j].range = cache[i + j - 1].range
             /\ new.cache[j].next_offset = cache[i + j - 1].next_offset + (IF j = 1 THEN 1 ELSE 0)

LEMMA ClientKinds ==
    ASSUME TypeOK, CallInv, NEW c \in Clients, ClientStep(c)
    PROVE  \/ IdleStep(c) \/ SendStep(c) \/ CacheStep(c) \/ DropStep(c)
           \/ \E i \in DOMAIN clients[c].cache : TakeStep(c, i)
<1> USE DEF TypeOK, oracleVars
<1> DEFINE client == clients[c]
<1>0. /\ client \in Client /\ NoNode \notin Nodes
      /\ client.cache \in Seq(CachedRange) /\ client.attempt \in Nat
  BY TsoAssumption DEF Client
<1>1. UNCHANGED <<state, granted>>
  BY ClientCalls, Zenon
<1>2. ASSUME NEW new, clients' = [clients EXCEPT ![c] = new]
      PROVE  clients'[c] = new /\ \A d \in Clients : d # c => clients'[d] = clients[d]
  BY <1>2, Zenon
<1>3. ASSUME NEW new, clients' = [clients EXCEPT ![c] = new], UNCHANGED <<calls, returned>>,
             new.cache = client.cache, new.last_returned = client.last_returned,
             new.attempt = client.attempt, new.pc = "waiting" => client.pc = "waiting"
      PROVE  IdleStep(c)
  BY <1>1, <1>2, <1>3, ZenonT(30) DEF IdleStep, OthersKept, SameClient
<1>4. ASSUME NEW pc \in {"check", "pop"}, UNCHANGED <<calls, returned>>,
             clients' = [clients EXCEPT ![c].pc = pc]
      PROVE  IdleStep(c)
  <2> DEFINE new == [client EXCEPT !.pc = pc]
  <2>1. /\ clients' = [clients EXCEPT ![c] = new]
        /\ new.cache = client.cache /\ new.last_returned = client.last_returned
        /\ new.attempt = client.attempt /\ new.pc # "waiting"
    BY <1>0, <1>4, Zenon DEF Client
  <2> HIDE DEF new
  <2> QED
    BY <1>3, <1>4, <2>1, Zenon
<1>5. ASSUME RefillFails(c), UNCHANGED <<calls, returned>> PROVE IdleStep(c)
  BY <1>4, <1>5, Zenon DEF RefillFails
<1>6. ASSUME RetryOrFail(c), UNCHANGED <<calls, returned>> PROVE IdleStep(c)
  <2> DEFINE n == client.failures + 1
             new == [client EXCEPT !.pc = "refill", !.failures = n]
  <2>1. CASE client.failures >= MaxRetries
    BY <1>5, <1>6, <2>1, Zenon DEF RetryOrFail
  <2>2. CASE ~(client.failures >= MaxRetries)
    <3>1. clients' = [clients EXCEPT ![c] = new]
      BY <1>6, <2>2, Zenon DEF RetryOrFail
    <3> HIDE DEF n
    <3>2. /\ new.cache = client.cache /\ new.last_returned = client.last_returned
          /\ new.attempt = client.attempt /\ new.pc # "waiting"
      BY <1>0, Zenon DEF Client
    <3> HIDE DEF new
    <3> QED
      BY <1>3, <1>6, <3>1, <3>2, Zenon
  <2> QED
    BY <2>1, <2>2, Zenon
<1>7. CASE CheckCache(c)
  <2>1. ASSUME NEW count, NEW then, BeginRefill(c, count, then), UNCHANGED <<calls, returned>>
        PROVE  IdleStep(c)
    <3> DEFINE new == [client EXCEPT !.pc = "refill", !.failures = 0, !.count = count,
                                     !.then = then]
    <3>1. clients' = [clients EXCEPT ![c] = new]
      BY <2>1, Zenon DEF BeginRefill
    <3>2. /\ new.cache = client.cache /\ new.last_returned = client.last_returned
          /\ new.attempt = client.attempt /\ new.pc # "waiting"
      BY <1>0, Zenon DEF Client
    <3> HIDE DEF new
    <3> QED
      BY <1>3, <2>1, <3>1, <3>2, Zenon
  <2>2. UNCHANGED <<calls, returned>>
    BY <1>7, Zenon DEF CheckCache
  <2> QED
    BY <1>4, <1>7, <2>1, <2>2, Zenon DEF CheckCache
<1>8. CASE DiscoverLeader(c)
  <2>1. UNCHANGED <<calls, returned>>
    BY <1>8, Zenon DEF DiscoverLeader
  <2>2. ASSUME NEW n \in Nodes, clients' = [clients EXCEPT ![c].leader = n] PROVE IdleStep(c)
    <3> DEFINE new == [client EXCEPT !.leader = n]
    <3>1. /\ clients' = [clients EXCEPT ![c] = new]
          /\ new.cache = client.cache /\ new.last_returned = client.last_returned
          /\ new.attempt = client.attempt /\ new.pc = client.pc
      BY <1>0, <2>2, Zenon DEF Client
    <3> HIDE DEF new
    <3> QED
      BY <1>3, <2>1, <3>1, Zenon
  <2> QED
    BY <1>5, <1>6, <1>8, <2>1, <2>2, Zenon DEF DiscoverLeader
<1>9. CASE SendRequest(c)
  <2> DEFINE k == client.attempt + 1
             call == NewCall(client.leader, client.count, state.last)
             new == [client EXCEPT !.pc = "waiting", !.attempt = k]
  <2>1. k \in 1..MaxAttempts /\ k > client.attempt
    BY SMTT(30), <1>0, <1>9, TsoAssumption DEF SendRequest, Client
  <2>2. <<c, k>> \in CallIds
    BY <2>1, Zenon DEF CallIds
  <2>3. call.floor = state.last /\ call.reply = NoReply
    BY Zenon DEF NewCall
  <2>4. calls' = [calls EXCEPT ![<<c, k>>] = call] /\ clients' = [clients EXCEPT ![c] = new]
    BY <1>9, Zenon DEF SendRequest
  <2> HIDE DEF k, call
  <2>5. /\ new.cache = client.cache /\ new.last_returned = client.last_returned
        /\ new.attempt = k
    BY <1>0, Zenon DEF Client
  <2> HIDE DEF new
  <2>6. clients'[c] = new /\ \A d \in Clients : d # c => clients'[d] = clients[d]
    BY <1>2, <2>4, Zenon
  <2>7. calls'[<<c, k>>] = call /\ \A i \in CallIds : i # <<c, k>> => calls'[i] = calls[i]
    BY <2>2, <2>4, Zenon
  <2>8. returned' = returned
    BY <1>9, Zenon DEF SendRequest
  <2> QED
    BY <1>1, <2>1, <2>3, <2>5, <2>6, <2>7, <2>8, Zenon DEF SendStep, OthersKept, SameClient
<1>10. CASE RequestTimesOut(c)
  BY <1>6, <1>10, Zenon DEF RequestTimesOut
<1>11. CASE ReceiveAnswer(c)
  <2>1. UNCHANGED <<calls, returned>> /\ client.pc = "waiting"
    BY <1>11, Zenon DEF ReceiveAnswer
  <2>2. PICK reply \in Answers(c) :
          \/ /\ reply.kind = "Allocated"
             /\ \/ clients' = [clients EXCEPT ![c].pc = client.then,
                                 ![c].cache = Append(@, [range |-> reply.range,
                                                         next_offset |-> 0])]
                \/ RefillFails(c)
          \/ \E hint \in Nodes \cup {NoNode} :
                 clients' = [clients EXCEPT ![c].leader = hint,
                               ![c].failures = @ + 1,
                               ![c].pc = IF client.failures + 1 > MaxRetries
                                         THEN "check" ELSE "refill"]
          \/ RetryOrFail(c)
          \/ RefillFails(c)
    BY <1>11, Zenon DEF ReceiveAnswer
  <2>3. /\ client.attempt \in 1..MaxAttempts /\ calls[<<c, client.attempt>>].pc = "done"
        /\ reply = calls[<<c, client.attempt>>].reply
    BY Zenon DEF Answers
  <2>4. ASSUME reply.kind = "Allocated",
               clients' = [clients EXCEPT ![c].pc = client.then,
                             ![c].cache = Append(@, [range |-> reply.range, next_offset |-> 0])]
        PROVE  CacheStep(c)
    <3> DEFINE cache == Append(client.cache, [range |-> reply.range, next_offset |-> 0])
               then == client.then
               new == [client EXCEPT !.pc = then, !.cache = cache]
    <3>1. clients' = [clients EXCEPT ![c] = new]
      BY <2>4, Zenon
    <3>2. then # "waiting"
      BY <1>0, Zenon DEF Client
    <3> HIDE DEF cache, then
    <3>3. /\ new.cache = cache /\ new.last_returned = client.last_returned
          /\ new.pc = then
      BY <1>0, Zenon DEF Client
    <3> HIDE DEF new
    <3>4. clients'[c] = new /\ \A d \in Clients : d # c => clients'[d] = clients[d]
      BY <1>2, <3>1, Zenon
    <3> QED
      BY <1>1, <2>1, <2>3, <2>4, <3>2, <3>3, <3>4, Zenon DEF CacheStep, OthersKept, Holds, cache
  <2>5. ASSUME NEW hint, NEW pc \in {"check", "refill"},
               clients' = [clients EXCEPT ![c].leader = hint, ![c].failures = @ + 1,
                                          ![c].pc = pc]
        PROVE  IdleStep(c)
    <3> DEFINE n == client.failures + 1
               new == [client EXCEPT !.leader = hint, !.failures = n, !.pc = pc]
    <3>1. clients' = [clients EXCEPT ![c] = new]
      BY <2>5, Zenon
    <3> HIDE DEF n
    <3>2. /\ new.cache = client.cache /\ new.last_returned = client.last_returned
          /\ new.attempt = client.attempt /\ new.pc # "waiting"
      BY <1>0, Zenon DEF Client
    <3> HIDE DEF new
    <3> QED
      BY <1>3, <2>1, <3>1, <3>2, Zenon
  <2>6. (IF client.failures + 1 > MaxRetries THEN "check" ELSE "refill") \in {"check", "refill"}
    BY Zenon
  <2> QED
    BY <1>5, <1>6, <2>1, <2>2, <2>4, <2>5, <2>6, Zenon
<1>12. CASE PopCache(c)
  <2> DEFINE cache == client.cache
  <2>1. PICK i \in DOMAIN cache :
          LET value == at(cache[i].range, cache[i].next_offset)
          IN  /\ ~(cache[i].next_offset >= cache[i].range.count)
              /\ \/ /\ clients' = [clients EXCEPT ![c].pc = "check", ![c].cache = <<>>]
                    /\ UNCHANGED returned
                 \/ /\ clients' = [clients EXCEPT ![c].pc = "check",
                          ![c].cache = SubSeq([cache EXCEPT ![i].next_offset = @ + 1],
                                              i, Len(cache)),
                          ![c].last_returned = value]
                    /\ returned' = [returned EXCEPT ![c] = @ \cup {value}]
    BY <1>12, Zenon DEF PopCache
  <2> DEFINE value == at(cache[i].range, cache[i].next_offset)
             moved == [cache EXCEPT ![i].next_offset = @ + 1]
             rest == SubSeq(moved, i, Len(cache))
  <2>2. cache \in Seq(CachedRange) /\ i \in 1..Len(cache) /\ Len(cache) \in Nat
        /\ DOMAIN cache = 1..Len(cache)
    <3>1. cache \in Seq(CachedRange) /\ i \in DOMAIN cache
      BY <1>0, Zenon
    <3> HIDE DEF cache
    <3> QED
      BY <3>1
  <2>3. calls' = calls
    BY <1>12, Zenon DEF PopCache
  <2>4. CASE /\ clients' = [clients EXCEPT ![c].pc = "check", ![c].cache = <<>>]
             /\ UNCHANGED returned
    <3> DEFINE new == [client EXCEPT !.pc = "check", !.cache = <<>>]
    <3>1. clients' = [clients EXCEPT ![c] = new]
      BY <2>4, Zenon
    <3>2. new.cache = <<>> /\ new.last_returned = client.last_returned /\ new.pc # "waiting"
      BY <1>0, Zenon DEF Client
    <3> HIDE DEF new
    <3>3. clients'[c] = new /\ \A d \in Clients : d # c => clients'[d] = clients[d]
      BY <1>2, <3>1, Zenon
    <3> QED
      BY <1>1, <2>3, <2>4, <3>2, <3>3, Zenon DEF DropStep, OthersKept
  <2>5. CASE /\ clients' = [clients EXCEPT ![c].pc = "check", ![c].cache = rest,
                                           ![c].last_returned = value]
             /\ returned' = [returned EXCEPT ![c] = @ \cup {value}]
    <3> DEFINE new == [client EXCEPT !.pc = "check", !.cache = rest,
                                     !.last_returned = value]
               n == cache[i].next_offset + 1
    <3>0. cache[i] \in CachedRange
      BY <2>2
    <3>1. cache[i] \in CachedRange /\ n \in Nat
      BY <3>0 DEF CachedRange
    <3>2. moved = [cache EXCEPT ![i] = [cache[i] EXCEPT !.next_offset = n]]
      BY <2>2, Zenon
    <3>3. /\ [cache[i] EXCEPT !.next_offset = n] \in CachedRange
          /\ [cache[i] EXCEPT !.next_offset = n].range = cache[i].range
          /\ [cache[i] EXCEPT !.next_offset = n].next_offset = n
      BY <3>1, Zenon DEF CachedRange
    <3> HIDE DEF n, moved
    <3>4. /\ moved \in Seq(CachedRange) /\ Len(moved) = Len(cache)
          /\ moved[i].range = cache[i].range /\ moved[i].next_offset = n
          /\ \A j \in 1..Len(cache) : j # i => moved[j] = cache[j]
      BY <2>2, <3>2, <3>3
    <3>5. /\ DOMAIN rest = 1..(Len(cache) - i + 1)
          /\ \A j \in 1..(Len(cache) - i + 1) : rest[j] = moved[i + j - 1]
      <4>1. Len(cache) \in Nat /\ i \in Int /\ \A j \in i..Len(cache) : moved[j] \in CachedRange
        BY <2>2, <3>4
      <4>2. /\ rest \in Seq(CachedRange) /\ Len(rest) = Len(cache) - i + 1
            /\ \A j \in 1..(Len(cache) - i + 1) : rest[j] = moved[i + j - 1]
        BY <2>2, <4>1
      <4> HIDE DEF rest, cache
      <4>3. DOMAIN rest = 1..Len(rest)
        BY <4>2
      <4> QED
        BY <4>2, <4>3, Zenon
    <3> HIDE DEF rest
    <3>6. ASSUME NEW j \in DOMAIN rest
          PROVE  /\ i + j - 1 \in DOMAIN cache
                 /\ rest[j].range = cache[i + j - 1].range
                 /\ rest[j].next_offset = cache[i + j - 1].next_offset
                                            + (IF j = 1 THEN 1 ELSE 0)
      <4>1. j \in 1..(Len(cache) - i + 1) /\ i + j - 1 \in 1..Len(cache)
        BY <2>2, <3>5
      <4>2. rest[j] = moved[i + j - 1]
        BY <3>5, <4>1, Zenon
      <4>3. CASE j = 1
        <5>1. i + j - 1 = i
          BY <2>2, <4>3
        <5> QED
          BY <2>2, <3>4, <4>1, <4>2, <4>3, <5>1, Zenon DEF n
      <4>4. CASE j # 1
        <5>1. i + j - 1 # i
          BY <2>2, <4>1, <4>4
        <5>2. rest[j] = cache[i + j - 1] /\ cache[i + j - 1] \in CachedRange
          BY <2>2, <3>4, <4>1, <4>2, <5>1
        <5>3. cache[i + j - 1].next_offset \in Nat
          BY <5>2, Zenon DEF CachedRange
        <5> HIDE DEF cache
        <5> QED
          BY <2>2, <4>1, <4>4, <5>2, <5>3
      <4> QED
        BY <4>3, <4>4, Zenon
    <3> HIDE DEF value
    <3>7. new.cache = rest /\ new.last_returned = value /\ new.pc # "waiting"
      BY <1>0, Zenon DEF Client
    <3>8. clients' = [clients EXCEPT ![c] = new]
      BY <2>5, Zenon
    <3> HIDE DEF new
    <3>9. clients'[c] = new /\ \A d \in Clients : d # c => clients'[d] = clients[d]
      BY <1>2, <3>8, Zenon
    <3>10. \A d \in Clients : d # c => returned'[d] = returned[d]
      BY <2>5, Zenon
    <3>11. cache[i].next_offset < cache[i].range.count
      <4>1. cache[i].next_offset \in Nat /\ cache[i].range.count \in Nat
        BY <3>1, ZenonT(30) DEF CachedRange, TimestampRange
      <4> QED
        BY <2>1, <4>1
    <3>12. TakeStep(c, i)
      BY <1>1, <2>3, <2>5, <3>6, <3>7, <3>9, <3>10, <3>11 DEF TakeStep, OthersKept, value
    <3> QED
      BY <3>12, Zenon
  <2> QED
    BY <2>1, <2>4, <2>5, Zenon
<1> QED
  BY <1>7, <1>8, <1>9, <1>10, <1>11, <1>12, Zenon DEF ClientStep

----------------------------------------------------------------------------
\* Every step keeps the invariant.

\* A client keeps its part when nothing of it and of its answered requests
\* changes and the last timestamp does not go back.
LEMMA ClientInvKept ==
    ASSUME TypeOK, NEW d \in Clients, OwnCache(d), OwnReturns(d), Ascends(d),
           clients'[d] = clients[d], returned'[d] = returned[d],
           \A k \in 1..MaxAttempts :
               /\ calls'[<<d, k>>].floor = calls[<<d, k>>].floor
               /\ calls[<<d, k>>].pc = "done" => calls'[<<d, k>>] = calls[<<d, k>>],
           \A t \in HybridTimestamp : Below(t, state.last) => Below(t, state'.last)
    PROVE  OwnCache(d)' /\ OwnReturns(d)' /\ Ascends(d)'
<1>1. \A r : Owns(d, r) => Owns(d, r)'
  BY Zenon DEF Owns, Holds
<1>2. clients[d].last_returned # NoTimestamp => clients[d].last_returned \in HybridTimestamp
  BY Zenon DEF TypeOK, Client, OptTimestamp
<1>3. OwnCache(d)'
  BY <1>1, <1>2, Zenon DEF OwnCache, Below
<1>4. OwnReturns(d)'
  BY <1>1, Zenon DEF OwnReturns, Below
<1>5. Ascends(d)'
  BY Zenon DEF Ascends
<1> QED
  BY <1>3, <1>4, <1>5, Zenon

\* A range that a client owns was granted, so it ends at or below the last
\* timestamp.
LEMMA OwnedIsGranted ==
    ASSUME TypeOK, RangeInv, AnswerInv, NEW c \in Clients, NEW r, Owns(c, r)
    PROVE  /\ WellFormed(r) /\ r.end \in HybridTimestamp /\ Below(r.end, state.last)
           /\ \E g \in DOMAIN granted : granted[g] = r
<1>1. PICK k \in 1..MaxAttempts : Holds(<<c, k>>) /\ calls[<<c, k>>].reply.range = r
  BY Zenon DEF Owns
<1>2. <<c, k>> \in CallIds
  BY Zenon DEF CallIds
<1>3. PICK g \in DOMAIN granted : granted[g] = r
  BY <1>1, <1>2, Zenon DEF AnswerInv
<1>4. WellFormed(r) /\ Below(r.end, state.last)
  BY <1>3, Zenon DEF RangeInv, Below
<1> QED
  BY <1>3, <1>4, Zenon DEF WellFormed, TimestampRange

LEMMA QuietKeeps ==
    ASSUME TypeOK, ServiceInv, QuietStep
    PROVE  ServiceInv'
<1> USE DEF QuietStep, AnswersKept
<1>1. FloorInv'
  BY Zenon DEF ServiceInv, FloorInv, RealTimeOrder, Holds
<1>2. AnswerInv'
  BY ZenonT(30) DEF ServiceInv, AnswerInv, Holds, Apart
<1>3. \A d \in Clients, k \in 1..MaxAttempts : <<d, k>> \in CallIds
  BY Zenon DEF CallIds
<1>4. ASSUME NEW d \in Clients PROVE OwnCache(d)' /\ OwnReturns(d)' /\ Ascends(d)'
  <2>1. OwnCache(d) /\ OwnReturns(d) /\ Ascends(d)
    BY Zenon DEF ServiceInv, ClientInv
  <2>2. \A k \in 1..MaxAttempts :
               /\ calls'[<<d, k>>].floor = calls[<<d, k>>].floor
               /\ calls[<<d, k>>].pc = "done" => calls'[<<d, k>>] = calls[<<d, k>>]
    BY <1>3, Zenon
  <2>3. \A t \in HybridTimestamp : Below(t, state.last) => Below(t, state'.last)
    BY Zenon
  <2>4. clients'[d] = clients[d] /\ returned'[d] = returned[d]
    BY Zenon
  <2> QED
    BY <2>1, <2>2, <2>3, <2>4, ClientInvKept, Zenon
<1> QED
  BY <1>1, <1>2, <1>4, Zenon DEF ServiceInv, ClientInv

LEMMA GrantKeeps ==
    ASSUME TypeOK, RangeInv, ServiceInv, NEW r \in TimestampRange, GrantStep(r)
    PROVE  ServiceInv'
<1>0. FloorInv /\ AnswerInv /\ ClientInv
  BY Zenon DEF ServiceInv
<1>1. /\ AnswersKept /\ WellFormed(r) /\ state'.last = r.end
      /\ state.last # NoTimestamp => Before(state.last, r.start)
      /\ granted' = Append(granted, r)
  BY Zenon DEF GrantStep
<1>2. PICK id \in CallIds : \A i \in CallIds :
         Holds(i)' => \/ calls'[i].reply = calls[i].reply
                      \/ i = id /\ calls'[i].reply.range = r
  BY Zenon DEF GrantStep
<1>3. /\ r.start \in HybridTimestamp /\ r.end \in HybridTimestamp /\ AtMost(r.start, r.end)
      /\ NoTimestamp \notin HybridTimestamp
  <2>1. 0 \in Nat
    BY Zenon
  <2> QED
    BY <1>1, <2>1, AtFacts, TsoAssumption, Zenon
<1>4. ASSUME NEW t \in HybridTimestamp, Below(t, state.last)
      PROVE  Before(t, r.start) /\ Below(t, state'.last)
  <2>1. state.last \in HybridTimestamp /\ AtMost(t, state.last) /\ Before(state.last, r.start)
    BY <1>1, <1>4, Zenon DEF Below, TypeOK, TsoState, OptTimestamp
  <2>2. Before(t, r.start)
    BY <1>3, <2>1, BeforeTransitive, OrderTypes, Zenon
  <2>3. Before(t, r.end)
    BY <1>3, <2>2, BeforeTransitive, OrderTypes, Zenon
  <2> QED
    BY <1>1, <1>3, <2>2, <2>3, Zenon DEF Below, AtMost
<1>5. \A i \in CallIds : /\ calls'[i].floor = calls[i].floor
                         /\ calls[i].floor # NoTimestamp =>
                              /\ calls[i].floor \in HybridTimestamp
                              /\ Below(calls[i].floor, state.last)
  BY <1>0, <1>1, ZenonT(30) DEF AnswersKept, FloorInv, Below, TypeOK, Call, OptTimestamp
<1>6. FloorInv'
  <2>1. RealTimeOrder'
    <3> SUFFICES ASSUME NEW i \in CallIds, Holds(i)', calls'[i].floor # NoTimestamp
                 PROVE  Before(calls'[i].floor, calls'[i].reply.range.start)
      BY Zenon DEF RealTimeOrder, Holds
    <3>1. CASE calls'[i].reply = calls[i].reply
      BY <1>0, <1>5, <3>1, Zenon DEF FloorInv, RealTimeOrder, Holds
    <3>2. CASE calls'[i].reply.range = r
      BY <1>4, <1>5, <3>2, Zenon
    <3> QED
      BY <1>2, <3>1, <3>2, Zenon
  <2> QED
    BY <1>4, <1>5, <2>1, Zenon DEF FloorInv, Below
<1> DEFINE n == Len(granted)
<1>7. /\ n \in Nat /\ DOMAIN granted = 1..n /\ DOMAIN granted' = 1..(n + 1)
      /\ granted'[n + 1] = r
      /\ \A i \in 1..n : granted'[i] = granted[i]
  BY <1>1 DEF TypeOK
<1> HIDE DEF n
<1>8. AnswerInv'
  <2>1. ASSUME NEW i \in CallIds, Holds(i)'
        PROVE  \E g \in DOMAIN granted' : granted'[g] = calls'[i].reply.range
    <3>1. CASE calls'[i].reply = calls[i].reply
      <4>1. PICK g \in DOMAIN granted : granted[g] = calls[i].reply.range
        BY <1>0, <2>1, <3>1, Zenon DEF AnswerInv, Holds
      <4>2. g \in DOMAIN granted' /\ granted'[g] = granted[g]
        BY <1>7
      <4> QED
        BY <3>1, <4>1, <4>2, Zenon
    <3>2. CASE calls'[i].reply.range = r
      <4>1. n + 1 \in DOMAIN granted'
        BY <1>7
      <4> QED
        BY <1>7, <3>2, <4>1, Zenon
    <3> QED
      BY <1>2, <2>1, <3>1, <3>2, Zenon
  <2>2. ASSUME NEW i \in CallIds, Holds(i), NEW s, s = calls[i].reply.range
        PROVE  Before(s.end, r.start)
    <3>1. PICK g \in DOMAIN granted : granted[g] = s
      BY <1>0, <2>2, Zenon DEF AnswerInv
    <3>2. s.end \in HybridTimestamp /\ Below(s.end, state.last)
      BY <3>1, Zenon DEF RangeInv, Below, WellFormed, TimestampRange
    <3> QED
      BY <1>4, <3>2, Zenon
  <2>3. ASSUME NEW i \in CallIds, NEW j \in CallIds, i # j, Holds(i)', Holds(j)'
        PROVE  Apart(calls'[i].reply.range, calls'[j].reply.range)
    <3>1. \/ /\ calls'[i].reply = calls[i].reply /\ Holds(i)
             /\ calls'[j].reply = calls[j].reply /\ Holds(j)
          \/ calls'[i].reply = calls[i].reply /\ Holds(i) /\ calls'[j].reply.range = r
          \/ calls'[j].reply = calls[j].reply /\ Holds(j) /\ calls'[i].reply.range = r
      BY <1>2, <2>3, Zenon DEF Holds
    <3> QED
      BY <1>0, <2>2, <2>3, <3>1, Zenon DEF AnswerInv, Apart
  <2> QED
    BY <2>1, <2>3, Zenon DEF AnswerInv
<1>9. \A d \in Clients, k \in 1..MaxAttempts : <<d, k>> \in CallIds
  BY Zenon DEF CallIds
<1>10. ASSUME NEW d \in Clients PROVE OwnCache(d)' /\ OwnReturns(d)' /\ Ascends(d)'
  <2>1. OwnCache(d) /\ OwnReturns(d) /\ Ascends(d)
    BY <1>0, Zenon DEF ClientInv
  <2>2. \A k \in 1..MaxAttempts :
               /\ calls'[<<d, k>>].floor = calls[<<d, k>>].floor
               /\ calls[<<d, k>>].pc = "done" => calls'[<<d, k>>] = calls[<<d, k>>]
    BY <1>1, <1>9, Zenon DEF AnswersKept
  <2>3. \A t \in HybridTimestamp : Below(t, state.last) => Below(t, state'.last)
    BY <1>4, Zenon
  <2>4. clients'[d] = clients[d] /\ returned'[d] = returned[d]
    BY <1>1, Zenon DEF AnswersKept
  <2> QED
    BY <2>1, <2>2, <2>3, <2>4, ClientInvKept, Zenon
<1> QED
  BY <1>6, <1>8, <1>10, Zenon DEF ServiceInv, ClientInv

\* Steps of a client that send no request.
LEMMA OthersUntouched ==
    ASSUME TypeOK, ServiceInv, NEW c \in Clients, OthersKept(c), calls' = calls
    PROVE  /\ FloorInv' /\ AnswerInv'
           /\ \A d \in Clients : d # c => OwnCache(d)' /\ OwnReturns(d)' /\ Ascends(d)'
           /\ \A r : Owns(c, r)' <=> Owns(c, r)
<1>1. FloorInv'
  BY Zenon DEF ServiceInv, FloorInv, RealTimeOrder, OthersKept
<1>2. AnswerInv'
  BY Zenon DEF ServiceInv, AnswerInv, Holds, OthersKept
<1>3. ASSUME NEW d \in Clients, d # c PROVE OwnCache(d)' /\ OwnReturns(d)' /\ Ascends(d)'
  <2>1. OwnCache(d) /\ OwnReturns(d) /\ Ascends(d)
    BY Zenon DEF ServiceInv, ClientInv
  <2>2. \A k \in 1..MaxAttempts :
               /\ calls'[<<d, k>>].floor = calls[<<d, k>>].floor
               /\ calls[<<d, k>>].pc = "done" => calls'[<<d, k>>] = calls[<<d, k>>]
    BY Zenon
  <2>3. /\ \A t \in HybridTimestamp : Below(t, state.last) => Below(t, state'.last)
        /\ clients'[d] = clients[d] /\ returned'[d] = returned[d]
    BY <1>3, Zenon DEF OthersKept
  <2> QED
    BY <2>1, <2>2, <2>3, ClientInvKept, Zenon
<1>4. \A r : Owns(c, r)' <=> Owns(c, r)
  BY Zenon DEF Owns, Holds
<1> QED
  BY <1>1, <1>2, <1>3, <1>4, Zenon

LEMMA IdleKeeps ==
    ASSUME TypeOK, ServiceInv, NEW c \in Clients, IdleStep(c)
    PROVE  ServiceInv'
<1>0. OwnCache(c) /\ OwnReturns(c) /\ Ascends(c)
  BY Zenon DEF ServiceInv, ClientInv
<1>1. /\ OthersKept(c) /\ calls' = calls /\ returned' = returned /\ SameClient(c)
      /\ clients'[c].attempt = clients[c].attempt /\ state' = state
      /\ clients'[c].pc = "waiting" => clients[c].pc = "waiting"
  BY Zenon DEF IdleStep, OthersKept
<1>2. /\ FloorInv' /\ AnswerInv'
      /\ \A d \in Clients : d # c => OwnCache(d)' /\ OwnReturns(d)' /\ Ascends(d)'
      /\ \A r : Owns(c, r)' <=> Owns(c, r)
  BY <1>1, OthersUntouched, Zenon
<1>3. OwnCache(c)'
  BY <1>0, <1>1, <1>2, ZenonT(30) DEF OwnCache, SameClient, Below
<1>4. OwnReturns(c)'
  BY <1>0, <1>1, <1>2, Zenon DEF OwnReturns, SameClient, Below
<1>5. Ascends(c)'
  BY <1>0, <1>1, Zenon DEF Ascends, SameClient
<1> QED
  BY <1>2, <1>3, <1>4, <1>5, Zenon DEF ServiceInv, ClientInv

LEMMA SendKeeps ==
    ASSUME TypeOK, RangeInv, CallInv, ServiceInv, NEW c \in Clients, SendStep(c)
    PROVE  ServiceInv'
<1>0. FloorInv /\ AnswerInv /\ OwnCache(c) /\ OwnReturns(c) /\ Ascends(c)
  BY Zenon DEF ServiceInv, ClientInv
<1> DEFINE k == clients'[c].attempt
           id == <<c, k>>
<1>1. /\ OthersKept(c) /\ SameClient(c) /\ returned' = returned
      /\ k \in 1..MaxAttempts /\ k > clients[c].attempt
      /\ calls'[id].floor = state.last /\ calls'[id].reply = NoReply
      /\ \A i \in CallIds : i # id => calls'[i] = calls[i]
  BY Zenon DEF SendStep
<1>2. state' = state /\ granted' = granted
  BY <1>1, Zenon DEF OthersKept
<1> HIDE DEF k
<1>3. id \in CallIds /\ calls[id].pc # "done" /\ NoReply.kind # "Allocated"
  <2>1. id \in CallIds /\ id[1] = c /\ id[2] = k
    BY <1>1, Zenon DEF CallIds
  <2>2. calls[id].pc # "none" => k <= clients[c].attempt
    BY <2>1, ZenonT(30) DEF CallInv
  <2>3. clients[c].attempt \in Nat /\ k \in Nat
    BY <1>1, TsoAssumption DEF TypeOK, Client
  <2> QED
    BY <1>1, <2>1, <2>2, <2>3 DEF NoReply
<1> HIDE DEF id
<1>4. \A i \in CallIds : Holds(i)' => i # id /\ calls'[i] = calls[i]
  BY <1>1, <1>3, Zenon DEF Holds
<1>5. FloorInv'
  <2>1. ASSUME NEW i \in CallIds, calls'[i].floor # NoTimestamp
        PROVE  Below(calls'[i].floor, state'.last)
    BY <1>0, <1>1, <1>2, <2>1, Zenon DEF FloorInv, Below, AtMost
  <2>2. RealTimeOrder'
    BY <1>0, <1>4, Zenon DEF FloorInv, RealTimeOrder, Holds
  <2> QED
    BY <2>1, <2>2, Zenon DEF FloorInv, Below
<1>6. AnswerInv'
  BY <1>0, <1>2, <1>4, Zenon DEF AnswerInv, Holds
<1>7. ASSUME NEW d \in Clients, d # c PROVE OwnCache(d)' /\ OwnReturns(d)' /\ Ascends(d)'
  <2>1. OwnCache(d) /\ OwnReturns(d) /\ Ascends(d)
    BY Zenon DEF ServiceInv, ClientInv
  <2>2. \A m \in 1..MaxAttempts :
               /\ calls'[<<d, m>>].floor = calls[<<d, m>>].floor
               /\ calls[<<d, m>>].pc = "done" => calls'[<<d, m>>] = calls[<<d, m>>]
    <3>1. \A m \in 1..MaxAttempts : <<d, m>> \in CallIds /\ <<d, m>> # id
      BY <1>7, Zenon DEF CallIds, id
    <3> QED
      BY <1>1, <3>1, Zenon
  <2>3. /\ \A t \in HybridTimestamp : Below(t, state.last) => Below(t, state'.last)
        /\ clients'[d] = clients[d] /\ returned'[d] = returned[d]
    BY <1>1, <1>2, <1>7, Zenon DEF OthersKept
  <2> QED
    BY <2>1, <2>2, <2>3, ClientInvKept, Zenon
<1>8. \A r : Owns(c, r) => Owns(c, r)'
  <2>1. \A m \in 1..MaxAttempts : <<c, m>> \in CallIds
    BY Zenon DEF CallIds
  <2>2. \A m \in 1..MaxAttempts : calls[<<c, m>>].pc = "done" => calls'[<<c, m>>] = calls[<<c, m>>]
    BY <1>1, <1>3, <2>1, Zenon
  <2> QED
    BY <2>2, Zenon DEF Owns, Holds
<1>9. OwnCache(c)'
  <2>1. ASSUME NEW i \in DOMAIN clients[c].cache
        PROVE  /\ Owns(c, clients[c].cache[i].range)
               /\ Below(clients[c].cache[i].range.end, state.last)
    <3>1. Owns(c, clients[c].cache[i].range)
      BY <1>0, Zenon DEF OwnCache
    <3> QED
      BY <1>0, <3>1, OwnedIsGranted, Zenon
  <2>2. clients[c].last_returned # NoTimestamp => Below(clients[c].last_returned, state.last)
    BY <1>0, Zenon DEF OwnCache
  <2>3. /\ calls'[<<c, clients'[c].attempt>>].floor = state.last
        /\ clients'[c].attempt \in 1..MaxAttempts
    BY <1>1, Zenon DEF id, k
  <2> QED
    BY <1>1, <1>2, <1>8, <2>1, <2>2, <2>3, Zenon DEF OwnCache, SameClient, Below
<1>10. OwnReturns(c)'
  BY <1>0, <1>1, <1>8, Zenon DEF OwnReturns, SameClient, Below
<1>11. Ascends(c)'
  BY <1>0, <1>1, Zenon DEF Ascends, SameClient
<1> QED
  BY <1>5, <1>6, <1>7, <1>9, <1>10, <1>11, Zenon DEF ServiceInv, ClientInv

LEMMA CacheKeeps ==
    ASSUME TypeOK, RangeInv, ServiceInv, NEW c \in Clients, CacheStep(c)
    PROVE  ServiceInv'
<1>0. FloorInv /\ AnswerInv /\ OwnCache(c) /\ OwnReturns(c) /\ Ascends(c)
  BY Zenon DEF ServiceInv, ClientInv
<1> DEFINE cache == clients[c].cache
           last == clients[c].last_returned
           id == <<c, clients[c].attempt>>
           range == calls[id].reply.range
           floor == calls[id].floor
           entry == [range |-> range, next_offset |-> 0]
<1>1. /\ OthersKept(c) /\ calls' = calls /\ returned' = returned /\ state' = state
      /\ clients'[c].pc # "waiting" /\ clients[c].pc = "waiting"
      /\ clients[c].attempt \in 1..MaxAttempts /\ calls[id].pc = "done" /\ Holds(id)
      /\ clients'[c].last_returned = last
      /\ clients'[c].cache = Append(cache, entry)
  BY Zenon DEF CacheStep, OthersKept
<1>2. /\ FloorInv' /\ AnswerInv'
      /\ \A d \in Clients : d # c => OwnCache(d)' /\ OwnReturns(d)' /\ Ascends(d)'
      /\ \A r : Owns(c, r)' <=> Owns(c, r)
  BY <1>1, OthersUntouched, Zenon
<1>3. id \in CallIds /\ Owns(c, range)
  BY <1>1, Zenon DEF CallIds, Owns
<1>4. /\ WellFormed(range) /\ range.start \in HybridTimestamp /\ at(range, 0) = range.start
      /\ range.count > 0
  <2>1. WellFormed(range)
    BY <1>0, <1>3, OwnedIsGranted, Zenon
  <2>2. range.start \in HybridTimestamp /\ range.count > 0
    BY <2>1 DEF WellFormed, TimestampRange
  <2> QED
    BY <2>1, <2>2, AddZero, Zenon DEF at
<1>5. floor # NoTimestamp => floor \in HybridTimestamp /\ Before(floor, range.start)
  BY <1>0, <1>1, <1>3, Zenon DEF FloorInv, RealTimeOrder, Holds, TypeOK, Call, OptTimestamp
<1>6. ASSUME NEW t \in HybridTimestamp, Below(t, floor) PROVE Before(t, range.start)
  <2>1. floor \in HybridTimestamp /\ AtMost(t, floor) /\ Before(floor, range.start)
    BY <1>5, <1>6, Zenon DEF Below
  <2> HIDE DEF floor, range
  <2> QED
    BY <1>4, <2>1, BeforeTransitive, OrderTypes, Zenon
<1>7. ASSUME NEW i \in DOMAIN cache
      PROVE  Owns(c, cache[i].range) /\ Before(cache[i].range.end, range.start)
  <2>1. Owns(c, cache[i].range) /\ Below(cache[i].range.end, floor)
    BY <1>0, <1>1, Zenon DEF OwnCache
  <2>2. cache[i].range.end \in HybridTimestamp
    BY <1>0, <2>1, OwnedIsGranted, Zenon
  <2> QED
    BY <1>6, <2>1, <2>2, Zenon
<1>8. last # NoTimestamp => Before(last, range.start) /\ Below(last, state.last)
  <2>1. last # NoTimestamp => Below(last, floor) /\ last \in HybridTimestamp
    BY <1>0, <1>1, Zenon DEF OwnCache, TypeOK, Client, OptTimestamp
  <2> QED
    BY <1>0, <1>6, <2>1, Zenon DEF OwnCache
<1> DEFINE n == Len(cache)
           longer == Append(cache, entry)
<1>9. /\ n \in Nat /\ DOMAIN cache = 1..n /\ DOMAIN longer = 1..(n + 1)
      /\ longer[n + 1] = entry
      /\ \A i \in 1..n : longer[i] = cache[i]
  <2>1. cache \in Seq(CachedRange)
    BY Zenon DEF TypeOK, Client
  <2> HIDE DEF cache, entry
  <2> QED
    BY <2>1
<1>10. entry.range = range /\ entry.next_offset = 0
  BY Zenon
<1> HIDE DEF n, longer, entry, range, floor
<1>11. \A i \in 1..(n + 1) : i \in 1..n \/ i = n + 1
  BY <1>9
<1>12. OwnCache(c)'
  <2>1. \A i \in DOMAIN longer : Owns(c, longer[i].range)
    BY <1>3, <1>7, <1>9, <1>10, <1>11, Zenon
  <2> QED
    BY <1>1, <1>2, <1>8, <2>1, Zenon DEF OwnCache, Below, longer
<1>13. OwnReturns(c)'
  BY <1>0, <1>1, <1>2, Zenon DEF OwnReturns, Below
<1>14. Ascends(c)'
  <2>1. ASSUME NEW i \in 1..(n + 1), NEW j \in 1..(n + 1), i < j
        PROVE  Before(longer[i].range.end, longer[j].range.start)
    <3>1. i \in 1..n
      BY <1>9, <2>1
    <3>2. CASE j = n + 1
      BY <1>7, <1>9, <1>10, <3>1, <3>2, Zenon
    <3>3. CASE j \in 1..n
      BY <1>0, <1>9, <2>1, <3>1, <3>3, Zenon DEF Ascends
    <3> QED
      BY <1>11, <3>2, <3>3, Zenon
  <2>2. ASSUME NEW i \in 1..(n + 1), last # NoTimestamp,
               longer[i].next_offset < longer[i].range.count
        PROVE  Before(last, at(longer[i].range, longer[i].next_offset))
    <3>1. CASE i = n + 1
      BY <1>4, <1>8, <1>9, <1>10, <2>2, <3>1, Zenon
    <3>2. CASE i \in 1..n
      BY <1>0, <1>9, <2>2, <3>2, Zenon DEF Ascends
    <3> QED
      BY <1>11, <3>1, <3>2, Zenon
  <2>3. clients'[c].cache = longer /\ clients'[c].last_returned = last
    BY <1>1, Zenon DEF longer
  <2> QED
    BY <1>9, <2>1, <2>2, <2>3, Zenon DEF Ascends
<1> QED
  BY <1>2, <1>12, <1>13, <1>14, Zenon DEF ServiceInv, ClientInv

LEMMA DropKeeps ==
    ASSUME TypeOK, ServiceInv, NEW c \in Clients, DropStep(c)
    PROVE  ServiceInv'
<1>0. OwnCache(c) /\ OwnReturns(c) /\ Ascends(c)
  BY Zenon DEF ServiceInv, ClientInv
<1>1. /\ OthersKept(c) /\ calls' = calls /\ returned' = returned /\ state' = state
      /\ clients'[c].pc # "waiting" /\ clients'[c].last_returned = clients[c].last_returned
      /\ DOMAIN clients'[c].cache = {}
  BY DEF DropStep, OthersKept
<1>2. /\ FloorInv' /\ AnswerInv'
      /\ \A d \in Clients : d # c => OwnCache(d)' /\ OwnReturns(d)' /\ Ascends(d)'
      /\ \A r : Owns(c, r)' <=> Owns(c, r)
  BY <1>1, OthersUntouched, Zenon
<1>3. OwnCache(c)'
  BY <1>0, <1>1, Zenon DEF OwnCache, Below
<1>4. OwnReturns(c)'
  BY <1>0, <1>1, <1>2, Zenon DEF OwnReturns, Below
<1>5. Ascends(c)'
  BY <1>1, Zenon DEF Ascends
<1> QED
  BY <1>2, <1>3, <1>4, <1>5, Zenon DEF ServiceInv, ClientInv

\* The timestamp that pop_cache takes: it is in a range the client owns, later
\* than all it has returned, and no client has returned it.
LEMMA TakenIsNew ==
    ASSUME TypeOK, RangeInv, CacheInv, ServiceInv, NEW c \in Clients,
           NEW i \in DOMAIN clients[c].cache, TakeStep(c, i),
           NEW range, range = clients[c].cache[i].range,
           NEW offset, offset = clients[c].cache[i].next_offset,
           NEW value, value = at(range, offset)
    PROVE  /\ WellFormed(range) /\ offset \in Nat /\ Owns(c, range)
           /\ Within(value, range) /\ value \in HybridTimestamp
           /\ Below(value, state.last)
           /\ \A u \in returned[c] : Before(u, value)
           /\ \A d \in Clients : value \notin returned[d]
<1>0. FloorInv /\ AnswerInv /\ OwnCache(c) /\ OwnReturns(c) /\ Ascends(c)
  BY Zenon DEF ServiceInv, ClientInv
<1>1. clients[c].cache \in Seq(CachedRange)
  BY Zenon DEF TypeOK, Client
<1>2. WellFormed(range) /\ Owns(c, range) /\ offset < range.count
  BY <1>0, Zenon DEF CacheInv, ClientOK, OwnCache, TakeStep
<1>3. offset \in Nat
  <2>1. clients[c].cache[i] \in CachedRange
    BY <1>1
  <2> QED
    BY <2>1, Zenon DEF CachedRange
<1>4. /\ value \in HybridTimestamp /\ AtMost(range.start, value) /\ AtMost(value, range.end)
      /\ range.end \in HybridTimestamp
  BY <1>2, <1>3, AtFacts, Zenon
<1>5. Within(value, range)
  BY <1>4, Zenon DEF Within
<1>6. Below(value, state.last)
  <2>1. Below(range.end, state.last)
    BY <1>0, <1>2, OwnedIsGranted, Zenon
  <2>2. state.last \in HybridTimestamp /\ AtMost(range.end, state.last)
    BY <2>1, Zenon DEF Below, TypeOK, TsoState, OptTimestamp
  <2>3. AtMost(value, state.last)
    BY <1>4, <2>2, BeforeTransitive, OrderTypes, Zenon
  <2> QED
    BY <2>1, <2>3, Zenon DEF Below
<1>7. ASSUME NEW u \in returned[c] PROVE Before(u, value)
  <2> DEFINE last == clients[c].last_returned
  <2>1. last # NoTimestamp /\ AtMost(u, last) /\ last \in HybridTimestamp /\ u \in HybridTimestamp
    BY <1>0, Zenon DEF OwnReturns, Below, TypeOK, Client, OptTimestamp
  <2>2. Before(last, value)
    BY <1>0, <1>2, <2>1, Zenon DEF Ascends
  <2> HIDE DEF last
  <2> QED
    BY <1>4, <2>1, <2>2, BeforeTransitive, OrderTypes, Zenon
<1>8. ASSUME NEW t \in HybridTimestamp PROVE ~Before(t, t)
  BY OrderTypes DEF Before
<1>9. ASSUME NEW d \in Clients, value \in returned[d] PROVE FALSE
  <2>1. d # c
    BY <1>4, <1>7, <1>8, <1>9, Zenon
  <2>2. OwnReturns(d)
    BY Zenon DEF ServiceInv, ClientInv
  <2>3. PICK r \in TimestampRange : Owns(d, r) /\ Within(value, r)
    BY <1>9, <2>2, Zenon DEF OwnReturns
  <2>4. PICK k \in 1..MaxAttempts : Holds(<<d, k>>) /\ calls[<<d, k>>].reply.range = r
    BY <2>3, Zenon DEF Owns
  <2>5. PICK m \in 1..MaxAttempts : Holds(<<c, m>>) /\ calls[<<c, m>>].reply.range = range
    BY <1>2, Zenon DEF Owns
  <2>6. <<d, k>> \in CallIds /\ <<c, m>> \in CallIds /\ <<d, k>> # <<c, m>>
    BY <2>1, Zenon DEF CallIds
  <2>7. Apart(r, range)
    BY <1>0, <2>4, <2>5, <2>6, Zenon DEF AnswerInv
  <2>8. /\ r.start \in HybridTimestamp /\ r.end \in HybridTimestamp
        /\ range.start \in HybridTimestamp /\ range.end \in HybridTimestamp
    BY <1>2, Zenon DEF WellFormed, TimestampRange
  <2>9. CASE Before(r.end, range.start)
    <3>1. AtMost(value, r.end) /\ AtMost(range.start, value)
      BY <1>4, <2>3, Zenon DEF Within
    <3>2. Before(value, range.start)
      BY <1>4, <2>8, <2>9, <3>1, BeforeTransitive, OrderTypes, Zenon
    <3>3. Before(value, value)
      BY <1>4, <2>8, <3>1, <3>2, BeforeTransitive, OrderTypes, Zenon
    <3> QED
      BY <1>4, <1>8, <3>3, Zenon
  <2>10. CASE Before(range.end, r.start)
    <3>1. AtMost(r.start, value) /\ AtMost(value, range.end)
      BY <1>4, <2>3, Zenon DEF Within
    <3>2. Before(value, r.start)
      BY <1>4, <2>8, <2>10, <3>1, BeforeTransitive, OrderTypes, Zenon
    <3>3. Before(value, value)
      BY <1>4, <2>8, <3>1, <3>2, BeforeTransitive, OrderTypes, Zenon
    <3> QED
      BY <1>4, <1>8, <3>3, Zenon
  <2> QED
    BY <2>7, <2>9, <2>10, Zenon DEF Apart
<1> QED
  BY <1>2, <1>3, <1>4, <1>5, <1>6, <1>7, <1>9, Zenon

LEMMA TakeKeeps ==
    ASSUME TypeOK, TypeOK', RangeInv, CacheInv, ServiceInv, NEW c \in Clients,
           NEW i \in DOMAIN clients[c].cache, TakeStep(c, i)
    PROVE  ServiceInv'
<1>0. FloorInv /\ AnswerInv /\ OwnCache(c) /\ OwnReturns(c) /\ Ascends(c)
  BY Zenon DEF ServiceInv, ClientInv
<1> DEFINE cache == clients[c].cache
           new == clients'[c].cache
           range == cache[i].range
           offset == cache[i].next_offset
           value == at(range, offset)
<1>1. /\ OthersKept(c) /\ calls' = calls /\ state' = state
      /\ clients'[c].pc # "waiting" /\ clients'[c].last_returned = value
      /\ returned' = [returned EXCEPT ![c] = @ \cup {value}]
      /\ \A j \in DOMAIN new :
             /\ i + j - 1 \in DOMAIN cache
             /\ new[j].range = cache[i + j - 1].range
             /\ new[j].next_offset = cache[i + j - 1].next_offset + (IF j = 1 THEN 1 ELSE 0)
  BY Zenon DEF TakeStep, OthersKept
<1>2. /\ FloorInv' /\ AnswerInv'
      /\ \A d \in Clients : d # c => OwnCache(d)' /\ OwnReturns(d)' /\ Ascends(d)'
      /\ \A r : Owns(c, r)' <=> Owns(c, r)
  BY <1>1, OthersUntouched, Zenon
<1>3. /\ WellFormed(range) /\ offset \in Nat /\ Owns(c, range)
      /\ Within(value, range) /\ value \in HybridTimestamp
      /\ Below(value, state.last)
      /\ \A u \in returned[c] : Before(u, value)
  BY TakenIsNew, Zenon
<1>4. /\ cache \in Seq(CachedRange) /\ Len(cache) \in Nat /\ DOMAIN cache = 1..Len(cache)
      /\ \A j \in DOMAIN cache : cache[j].next_offset \in Nat
  <2>1. cache \in Seq(CachedRange)
    BY Zenon DEF TypeOK, Client
  <2> HIDE DEF cache
  <2>2. Len(cache) \in Nat /\ DOMAIN cache = 1..Len(cache) /\ \A j \in DOMAIN cache : cache[j] \in CachedRange
    BY <2>1
  <2> QED
    BY <2>1, <2>2, Zenon DEF CachedRange
<1>5. returned'[c] = returned[c] \cup {value}
  BY <1>1, Zenon DEF TypeOK
<1>6. DOMAIN new \subseteq Nat \ {0}
  <2>1. new \in Seq(CachedRange)
    BY Zenon DEF TypeOK, Client
  <2> HIDE DEF new
  <2> QED
    BY <2>1
<1> HIDE DEF cache, new, range, offset, value
<1>7. OwnCache(c)'
  <2>1. \A j \in DOMAIN new : Owns(c, new[j].range)
    BY <1>0, <1>1, Zenon DEF OwnCache, cache
  <2> QED
    BY <1>1, <1>2, <1>3, <2>1, Zenon DEF OwnCache, Below, new
<1>8. OwnReturns(c)'
  <2> SUFFICES ASSUME NEW u \in returned'[c]
               PROVE  /\ Below(u, value)
                      /\ \E r \in TimestampRange : Owns(c, r) /\ Within(u, r)
    BY <1>1, <1>2, Zenon DEF OwnReturns, Below
  <2>1. value # NoTimestamp /\ range \in TimestampRange
    BY <1>3, TsoAssumption, Zenon DEF WellFormed
  <2>2. CASE u = value
    BY <1>3, <2>1, <2>2, Zenon DEF Below, AtMost
  <2>3. CASE u \in returned[c]
    BY <1>0, <1>3, <2>1, <2>3, Zenon DEF Below, AtMost, OwnReturns
  <2> QED
    BY <1>5, <2>2, <2>3, Zenon
<1>9. i \in DOMAIN cache /\ i \in Nat
  BY <1>4 DEF cache
<1>10. ASSUME NEW j \in DOMAIN new, j # 1
      PROVE  i < i + j - 1 /\ j \in Nat /\ i + j - 1 \in DOMAIN cache
  <2>1. j \in Nat /\ j > 1 /\ i \in Nat
    BY <1>6, <1>10, <1>9
  <2>2. i + j - 1 \in DOMAIN cache
    BY <1>1, Zenon
  <2>3. i < i + j - 1
    BY <2>1
  <2> QED
    BY <2>1, <2>2, <2>3, Zenon
<1>11. \A p, q \in DOMAIN cache : p < q => Before(cache[p].range.end, cache[q].range.start)
  BY <1>0, Zenon DEF Ascends, cache
<1>12. Ascends(c)'
  <2>1. ASSUME NEW p \in DOMAIN new, NEW q \in DOMAIN new, p < q
        PROVE  Before(new[p].range.end, new[q].range.start)
    <3>1. /\ i + p - 1 \in DOMAIN cache /\ new[p].range = cache[i + p - 1].range
          /\ i + q - 1 \in DOMAIN cache /\ new[q].range = cache[i + q - 1].range
      BY <1>1, Zenon
    <3>2. i + p - 1 < i + q - 1
      BY <1>6, <1>9, <2>1
    <3> QED
      BY <1>11, <3>1, <3>2, Zenon
  <2>2. ASSUME NEW j \in DOMAIN new, new[j].next_offset < new[j].range.count
        PROVE  Before(value, at(new[j].range, new[j].next_offset))
    <3>1. CASE j = 1
      <4>1. i + j - 1 = i
        BY <1>9, <3>1
      <4>2. new[j].range = range /\ new[j].next_offset = offset + 1
        BY <1>1, <3>1, <4>1, Zenon DEF range, offset
      <4> QED
        BY <1>3, <4>2, AtFacts, Zenon DEF value
    <3>2. CASE j # 1
      <4> DEFINE p == i + j - 1
      <4>1. /\ i < p /\ p \in DOMAIN cache /\ new[j].range = cache[p].range
            /\ new[j].next_offset = cache[p].next_offset + 0
        BY <1>1, <1>10, <3>2, Zenon
      <4> HIDE DEF p
      <4>2. cache[p].next_offset \in Nat /\ cache[p].next_offset + 0 = cache[p].next_offset
        BY <1>4, <4>1
      <4>3. Before(range.end, cache[p].range.start)
        BY <1>9, <1>11, <4>1, Zenon DEF range
      <4>4. WellFormed(cache[p].range)
        BY <4>1, Zenon DEF CacheInv, ClientOK, cache
      <4> DEFINE first == cache[p].range.start
                 next == at(cache[p].range, cache[p].next_offset)
      <4>5. /\ first \in HybridTimestamp /\ AtMost(first, next)
            /\ next.physical \in Int /\ next.logical \in Int
        BY <4>2, <4>4, AtFacts, Zenon
      <4>6. AtMost(value, range.end) /\ range.end \in HybridTimestamp
        BY <1>3, Zenon DEF Within, WellFormed, TimestampRange
      <4>7. new[j].range = cache[p].range /\ new[j].next_offset = cache[p].next_offset
        BY <4>1, <4>2, Zenon
      <4>8. Before(range.end, first) /\ value \in HybridTimestamp
        BY <1>3, <4>3, Zenon
      <4> HIDE DEF first, next
      <4>9. Before(value, first)
        BY <4>5, <4>6, <4>8, BeforeTransitive, OrderTypes, Zenon
      <4>10. Before(value, next)
        BY <4>5, <4>8, <4>9, BeforeTransitive, OrderTypes, Zenon
      <4> QED
        BY <4>7, <4>10, Zenon DEF next
    <3> QED
      BY <3>1, <3>2, Zenon
  <2> QED
    BY <1>1, <2>1, <2>2, Zenon DEF Ascends, new
<1> QED
  BY <1>2, <1>7, <1>8, <1>12, Zenon DEF ServiceInv, ClientInv

----------------------------------------------------------------------------
\* The theorems.

LEMMA ServiceInvInit == Init => ServiceInv
<1> SUFFICES ASSUME Init PROVE ServiceInv
  BY Zenon
<1> DEFINE call == [NewCall(NoNode, 1, NoTimestamp) EXCEPT !.pc = "none"]
           client == [pc |-> "check", leader |-> NoNode, attempt |-> 0, failures |-> 0,
                      count |-> BatchSize, then |-> "check", cache |-> <<>>,
                      last_returned |-> NoTimestamp]
<1>1. /\ call.floor = NoTimestamp /\ call.reply.kind # "Allocated"
      /\ client.pc # "waiting" /\ DOMAIN client.cache = {} /\ client.last_returned = NoTimestamp
  BY DEF NewCall, NoReply
<1>2. /\ calls = [id \in CallIds |-> call] /\ clients = [c \in Clients |-> client]
      /\ returned = [c \in Clients |-> {}]
  BY Zenon DEF Init
<1> HIDE DEF call, client
<1>3. /\ \A id \in CallIds : calls[id] = call
      /\ \A c \in Clients : clients[c] = client /\ returned[c] = {}
  BY <1>2, Zenon
<1>4. FloorInv /\ AnswerInv
  BY <1>1, <1>3, Zenon DEF FloorInv, RealTimeOrder, AnswerInv, Holds
<1>5. ASSUME NEW c \in Clients PROVE OwnCache(c) /\ OwnReturns(c) /\ Ascends(c)
  BY <1>1, <1>3, Zenon DEF OwnCache, OwnReturns, Ascends
<1> QED
  BY <1>4, <1>5, Zenon DEF ServiceInv, ClientInv

LEMMA ServiceInvStep == TsoInv /\ TsoInv' /\ ServiceInv /\ [Next]_vars => ServiceInv'
<1> SUFFICES ASSUME TsoInv, TsoInv', ServiceInv, [Next]_vars PROVE ServiceInv'
  BY Zenon
<1>0. TypeOK /\ TypeOK' /\ RangeInv /\ CacheInv /\ CallInv
  BY Zenon DEF TsoInv
<1>1. ASSUME NEW id \in CallIds, OracleStep(id) PROVE ServiceInv'
  BY <1>0, <1>1, OracleIsQuiet, QuietKeeps, Zenon
<1>2. CASE EnvironmentStep
  BY <1>0, <1>2, EnvironmentIsQuiet, QuietKeeps, GrantKeeps, Zenon
<1>3. ASSUME NEW c \in Clients, ClientStep(c) PROVE ServiceInv'
  BY <1>0, <1>3, ClientKinds, IdleKeeps, SendKeeps, CacheKeeps, DropKeeps, TakeKeeps, Zenon
<1>4. CASE UNCHANGED vars
  <2>1. QuietStep
    BY <1>4, Zenon DEF QuietStep, AnswersKept, vars
  <2> QED
    BY <1>0, <2>1, QuietKeeps, Zenon
<1> QED
  BY <1>1, <1>2, <1>3, <1>4, Zenon DEF Next, EnvironmentStep

LEMMA ServiceInvariant == Spec => []ServiceInv
BY TsoInvariant, ServiceInvInit, ServiceInvStep, PTL DEF Spec

\* A request answered with a range gets timestamps above everything that was
\* allocated when it was sent.
THEOREM AnswersRespectRealTime == Spec => []RealTimeOrder
BY ServiceInvariant, PTL DEF ServiceInv, FloorInv

\* pop_cache never finds NonMonotonicResponse: what a client has cached
\* ascends and lies above what it has returned.
THEOREM CachesAscend == Spec => []CacheAscends
<1>1. ServiceInv => CacheAscends
  BY Zenon DEF ServiceInv, ClientInv, Ascends, CacheAscends
<1> QED
  BY <1>1, ServiceInvariant, PTL

\* Oracle, group and clients implement the timestamp service: ranges are
\* granted upwards, and every timestamp is returned once, in order per client.
THEOREM OracleImplementsService == Spec => ImplementsService
<1>1. Init => Service!Init
  BY Zenon DEF Init, Service!Init
<1>2. /\ \A s, t : Service!Before(s, t) <=> Before(s, t)
      /\ \A s, t : Service!Within(s, t) <=> Within(s, t)
      /\ \A t : Service!Overflows(t) <=> Overflows(t)
      /\ \A s, n : Service!from_start(s, n) = from_start(s, n)
      /\ Service!HybridTimestamp = HybridTimestamp
  BY Zenon DEF Service!Before, Before, Service!AtMost, AtMost, Service!Within, Within,
         Service!Overflows, Overflows, Service!from_start, from_start,
         Service!checked_add, checked_add, Service!HybridTimestamp, HybridTimestamp
<1>3. ASSUME TypeOK, RangeInv, NEW r \in TimestampRange, GrantStep(r) PROVE Service!Grant
  <2>1. /\ r.start \in HybridTimestamp /\ r.count \in 1..MaxCount /\ r.end \in HybridTimestamp
        /\ r = from_start(r.start, r.count)
        /\ granted' = Append(granted, r) /\ returned' = returned
    BY <1>3, Zenon DEF GrantStep, AnswersKept, WellFormed, TimestampRange, from_start
  <2>2. ~Overflows(r.end)
    BY <2>1, WidthAssumption DEF Overflows, HybridTimestamp
  <2>3. ASSUME NEW i \in DOMAIN granted PROVE Before(granted[i].end, r.start)
    <3>1. /\ granted[i].end \in HybridTimestamp /\ AtMost(granted[i].end, state.last)
          /\ state.last \in HybridTimestamp /\ Before(state.last, r.start)
      BY <1>3, Zenon DEF RangeInv, WellFormed, TimestampRange, GrantStep, TypeOK, TsoState, OptTimestamp
    <3> QED
      BY <2>1, <3>1, BeforeTransitive, OrderTypes, ZenonT(30)
  <2> QED
    BY <1>2, <2>1, <2>2, <2>3, ZenonT(30) DEF Service!Grant
<1>4. ASSUME TypeOK, RangeInv, CacheInv, ServiceInv, NEW c \in Clients,
             NEW i \in DOMAIN clients[c].cache, TakeStep(c, i)
      PROVE  Service!Return(c)
  <2> DEFINE range == clients[c].cache[i].range
             value == at(range, clients[c].cache[i].next_offset)
  <2>1. /\ Owns(c, range) /\ Within(value, range) /\ value \in HybridTimestamp
        /\ \A u \in returned[c] : Before(u, value)
        /\ \A d \in Clients : value \notin returned[d]
    BY <1>4, TakenIsNew, Zenon
  <2>2. \E g \in DOMAIN granted : granted[g] = range
    BY <1>4, <2>1, OwnedIsGranted, Zenon DEF ServiceInv
  <2>3. returned' = [returned EXCEPT ![c] = @ \cup {value}] /\ granted' = granted
    BY <1>4, Zenon DEF TakeStep, OthersKept
  <2> HIDE DEF range, value
  <2> QED
    BY <1>2, <2>1, <2>2, <2>3, Zenon DEF Service!Return
<1>5. ASSUME TsoInv, ServiceInv, [Next]_vars
      PROVE  [Service!Next]_<<granted, returned>>
  <2>0. TypeOK /\ RangeInv /\ CacheInv /\ CallInv
    BY <1>5, Zenon DEF TsoInv
  <2>1. ASSUME NEW id \in CallIds, OracleStep(id) PROVE UNCHANGED <<granted, returned>>
    BY <2>0, <2>1, OracleIsQuiet, Zenon DEF QuietStep, AnswersKept
  <2>2. CASE EnvironmentStep
    <3>1. QuietStep => UNCHANGED <<granted, returned>>
      BY Zenon DEF QuietStep, AnswersKept
    <3>2. QuietStep \/ \E r \in TimestampRange : GrantStep(r)
      BY <2>0, <2>2, EnvironmentIsQuiet, Zenon
    <3> QED
      BY <1>3, <2>0, <3>1, <3>2, Zenon DEF Service!Next
  <2>3. ASSUME NEW c \in Clients, ClientStep(c) PROVE [Service!Next]_<<granted, returned>>
    <3>1. IdleStep(c) \/ SendStep(c) \/ CacheStep(c) \/ DropStep(c)
            => UNCHANGED <<granted, returned>>
      BY Zenon DEF IdleStep, SendStep, CacheStep, DropStep, OthersKept
    <3>2. \/ IdleStep(c) \/ SendStep(c) \/ CacheStep(c) \/ DropStep(c)
          \/ \E i \in DOMAIN clients[c].cache : TakeStep(c, i)
      BY <2>0, <2>3, ClientKinds, Zenon
    <3> QED
      BY <1>4, <1>5, <2>0, <3>1, <3>2, Zenon DEF Service!Next
  <2>4. CASE UNCHANGED vars
    BY <2>4, Zenon DEF vars
  <2> QED
    BY <1>5, <2>1, <2>2, <2>3, <2>4, Zenon DEF Next, EnvironmentStep
<1> QED
  BY <1>1, <1>5, TsoInvariant, ServiceInvariant, PTL DEF Spec, ImplementsService, Service!Spec
=============================================================================
