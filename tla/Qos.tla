-------------------------------- MODULE Qos --------------------------------
(***************************************************************************)
(* QosController: a bounded queue per stream kind with backpressure, in    *)
(* front of a PriorityScheduler, and a token bucket for snapshot frames.   *)
(* The caller owns the controller: enqueue and dequeue do not overlap.     *)
(* Sizes are in units of bytes, time in ticks.                             *)
(***************************************************************************)
EXTENDS PriorityScheduler, FiniteSets, FiniteSetsExt

CONSTANTS
  Kinds, KindPriority,      \* stream kinds and StreamKind::priority
  FrameSizes,
  queue_limits,             \* queue_limits[k]: [max_bytes, max_items]
  scheduler_config,         \* SchedulerConfig::default
  snapshot_bandwidth_limit, \* capacity of the bucket, and tokens per second
  TicksPerSecond,
  throttle_timeout,         \* in ticks
  MaxEnqueues,              \* bound: calls of enqueue
  MaxTime                   \* bound: ticks

VARIABLES
  qosQueues,    \* qosQueues[k]: StreamQueue
  qosScheduler,
  bucket,       \* [tokens, last_refill]
  throttled,    \* the snapshot enqueue that sleeps
  qosNow, consumed, enqueues,
  bypassed      \* [i]: messages of priority i dequeued while the first High
                \* one waits

qosVars == <<qosQueues, qosScheduler, bucket, throttled, qosNow, consumed, enqueues, bypassed>>

NotThrottled == [size |-> 0, attempts |-> 0, waited |-> 0, until |-> 0]

QosInit ==
  /\ qosQueues = [k \in Kinds |-> [current_bytes |-> 0, current_items |-> 0,
                                   backpressured |-> FALSE]]
  /\ qosScheduler = NewScheduler
  /\ bucket = [tokens |-> snapshot_bandwidth_limit, last_refill |-> 0]
  /\ throttled = NotThrottled
  /\ qosNow = 0 /\ consumed = 0 /\ enqueues = 0
  /\ bypassed = [i \in Priorities |-> 0]

(* utilization_ratio(bytes, items, queue) >= percent / 100 *)
AtLeast(k, bytes, items, percent) ==
  \/ bytes * 100 >= percent * queue_limits[k].max_bytes
  \/ items * 100 >= percent * queue_limits[k].max_items

SOFT_LIMIT == 90
HARD_LIMIT == 100
RECOVERY   == 80

(* The hard and the soft limit refuse alike; a queue that refused once      *)
(* refuses until a dequeue has brought it below the recovery ratio.         *)
Admit(k, size) ==
  LET bytes == qosQueues[k].current_bytes + size
      items == qosQueues[k].current_items + 1
  IN /\ ~AtLeast(k, bytes, items, HARD_LIMIT)
     /\ ~AtLeast(k, bytes, items, SOFT_LIMIT)
     /\ ~qosQueues[k].backpressured

Recovered(k, q) ==
  [q EXCEPT !.backpressured = @ /\ AtLeast(k, q.current_bytes, q.current_items, RECOVERY)]

(* What enqueue does once a snapshot frame has its tokens. *)
Place(k, size) ==
  IF Admit(k, size)
  THEN /\ qosQueues' = [qosQueues EXCEPT ![k] =
             Recovered(k, [@ EXCEPT !.current_bytes = @ + size, !.current_items = @ + 1])]
       /\ qosScheduler' = enqueue(qosScheduler,
                                  [kind |-> k, size |-> size, priority |-> KindPriority[k]])
  ELSE /\ qosQueues' = [qosQueues EXCEPT ![k].backpressured = TRUE]
       /\ UNCHANGED qosScheduler

QosEnqueue(k, size) ==
  /\ throttled = NotThrottled /\ k # "RaftSnapshot"
  /\ enqueues < MaxEnqueues /\ enqueues' = enqueues + 1
  /\ Place(k, size)
  /\ UNCHANGED <<bucket, throttled, qosNow, consumed, bypassed>>

(* TokenBucket::refill; a part of a token is not lost, since last_refill    *)
(* only moves when a token was added.                                       *)
Refilled ==
  LET add == (snapshot_bandwidth_limit * (qosNow - bucket.last_refill)) \div TicksPerSecond
  IN IF add = 0 THEN bucket
     ELSE [tokens |-> Min({bucket.tokens + add, snapshot_bandwidth_limit}),
           last_refill |-> qosNow]

(* One turn of throttle_snapshot's loop: the tokens are taken, or the       *)
(* caller sleeps, or it gives up with ThrottleTimeout.                      *)
Throttle(call) ==
  LET short == call.size - Refilled.tokens
      delay == (short * TicksPerSecond) \div snapshot_bandwidth_limit
      next  == [call EXCEPT !.attempts = @ + 1, !.waited = @ + delay, !.until = qosNow + delay]
  IN IF short <= 0
     THEN /\ bucket' = [Refilled EXCEPT !.tokens = @ - call.size]
          /\ consumed' = consumed + call.size
          /\ throttled' = NotThrottled
          /\ Place("RaftSnapshot", call.size)
     ELSE /\ bucket' = Refilled
          /\ throttled' = IF next.waited > throttle_timeout \/ next.attempts >= 3
                          THEN NotThrottled ELSE next
          /\ UNCHANGED <<consumed, qosQueues, qosScheduler>>

EnqueueSnapshot(size) ==
  /\ throttled = NotThrottled
  /\ enqueues < MaxEnqueues /\ enqueues' = enqueues + 1
  /\ Throttle([NotThrottled EXCEPT !.size = size])
  /\ UNCHANGED <<qosNow, bypassed>>

ThrottleWakes ==
  /\ throttled # NotThrottled /\ qosNow >= throttled.until
  /\ Throttle(throttled)
  /\ UNCHANGED <<qosNow, bypassed, enqueues>>

Left(q, m) == [q EXCEPT !.current_items = @ - 1, !.current_bytes = @ - m.size]

QosDequeue ==
  /\ throttled = NotThrottled
  /\ \E next \in {dequeue(qosScheduler, scheduler_config)} :
       /\ qosScheduler' = next.scheduler
       /\ IF next.message = <<>> THEN UNCHANGED <<qosQueues, bypassed>>
          ELSE LET m == Head(next.message)
               IN /\ qosQueues' = [qosQueues EXCEPT ![m.kind] = Recovered(m.kind, Left(@, m))]
                  /\ bypassed' = IF m.priority = 0 \/ qosScheduler.queues[0] = <<>>
                                 THEN [i \in Priorities |-> 0]
                                 ELSE [bypassed EXCEPT ![m.priority] = @ + 1]
  /\ UNCHANGED <<bucket, throttled, qosNow, consumed, enqueues>>

QosTick ==
  /\ qosNow < MaxTime
  /\ qosNow' = qosNow + 1
  /\ UNCHANGED <<qosQueues, qosScheduler, bucket, throttled, consumed, enqueues, bypassed>>

QosNext ==
  \/ \E k \in Kinds, size \in FrameSizes : QosEnqueue(k, size)
  \/ \E size \in FrameSizes : EnqueueSnapshot(size)
  \/ ThrottleWakes \/ QosDequeue \/ QosTick

----------------------------------------------------------------------------
QueuedOf(k) ==
  {<<i, n>> \in Priorities \X (1..MaxEnqueues) :
     n <= Len(qosScheduler.queues[i]) /\ qosScheduler.queues[i][n].kind = k}

(* The counters of a queue are those of the frames the scheduler holds of   *)
(* its kind, and they stay below the soft limit.                            *)
CountersAgree ==
  \A k \in Kinds :
    /\ qosQueues[k].current_items = Cardinality(QueuedOf(k))
    /\ qosQueues[k].current_bytes =
         FoldSet(LAMBDA x, sum : qosScheduler.queues[x[1]][x[2]].size + sum, 0, QueuedOf(k))
    /\ ~AtLeast(k, qosQueues[k].current_bytes, qosQueues[k].current_items, SOFT_LIMIT)

(* While a High message waits, each lower queue gets one burst at most      *)
(* (PriorityScheduler::dequeue); a High frame fits in its quantum here.     *)
HighIsNotStarved ==
  \A i \in Priorities \ {0} : bypassed[i] <= scheduler_config.weights[i]

(* Snapshot frames take no more than the bucket and its refill allow.       *)
SnapshotRate ==
  TicksPerSecond * (consumed - snapshot_bandwidth_limit)
    <= snapshot_bandwidth_limit * qosNow

(* All of what the controller promises. *)
QosIsSound == CountersAgree /\ HighIsNotStarved /\ SnapshotRate
=============================================================================
