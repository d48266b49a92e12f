------------------------------- MODULE Memory -------------------------------
(***************************************************************************)
(* The memory of a node (alopex-chirps: buffer/, memory.rs): the receive   *)
(* buffer with its backpressure, the Raft log cache and the block cache    *)
(* under one IntegratedCacheManager, and the MemoryManager that keeps the  *)
(* account, which other handles resize and collect at any time.            *)
(*                                                                         *)
(* Ratios are per cent.  The manager's own methods exclude one another     *)
(* (&mut self); each call to the MemoryManager takes its lock once, so     *)
(* calls of other handles come between.                                    *)
(***************************************************************************)
EXTENDS Integers, Sequences, SequencesExt, FiniteSets

CONSTANTS
  Sizes,                \* sizes of payloads
  Indices,              \* Raft log indices
  message_buffer_limit, raft_log_cache_limit, connection_pool_limit,
  total_budget,
  emergency_threshold,
  Workloads,            \* the profiles rebalance is called with
  Budgets,              \* what resize_memory_budget is called with
  MaxMemoryOps          \* bound: calls

Profiles   == <<"Control", "Durable", "Ephemeral">>
Capped     == {"MessageBuffer", "RaftLogCache", "ConnectionPool"}
Components == Capped \union {"BlockCache"}

ASSUME MemoryAssumption ==
  /\ total_budget \in Nat \ {0} /\ emergency_threshold \in 1..99
  /\ {message_buffer_limit, raft_log_cache_limit, connection_pool_limit} \subseteq 0..total_budget

VARIABLES
  message_buffer,  \* [queue, used_bytes, profile_bytes]
  raft_cache,      \* [entries, used_bytes]; the front is the least recently used
  block_cache,     \* used_bytes of the block cache
  pool,            \* connection_pool_bytes
  memory,          \* the MemoryManager: [total_budget, limit, bytes, current_usage, exceeded]
  manager,         \* the running method: [pc, share, target, left]
  memoryOps,
  unsynced         \* something was changed that no sync_usage has recorded

memVars == <<message_buffer, raft_cache, block_cache, pool, memory, manager, memoryOps, unsynced>>

ManagerIdle == [pc |-> "idle", share |-> <<>>, target |-> 0, left |-> <<>>]
SyncOrder   == <<"MessageBuffer", "RaftLogCache", "ConnectionPool", "BlockCache">>

MemoryInit ==
  /\ message_buffer = [queue |-> [p \in ToSet(Profiles) |-> <<>>], used_bytes |-> 0,
                       profile_bytes |-> [p \in ToSet(Profiles) |-> 0]]
  /\ raft_cache = [entries |-> <<>>, used_bytes |-> 0]
  /\ block_cache = 0 /\ pool = 0
  /\ memory = [total_budget |-> total_budget,
               limit |-> [c \in Capped |-> CASE c = "MessageBuffer" -> message_buffer_limit
                                             [] c = "RaftLogCache" -> raft_log_cache_limit
                                             [] OTHER -> connection_pool_limit],
               bytes |-> [c \in Components |-> 0], current_usage |-> 0, exceeded |-> FALSE]
  /\ manager = ManagerIdle /\ memoryOps = 0 /\ unsynced = FALSE

AtMost(a, b) == IF a < b THEN a ELSE b
Minus(a, b)  == IF a < b THEN 0 ELSE a - b      \* saturating_sub
Count        == memoryOps < MaxMemoryOps /\ memoryOps' = memoryOps + 1

----------------------------------------------------------------------------
(* MessageBuffer.                                                          *)

(* BackpressureController: the projected size decides, and a buffer that is *)
(* exactly full counts as Limited.                                          *)
allows(profile, projected) ==
  /\ projected <= message_buffer_limit
  /\ profile = "Ephemeral" => projected * 100 < emergency_threshold * message_buffer_limit

Push(profile, size) ==
  /\ manager.pc = "idle" /\ Count
  /\ LET projected == message_buffer.used_bytes + size
     IN IF allows(profile, projected)
        THEN /\ message_buffer' = [message_buffer EXCEPT !.used_bytes = projected,
                                     !.profile_bytes[profile] = @ + size,
                                     !.queue[profile] = Append(@, size)]
             /\ unsynced' = TRUE
        ELSE UNCHANGED <<message_buffer, unsynced>>
  /\ UNCHANGED <<raft_cache, block_cache, pool, memory, manager>>

(* A defect the mutants use: the profile's own count is left alone. *)
Popped_KeepsProfile(b) ==
  LET profile == SelectSeq(Profiles, LAMBDA p : b.queue[p] # <<>>)[1]
      size    == Head(b.queue[profile])
  IN [b EXCEPT !.queue[profile] = Tail(@), !.used_bytes = Minus(@, size)]

(* pop of a buffer that is not empty: Control first, then Durable, then     *)
(* Ephemeral.                                                               *)
Popped(b) ==
  LET profile == SelectSeq(Profiles, LAMBDA p : b.queue[p] # <<>>)[1]
      size    == Head(b.queue[profile])
  IN [b EXCEPT !.queue[profile] = Tail(@), !.used_bytes = Minus(@, size),
               !.profile_bytes[profile] = Minus(@, size)]

Items(b) == Len(b.queue["Control"]) + Len(b.queue["Durable"]) + Len(b.queue["Ephemeral"])

(* pops[n]: the buffer after n pops. *)
Pops(b) ==
  LET after[n \in 0..Items(b)] == IF n = 0 THEN b ELSE Popped(after[n - 1])
  IN after

Pop ==
  /\ manager.pc = "idle" /\ Items(message_buffer) > 0 /\ Count
  /\ message_buffer' = Popped(message_buffer)
  /\ unsynced' = TRUE
  /\ UNCHANGED <<raft_cache, block_cache, pool, memory, manager>>

(* evict_message_bytes: pops until target bytes are gone or nothing is      *)
(* left; Control messages go first.                                         *)
MessagesEvicted(target) ==
  LET after  == Pops(message_buffer)
      enough == {n \in DOMAIN after :
                   n = Items(message_buffer)
                     \/ message_buffer.used_bytes - after[n].used_bytes >= target}
  IN after[CHOOSE n \in enough : \A k \in enough : n <= k]

----------------------------------------------------------------------------
(* RaftLogCache.                                                           *)

BytesOf(entries) == FoldLeft(LAMBDA sum, e : sum + e.size, 0, entries)

(* The front entries go until evicted bytes reach target. *)
CacheEvicted(cache, target) ==
  LET front(n) == BytesOf(SubSeq(cache.entries, 1, n))
      enough   == {n \in 0..Len(cache.entries) : n = Len(cache.entries) \/ front(n) >= target}
      n        == CHOOSE k \in enough : \A j \in enough : k <= j
  IN [entries |-> SubSeq(cache.entries, n + 1, Len(cache.entries)),
      used_bytes |-> Minus(cache.used_bytes, front(n))]

CacheWithout(cache, index) ==
  LET old == SelectSeq(cache.entries, LAMBDA e : e.index = index)
  IN [entries |-> SelectSeq(cache.entries, LAMBDA e : e.index # index),
      used_bytes |-> Minus(cache.used_bytes, BytesOf(old))]

(* insert: the old payload of the index goes, even if the new one is too    *)
(* large to be kept; room is made at the front.                             *)
Insert(index, size) ==
  /\ manager.pc = "idle" /\ Count
  /\ LET rest == CacheWithout(raft_cache, index)
         room == CacheEvicted(rest, Minus(rest.used_bytes + size, raft_log_cache_limit))
     IN raft_cache' = IF size > raft_log_cache_limit THEN rest
                      ELSE [entries |-> Append(room.entries, [index |-> index, size |-> size]),
                            used_bytes |-> room.used_bytes + size]
  /\ unsynced' = TRUE
  /\ UNCHANGED <<message_buffer, block_cache, pool, memory, manager>>

(* get: the entry becomes the most recently used. *)
Get(index) ==
  /\ manager.pc = "idle"
  /\ \E k \in DOMAIN raft_cache.entries :
       /\ raft_cache.entries[k].index = index
       /\ raft_cache' = [raft_cache EXCEPT !.entries = Append(RemoveAt(@, k), @[k])]
  /\ UNCHANGED <<message_buffer, block_cache, pool, memory, manager, memoryOps, unsynced>>

(* The owner of the block cache reports its use through its own handle. *)
SetBlockUsed(size) ==
  /\ Count
  /\ block_cache' = size /\ unsynced' = TRUE
  /\ UNCHANGED <<message_buffer, raft_cache, pool, memory, manager>>

----------------------------------------------------------------------------
(* MemoryManager: one lock.                                                *)

refresh_budget_flag(m) ==
  LET usage == m.bytes["MessageBuffer"] + m.bytes["RaftLogCache"]
                 + m.bytes["ConnectionPool"] + m.bytes["BlockCache"]
  IN [m EXCEPT !.current_usage = usage, !.exceeded = usage > m.total_budget]

resize_memory_budget(budget) ==
  /\ Count
  /\ memory' = IF budget = 0 THEN memory
               ELSE refresh_budget_flag([memory EXCEPT !.total_budget = budget])
  /\ UNCHANGED <<message_buffer, raft_cache, block_cache, pool, manager, unsynced>>

(* trigger_gc changes the account only: nothing is freed. *)
trigger_gc ==
  /\ Count
  /\ LET kept  == [c \in Capped |-> AtMost(memory.bytes[c], memory.limit[c])]
         fixed == kept["MessageBuffer"] + kept["RaftLogCache"] + kept["ConnectionPool"]
         rest  == Minus(memory.total_budget, fixed)
     IN memory' = refresh_budget_flag([memory EXCEPT !.bytes =
                    [c \in Components |-> IF c \in Capped THEN kept[c] ELSE AtMost(@[c], rest)]])
  /\ unsynced' = TRUE
  /\ UNCHANGED <<message_buffer, raft_cache, block_cache, pool, manager>>

Used(c) ==
  CASE c = "MessageBuffer" -> message_buffer.used_bytes
    [] c = "RaftLogCache" -> raft_cache.used_bytes
    [] c = "ConnectionPool" -> pool
    [] c = "BlockCache" -> block_cache

----------------------------------------------------------------------------
(* IntegratedCacheManager.                                                 *)

Sync(pool_now) ==
  /\ manager' = [ManagerIdle EXCEPT !.pc = "sync", !.left = SyncOrder]
  /\ pool' = pool_now /\ unsynced' = FALSE

(* sync_usage: set_component_usage for one component after the other. *)
SyncNext ==
  /\ manager.pc = "sync"
  /\ LET c == Head(manager.left)
     IN memory' = refresh_budget_flag([memory EXCEPT !.bytes[c] = Used(c)])
  /\ manager' = IF Len(manager.left) = 1 THEN ManagerIdle
                ELSE [manager EXCEPT !.left = Tail(@)]
  /\ UNCHANGED <<message_buffer, raft_cache, block_cache, pool, memoryOps, unsynced>>

(* set_connection_pool_usage; get_unified_metrics syncs with the old value. *)
SetPool(bytes) ==
  /\ manager.pc = "idle" /\ Count
  /\ Sync(bytes)
  /\ UNCHANGED <<message_buffer, raft_cache, block_cache, memory>>

Share(workload, c) == (total_budget * workload[c]) \div 100

(* rebalance, up to the eviction from the block cache: the new limits go to *)
(* the MemoryManager, where trigger_gc of another handle may see some of    *)
(* them and change an account that sync_usage replaces; the buffers keep    *)
(* the limits they were made with.                                          *)
Rebalance(workload) ==
  /\ manager.pc = "idle" /\ Count
  /\ memory' = [memory EXCEPT !.limit =
                  [c \in Capped |-> AtMost(Share(workload, c), memory.total_budget)]]
  /\ message_buffer' = MessagesEvicted(Minus(message_buffer.used_bytes,
                                             Share(workload, "MessageBuffer")))
  /\ raft_cache' = CacheEvicted(raft_cache, Minus(raft_cache.used_bytes,
                                                  Share(workload, "RaftLogCache")))
  /\ manager' = [pc |-> "rebalance", share |-> workload, left |-> <<>>,
                 target |-> Minus(block_cache, Share(workload, "BlockCache"))]
  /\ unsynced' = TRUE
  /\ UNCHANGED <<block_cache, pool>>

(* Its rest: as much of the block cache as was found to be too much. *)
RebalanceBlock ==
  /\ manager.pc = "rebalance"
  /\ block_cache' = block_cache - AtMost(block_cache, manager.target)
  /\ Sync(pool)
  /\ UNCHANGED <<message_buffer, raft_cache, memory, memoryOps>>

(* emergency_evict: the block cache, then the Raft cache, then messages. *)
EmergencyEvict(target) ==
  /\ manager.pc = "idle" /\ Count
  /\ LET blocks == AtMost(block_cache, target)
         cache  == CacheEvicted(raft_cache, target - blocks)
         rest   == Minus(target - blocks, raft_cache.used_bytes - cache.used_bytes)
     IN /\ block_cache' = block_cache - blocks
        /\ raft_cache' = cache
        /\ message_buffer' = MessagesEvicted(rest)
  /\ Sync(pool)
  /\ UNCHANGED memory

MemoryNext ==
  \/ \E p \in ToSet(Profiles), s \in Sizes : Push(p, s)
  \/ Pop
  \/ \E i \in Indices, s \in Sizes : Insert(i, s)
  \/ \E i \in Indices : Get(i)
  \/ \E s \in Sizes : SetBlockUsed(s) \/ SetPool(s) \/ EmergencyEvict(s)
  \/ \E b \in Budgets : resize_memory_budget(b)
  \/ trigger_gc
  \/ \E w \in Workloads : Rebalance(w)
  \/ RebalanceBlock \/ SyncNext

----------------------------------------------------------------------------
(* The counters are those of the contents, no cache outgrows the limit it   *)
(* was made with, and the cache holds an index once.                        *)
UsedIsHeld ==
  /\ \A p \in ToSet(Profiles) :
       message_buffer.profile_bytes[p] = FoldLeft(+, 0, message_buffer.queue[p])
  /\ message_buffer.used_bytes = message_buffer.profile_bytes["Control"]
       + message_buffer.profile_bytes["Durable"] + message_buffer.profile_bytes["Ephemeral"]
  /\ raft_cache.used_bytes = BytesOf(raft_cache.entries)
  /\ Cardinality({e.index : e \in ToSet(raft_cache.entries)}) = Len(raft_cache.entries)
  /\ message_buffer.used_bytes <= message_buffer_limit
  /\ raft_cache.used_bytes <= raft_log_cache_limit

(* Ephemeral messages leave the part above the emergency threshold to the   *)
(* other profiles, whatever was popped and evicted in between.              *)
EphemeralLeavesRoom ==
  message_buffer.queue["Ephemeral"] # <<>> =>
    message_buffer.profile_bytes["Ephemeral"] * 100 < emergency_threshold * message_buffer_limit

(* The account adds up, and once sync_usage is over and nothing has changed *)
(* since it began, it is what the caches hold, although other handles       *)
(* resize the budget meanwhile.                                             *)
AccountIsReal ==
  /\ memory = refresh_budget_flag(memory)
  /\ (manager.pc = "idle" /\ ~unsynced) => \A c \in Components : memory.bytes[c] = Used(c)

(* When rebalance has evicted, the buffers fit in their new shares.         *)
RebalancedFits ==
  manager.pc = "rebalance" =>
    /\ message_buffer.used_bytes <= Share(manager.share, "MessageBuffer")
    /\ raft_cache.used_bytes <= Share(manager.share, "RaftLogCache")

MemoryIsSound == UsedIsHeld /\ EphemeralLeavesRoom /\ AccountIsReal /\ RebalancedFits
=============================================================================
