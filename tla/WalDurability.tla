--------------------------- MODULE WalDurability ---------------------------
(***************************************************************************)
(* The node-wide durability barrier shared by the write-ahead logs of all  *)
(* Raft groups: WalDurabilityCoordinator and RealWalSink of                *)
(* crates/chirps-raft-storage/src/wal_storage.rs.                          *)
(*                                                                         *)
(* Every group owns one WAL file and one thread that appends to it (the    *)
(* storage is used through &mut self).  A thread that needs durability     *)
(* calls coordinator.sync(): it either becomes the leader of a barrier,    *)
(* which syncs every WAL that is marked dirty, or joins the barrier that   *)
(* is running and shares its result.                                       *)
(*                                                                         *)
(* A WAL is abstracted to the number of records written to it and the      *)
(* number of records known to be on disk.                                  *)
(***************************************************************************)
EXTENDS Integers

CONSTANTS
    Groups,        \* the Raft groups hosted by this node
    Rank,          \* the order in which their WALs registered
    MaxRecords,    \* bound: records written to one WAL
    MaxSyncFailures \* bound: sync_all calls that fail

ASSUME RankAssumption == Rank \in [Groups -> Nat]
ASSUME BoundAssumption == MaxRecords \in Nat /\ MaxSyncFailures \in Nat

VARIABLES
    written,     \* written[g]: records handed to the BufWriter of g
    durable,     \* durable[g]: records of g covered by a completed sync_all
    acked,       \* acked[g]: records of g whose sync() call returned Ok
    dirty,       \* dirty[g]: the AtomicBool that participant g registered
    gate,        \* the CoordinatorGate, behind its mutex
    pc,          \* pc[g]: where the thread of group g is
    joined,      \* joined[g]: the generation a waiter read when it joined
    writers,     \* the dirty WALs the current leader still has to sync
    result,      \* "ok" or "err": outcome of the running sync_participants
    sync_failures \* sync_all calls that have failed so far

barrierVars == <<written, durable, acked, dirty, gate, pc, joined, writers, result,
                 sync_failures>>

Outcomes == {"ok", "err"}

\* idle      between storage calls
\* appended  the record is in the BufWriter, dirty is not yet stored
\* unsynced  dirty is stored: the batch may grow, or sync() is called
\* waiting   joined a running barrier, blocked on the condition variable
\* batching  leader, gate.syncing set, sleeping batch_wait
\* flushing  leader, the dirty WALs are collected and being synced
\* stopped   sync() returned an error: the group takes no more records
Places == {"idle", "appended", "unsynced", "waiting", "batching", "flushing",
           "stopped"}

BarrierTypeOK ==
    /\ written \in [Groups -> Nat]
    /\ durable \in [Groups -> Nat]
    /\ acked \in [Groups -> Nat]
    /\ dirty \in [Groups -> BOOLEAN]
    /\ gate \in [syncing: BOOLEAN, generation: Nat, last_error: Outcomes]
    /\ pc \in [Groups -> Places]
    /\ joined \in [Groups -> Nat]
    /\ writers \subseteq Groups
    /\ result \in Outcomes
    /\ sync_failures \in Nat

BarrierInit ==
    /\ written = [g \in Groups |-> 0]
    /\ durable = [g \in Groups |-> 0]
    /\ acked = [g \in Groups |-> 0]
    /\ dirty = [g \in Groups |-> FALSE]
    /\ gate = [syncing |-> FALSE, generation |-> 0, last_error |-> "ok"]
    /\ pc = [g \in Groups |-> "idle"]
    /\ joined = [g \in Groups |-> 0]
    /\ writers = {}
    /\ result = "ok"
    /\ sync_failures = 0

----------------------------------------------------------------------------
\* RealWalSink::append, first half: the record enters the BufWriter under the
\* writer's lock.  The leader holds that lock only while it syncs this WAL,
\* which FlushWriter makes one step.
AppendRecord(g) ==
    /\ pc[g] \in {"idle", "unsynced"}
    /\ written[g] < MaxRecords
    /\ written' = [written EXCEPT ![g] = @ + 1]
    /\ pc' = [pc EXCEPT ![g] = "appended"]
    /\ UNCHANGED <<durable, acked, dirty, gate, joined, writers, result, sync_failures>>

\* Mutant of StoreDirty: the flag is never stored.
StoreDirty_Skipped(g) ==
    /\ pc[g] = "appended"
    /\ pc' = [pc EXCEPT ![g] = "unsynced"]
    /\ UNCHANGED <<written, durable, acked, dirty, gate, joined, writers, result, sync_failures>>

\* RealWalSink::append, second half: the lock is released before the dirty
\* flag is stored.
StoreDirty(g) ==
    /\ pc[g] = "appended"
    /\ dirty' = [dirty EXCEPT ![g] = TRUE]
    /\ pc' = [pc EXCEPT ![g] = "unsynced"]
    /\ UNCHANGED <<written, durable, acked, gate, joined, writers, result, sync_failures>>

\* sync(), the gate is busy: remember the generation and block.
JoinBarrier(g) ==
    /\ pc[g] = "unsynced"
    /\ gate.syncing
    /\ joined' = [joined EXCEPT ![g] = gate.generation]
    /\ pc' = [pc EXCEPT ![g] = "waiting"]
    /\ UNCHANGED <<written, durable, acked, dirty, gate, writers, result, sync_failures>>

\* sync(), the gate is free: become the leader and release the gate's lock.
LeadBarrier(g) ==
    /\ pc[g] = "unsynced"
    /\ ~gate.syncing
    /\ gate' = [gate EXCEPT !.syncing = TRUE]
    /\ pc' = [pc EXCEPT ![g] = "batching"]
    /\ UNCHANGED <<written, durable, acked, dirty, joined, writers, result, sync_failures>>

\* sync_participants(), first half: after batch_wait, swap every dirty flag to
\* FALSE and collect the WALs that were dirty, under the participants lock.
CollectDirty(g) ==
    /\ pc[g] = "batching"
    /\ writers' = {h \in Groups : dirty[h]}
    /\ dirty' = [h \in Groups |-> FALSE]
    /\ result' = "ok"
    /\ pc' = [pc EXCEPT ![g] = "flushing"]
    /\ UNCHANGED <<written, durable, acked, gate, joined, sync_failures>>

\* The collected WALs are synced in the order in which they registered.
IsNextWriter(h) == h \in writers /\ \A k \in writers : Rank[h] <= Rank[k]

\* sync_participants(), second half: flush and sync_all one collected WAL.
FlushWriter(g) ==
    /\ pc[g] = "flushing"
    /\ \E h \in writers :
         /\ IsNextWriter(h)
         /\ durable' = [durable EXCEPT ![h] = written[h]]
         /\ writers' = writers \ {h}
    /\ UNCHANGED <<written, acked, dirty, gate, pc, joined, result, sync_failures>>

\* The same, failing: the failing WAL is marked dirty again and the loop
\* returns, whatever the other collected WALs hold.
FlushFails(g) ==
    /\ pc[g] = "flushing"
    /\ sync_failures < MaxSyncFailures
    /\ \E h \in writers :
         /\ IsNextWriter(h)
         /\ dirty' = [dirty EXCEPT ![h] = TRUE]
    /\ writers' = {}
    /\ result' = "err"
    /\ sync_failures' = sync_failures + 1
    /\ UNCHANGED <<written, durable, acked, gate, pc, joined>>

\* What the caller of sync() does with its result: on Ok every record written
\* so far is reported durable, on Err the group stops.
ReturnFromSync(g, outcome) ==
    /\ acked' = IF outcome = "ok" THEN [acked EXCEPT ![g] = written[g]] ELSE acked
    /\ pc' = [pc EXCEPT ![g] = IF outcome = "ok" THEN "idle" ELSE "stopped"]

\* Mutants of PublishResult: the generation stays, or is counted down.
PublishResult_SameGeneration(g) ==
    /\ pc[g] = "flushing"
    /\ writers = {}
    /\ gate' = [gate EXCEPT !.syncing = FALSE, !.last_error = result]
    /\ ReturnFromSync(g, result)
    /\ UNCHANGED <<written, durable, dirty, joined, writers, result, sync_failures>>

\* sync(), leader: publish the result, open the gate, notify_all, return.
PublishResult(g) ==
    /\ pc[g] = "flushing"
    /\ writers = {}
    /\ gate' = [syncing |-> FALSE, generation |-> gate.generation + 1,
                last_error |-> result]
    /\ ReturnFromSync(g, result)
    /\ UNCHANGED <<written, durable, dirty, joined, writers, result, sync_failures>>

\* sync(), waiter: leave the wait loop and return the last published result.
WakeWaiter(g) ==
    /\ pc[g] = "waiting"
    /\ ~gate.syncing
    /\ gate.generation # joined[g]
    /\ ReturnFromSync(g, gate.last_error)
    /\ UNCHANGED <<written, durable, dirty, gate, joined, writers, result, sync_failures>>

Step(g) ==
    \/ StoreDirty(g)
    \/ JoinBarrier(g)
    \/ LeadBarrier(g)
    \/ CollectDirty(g)
    \/ FlushWriter(g)
    \/ FlushFails(g)
    \/ PublishResult(g)
    \/ WakeWaiter(g)

BarrierNext == \E g \in Groups : AppendRecord(g) \/ Step(g)

\* A thread inside append or sync keeps running; whether a group appends again
\* is up to its clients.
BarrierThreads == \E g \in Groups : Step(g)

BarrierSpec == BarrierInit /\ [][BarrierNext]_barrierVars

----------------------------------------------------------------------------
Leaders == {g \in Groups : pc[g] \in {"batching", "flushing"}}

\* gate.syncing is set exactly while one thread runs a barrier: two leaders
\* would share the collected writers and publish the same generation twice
\* (sync, the check and the store of gate.syncing under one lock).
SingleLeader ==
    /\ gate.syncing <=> Leaders # {}
    /\ \A g, h \in Leaders : g = h
    /\ writers # {} => \E g \in Groups : pc[g] = "flushing"

\* Until a sync_all fails, no written record is forgotten: it is on disk, or
\* its WAL is flagged dirty, collected by the running barrier, or about to be
\* flagged by the thread that has just written it.
UnsyncedIsTracked ==
    sync_failures = 0 =>
        \A g \in Groups : durable[g] < written[g] =>
            dirty[g] \/ g \in writers \/ pc[g] = "appended"

\* Until a sync_all fails, a leader that is about to return Ok has its own
\* records on disk: it set its dirty flag before it entered the gate, so its
\* barrier collected them.  A failure ends this: sync_participants returns at
\* the first error, and the writers it had collected after that one are
\* neither synced nor flagged again.
LeaderOkMeansDurable ==
    sync_failures = 0 =>
        \A g \in Groups :
            pc[g] = "flushing" /\ writers = {} /\ result = "ok"
                => durable[g] = written[g]

\* "flushes and syncs every registered participant before releasing all
\* waiters" (wal_storage.rs:160): whatever sync() reported is on disk.
AckedIsDurable == \A g \in Groups : acked[g] <= durable[g]

\* Every call of sync() returns: no waiter misses its wake-up and no leader
\* leaves the gate closed, also when a sync_all fails. The calls are bounded by
\* MaxRecords, so a state in which none waits comes only when each has returned.
SyncReturns == []<>(\A g \in Groups : pc[g] \notin {"waiting", "batching", "flushing"})
=============================================================================
