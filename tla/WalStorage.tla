----------------------------- MODULE WalStorage -----------------------------
(***************************************************************************)
(* WalRaftStorage: the log, the vote and the snapshots of one Raft group,  *)
(* kept in one append-only WAL file, with an LRU cache of log entries in   *)
(* front of it.  Every operation runs under the mutex of SharedRaftStorage,*)
(* so op names the operation that holds it and how far it has got; a crash *)
(* may come between any two of its steps.                                  *)
(*                                                                         *)
(* OpenRaft, the caller, is external: next, committed and known are what   *)
(* it remembers (where it appends, what it may apply, the last snapshot it *)
(* was told of), and its calls respect them.                               *)
(***************************************************************************)
EXTENDS Integers, Sequences, FiniteSets

CONSTANTS
  MaxIndex,         \* bound: log indexes are 1..MaxIndex
  MaxTerm,          \* bound: terms and votes are 1..MaxTerm
  MaxRecords,       \* bound: records ever written to the WAL
  MaxBatch,         \* bound: entries of one append
  MaxSnapshots,     \* bound: snapshot files
  Payloads,         \* kinds of entry payload, of {"normal", "membership"}
  log_cache_size,
  fsync_interval,
  TornTails,        \* whether a crash may leave part of a record in the file
  IoErrors          \* whether a write or sync may fail

ASSUME WalAssumption ==
  /\ MaxIndex \in Nat /\ MaxTerm \in Nat /\ MaxRecords \in Nat
  /\ MaxBatch \in Nat /\ MaxSnapshots \in Nat
  /\ Payloads \subseteq {"normal", "membership"}
  /\ log_cache_size \in Nat /\ fsync_interval \in Nat
  /\ TornTails \in BOOLEAN /\ IoErrors \in BOOLEAN

VARIABLES
  wal,              \* the records of the file, unsynced ones included
  synced,           \* how many of them are durable
  torn,             \* the file ends in part of a record
  files,            \* snapshot files in snapshot_dir
  vote,
  log_cache,        \* index -> entry
  log_order,        \* the cached indexes, least recently used first
  pending_unsynced,
  last_purged,      \* last_purged_log_id
  last_applied,
  last_membership,  \* log id of the entry that set it
  snapshot_meta,
  sm,               \* log id of the last entry the state machine reflects
  op,               \* the operation in progress
  next,             \* OpenRaft: index of the next entry it appends
  committed,        \* OpenRaft: index up to which entries are committed
  handed,           \* OpenRaft: index of the last entry handed to apply
  known,            \* OpenRaft: last snapshot it built or installed
  builder,          \* a snapshot builder, which runs outside the mutex
  acked,            \* ghost: entries whose append was acknowledged
  issued,           \* ghost: entries that a read may still return
  promised,         \* ghost: the last vote acknowledged
  removed           \* ghost: begin_storage has removed the directories

disk     == <<wal, synced, torn, files>>
cache    == <<log_cache, log_order>>
applied  == <<last_applied, last_membership, sm>>
raft     == <<next, committed, handed, known, builder>>
ghosts   == <<acked, issued, promised, removed>>
vars == <<wal, synced, torn, files, vote, log_cache, log_order,
          pending_unsynced, last_purged, last_applied, last_membership,
          snapshot_meta, sm, op, next, committed, handed, known, builder,
          acked, issued, promised, removed>>

-----------------------------------------------------------------------------
(* Log ids, entries, snapshots and records.                                *)

LogIds  == [term : 1..MaxTerm, index : 1..MaxIndex]
NoId    == [term |-> 0, index |-> 0]
OptId   == LogIds \union {NoId}
Entries == [id : LogIds, payload : Payloads]

\* SnapshotMeta, with the state the file holds: data is the last log id that
\* the snapshotted state machine reflects.
Snapshots  == [last : OptId, membership : OptId, data : OptId]
NoSnapshot == [last |-> NoId, membership |-> NoId, data |-> NoId]

\* RaftWalRecord.
AppendLog(e)       == [type |-> "AppendLog", entry |-> e]
VoteRecord(v)      == [type |-> "Vote", vote |-> v]
SnapshotApplied(m) == [type |-> "SnapshotApplied", meta |-> m]
TruncateRecord(id) == [type |-> "Truncate", id |-> id]
PurgeRecord(id)    == [type |-> "Purge", id |-> id]

Records ==
  {AppendLog(e) : e \in Entries} \union {VoteRecord(v) : v \in 1..MaxTerm}
    \union {SnapshotApplied(m) : m \in Snapshots}
    \union {TruncateRecord(id) : id \in LogIds}
    \union {PurgeRecord(id) : id \in LogIds}

Above(f, i)    == [j \in {k \in DOMAIN f : k > i} |-> f[j]]
AtOrBelow(f, i) == [j \in {k \in DOMAIN f : k <= i} |-> f[j]]
Put(f, e)      == [j \in DOMAIN f \union {e.id.index} |->
                     IF j = e.id.index THEN e ELSE f[j]]
Without(order, i) == SelectSeq(order, LAMBDA j : j # i)
Greatest(S)    == CHOOSE i \in S \union {0} : \A j \in S : j <= i

-----------------------------------------------------------------------------
(* The file as read_entries_from_wal scans it.                             *)

\* Mutant of Removes: Truncate removes its own index too.
Removes_TruncatesFrom(r, i) ==
  CASE r.type = "AppendLog" -> i = r.entry.id.index
    [] r.type = "Truncate"  -> i >= r.id.index
    [] r.type = "Purge"     -> i <= r.id.index
    [] OTHER                -> FALSE

\* Mutant of Removes: only appends are read.
Removes_AppendsOnly(r, i) == r.type = "AppendLog" /\ i = r.entry.id.index

\* The record takes the entry at index i away, or puts another one there.
Removes(r, i) ==
  CASE r.type = "AppendLog" -> i = r.entry.id.index
    [] r.type = "Truncate"  -> i > r.id.index
    [] r.type = "Purge"     -> i <= r.id.index
    [] OTHER                -> FALSE

\* The scan, but not the cache, also drops what a snapshot covers.
Covers(r, i) == r.type = "SnapshotApplied" /\ i <= r.meta.last.index

\* Of the first n records, the k-th appends an entry that is not removed.
Stays(k, n) ==
  /\ k \in 1..n /\ wal[k].type = "AppendLog"
  /\ \A j \in (k + 1)..n : ~Removes(wal[j], wal[k].entry.id.index)
Uncovered(k, n) == \A j \in (k + 1)..n : ~Covers(wal[j], wal[k].entry.id.index)

NoEntries == [i \in {} |-> NoId]
read_entries_from_wal ==
  {wal[k].entry : k \in {k \in DOMAIN wal : Stays(k, Len(wal)) /\ Uncovered(k, Len(wal))}}

\* What try_get_log_entries(..) returns: cached entries first, the WAL for
\* the indexes that are not cached.
LogView ==
  LET scanned == read_entries_from_wal
  IN  [i \in DOMAIN log_cache \union {e.id.index : e \in scanned} |->
         IF i \in DOMAIN log_cache THEN log_cache[i]
         ELSE CHOOSE e \in scanned : e.id.index = i]

\* last_log_id: the last key of the cache.
last_log_id ==
  IF log_cache = NoEntries THEN NoId
  ELSE log_cache[Greatest(DOMAIN log_cache)].id

\* get_current_snapshot: the recorded snapshot, read from its file and checked.
get_current_snapshot ==
  IF snapshot_meta \in files THEN snapshot_meta ELSE NoSnapshot

-----------------------------------------------------------------------------
(* The cache.                                                              *)

\* Mutant of CacheInsert: the index is pushed without leaving its old place.
CacheInsert_NoRetain(e) ==
  LET filled == Put(log_cache, e)
      order  == Append(log_order, e.id.index)
      excess == Cardinality(DOMAIN filled) - log_cache_size
      pops   == IF excess > 0 THEN excess ELSE 0
      evicted == {order[k] : k \in 1..pops}
  IN  /\ log_cache' = [i \in DOMAIN filled \ evicted |-> filled[i]]
      /\ log_order' = SubSeq(order, pops + 1, Len(order))

\* insert_entry: put, touch, then pop least recently used indexes until the
\* cache fits.
CacheInsert(e) ==
  LET filled == Put(log_cache, e)
      order  == Append(Without(log_order, e.id.index), e.id.index)
      excess == Cardinality(DOMAIN filled) - log_cache_size
      pops   == IF excess > 0 THEN excess ELSE 0
      evicted == {order[k] : k \in 1..pops}
  IN  /\ log_cache' = [i \in DOMAIN filled \ evicted |-> filled[i]]
      /\ log_order' = SubSeq(order, pops + 1, Len(order))

\* touch_cache.
CacheTouch(i) ==
  /\ log_order' = IF i \in DOMAIN log_cache
                  THEN Append(Without(log_order, i), i)
                  ELSE Without(log_order, i)
  /\ UNCHANGED log_cache

truncate_cache(i) ==
  /\ log_cache' = AtOrBelow(log_cache, i)
  /\ log_order' = SelectSeq(log_order, LAMBDA j : j <= i)

purge_cache(i) ==
  /\ log_cache' = Above(log_cache, i)
  /\ log_order' = SelectSeq(log_order, LAMBDA j : j > i)

-----------------------------------------------------------------------------
Idle     == [kind |-> "idle"]
Stopped  == [kind |-> "stopped"]
Down     == [kind |-> "down"]
Ready    == op.kind = "idle"
Room     == Len(wal) < MaxRecords

\* A file that has only its header: WAL records are counted after it.
Init ==
  /\ wal = <<>> /\ synced = 0 /\ torn = FALSE /\ files = {}
  /\ vote = 0 /\ log_cache = NoEntries /\ log_order = <<>>
  /\ pending_unsynced = 0
  /\ last_purged = NoId /\ last_applied = NoId /\ last_membership = NoId
  /\ snapshot_meta = NoSnapshot /\ sm = NoId
  /\ op = Idle
  /\ next = 1 /\ committed = 0 /\ handed = 0
  /\ known = NoSnapshot /\ builder = NoSnapshot
  /\ acked = {} /\ issued = {} /\ promised = 0 /\ removed = FALSE

-----------------------------------------------------------------------------
(* append: every entry is written and cached, then one sync and the        *)
(* callback.                                                               *)

BeginAppend(batch) ==
  /\ Ready /\ batch # <<>>
  /\ Len(wal) + Len(batch) <= MaxRecords
  /\ \A k \in DOMAIN batch :
       /\ batch[k].id.index = next + k - 1
       /\ batch[k].id.term <= vote
       /\ \A e \in issued : e.id.index < next => e.id.term <= batch[k].id.term
       /\ k > 1 => batch[k - 1].id.term <= batch[k].id.term
  /\ op' = [kind |-> "append", batch |-> batch, done |-> 0]
  /\ UNCHANGED <<disk, vote, cache, pending_unsynced, last_purged, applied,
                 snapshot_meta, raft, ghosts>>

\* append_entry_with_sync(entry, false).
AppendEntry ==
  /\ op.kind = "append" /\ op.done < Len(op.batch)
  /\ LET e       == op.batch[op.done + 1]
         pending == pending_unsynced + 1
         syncs   == fsync_interval > 0 /\ pending >= fsync_interval
     IN  /\ wal' = Append(wal, AppendLog(e))
         /\ last_applied' = e.id
         /\ last_membership' = IF e.payload = "membership" THEN e.id
                                ELSE last_membership
         /\ CacheInsert(e)
         /\ synced' = IF syncs THEN Len(wal) + 1 ELSE synced
         /\ pending_unsynced' = IF syncs THEN 0 ELSE pending
         /\ acked' = {a \in acked : a.id.index # e.id.index}
         /\ issued' = issued \union {e}
  /\ op' = [op EXCEPT !.done = @ + 1]
  /\ UNCHANGED <<torn, files, vote, last_purged, snapshot_meta, sm, raft,
                 promised, removed>>

\* Mutant of FinishAppend: the callback runs without the last sync.
FinishAppend_NoSync ==
  /\ op.kind = "append" /\ op.done = Len(op.batch)
  /\ LET new == {op.batch[k] : k \in DOMAIN op.batch}
         at  == {e.id.index : e \in new}
     IN  /\ acked' = acked \union new
         /\ issued' = {e \in issued : e.id.index \notin at} \union new
         /\ next' = Greatest(at) + 1
  /\ UNCHANGED <<synced, pending_unsynced>>
  /\ op' = Idle
  /\ UNCHANGED <<wal, torn, files, vote, cache, last_purged, applied,
                 snapshot_meta, committed, handed, known, builder, promised,
                 removed>>

\* The last sync_wal and callback.log_io_completed(Ok).
FinishAppend ==
  /\ op.kind = "append" /\ op.done = Len(op.batch)
  /\ LET new == {op.batch[k] : k \in DOMAIN op.batch}
         at  == {e.id.index : e \in new}
     IN  /\ acked' = acked \union new
         /\ issued' = {e \in issued : e.id.index \notin at} \union new
         /\ next' = Greatest(at) + 1
  /\ synced' = Len(wal) /\ pending_unsynced' = 0
  /\ op' = Idle
  /\ UNCHANGED <<wal, torn, files, vote, cache, last_purged, applied,
                 snapshot_meta, committed, handed, known, builder, promised,
                 removed>>

-----------------------------------------------------------------------------
(* save_vote, truncate and purge: write_frame(record, true), then memory.  *)

WriteSynced(r) ==
  /\ Ready /\ Room
  /\ wal' = Append(wal, r)
  /\ op' = [kind |-> "write", record |-> r]
  /\ UNCHANGED <<synced, torn, files, vote, cache, pending_unsynced,
                 last_purged, applied, snapshot_meta, raft, issued, promised,
                 removed>>

Synced(type) ==
  /\ op.kind = "write" /\ op.record.type = type
  /\ synced' = Len(wal) /\ pending_unsynced' = 0
  /\ op' = Idle
  /\ UNCHANGED <<wal, torn, files, snapshot_meta, applied, committed, handed,
                 known, builder, acked, removed>>

SaveVote(v) ==
  /\ v > vote
  /\ WriteSynced(VoteRecord(v))
  /\ UNCHANGED acked

FinishVote ==
  /\ Synced("Vote")
  /\ vote' = op.record.vote
  /\ promised' = op.record.vote
  /\ UNCHANGED <<cache, last_purged, next, issued>>

Truncate(id) ==
  /\ id.index > committed /\ id.index < next
  /\ \E e \in issued : e.id = id
  /\ WriteSynced(TruncateRecord(id))
  /\ acked' = {e \in acked : e.id.index <= id.index}

FinishTruncate ==
  /\ Synced("Truncate")
  /\ truncate_cache(op.record.id.index)
  /\ next' = op.record.id.index
  /\ issued' = {e \in issued : e.id.index <= op.record.id.index}
  /\ UNCHANGED <<vote, last_purged, promised>>

Purge(id) ==
  /\ id.index > last_purged.index /\ id.index <= known.last.index
  /\ id = known.last \/ \E e \in issued : e.id = id
  /\ WriteSynced(PurgeRecord(id))
  /\ acked' = {e \in acked : e.id.index > id.index}

FinishPurge ==
  /\ Synced("Purge")
  /\ purge_cache(op.record.id.index)
  /\ last_purged' = op.record.id
  /\ next' = Greatest({next, op.record.id.index + 1})
  /\ issued' = {e \in issued : e.id.index > op.record.id.index}
  /\ UNCHANGED <<vote, promised>>

-----------------------------------------------------------------------------
(* try_get_log_entries: the entries that are not cached are inserted, then *)
(* every entry read is touched, both in index order.                       *)

Read(first, last) ==
  /\ Ready
  /\ LET hits == {i \in DOMAIN LogView : first <= i /\ i <= last}
     IN  op' = [kind |-> "read", touch |-> hits,
                load |-> {LogView[i] : i \in hits \ DOMAIN log_cache}]
  /\ UNCHANGED <<disk, vote, cache, pending_unsynced, last_purged, applied,
                 snapshot_meta, raft, ghosts>>

ReadStep ==
  /\ op.kind = "read"
  /\ \/ \E e \in op.load :
          /\ \A f \in op.load : e.id.index <= f.id.index
          /\ CacheInsert(e)
          /\ op' = [op EXCEPT !.load = @ \ {e}]
     \/ /\ op.load = {}
        /\ \E i \in op.touch :
             /\ \A j \in op.touch : i <= j
             /\ CacheTouch(i)
             /\ op' = [op EXCEPT !.touch = @ \ {i}]
     \/ /\ op.load = {} /\ op.touch = {}
        /\ op' = Idle
        /\ UNCHANGED cache
  /\ UNCHANGED <<disk, vote, pending_unsynced, last_purged, applied,
                 snapshot_meta, raft, ghosts>>

-----------------------------------------------------------------------------
(* apply, and the snapshots built from the state machine.                  *)

\* OpenRaft commits the next acknowledged entry.
Commit ==
  /\ Ready /\ committed + 1 < next
  /\ \E e \in acked : e.id.index = committed + 1
  /\ committed' = committed + 1
  /\ UNCHANGED <<disk, vote, cache, pending_unsynced, last_purged, applied,
                 snapshot_meta, op, next, handed, known, builder, ghosts>>

\* One entry of apply: last_applied is set before the state machine is
\* called; when the call fails, the error stops OpenRaft.
Apply(fails) ==
  /\ Ready /\ handed < committed
  /\ handed + 1 \in DOMAIN LogView
  /\ LET e == LogView[handed + 1]
     IN  /\ fails => IoErrors /\ e.payload = "normal"
         /\ last_applied' = e.id
         /\ last_membership' = IF e.payload = "membership" THEN e.id
                                ELSE last_membership
         /\ sm' = IF fails THEN sm ELSE e.id
  /\ handed' = handed + 1
  /\ op' = IF fails THEN Stopped ELSE Idle
  /\ UNCHANGED <<disk, vote, cache, pending_unsynced, last_purged,
                 snapshot_meta, next, committed, known, builder, ghosts>>

\* get_snapshot_builder.
GetSnapshotBuilder ==
  /\ Ready /\ builder = NoSnapshot /\ sm # NoId
  /\ Cardinality(files) < MaxSnapshots
  /\ known.last.index < last_applied.index
  /\ builder' = [last |-> last_applied, membership |-> last_membership,
                 data |-> sm]
  /\ UNCHANGED <<disk, vote, cache, pending_unsynced, last_purged, applied,
                 snapshot_meta, op, next, committed, handed, known, ghosts>>

\* build_snapshot: durably_replace writes the file.
BuildSnapshot ==
  /\ builder # NoSnapshot
  /\ files' = files \union {builder}
  /\ known' = builder
  /\ builder' = NoSnapshot
  /\ UNCHANGED <<wal, synced, torn, vote, cache, pending_unsynced,
                 last_purged, applied, snapshot_meta, op, next, committed,
                 handed, ghosts>>

-----------------------------------------------------------------------------
(* install_snapshot: the file, the state machine, the WAL marker, memory.  *)

InstallSnapshot(m) ==
  /\ Ready /\ Room /\ Cardinality(files) < MaxSnapshots
  /\ m.last.index > committed /\ m.last.index > handed
  /\ m.last.term <= vote
  /\ m.last.index < next => \E e \in issued : e.id = m.last
  /\ op' = [kind |-> "file", meta |-> m]
  /\ UNCHANGED <<disk, vote, cache, pending_unsynced, last_purged, applied,
                 snapshot_meta, raft, ghosts>>

WriteSnapshotFile ==
  /\ op.kind = "file"
  /\ files' = files \union {op.meta}
  /\ op' = [op EXCEPT !.kind = "restore"]
  /\ UNCHANGED <<wal, synced, torn, vote, cache, pending_unsynced,
                 last_purged, applied, snapshot_meta, raft, ghosts>>

RestoreStateMachine ==
  /\ op.kind = "restore"
  /\ sm' = op.meta.data
  /\ op' = [op EXCEPT !.kind = "marker"]
  /\ UNCHANGED <<disk, vote, cache, pending_unsynced, last_purged,
                 last_applied, last_membership, snapshot_meta, raft, ghosts>>

WriteMarker ==
  /\ op.kind = "marker"
  /\ wal' = Append(wal, SnapshotApplied(op.meta))
  /\ acked' = {e \in acked : e.id.index > op.meta.last.index}
  /\ op' = [op EXCEPT !.kind = "publish"]
  /\ UNCHANGED <<synced, torn, files, vote, cache, pending_unsynced,
                 last_purged, applied, snapshot_meta, raft, issued, promised,
                 removed>>

PublishSnapshot ==
  /\ op.kind = "publish"
  /\ synced' = Len(wal) /\ pending_unsynced' = 0
  /\ snapshot_meta' = op.meta
  /\ last_applied' = op.meta.last
  /\ last_membership' = op.meta.membership
  /\ next' = Greatest({next, op.meta.last.index + 1})
  /\ committed' = op.meta.last.index
  /\ handed' = op.meta.last.index
  /\ known' = op.meta
  /\ op' = Idle
  /\ UNCHANGED <<wal, torn, files, vote, cache, last_purged, sm, builder,
                 ghosts>>

\* A write, a sync or a restore fails: the operation returns the error with
\* memory as it is, and OpenRaft stops.
IoFails ==
  /\ IoErrors
  /\ op.kind \in {"append", "write", "file", "restore", "marker", "publish"}
  /\ op' = Stopped
  /\ UNCHANGED <<disk, vote, cache, pending_unsynced, last_purged, applied,
                 snapshot_meta, raft, ghosts>>

-----------------------------------------------------------------------------
(* Crash and recovery.                                                     *)

\* The durable records survive, and some of the others; the file may end in
\* a part of the first one that does not.
Crash ==
  /\ op # Down
  /\ \E n \in synced..Len(wal) :
       /\ wal' = SubSeq(wal, 1, n)
       /\ synced' = n
       /\ torn' \in {FALSE, TornTails /\ n < Len(wal)}
  /\ vote' = 0 /\ log_cache' = NoEntries /\ log_order' = <<>>
  /\ pending_unsynced' = 0
  /\ last_purged' = NoId /\ last_applied' = NoId /\ last_membership' = NoId
  /\ snapshot_meta' = NoSnapshot /\ sm' = NoId
  /\ next' = 1 /\ handed' = 0 /\ known' = NoSnapshot /\ builder' = NoSnapshot
  /\ op' = Down
  /\ UNCHANGED <<files, committed, ghosts>>

\* recover_with_sink opens the file and validate_wal_framing reads it.
BeginReplay ==
  /\ op = Down /\ ~torn
  /\ op' = [kind |-> "replay", at |-> 0]
  /\ UNCHANGED <<disk, vote, cache, pending_unsynced, last_purged, applied,
                 snapshot_meta, raft, ghosts>>

\* apply_wal_record, one arm per kind of record.
ReplayAppend(e) ==
  /\ last_applied' = e.id
  /\ last_membership' = IF e.payload = "membership" THEN e.id
                         ELSE last_membership
  /\ CacheInsert(e)
  /\ UNCHANGED <<vote, last_purged, snapshot_meta>>

\* Mutant of ReplayVote: the first vote of the file wins.
ReplayVote_KeepsFirst(v) ==
  /\ vote' = IF vote = 0 THEN v ELSE vote
  /\ UNCHANGED <<cache, last_purged, last_applied, last_membership,
                 snapshot_meta>>

ReplayVote(v) ==
  /\ vote' = v
  /\ UNCHANGED <<cache, last_purged, last_applied, last_membership,
                 snapshot_meta>>

ReplaySnapshot(m) ==
  /\ m \in files
  /\ last_applied' = m.last
  /\ last_membership' = m.membership
  /\ snapshot_meta' = m
  /\ UNCHANGED <<vote, cache, last_purged>>

ReplayTruncate(id) ==
  /\ truncate_cache(id.index)
  /\ UNCHANGED <<vote, last_purged, last_applied, last_membership,
                 snapshot_meta>>

ReplayPurge(id) ==
  /\ purge_cache(id.index)
  /\ last_purged' = id
  /\ UNCHANGED <<vote, last_applied, last_membership, snapshot_meta>>

ReplayRecord ==
  /\ op.kind = "replay" /\ op.at < Len(wal)
  /\ LET r == wal[op.at + 1]
     IN  \/ r.type = "AppendLog" /\ ReplayAppend(r.entry)
         \/ r.type = "Vote" /\ ReplayVote(r.vote)
         \/ r.type = "SnapshotApplied" /\ ReplaySnapshot(r.meta)
         \/ r.type = "Truncate" /\ ReplayTruncate(r.id)
         \/ r.type = "Purge" /\ ReplayPurge(r.id)
  /\ op' = [op EXCEPT !.at = @ + 1]
  /\ UNCHANGED <<disk, pending_unsynced, sm, raft, ghosts>>

\* OpenRaft starts on the recovered storage, from get_log_state,
\* applied_state and get_current_snapshot. A read may return what the file
\* still has.
FinishReplay ==
  /\ op.kind = "replay" /\ op.at = Len(wal)
  /\ issued' = {wal[k].entry : k \in {k \in DOMAIN wal : Stays(k, Len(wal))}}
  /\ next' = Greatest({last_log_id.index, last_purged.index,
                       get_current_snapshot.last.index}) + 1
  /\ handed' = last_applied.index
  /\ known' = get_current_snapshot
  /\ op' = Idle
  /\ UNCHANGED <<disk, vote, cache, pending_unsynced, last_purged, applied,
                 snapshot_meta, committed, builder, acked, promised, removed>>

\* recover fails on a torn record or on a marker without its file.
RecoveryFails ==
  \/ op = Down /\ torn
  \/ /\ op.kind = "replay" /\ op.at < Len(wal)
     /\ wal[op.at + 1].type = "SnapshotApplied"
     /\ wal[op.at + 1].meta \notin files

\* begin_storage then removes both directories of the group; the next
\* recovery finds no file and starts from an empty one.
RemoveGroupDirs ==
  /\ RecoveryFails
  /\ wal' = <<>> /\ synced' = 0 /\ torn' = FALSE /\ files' = {}
  /\ op' = [kind |-> "replay", at |-> 0]
  /\ vote' = 0 /\ log_cache' = NoEntries /\ log_order' = <<>>
  /\ pending_unsynced' = 0
  /\ last_purged' = NoId /\ last_applied' = NoId /\ last_membership' = NoId
  /\ snapshot_meta' = NoSnapshot /\ sm' = NoId
  /\ removed' = TRUE
  /\ UNCHANGED <<raft, acked, issued, promised>>

-----------------------------------------------------------------------------
Batches == UNION {[1..n -> Entries] : n \in 1..MaxBatch}

\* A snapshot a leader may send: its state is the one its label names.
Received == {[last |-> id, membership |-> NoId, data |-> id] : id \in LogIds}

LogStep ==
  \/ \E batch \in Batches : BeginAppend(batch)
  \/ AppendEntry \/ FinishAppend
  \/ \E v \in 1..MaxTerm : SaveVote(v)
  \/ FinishVote
  \/ \E id \in LogIds : Truncate(id) \/ Purge(id)
  \/ FinishTruncate \/ FinishPurge
  \/ \E first, last \in 1..MaxIndex : first <= last /\ Read(first, last)
  \/ ReadStep

SnapshotStep ==
  \/ Commit
  \/ \E fails \in BOOLEAN : Apply(fails)
  \/ GetSnapshotBuilder \/ BuildSnapshot
  \/ \E m \in Received : InstallSnapshot(m)
  \/ WriteSnapshotFile \/ RestoreStateMachine
  \/ WriteMarker \/ PublishSnapshot

CrashStep ==
  \/ IoFails \/ Crash
  \/ BeginReplay \/ ReplayRecord \/ FinishReplay \/ RemoveGroupDirs

Next == LogStep \/ SnapshotStep \/ CrashStep

Spec == Init /\ [][Next]_vars

-----------------------------------------------------------------------------
(* Properties.                                                             *)

Ops ==
  [kind : {"idle", "stopped", "down"}]
    \union [kind : {"append"}, batch : Seq(Entries), done : Nat]
    \union [kind : {"write"}, record : Records]
    \union [kind : {"read"}, load : SUBSET Entries, touch : SUBSET (1..MaxIndex)]
    \union [kind : {"file", "restore", "marker", "publish"}, meta : Snapshots]
    \union [kind : {"replay"}, at : Nat]

\* Every variable keeps its type: what the file holds can be scanned, and the
\* cache holds each entry under its own index.
TypeOK ==
  /\ wal \in Seq(Records) /\ synced \in 0..Len(wal)
  /\ torn \in BOOLEAN /\ files \subseteq Snapshots
  /\ vote \in 0..MaxTerm /\ promised \in 0..MaxTerm
  /\ DOMAIN log_cache \subseteq 1..MaxIndex
  /\ \A i \in DOMAIN log_cache : log_cache[i] \in Entries
                                 /\ log_cache[i].id.index = i
  /\ log_order \in Seq(1..MaxIndex)
  /\ pending_unsynced \in Nat
  /\ {last_purged, last_applied, last_membership, sm} \subseteq OptId
  /\ {snapshot_meta, known, builder} \subseteq Snapshots
  /\ op \in Ops
  /\ next \in 1..(MaxIndex + 1)
  /\ committed \in 0..MaxIndex /\ handed \in 0..MaxIndex
  /\ acked \subseteq Entries /\ issued \subseteq Entries /\ removed \in BOOLEAN

\* log_order lists exactly the cached indexes, each once, and the cache fits.
\* insert_entry's eviction loop relies on it: an excess entry that log_order
\* does not list would leave the loop popping an empty queue for ever.
OrderListsCache ==
  /\ {log_order[k] : k \in DOMAIN log_order} = DOMAIN log_cache
  /\ \A j, k \in DOMAIN log_order : j # k => log_order[j] # log_order[k]
  /\ Cardinality(DOMAIN log_cache) <= log_cache_size

\* The log can be read: no operation holds it, or recovery has just ended.
Readable == Ready \/ op = [kind |-> "replay", at |-> Len(wal)]

AckedIsIn(log) ==
  \A e \in acked : e.id.index \in DOMAIN log /\ log[e.id.index] = e

\* While the group keeps its directories, an entry whose append was
\* acknowledged, and that no truncate, purge, snapshot or overwrite has
\* removed since, is returned by try_get_log_entries with its own term and
\* payload, through every cache eviction, failed write, crash and recovery.
AckedIsReadable == Readable /\ ~removed => AckedIsIn(LogView)

\* "After a crash WalRaftStorage::recover restores the log, the vote and the
\* snapshots" (raft-guide.md:117): the same, whatever the crash left in the
\* file.
RecoveryRestores == Readable => AckedIsIn(LogView)

\* try_get_log_entries never returns an entry that an acknowledged truncate,
\* purge or overwrite removed: neither the cache nor the replayed file brings
\* it back.
NothingIsResurrected ==
  Readable => \A i \in DOMAIN LogView : LogView[i] \in issued

\* While the group keeps its directories, a vote that save_vote acknowledged is
\* never forgotten: the recovered vote is at least the promised one.
VoteIsKept == Readable /\ ~removed => promised <= vote

\* A SnapshotApplied record, in the part of the file any crash may keep, names
\* a snapshot file that exists: recovery never fails for want of it.
CheckpointHasFile ==
  \A k \in DOMAIN wal :
    wal[k].type = "SnapshotApplied" => wal[k].meta \in files

\* Between two operations every written record is durable, so an acknowledged
\* one is: each operation that writes ends in a sync, whatever fsync_interval
\* is.
IdleIsDurable == Ready => synced = Len(wal) /\ pending_unsynced = 0

\* The collections agree: types, the cache with its order, and the file's
\* snapshot records with the snapshot files.
Consistent == TypeOK /\ OrderListsCache /\ CheckpointHasFile

=============================================================================
