-------------------------- MODULE WalStorageProofs --------------------------
(***************************************************************************)
(* WalRaftStorage for any bounds, cache size, fsync interval and payloads, *)
(* through failing writes, torn tails and crashes between any two steps:   *)
(* what was acknowledged is read back, what was removed stays removed, and *)
(* the vote and the snapshots are kept.                                    *)
(***************************************************************************)
EXTENDS WalStorage, WellFoundedInduction, TLAPS

\* A leaf that names no prover is given thirty seconds of SMT.
USE SMTT(30)

-----------------------------------------------------------------------------
(* The invariant.                                                          *)

\* Stays and Uncovered, for any records w, so that a step's old and new file
\* can be compared: the file's first n records hold e, and a scan reads it.
Kept(w, k, n) ==
  /\ k \in 1..n /\ w[k].type = "AppendLog"
  /\ \A j \in (k + 1)..n : ~Removes(w[j], w[k].entry.id.index)
Has(w, e, n) == \E k \in 1..n : Kept(w, k, n) /\ w[k].entry = e
Reads(w, e, n) ==
  \E k \in 1..n : /\ Kept(w, k, n) /\ w[k].entry = e
                  /\ \A j \in (k + 1)..n : ~Covers(w[j], e.id.index)

\* What any crash may leave of the file holds nothing but issued entries, and
\* all of the acknowledged ones as long as the directories are kept.
IssuedInv == \A n \in synced..Len(wal) : \A k \in 1..n : Kept(wal, k, n) => wal[k].entry \in issued
AckedInv  == ~removed => \A n \in synced..Len(wal) : \A e \in acked : Reads(wal, e, n)

\* Votes are written in ascending order, and the last one promised is durable.
IsVote(w, k) == w[k].type = "Vote"
VotesAscend  ==
  \A j, k \in 1..Len(wal) : j < k /\ IsVote(wal, j) /\ IsVote(wal, k) => wal[j].vote < wal[k].vote
PromiseKept  ==
  ~removed => promised = 0 \/ \E k \in 1..synced : IsVote(wal, k) /\ wal[k].vote >= promised

DiskInv ==
  /\ wal \in Seq(Records) /\ synced \in 0..Len(wal)
  /\ acked \subseteq Entries /\ promised \in Nat
  /\ IssuedInv /\ AckedInv /\ VotesAscend /\ PromiseKept /\ CheckpointHasFile

\* A cache, and a vote, that the file's first n records account for.
IsCache(c)      == c = [i \in DOMAIN c |-> c[i]] /\ DOMAIN c \subseteq 1..MaxIndex
CacheOf(c, w, n) == \A i \in DOMAIN c : c[i].id.index = i /\ Has(w, c[i], n)
VoteOf(v, w, n) == \A k \in 1..n : IsVote(w, k) => w[k].vote <= v

\* How much of the file memory reflects: an operation that writes its record
\* changes memory afterwards, and recovery goes record by record.
Reflected ==
  IF op.kind = "replay" THEN op.at ELSE IF op.kind = "write" THEN Len(wal) - 1 ELSE Len(wal)

MemoryTypes ==
  /\ IsCache(log_cache) /\ vote \in Nat /\ next \in Nat
  /\ last_purged \in OptId /\ snapshot_meta \in Snapshots
MemoryAgrees ==
  /\ op.kind \notin {"stopped", "down"} =>
       CacheOf(log_cache, wal, Reflected) /\ VoteOf(vote, wal, Reflected)
  /\ op.kind = "down" => DOMAIN log_cache = {}

AppendOp  == [kind : {"append"}, batch : Seq(Entries), done : Nat]
WriteOp   == [kind : {"write"}, record : Records]
ReadOp    == [kind : {"read"}, load : SUBSET Entries, touch : SUBSET (1..MaxIndex)]
InstallOp == [kind : {"file", "restore", "marker", "publish"}, meta : Snapshots]
ReplayOp  == [kind : {"replay"}, at : Nat]

Durable == synced = Len(wal) /\ pending_unsynced = 0

\* What each operation has done so far.
OpInv ==
  /\ op.kind \in {"idle", "stopped", "down", "append", "write", "read", "file", "restore", "marker",
                  "publish", "replay"}
  /\ op.kind \notin {"append", "write", "publish", "stopped"} => Durable
  /\ op.kind = "append" =>
       /\ op \in AppendOp /\ op.batch # <<>> /\ op.done <= Len(op.batch)
       /\ \A j, k \in 1..Len(op.batch) : j # k => op.batch[j].id.index # op.batch[k].id.index
       /\ \A k \in 1..op.done : Reads(wal, op.batch[k], Len(wal))
  /\ op.kind = "write" =>
       op \in WriteOp /\ Len(wal) > 0 /\ synced = Len(wal) - 1 /\ op.record = wal[Len(wal)]
  /\ op.kind = "read" => op \in ReadOp /\ \A e \in op.load : Has(wal, e, Len(wal))
  /\ op.kind = "file" => op \in InstallOp
  /\ op.kind \in {"restore", "marker", "publish"} => op \in InstallOp /\ op.meta \in files
  /\ op.kind = "replay" => op \in ReplayOp /\ op.at <= Len(wal)

WalInv == DiskInv /\ MemoryTypes /\ MemoryAgrees /\ OpInv

-----------------------------------------------------------------------------
(* What a scan of the file finds.                                          *)

\* What a record is made of.
LEMMA RecordFacts ==
  ASSUME NEW r \in Records
  PROVE  /\ r.type = "AppendLog" => r.entry \in Entries
         /\ r.type = "Vote" => r.vote \in Nat
         /\ r.type = "SnapshotApplied" => r.meta \in Snapshots
         /\ r.type = "Truncate" => r.id \in LogIds
         /\ r.type = "Purge" => r.id \in LogIds
<1>1. CASE \E e \in Entries : r = AppendLog(e)
  BY <1>1 DEF AppendLog
<1>2. CASE \E v \in 1..MaxTerm : r = VoteRecord(v)
  BY <1>2, WalAssumption DEF VoteRecord
<1>3. CASE \E m \in Snapshots : r = SnapshotApplied(m)
  BY <1>3 DEF SnapshotApplied
<1>4. CASE \E id \in LogIds : r = TruncateRecord(id)
  BY <1>4 DEF TruncateRecord
<1>5. CASE \E id \in LogIds : r = PurgeRecord(id)
  BY <1>5 DEF PurgeRecord
<1> QED BY <1>1, <1>2, <1>3, <1>4, <1>5, Zenon DEF Records

\* The five records are records.
LEMMA RecordsAre ==
  /\ \A e \in Entries : AppendLog(e) \in Records
  /\ \A v \in 1..MaxTerm : VoteRecord(v) \in Records
  /\ \A m \in Snapshots : SnapshotApplied(m) \in Records
  /\ \A id \in LogIds : TruncateRecord(id) \in Records /\ PurgeRecord(id) \in Records
BY ZenonT(30) DEF Records

\* Log ids, entries and snapshots have their indexes in range.
LEMMA IndexFacts ==
  /\ \A id \in LogIds : id.index \in Nat /\ id.index \in 1..MaxIndex
  /\ \A id \in OptId : id.index \in Nat
  /\ \A e \in Entries : e.id.index \in Nat /\ e.id.index \in 1..MaxIndex
  /\ \A m \in Snapshots : m.last \in OptId /\ m.last.index \in Nat
<1>1. \A id \in LogIds : id.index \in Nat /\ id.index \in 1..MaxIndex
  BY WalAssumption DEF LogIds
<1>2. \A id \in OptId : id.index \in Nat
  BY <1>1 DEF OptId, NoId
<1>3. \A e \in Entries : e.id \in LogIds
  BY Zenon DEF Entries
<1>4. \A m \in Snapshots : m.last \in OptId
  BY Zenon DEF Snapshots
<1> QED BY <1>1, <1>2, <1>3, <1>4, Zenon

\* Removes, kind by kind.
LEMMA RemovesFacts ==
  ASSUME NEW r, NEW i
  PROVE  /\ r.type = "AppendLog" => (Removes(r, i) <=> i = r.entry.id.index)
         /\ r.type = "Truncate" => (Removes(r, i) <=> i > r.id.index)
         /\ r.type = "Purge" => (Removes(r, i) <=> i <= r.id.index)
         /\ r.type = "Vote" => ~Removes(r, i)
         /\ r.type = "SnapshotApplied" => ~Removes(r, i)
<1>1. CASE r.type = "AppendLog" BY <1>1, Zenon DEF Removes
<1>2. CASE r.type = "Truncate" BY <1>2, Zenon DEF Removes
<1>3. CASE r.type = "Purge" BY <1>3, Zenon DEF Removes
<1>4. CASE r.type = "Vote" BY <1>4, Zenon DEF Removes
<1>5. CASE r.type = "SnapshotApplied" BY <1>5, Zenon DEF Removes
<1> QED BY <1>1, <1>2, <1>3, <1>4, <1>5, Zenon

\* Files that agree on their first n records are scanned alike that far.
LEMMA SameScan ==
  ASSUME NEW w, NEW v, NEW n \in Nat, \A k \in 1..n : w[k] = v[k]
  PROVE  /\ \A k : Kept(w, k, n) => Kept(v, k, n)
         /\ \A e : Has(w, e, n) => Has(v, e, n)
         /\ \A e : Reads(w, e, n) => Reads(v, e, n)
<1>1. \A k : Kept(w, k, n) => Kept(v, k, n)
  BY DEF Kept
<1>2. \A e : Has(w, e, n) => Has(v, e, n)
  BY <1>1, Zenon DEF Has
<1>3. ASSUME NEW e, Reads(w, e, n) PROVE Reads(v, e, n)
  <2>1. PICK k \in 1..n : /\ Kept(w, k, n) /\ w[k].entry = e
                          /\ \A j \in (k + 1)..n : ~Covers(w[j], e.id.index)
    BY <1>3, Zenon DEF Reads
  <2>2. \A j \in (k + 1)..n : w[j] = v[j]
    OBVIOUS
  <2> QED BY <1>1, <2>1, <2>2, Zenon DEF Reads
<1> QED BY <1>1, <1>2, <1>3, Zenon

\* A file holds at most one entry for an index.
LEMMA OneEntry ==
  ASSUME NEW w, NEW n \in Nat, NEW e, NEW f,
         Has(w, e, n), Has(w, f, n), e.id.index = f.id.index
  PROVE  e = f
<1>1. PICK j \in 1..n : Kept(w, j, n) /\ w[j].entry = e
  BY Zenon DEF Has
<1>2. PICK k \in 1..n : Kept(w, k, n) /\ w[k].entry = f
  BY Zenon DEF Has
<1>3. Removes(w[k], e.id.index) /\ Removes(w[j], f.id.index)
  BY <1>1, <1>2, RemovesFacts, Zenon DEF Kept
<1>4. ~(j < k)
  BY <1>1, <1>2, <1>3 DEF Kept
<1>5. ~(k < j)
  BY <1>1, <1>2, <1>3 DEF Kept
<1>6. j = k
  BY <1>4, <1>5
<1> QED BY <1>1, <1>2, <1>6, Zenon

\* What one more record does to what the file holds.
LEMMA NextRecord ==
  ASSUME NEW w, NEW n \in Nat
  PROVE  /\ \A e : Has(w, e, n) /\ ~Removes(w[n + 1], e.id.index) => Has(w, e, n + 1)
         /\ \A e : Reads(w, e, n) /\ ~Removes(w[n + 1], e.id.index)
                     /\ ~Covers(w[n + 1], e.id.index) => Reads(w, e, n + 1)
         /\ \A k : Kept(w, k, n + 1) =>
              k = n + 1 \/ (Kept(w, k, n) /\ ~Removes(w[n + 1], w[k].entry.id.index))
<1>1. ASSUME NEW e, NEW k \in 1..n, Kept(w, k, n), w[k].entry = e, ~Removes(w[n + 1], e.id.index)
      PROVE  Kept(w, k, n + 1)
  <2>1. \A j \in (k + 1)..(n + 1) : j \in (k + 1)..n \/ j = n + 1
    OBVIOUS
  <2> QED BY <1>1, <2>1 DEF Kept
<1>2. \A e : Has(w, e, n) /\ ~Removes(w[n + 1], e.id.index) => Has(w, e, n + 1)
  BY <1>1 DEF Has
<1>3. ASSUME NEW e, Reads(w, e, n), ~Removes(w[n + 1], e.id.index), ~Covers(w[n + 1], e.id.index)
      PROVE  Reads(w, e, n + 1)
  <2>1. PICK k \in 1..n : /\ Kept(w, k, n) /\ w[k].entry = e
                          /\ \A j \in (k + 1)..n : ~Covers(w[j], e.id.index)
    BY <1>3, Zenon DEF Reads
  <2>2. \A j \in (k + 1)..(n + 1) : j \in (k + 1)..n \/ j = n + 1
    OBVIOUS
  <2>3. Kept(w, k, n + 1) /\ k \in 1..(n + 1)
    BY <1>1, <1>3, <2>1
  <2>4. \A j \in (k + 1)..(n + 1) : ~Covers(w[j], e.id.index)
    BY <1>3, <2>1, <2>2, Zenon
  <2> QED BY <2>1, <2>3, <2>4, Zenon DEF Reads
<1>4. ASSUME NEW k, Kept(w, k, n + 1), k # n + 1
      PROVE  Kept(w, k, n) /\ ~Removes(w[n + 1], w[k].entry.id.index)
  BY <1>4 DEF Kept
<1> QED BY <1>2, <1>3, <1>4, Zenon

\* An entry just appended is read, and what is read is there.
LEMMA NewEntry ==
  ASSUME NEW w, NEW n \in Nat, NEW e, w[n + 1] = AppendLog(e)
  PROVE  Reads(w, e, n + 1)
<1>1. w[n + 1].type = "AppendLog" /\ w[n + 1].entry = e
  BY DEF AppendLog
<1>2. \A j \in (n + 1 + 1)..(n + 1) : FALSE
  OBVIOUS
<1>3. Kept(w, n + 1, n + 1)
  BY <1>1, <1>2 DEF Kept
<1> QED BY <1>1, <1>2, <1>3 DEF Reads

LEMMA ReadsHas ==
  ASSUME NEW w, NEW n, NEW e, Reads(w, e, n)
  PROVE  Has(w, e, n)
BY Zenon DEF Reads, Has

-----------------------------------------------------------------------------
(* The cache.                                                              *)

\* insert_entry puts the entry and keeps or evicts the others.
LEMMA InsertFacts ==
  ASSUME NEW e \in Entries, IsCache(log_cache), CacheInsert(e)
  PROVE  /\ IsCache(log_cache')
         /\ \A i \in DOMAIN log_cache' :
              \/ i = e.id.index /\ log_cache'[i] = e
              \/ i # e.id.index /\ i \in DOMAIN log_cache /\ log_cache'[i] = log_cache[i]
<1>1. PICK evicted : log_cache' = [i \in DOMAIN Put(log_cache, e) \ evicted |-> Put(log_cache, e)[i]]
  BY ZenonT(30) DEF CacheInsert
<1>2. /\ DOMAIN Put(log_cache, e) = DOMAIN log_cache \union {e.id.index}
      /\ \A i \in DOMAIN log_cache \union {e.id.index} :
           Put(log_cache, e)[i] = IF i = e.id.index THEN e ELSE log_cache[i]
  BY Zenon DEF Put
<1>3. e.id.index \in 1..MaxIndex
  BY IndexFacts, Zenon
<1>4. DOMAIN log_cache' \subseteq 1..MaxIndex
  BY <1>1, <1>2, <1>3, Zenon DEF IsCache
<1>5. log_cache' = [i \in DOMAIN log_cache' |-> log_cache'[i]]
  BY <1>1, Zenon
<1>6. IsCache(log_cache')
  BY <1>4, <1>5, Zenon DEF IsCache
<1>7. \A i \in DOMAIN log_cache' :
        \/ i = e.id.index /\ log_cache'[i] = e
        \/ i # e.id.index /\ i \in DOMAIN log_cache /\ log_cache'[i] = log_cache[i]
  BY <1>1, <1>2, Zenon
<1> QED BY <1>6, <1>7, Zenon

\* truncate_cache and purge_cache keep the entries on one side of an index.
LEMMA CutFacts ==
  ASSUME NEW i \in Nat, IsCache(log_cache)
  PROVE  /\ truncate_cache(i) =>
              /\ IsCache(log_cache')
              /\ \A j \in DOMAIN log_cache' : j \in DOMAIN log_cache /\ j <= i /\ log_cache'[j] = log_cache[j]
         /\ purge_cache(i) =>
              /\ IsCache(log_cache')
              /\ \A j \in DOMAIN log_cache' : j \in DOMAIN log_cache /\ j > i /\ log_cache'[j] = log_cache[j]
<1>1. ASSUME truncate_cache(i)
      PROVE  /\ IsCache(log_cache')
             /\ \A j \in DOMAIN log_cache' : j \in DOMAIN log_cache /\ j <= i /\ log_cache'[j] = log_cache[j]
  BY <1>1, Zenon DEF truncate_cache, AtOrBelow, IsCache
<1>2. ASSUME purge_cache(i)
      PROVE  /\ IsCache(log_cache')
             /\ \A j \in DOMAIN log_cache' : j \in DOMAIN log_cache /\ j > i /\ log_cache'[j] = log_cache[j]
  BY <1>2, Zenon DEF purge_cache, Above, IsCache
<1> QED BY <1>1, <1>2, Zenon

\* A cache d that keeps entries of c which record n + 1 does not remove, and
\* holds others that the file has then, agrees with n + 1 records.
LEMMA CacheAdvances ==
  ASSUME NEW c, NEW d, NEW w, NEW n \in Nat, CacheOf(c, w, n),
         \A i \in DOMAIN d :
           \/ i \in DOMAIN c /\ d[i] = c[i] /\ ~Removes(w[n + 1], i)
           \/ d[i].id.index = i /\ Has(w, d[i], n + 1)
  PROVE  CacheOf(d, w, n + 1)
<1> SUFFICES ASSUME NEW i \in DOMAIN d
             PROVE  d[i].id.index = i /\ Has(w, d[i], n + 1)
  BY Zenon DEF CacheOf
<1>1. CASE i \in DOMAIN c /\ d[i] = c[i] /\ ~Removes(w[n + 1], i)
  <2>1. c[i].id.index = i /\ Has(w, c[i], n)
    BY <1>1, Zenon DEF CacheOf
  <2> QED BY <1>1, <2>1, NextRecord, Zenon
<1> QED BY <1>1, Zenon

\* The same when the file stays as it is, or grows.
LEMMA CacheStays ==
  ASSUME NEW c, NEW d, NEW w, NEW v, NEW n \in Nat, CacheOf(c, w, n),
         \A k \in 1..n : w[k] = v[k],
         \A i \in DOMAIN d :
           \/ i \in DOMAIN c /\ d[i] = c[i]
           \/ d[i].id.index = i /\ Has(v, d[i], n)
  PROVE  CacheOf(d, v, n)
<1> SUFFICES ASSUME NEW i \in DOMAIN d
             PROVE  d[i].id.index = i /\ Has(v, d[i], n)
  BY Zenon DEF CacheOf
<1>1. CASE i \in DOMAIN c /\ d[i] = c[i]
  <2>1. c[i].id.index = i /\ Has(w, c[i], n)
    BY <1>1, Zenon DEF CacheOf
  <2> QED BY <1>1, <2>1, SameScan, ZenonT(30)
<1> QED BY <1>1, Zenon

\* The vote over one more record, and over the same records of another file.
LEMMA VoteAdvances ==
  ASSUME NEW v \in Nat, NEW u \in Nat, NEW w, NEW n \in Nat, VoteOf(v, w, n), v <= u,
         IsVote(w, n + 1) => w[n + 1].vote = u,
         \A k \in 1..n : IsVote(w, k) => w[k].vote \in Nat
  PROVE  VoteOf(u, w, n + 1)
<1> SUFFICES ASSUME NEW k \in 1..(n + 1), IsVote(w, k)
             PROVE  w[k].vote <= u
  BY Zenon DEF VoteOf
<1>1. CASE k = n + 1 BY <1>1
<1>2. CASE k \in 1..n BY <1>2 DEF VoteOf
<1> QED BY <1>1, <1>2

LEMMA VoteStays ==
  ASSUME NEW v, NEW w, NEW x, NEW n \in Nat, VoteOf(v, w, n), \A k \in 1..n : w[k] = x[k]
  PROVE  VoteOf(v, x, n)
BY Zenon DEF VoteOf, IsVote

\* Of a bounded set of numbers, Greatest picks the greatest.
LEMMA LeastExists ==
  ASSUME NEW S \in SUBSET Nat, S # {}
  PROVE  \E i \in S : \A j \in S : i <= j
<1> DEFINE below == {p \in Nat \X Nat : p[1] < p[2]}
<1>1. IsWellFoundedOn(below, Nat)
  BY NatLessThanWellFounded, Zenon DEF OpToRel
<1> HIDE DEF below
<1>2. PICK i \in S : \A j \in S : ~(<<j, i>> \in below)
  BY <1>1, WFMin, Zenon
<1>3. \A j \in Nat : j < i => <<j, i>> \in below
  BY Zenon DEF below
<1>4. \A j \in S : ~(j < i)
  BY <1>2, <1>3, Zenon
<1> QED BY <1>4

LEMMA GreatestFacts ==
  ASSUME NEW b \in Nat, NEW S \in SUBSET (0..b)
  PROVE  /\ Greatest(S) \in Nat
         /\ S # {} /\ 0 \notin S => Greatest(S) \in S
<1> DEFINE T == {b - x : x \in S \union {0}}
<1>1. T \in SUBSET Nat /\ T # {}
  OBVIOUS
<1>0. \A y \in T : \E m \in S \union {0} : y = b - m
  BY Zenon
<1>4. \A x \in S \union {0} : b - x \in T
  BY Zenon
<1> HIDE DEF T
<1>2. PICK y \in T : \A z \in T : y <= z
  BY <1>1, LeastExists, ZenonT(30)
<1>3. PICK m \in S \union {0} : y = b - m
  BY <1>0, Zenon
<1>5. \A x \in S : x <= m
  BY <1>2, <1>3, <1>4
<1>6. Greatest(S) \in S \union {0} /\ \A x \in S : x <= Greatest(S)
  BY <1>5, ZenonT(30) DEF Greatest
<1> HIDE DEF Greatest
<1>7. 0 \in Nat /\ \A x \in S : x \in Nat
  OBVIOUS
<1>8. Greatest(S) \in Nat
  BY <1>6, <1>7, ZenonT(30)
<1>9. ASSUME NEW x \in S, 0 \notin S PROVE Greatest(S) # 0
  BY <1>6, <1>7, <1>8, <1>9
<1> QED BY <1>6, <1>8, <1>9, ZenonT(30)

LEMMA GreaterOfTwo ==
  ASSUME NEW i \in Nat, NEW j \in Nat
  PROVE  Greatest({i, j}) \in Nat
<1>1. {i, j} \in SUBSET (0..(i + j)) /\ i + j \in Nat
  OBVIOUS
<1> QED BY <1>1, GreatestFacts, ZenonT(30)

LEMMA GreatestOfThree ==
  ASSUME NEW i \in Nat, NEW j \in Nat, NEW k \in Nat
  PROVE  Greatest({i, j, k}) \in Nat
<1>1. {i, j, k} \in SUBSET (0..(i + j + k)) /\ i + j + k \in Nat
  OBVIOUS
<1> QED BY <1>1, GreatestFacts, ZenonT(30)

-----------------------------------------------------------------------------
(* What a step may do to the file.                                         *)

\* A vote in the file is a number.
LEMMA VotesAreNumbers ==
  ASSUME NEW w \in Seq(Records)
  PROVE  \A k \in 1..Len(w) : /\ w[k] \in Records
                              /\ IsVote(w, k) => w[k].vote \in Nat
BY RecordFacts DEF IsVote

\* A record is written: the entries acknowledged so far are not those it takes
\* away, a vote is above the others, and a snapshot's file is there.
LEMMA GrowDisk ==
  ASSUME DiskInv, NEW r \in Records, wal' = Append(wal, r),
         synced' \in {synced, Len(wal) + 1}, removed' = removed, promised' = promised,
         files \subseteq files', issued \subseteq issued',
         acked' \subseteq acked,
         \A e \in acked' : ~Removes(r, e.id.index) /\ ~Covers(r, e.id.index),
         r.type = "AppendLog" => r.entry \in issued',
         r.type = "Vote" => \A k \in 1..Len(wal) : IsVote(wal, k) => wal[k].vote < r.vote,
         r.type = "SnapshotApplied" => r.meta \in files'
  PROVE  DiskInv'
<1> DEFINE n == Len(wal)
<1>1. n \in Nat /\ synced \in 0..n /\ wal \in Seq(Records)
  BY DEF DiskInv
<1>2. /\ wal' \in Seq(Records) /\ Len(wal') = n + 1 /\ wal'[n + 1] = r
      /\ \A k \in 1..n : wal'[k] = wal[k]
  BY <1>1
<1> HIDE DEF n
<1>3. synced' \in 0..Len(wal') /\ synced' >= synced
  BY <1>1, <1>2 DEF n
<1>4. acked' \subseteq Entries /\ promised' \in Nat
  BY Zenon DEF DiskInv
<1>5. \A m \in synced'..Len(wal') : m \in synced..n \/ m = n + 1
  BY <1>1, <1>2, <1>3
<1>6. \A m \in synced..n : m \in Nat /\ m <= n /\ \A k \in 1..m : wal'[k] = wal[k] /\ wal[k] = wal'[k]
  BY <1>1, <1>2
<1>n. n \in synced..n
  BY <1>1
<1>7. \A m \in synced..n : \A k \in 1..m : Kept(wal, k, m) => wal[k].entry \in issued
  BY Zenon DEF DiskInv, IssuedInv, n
<1>8. IssuedInv'
  <2> SUFFICES ASSUME NEW m \in synced'..Len(wal'), NEW k \in 1..m, Kept(wal', k, m)
               PROVE  wal'[k].entry \in issued'
    BY Zenon DEF IssuedInv
  <2>1. CASE m \in synced..n
    <3>1. Kept(wal, k, m)
      BY <2>1, <1>6, SameScan, ZenonT(30)
    <3> QED BY <3>1, <1>6, <1>7, <2>1, Zenon
  <2>2. CASE m = n + 1
    <3>1. CASE k = n + 1
      BY <3>1, <2>2, <1>2, Zenon DEF Kept
    <3>2. CASE k # n + 1
      <4>0. k \in 1..n
        BY <1>1, <2>2, <3>2
      <4>1. Kept(wal', k, n)
        BY <1>1, <2>2, <3>2, NextRecord, ZenonT(30)
      <4>2. Kept(wal, k, n)
        BY <4>1, <1>1, <1>2, SameScan, ZenonT(30)
      <4> QED BY <4>0, <4>2, <1>2, <1>7, <1>n, Zenon
    <3> QED BY <3>1, <3>2, Zenon
  <2> QED BY <2>1, <2>2, <1>5, Zenon
<1>9. AckedInv'
  <2> SUFFICES ASSUME ~removed', NEW m \in synced'..Len(wal'), NEW e \in acked'
               PROVE  Reads(wal', e, m)
    BY Zenon DEF AckedInv
  <2>1. \A i \in synced..n : Reads(wal, e, i)
    BY Zenon DEF DiskInv, AckedInv, n
  <2>2. \A i \in synced..n : Reads(wal', e, i)
    BY <2>1, <1>6, SameScan, ZenonT(30)
  <2>3. CASE m = n + 1
    <3>1. Reads(wal', e, n)
      BY <2>2, <1>n, Zenon
    <3> QED BY <3>1, <2>3, <1>1, <1>2, NextRecord, ZenonT(30)
  <2> QED BY <2>2, <2>3, <1>5, Zenon
<1>10. VotesAscend'
  <2> SUFFICES ASSUME NEW j \in 1..Len(wal'), NEW k \in 1..Len(wal'), j < k,
                      IsVote(wal', j), IsVote(wal', k)
               PROVE  wal'[j].vote < wal'[k].vote
    BY Zenon DEF VotesAscend
  <2>1. j \in 1..n /\ IsVote(wal, j) /\ wal'[j] = wal[j]
    BY <1>1, <1>2 DEF IsVote
  <2>2. CASE k = n + 1
    BY <2>1, <2>2, <1>2, Zenon DEF IsVote, n
  <2>3. CASE k \in 1..n
    <3>1. IsVote(wal, k) /\ wal'[k] = wal[k]
      BY <2>3, <1>2, Zenon DEF IsVote
    <3> QED BY <2>1, <3>1, <2>3, Zenon DEF DiskInv, VotesAscend, n
  <2> QED BY <2>2, <2>3, <1>1, <1>2
<1>11. PromiseKept'
  <2> SUFFICES ASSUME ~removed', promised' # 0
               PROVE  \E k \in 1..synced' : IsVote(wal', k) /\ wal'[k].vote >= promised'
    BY ZenonT(30) DEF PromiseKept
  <2>1. PICK k \in 1..synced : IsVote(wal, k) /\ wal[k].vote >= promised
    BY ZenonT(30) DEF DiskInv, PromiseKept
  <2>2. k \in 1..synced' /\ k \in 1..n
    BY <1>1, <1>3
  <2>3. wal'[k] = wal[k]
    BY <1>2, <2>2, ZenonT(30)
  <2>4. IsVote(wal', k)
    BY <2>1, <2>3, Zenon DEF IsVote
  <2> QED BY <2>1, <2>2, <2>3, <2>4, ZenonT(30)
<1>12. CheckpointHasFile'
  <2> SUFFICES ASSUME NEW k \in 1..Len(wal'), wal'[k].type = "SnapshotApplied"
               PROVE  wal'[k].meta \in files'
    BY <1>2 DEF CheckpointHasFile
  <2>1. CASE k = n + 1
    BY <2>1, <1>2, Zenon
  <2>2. CASE k \in 1..n
    BY <2>2, <1>1, <1>2 DEF DiskInv, CheckpointHasFile, n
  <2> QED BY <2>1, <2>2, <1>1, <1>2
<1> QED BY <1>2, <1>3, <1>4, <1>8, <1>9, <1>10, <1>11, <1>12, Zenon DEF DiskInv

\* The file is synced: what is acknowledged now is read in it, what may be
\* returned includes all it holds, and the vote promised is one it has.
LEMMA SettleDisk ==
  ASSUME DiskInv, wal' = wal, synced' = Len(wal), removed' = removed, files \subseteq files',
         acked' \subseteq Entries,
         \A k \in 1..Len(wal) : Kept(wal, k, Len(wal)) => wal[k].entry \in issued',
         ~removed => \A e \in acked' : Reads(wal, e, Len(wal)),
         promised' \in Nat,
         promised' = promised \/ \E k \in 1..Len(wal) : IsVote(wal, k) /\ wal[k].vote >= promised'
  PROVE  DiskInv'
<1>1. Len(wal) \in Nat /\ synced \in 0..Len(wal) /\ wal \in Seq(Records)
  BY DEF DiskInv
<1>2. \A m \in synced'..Len(wal') : m = Len(wal)
  BY <1>1
<1>3. IssuedInv'
  BY <1>2, Zenon DEF IssuedInv
<1>4. AckedInv'
  BY <1>2, Zenon DEF AckedInv
<1>5. PromiseKept'
  <2>1. CASE promised' = promised
    <3>1. \A k \in 1..synced : k \in 1..Len(wal)
      BY <1>1
    <3> QED BY <2>1, <3>1, Zenon DEF PromiseKept, DiskInv
  <2> QED BY <2>1, Zenon DEF PromiseKept
<1>6. VotesAscend' /\ CheckpointHasFile'
  BY Zenon DEF DiskInv, VotesAscend, CheckpointHasFile
<1>7. synced' \in 0..Len(wal') /\ wal' \in Seq(Records)
  BY <1>1
<1> QED BY <1>3, <1>4, <1>5, <1>6, <1>7, Zenon DEF DiskInv

\* The file is left alone.
LEMMA KeepDisk ==
  ASSUME DiskInv, wal' = wal, synced' = synced, removed' = removed, files \subseteq files',
         acked' = acked, issued' = issued, promised' = promised
  PROVE  DiskInv'
<1>1. VotesAscend' /\ CheckpointHasFile'
  BY Zenon DEF DiskInv, VotesAscend, CheckpointHasFile
<1>2. IssuedInv' /\ AckedInv' /\ PromiseKept'
  BY Zenon DEF DiskInv, IssuedInv, AckedInv, PromiseKept
<1> QED BY <1>1, <1>2, Zenon DEF DiskInv

\* A crash keeps the durable records and some of the others.
LEMMA CutDisk ==
  ASSUME DiskInv, NEW n \in synced..Len(wal), wal' = SubSeq(wal, 1, n), synced' = n,
         removed' = removed, files' = files, acked' = acked, issued' = issued,
         promised' = promised
  PROVE  DiskInv'
<1>1. Len(wal) \in Nat /\ synced \in 0..Len(wal) /\ wal \in Seq(Records) /\ n \in 0..Len(wal) /\ n \in Nat
  BY DEF DiskInv
<1>2. /\ wal' \in Seq(Records) /\ Len(wal') = n
      /\ \A k \in 1..n : wal'[k] = wal[k] /\ wal[k] = wal'[k]
  BY <1>1
<1>3. \A m \in synced'..Len(wal') : m = n
  BY <1>1, <1>2
<1>4. IssuedInv'
  <2> SUFFICES ASSUME NEW k \in 1..n, Kept(wal', k, n)
               PROVE  wal'[k].entry \in issued'
    BY <1>3, ZenonT(30) DEF IssuedInv
  <2>1. Kept(wal, k, n)
    BY <1>1, <1>2, SameScan, ZenonT(30)
  <2> QED BY <1>2, <2>1, Zenon DEF DiskInv, IssuedInv
<1>5. AckedInv'
  <2> SUFFICES ASSUME ~removed', NEW e \in acked'
               PROVE  Reads(wal', e, n)
    BY <1>3, ZenonT(30) DEF AckedInv
  <2>1. Reads(wal, e, n)
    BY Zenon DEF DiskInv, AckedInv
  <2> QED BY <1>1, <1>2, <2>1, SameScan, ZenonT(30)
<1>6. VotesAscend'
  <2>1. \A k \in 1..n : k \in 1..Len(wal)
    BY <1>1
  <2> QED BY <1>2, <2>1, ZenonT(30) DEF DiskInv, VotesAscend, IsVote
<1>7. PromiseKept'
  <2>1. \A k \in 1..synced : k \in 1..n /\ wal'[k] = wal[k]
    BY <1>1, <1>2
  <2> QED BY <2>1, ZenonT(30) DEF DiskInv, PromiseKept, IsVote
<1>8. CheckpointHasFile'
  <2>1. \A k \in DOMAIN wal' : k \in DOMAIN wal /\ wal'[k] = wal[k]
    BY <1>1, <1>2
  <2> QED BY <2>1, Zenon DEF DiskInv, CheckpointHasFile
<1>9. synced' \in 0..Len(wal')
  BY <1>1, <1>2
<1> QED BY <1>2, <1>4, <1>5, <1>6, <1>7, <1>8, <1>9, Zenon DEF DiskInv

-----------------------------------------------------------------------------
(* Memory and the operation, step by step.                                 *)

\* Outside recovery and a pending write, memory reflects the whole file.
Settled == {"idle", "append", "read", "file", "restore", "marker", "publish"}

LEMMA SettledFacts ==
  ASSUME WalInv
  PROVE  /\ wal \in Seq(Records) /\ Len(wal) \in Nat
         /\ op.kind \in Settled =>
              CacheOf(log_cache, wal, Len(wal)) /\ VoteOf(vote, wal, Len(wal))
<1>1. wal \in Seq(Records) /\ Len(wal) \in Nat
  BY DEF WalInv, DiskInv
<1>2. op.kind \in Settled => Reflected = Len(wal)
  BY Zenon DEF Settled, Reflected
<1>3. op.kind \in Settled => op.kind \notin {"stopped", "down"}
  BY Zenon DEF Settled
<1> QED BY <1>1, <1>2, <1>3, Zenon DEF WalInv, MemoryAgrees

LEMMA SettledNext ==
  ASSUME op'.kind \in Settled,
         CacheOf(log_cache', wal', Len(wal')), VoteOf(vote', wal', Len(wal'))
  PROVE  MemoryAgrees'
<1>1. Reflected' = Len(wal')
  BY Zenon DEF Settled, Reflected
<1>2. op'.kind \notin {"stopped", "down"}
  BY Zenon DEF Settled
<1> QED BY <1>1, <1>2, Zenon DEF MemoryAgrees

\* A step that leaves memory and the file alone.
LEMMA SameMemory ==
  ASSUME WalInv, UNCHANGED <<vote, log_cache, next, last_purged, snapshot_meta>>
  PROVE  /\ MemoryTypes'
         /\ wal' = wal /\ op.kind \in Settled /\ op'.kind \in Settled \union {"stopped"} => MemoryAgrees'
<1>1. MemoryTypes'
  BY Zenon DEF WalInv, MemoryTypes
<1>2. ASSUME wal' = wal, op.kind \in Settled, op'.kind \in Settled PROVE MemoryAgrees'
  BY <1>2, SettledFacts, SettledNext, Zenon
<1>3. ASSUME op'.kind = "stopped" PROVE MemoryAgrees'
  BY <1>3, Zenon DEF MemoryAgrees
<1> QED BY <1>1, <1>2, <1>3, Zenon

\* The operation has returned, or has stopped with an error.
LEMMA NoOperation ==
  ASSUME \/ op'.kind = "idle" /\ synced' = Len(wal') /\ pending_unsynced' = 0
         \/ op'.kind = "stopped"
  PROVE  OpInv'
BY Zenon DEF OpInv, Durable

LEMMA IdleDurable ==
  ASSUME WalInv, op.kind \notin {"append", "write", "publish", "stopped"}
  PROVE  synced = Len(wal) /\ pending_unsynced = 0
BY Zenon DEF WalInv, OpInv, Durable

LEMMA BeginAppendStep ==
  ASSUME WalInv, NEW batch \in Batches, BeginAppend(batch)
  PROVE  WalInv'
<1>1. PICK n \in 1..MaxBatch : batch \in [1..n -> Entries]
  BY Zenon DEF Batches
<1>2. n \in Nat /\ batch \in Seq(Entries) /\ Len(batch) = n
  BY <1>1, WalAssumption
<1>3. /\ op.kind = "idle" /\ batch # <<>>
      /\ op' = [kind |-> "append", batch |-> batch, done |-> 0]
      /\ \A k \in DOMAIN batch : batch[k].id.index = next + k - 1
  BY Zenon DEF BeginAppend, Ready
<1>4. /\ UNCHANGED <<wal, synced, files, vote, log_cache, pending_unsynced, last_purged,
                     snapshot_meta, next, acked, issued, promised, removed>>
  BY Zenon DEF BeginAppend, disk, cache, raft, ghosts
<1>5. DiskInv'
  BY <1>4, KeepDisk, Zenon DEF WalInv
<1>6. op'.kind = "append" /\ op'.batch = batch /\ op'.done = 0 /\ op' \in AppendOp
  BY <1>2, <1>3, Zenon DEF AppendOp
<1>7. MemoryTypes' /\ MemoryAgrees'
  BY <1>3, <1>4, <1>6, SameMemory, Zenon DEF Settled
<1>8. \A j, k \in 1..Len(batch) : j # k => batch[j].id.index # batch[k].id.index
  <2>1. \A k \in 1..Len(batch) : batch[k].id.index = next + k - 1
    BY <1>2, <1>3
  <2>2. next \in Nat
    BY Zenon DEF WalInv, MemoryTypes
  <2> QED BY <2>1, <2>2, <1>2
<1>9. \A k \in 1..op'.done : FALSE
  BY <1>6
<1>10. op'.done <= Len(op'.batch)
  BY <1>2, <1>6
<1>11. OpInv'
  BY <1>3, <1>6, <1>8, <1>9, <1>10, ZenonT(30) DEF OpInv
<1> QED BY <1>5, <1>7, <1>11, Zenon DEF WalInv

\* append_entry_with_sync.
LEMMA AppendEntryStep ==
  ASSUME WalInv, AppendEntry
  PROVE  WalInv'
<1> DEFINE e == op.batch[op.done + 1]
           n == Len(wal)
<1>1. /\ op.kind = "append" /\ op.done < Len(op.batch)
      /\ wal' = Append(wal, AppendLog(e))
      /\ CacheInsert(e)
      /\ acked' = {a \in acked : a.id.index # e.id.index}
      /\ issued' = issued \union {e}
      /\ op' = [op EXCEPT !.done = @ + 1]
      /\ UNCHANGED <<files, vote, last_purged, snapshot_meta, promised, removed>>
  BY ZenonT(30) DEF AppendEntry
<1>2. synced' \in {synced, n + 1} /\ UNCHANGED next
  BY ZenonT(30) DEF AppendEntry, raft
<1>3. /\ op \in AppendOp /\ op.done <= Len(op.batch)
      /\ \A j, k \in 1..Len(op.batch) : j # k => op.batch[j].id.index # op.batch[k].id.index
      /\ \A k \in 1..op.done : Reads(wal, op.batch[k], Len(wal))
  BY <1>1, Zenon DEF WalInv, OpInv
<1>4. op.batch \in Seq(Entries) /\ op.done \in Nat /\ op.done + 1 \in 1..Len(op.batch)
  BY <1>1, <1>3 DEF AppendOp
<1>5. e \in Entries
  BY <1>4
<1> HIDE DEF e
<1>6. AppendLog(e) \in Records
  BY <1>5, RecordsAre, Zenon
<1>7. /\ n \in Nat /\ wal \in Seq(Records)
      /\ CacheOf(log_cache, wal, n) /\ VoteOf(vote, wal, n)
  BY <1>1, SettledFacts, Zenon DEF Settled
<1>8. /\ AppendLog(e).type = "AppendLog" /\ AppendLog(e).entry = e
  BY Zenon DEF AppendLog
<1>9. /\ Len(wal') = n + 1 /\ wal'[n + 1] = AppendLog(e)
      /\ \A k \in 1..n : wal[k] = wal'[k]
  BY <1>1, <1>6, <1>7
<1>10. /\ \A i : Removes(AppendLog(e), i) <=> i = e.id.index
       /\ \A i : ~Covers(AppendLog(e), i)
  BY <1>8, RemovesFacts, Zenon DEF Covers
<1>11. DiskInv'
  <2>1. \A a \in acked' : ~Removes(AppendLog(e), a.id.index) /\ ~Covers(AppendLog(e), a.id.index)
    BY <1>1, <1>10, Zenon
  <2>2. acked' \subseteq acked /\ issued \subseteq issued' /\ e \in issued'
    BY <1>1, Zenon
  <2>3. synced' \in {synced, Len(wal) + 1}
    BY <1>2, Zenon
  <2>4. DiskInv
    BY Zenon DEF WalInv
  <2>5. AppendLog(e).type # "Vote" /\ AppendLog(e).type # "SnapshotApplied"
    BY <1>8, Zenon
  <2> HIDE DEF n
  <2> QED BY <2>1, <2>2, <2>3, <2>4, <2>5, <1>1, <1>6, <1>8, GrowDisk, ZenonT(30)
<1> HIDE DEF n
<1>12. Reads(wal', e, n + 1) /\ Has(wal', e, n + 1)
  BY <1>7, <1>9, NewEntry, ReadsHas, ZenonT(30)
<1>13. /\ IsCache(log_cache')
       /\ \A i \in DOMAIN log_cache' :
            \/ i = e.id.index /\ log_cache'[i] = e
            \/ i # e.id.index /\ i \in DOMAIN log_cache /\ log_cache'[i] = log_cache[i]
  BY <1>1, <1>5, InsertFacts, Zenon DEF WalInv, MemoryTypes
<1>14. MemoryTypes'
  BY <1>1, <1>2, <1>13, Zenon DEF WalInv, MemoryTypes
<1>15. op' \in AppendOp /\ op'.kind = "append" /\ op'.batch = op.batch /\ op'.done = op.done + 1
  BY <1>1, <1>3, <1>4 DEF AppendOp
<1>16. MemoryAgrees'
  <2>1. CacheOf(log_cache, wal', n)
    BY <1>7, <1>9, CacheStays, ZenonT(30)
  <2>2. \A i \in DOMAIN log_cache' :
          \/ i \in DOMAIN log_cache /\ log_cache'[i] = log_cache[i] /\ ~Removes(wal'[n + 1], i)
          \/ log_cache'[i].id.index = i /\ Has(wal', log_cache'[i], n + 1)
    BY <1>9, <1>10, <1>12, <1>13, ZenonT(30)
  <2>3. CacheOf(log_cache', wal', n + 1)
    BY <2>1, <2>2, <1>7, CacheAdvances, ZenonT(30)
  <2>4. VoteOf(vote, wal', n)
    BY <1>7, <1>9, VoteStays, ZenonT(30)
  <2>5. ~IsVote(wal', n + 1)
    BY <1>8, <1>9, Zenon DEF IsVote
  <2>6. \A k \in 1..(n + 1) : k = n + 1 \/ k \in 1..n
    BY <1>7
  <2>7. VoteOf(vote', wal', n + 1)
    BY <2>4, <2>5, <2>6, <1>1, ZenonT(30) DEF VoteOf
  <2> QED BY <2>3, <2>7, <1>9, <1>15, SettledNext, Zenon DEF Settled
<1>17. \A k \in 1..op'.done : Reads(wal', op'.batch[k], Len(wal'))
  <2> SUFFICES ASSUME NEW k \in 1..(op.done + 1)
               PROVE  Reads(wal', op.batch[k], n + 1)
    BY <1>9, <1>15, Zenon
  <2>1. CASE k = op.done + 1
    BY <2>1, <1>12, Zenon DEF e
  <2>2. CASE k \in 1..op.done
    <3>1. Reads(wal, op.batch[k], n)
      BY <2>2, <1>3, Zenon DEF n
    <3>2. Reads(wal', op.batch[k], n)
      BY <3>1, <1>7, <1>9, SameScan, ZenonT(30)
    <3>3. op.batch[k].id.index # e.id.index
      BY <2>2, <1>3, <1>4 DEF e
    <3> QED BY <3>2, <3>3, <1>7, <1>9, <1>10, NextRecord, ZenonT(30)
  <2> QED BY <2>1, <2>2, <1>4
<1>18. OpInv'
  <2>1. op'.done <= Len(op'.batch) /\ op'.batch # <<>>
    BY <1>4, <1>15
  <2> QED BY <2>1, <1>3, <1>15, <1>17, Zenon DEF OpInv
<1> QED BY <1>11, <1>14, <1>16, <1>18, Zenon DEF WalInv

\* The last sync of append, and the acknowledgement.
LEMMA FinishAppendStep ==
  ASSUME WalInv, FinishAppend
  PROVE  WalInv'
<1> DEFINE new == {op.batch[k] : k \in DOMAIN op.batch}
           at  == {f.id.index : f \in new}
<1>1. /\ op.kind = "append" /\ op.done = Len(op.batch)
      /\ acked' = acked \union new
      /\ issued' = {f \in issued : f.id.index \notin at} \union new
      /\ next' = Greatest(at) + 1
      /\ synced' = Len(wal) /\ pending_unsynced' = 0 /\ op' = Idle
      /\ UNCHANGED <<wal, files, vote, log_cache, last_purged, snapshot_meta, promised, removed>>
  BY ZenonT(30) DEF FinishAppend, cache
<1>2. /\ op \in AppendOp
      /\ \A k \in 1..op.done : Reads(wal, op.batch[k], Len(wal))
  BY <1>1, Zenon DEF WalInv, OpInv
<1>3. op.batch \in Seq(Entries)
  BY <1>2, Zenon DEF AppendOp
<1>4. new \subseteq Entries /\ \A f \in new : Reads(wal, f, Len(wal))
  BY <1>1, <1>2, <1>3
<1>5. at \in SUBSET (0..MaxIndex)
  BY <1>4, IndexFacts, WalAssumption
<1>i. \A f \in new : f.id.index \in at
  BY Zenon
<1> HIDE DEF new
<1>w. at = {f.id.index : f \in new}
  BY Zenon
<1> HIDE DEF at
<1>6. next' \in Nat
  <2>1. MaxIndex \in Nat
    BY WalAssumption, Zenon
  <2>2. Greatest(at) \in Nat
    BY <2>1, <1>5, GreatestFacts, ZenonT(30)
  <2> QED BY <2>2, <1>1
<1>7. /\ Len(wal) \in Nat /\ wal \in Seq(Records)
      /\ CacheOf(log_cache, wal, Len(wal)) /\ VoteOf(vote, wal, Len(wal))
  BY <1>1, SettledFacts, Zenon DEF Settled
<1>8. ASSUME NEW k \in 1..Len(wal), Kept(wal, k, Len(wal)) PROVE wal[k].entry \in issued'
  <2>1. wal[k].entry \in issued
    <3>1. Len(wal) \in synced..Len(wal)
      BY <1>7 DEF WalInv, DiskInv
    <3> QED BY <1>8, <3>1, Zenon DEF WalInv, DiskInv, IssuedInv
  <2>2. CASE wal[k].entry.id.index \in at
    <3>1. PICK f \in new : f.id.index = wal[k].entry.id.index
      BY <2>2, <1>w, Zenon
    <3>2. Has(wal, wal[k].entry, Len(wal))
      BY <1>8, ZenonT(30) DEF Has
    <3>3. Has(wal, f, Len(wal))
      BY <1>4, ReadsHas, ZenonT(30)
    <3>4. wal[k].entry = f
      BY <3>1, <3>2, <3>3, <1>7, OneEntry, ZenonT(30)
    <3> QED BY <3>1, <3>4, <1>1, Zenon
  <2> QED BY <2>1, <2>2, <1>1, Zenon
<1>9. DiskInv'
  <2>1. acked' \subseteq Entries /\ promised' \in Nat
    BY <1>1, <1>4, Zenon DEF WalInv, DiskInv
  <2>2. ~removed => \A f \in acked' : Reads(wal, f, Len(wal))
    <3>1. Len(wal) \in synced..Len(wal)
      BY <1>7 DEF WalInv, DiskInv
    <3>2. ~removed => \A f \in acked : Reads(wal, f, Len(wal))
      BY <3>1, ZenonT(30) DEF WalInv, DiskInv, AckedInv
    <3> QED BY <3>2, <1>1, <1>4, ZenonT(30)
  <2>3. files \subseteq files' /\ promised' = promised /\ DiskInv
    BY <1>1, Zenon DEF WalInv
  <2> QED BY <2>1, <2>2, <2>3, <1>1, <1>8, SettleDisk, ZenonT(30)
<1>10. op'.kind = "idle"
  BY <1>1, Zenon DEF Idle
<1>11. MemoryAgrees' /\ OpInv'
  BY <1>1, <1>7, <1>10, SettledNext, NoOperation, Zenon DEF Settled
<1>12. MemoryTypes'
  BY <1>1, <1>6, Zenon DEF WalInv, MemoryTypes
<1> QED BY <1>9, <1>11, <1>12, Zenon DEF WalInv

\* save_vote, truncate and purge write their record.
LEMMA WriteStep ==
  ASSUME WalInv, NEW r \in Records, WriteSynced(r), acked' \subseteq acked,
         r.type \in {"Vote", "Truncate", "Purge"}, r.type = "Vote" => r.vote > vote,
         \A e \in acked' : ~Removes(r, e.id.index)
  PROVE  WalInv'
<1> DEFINE n == Len(wal)
<1>1. /\ op.kind = "idle" /\ wal' = Append(wal, r)
      /\ op' = [kind |-> "write", record |-> r]
      /\ UNCHANGED <<synced, files, vote, log_cache, next, last_purged, snapshot_meta, issued,
                     promised, removed>>
  BY Zenon DEF WriteSynced, Ready, cache, raft
<1>2. /\ n \in Nat /\ wal \in Seq(Records) /\ synced = n
      /\ CacheOf(log_cache, wal, n) /\ VoteOf(vote, wal, n)
  BY <1>1, SettledFacts, IdleDurable, Zenon DEF Settled
<1>3. /\ Len(wal') = n + 1 /\ wal'[n + 1] = r
      /\ \A k \in 1..n : wal[k] = wal'[k]
  BY <1>1, <1>2
<1>4. DiskInv'
  <2>1. \A e \in acked' : ~Removes(r, e.id.index) /\ ~Covers(r, e.id.index)
    BY Zenon DEF Covers
  <2>2. r.type = "Vote" => \A k \in 1..Len(wal) : IsVote(wal, k) => wal[k].vote < r.vote
    <3>1. \A k \in 1..Len(wal) : IsVote(wal, k) => wal[k].vote \in Nat
      BY <1>2, VotesAreNumbers, Zenon
    <3>2. vote \in Nat /\ (r.type = "Vote" => r.vote \in Nat)
      BY RecordFacts, Zenon DEF WalInv, MemoryTypes
    <3> QED BY <3>1, <3>2, <1>2 DEF VoteOf
  <2>3. DiskInv
    BY Zenon DEF WalInv
  <2>4. /\ r.type # "AppendLog" /\ r.type # "SnapshotApplied"
        /\ synced' \in {synced, Len(wal) + 1} /\ files \subseteq files' /\ issued \subseteq issued'
    BY <1>1, Zenon
  <2> HIDE DEF n
  <2> QED BY <2>1, <2>2, <2>3, <2>4, <1>1, GrowDisk, ZenonT(30)
<1> HIDE DEF n
<1>5. op'.kind = "write" /\ op'.record = r /\ op' \in WriteOp
  BY <1>1, Zenon DEF WriteOp
<1>6. MemoryTypes'
  BY <1>1, SameMemory, Zenon
<1>7. Reflected' = n /\ op'.kind \notin {"stopped", "down"}
  BY <1>2, <1>3, <1>5 DEF Reflected
<1>8. MemoryAgrees'
  <2>1. CacheOf(log_cache', wal', n)
    BY <1>1, <1>2, <1>3, CacheStays, ZenonT(30)
  <2>2. VoteOf(vote', wal', n)
    BY <1>1, <1>2, <1>3, VoteStays, ZenonT(30)
  <2> QED BY <2>1, <2>2, <1>7, Zenon DEF MemoryAgrees
<1>9. OpInv'
  <2>1. Len(wal') > 0 /\ synced' = Len(wal') - 1 /\ op'.record = wal'[Len(wal')]
    BY <1>1, <1>2, <1>3, <1>5
  <2> QED BY <2>1, <1>5, Zenon DEF OpInv
<1> QED BY <1>4, <1>6, <1>8, <1>9, Zenon DEF WalInv

LEMMA WriteSteps ==
  ASSUME WalInv
  PROVE  /\ \A v \in 1..MaxTerm : SaveVote(v) => WalInv'
         /\ \A id \in LogIds : Truncate(id) \/ Purge(id) => WalInv'
<1>1. ASSUME NEW v \in 1..MaxTerm, SaveVote(v) PROVE WalInv'
  <2>1. VoteRecord(v).type = "Vote" /\ VoteRecord(v).vote = v
    BY Zenon DEF VoteRecord
  <2>2. v > vote /\ WriteSynced(VoteRecord(v)) /\ acked' = acked
    BY <1>1, Zenon DEF SaveVote
  <2> QED BY <2>1, <2>2, WriteStep, RecordsAre, RemovesFacts, Zenon
<1>2. ASSUME NEW id \in LogIds, Truncate(id) PROVE WalInv'
  <2>1. TruncateRecord(id).type = "Truncate" /\ TruncateRecord(id).id = id
    BY Zenon DEF TruncateRecord
  <2>2. WriteSynced(TruncateRecord(id)) /\ acked' = {e \in acked : e.id.index <= id.index}
    BY <1>2, Zenon DEF Truncate
  <2>3. acked \subseteq Entries
    BY Zenon DEF WalInv, DiskInv
  <2>4. \A e \in acked' : ~Removes(TruncateRecord(id), e.id.index)
    BY <2>1, <2>2, <2>3, RemovesFacts, IndexFacts
  <2>5. acked' \subseteq acked /\ TruncateRecord(id) \in Records
    BY <2>2, RecordsAre, Zenon
  <2> QED BY <2>1, <2>2, <2>4, <2>5, WriteStep, Zenon
<1>3. ASSUME NEW id \in LogIds, Purge(id) PROVE WalInv'
  <2>1. PurgeRecord(id).type = "Purge" /\ PurgeRecord(id).id = id
    BY Zenon DEF PurgeRecord
  <2>2. WriteSynced(PurgeRecord(id)) /\ acked' = {e \in acked : e.id.index > id.index}
    BY <1>3, Zenon DEF Purge
  <2>3. acked \subseteq Entries
    BY Zenon DEF WalInv, DiskInv
  <2>4. \A e \in acked' : ~Removes(PurgeRecord(id), e.id.index)
    BY <2>1, <2>2, <2>3, RemovesFacts, IndexFacts
  <2>5. acked' \subseteq acked /\ PurgeRecord(id) \in Records
    BY <2>2, RecordsAre, Zenon
  <2> QED BY <2>1, <2>2, <2>4, <2>5, WriteStep, Zenon
<1> QED BY <1>1, <1>2, <1>3, Zenon

\* The record is synced and memory follows: it now holds what the whole file
\* accounts for.
LEMMA SyncedStep ==
  ASSUME WalInv, NEW type, Synced(type), IsCache(log_cache'),
         \A j \in DOMAIN log_cache' :
           j \in DOMAIN log_cache /\ log_cache'[j] = log_cache[j] /\ ~Removes(op.record, j),
         vote' \in Nat, VoteOf(vote', wal, Len(wal) - 1), type = "Vote" => op.record.vote = vote',
         promised' = promised \/ (type = "Vote" /\ promised' = op.record.vote),
         \A f \in issued : f \in Entries => Removes(op.record, f.id.index) \/ f \in issued',
         next' \in Nat, last_purged' \in OptId,
         type # "AppendLog"
  PROVE  WalInv'
<1> DEFINE m == Len(wal) - 1
<1>1. /\ op.kind = "write" /\ op.record.type = type
      /\ synced' = Len(wal) /\ pending_unsynced' = 0 /\ op' = Idle
      /\ UNCHANGED <<wal, files, snapshot_meta, acked, removed>>
  BY Zenon DEF Synced
<1>2. /\ op \in WriteOp /\ Len(wal) > 0 /\ synced = Len(wal) - 1 /\ op.record = wal[Len(wal)]
  BY <1>1, Zenon DEF WalInv, OpInv
<1>3. wal \in Seq(Records) /\ Len(wal) \in Nat
  BY SettledFacts, Zenon
<1>4. m \in Nat /\ m + 1 = Len(wal) /\ wal[m + 1] = op.record /\ op.record \in Records
  BY <1>2, <1>3 DEF WriteOp
<1>5. Reflected = m /\ op.kind \notin {"stopped", "down"}
  BY <1>1, Zenon DEF Reflected
<1>6. CacheOf(log_cache, wal, m) /\ VoteOf(vote', wal, m)
  BY <1>5, Zenon DEF WalInv, MemoryAgrees
<1>7. m \in synced..Len(wal) /\ Len(wal) \in synced..Len(wal)
  BY <1>2, <1>3
<1> HIDE DEF m
<1>8. ASSUME NEW k \in 1..Len(wal), Kept(wal, k, Len(wal)) PROVE wal[k].entry \in issued'
  <2>1. wal[k].entry \in issued
    BY <1>7, <1>8, Zenon DEF WalInv, DiskInv, IssuedInv
  <2>e. wal[k].entry \in Entries
    BY <1>3, <1>8, RecordFacts DEF Kept
  <2>2. k = Len(wal) \/ ~Removes(op.record, wal[k].entry.id.index)
    BY <1>4, <1>8, NextRecord, ZenonT(30)
  <2>3. CASE k = Len(wal)
    <3>1. op.record.type = "AppendLog"
      BY <2>3, <1>2, <1>8, Zenon DEF Kept
    <3> QED BY <3>1, <1>1, Zenon
  <2> QED BY <2>1, <2>e, <2>2, <2>3, Zenon
<1>9. DiskInv'
  <2>1. acked' \subseteq Entries /\ DiskInv /\ promised \in Nat
    BY <1>1, Zenon DEF WalInv, DiskInv
  <2>2. ~removed => \A f \in acked' : Reads(wal, f, Len(wal))
    BY <1>1, <1>7, ZenonT(30) DEF WalInv, DiskInv, AckedInv
  <2>3. promised' \in Nat
    BY <2>1, <1>1, Zenon
  <2>4. promised' = promised \/ \E k \in 1..Len(wal) : IsVote(wal, k) /\ wal[k].vote >= promised'
    <3>1. CASE type = "Vote" /\ promised' = op.record.vote
      <4>1. Len(wal) \in 1..Len(wal) /\ IsVote(wal, Len(wal)) /\ wal[Len(wal)].vote >= promised'
        BY <3>1, <1>1, <1>2, <1>3, <2>3 DEF IsVote
      <4> QED BY <4>1, Zenon
    <3> QED BY <3>1, Zenon
  <2>5. files \subseteq files'
    BY <1>1, Zenon
  <2> QED BY <2>1, <2>2, <2>3, <2>4, <2>5, <1>1, <1>8, SettleDisk, ZenonT(30)
<1>10. op'.kind = "idle"
  BY <1>1, Zenon DEF Idle
<1>11. OpInv'
  BY <1>1, <1>10, NoOperation, Zenon
<1>12. CacheOf(log_cache', wal', Len(wal'))
  BY <1>1, <1>4, <1>6, CacheAdvances, ZenonT(30)
<1>13. VoteOf(vote', wal', Len(wal'))
  <2>1. \A k \in 1..m : IsVote(wal, k) => wal[k].vote \in Nat
    <3>1. \A k \in 1..m : k \in 1..Len(wal)
      BY <1>4
    <3> QED BY <3>1, <1>3, VotesAreNumbers, ZenonT(30)
  <2>2. IsVote(wal, m + 1) => wal[m + 1].vote = vote'
    BY <1>1, <1>4, Zenon DEF IsVote
  <2>3. vote' <= vote'
    OBVIOUS
  <2> QED BY <2>1, <2>2, <2>3, <1>1, <1>4, <1>6, VoteAdvances, ZenonT(30)
<1>14. MemoryAgrees'
  BY <1>10, <1>12, <1>13, SettledNext, Zenon DEF Settled
<1>15. MemoryTypes'
  BY <1>1, Zenon DEF WalInv, MemoryTypes
<1> QED BY <1>9, <1>11, <1>14, <1>15, Zenon DEF WalInv

LEMMA FinishSteps ==
  ASSUME WalInv
  PROVE  (FinishVote \/ FinishTruncate \/ FinishPurge) => WalInv'
<1>0. IsCache(log_cache) /\ vote \in Nat /\ next \in Nat /\ last_purged \in OptId
  BY Zenon DEF WalInv, MemoryTypes
<1>a. op.kind = "write" =>
        /\ op.record \in Records /\ Len(wal) \in Nat /\ Len(wal) > 0 /\ op.record = wal[Len(wal)]
        /\ Reflected = Len(wal) - 1
  BY SettledFacts, Zenon DEF WalInv, OpInv, WriteOp, Reflected
<1>b. op.kind = "write" => VoteOf(vote, wal, Len(wal) - 1)
  BY <1>a, Zenon DEF WalInv, MemoryAgrees
<1>1. ASSUME FinishVote PROVE WalInv'
  <2>1. /\ Synced("Vote") /\ vote' = op.record.vote /\ promised' = op.record.vote
        /\ UNCHANGED <<log_cache, last_purged, next, issued>>
    BY <1>1, Zenon DEF FinishVote, cache
  <2>2. op.kind = "write" /\ op.record.type = "Vote"
    BY <2>1, Zenon DEF Synced
  <2>3. op.record.vote \in Nat
    BY <2>2, <1>a, RecordFacts, Zenon
  <2>4. VoteOf(vote', wal, Len(wal) - 1)
    \* The votes of the file ascend.
    <3>1. ASSUME NEW k \in 1..(Len(wal) - 1), IsVote(wal, k) PROVE wal[k].vote <= vote'
      <4>1. k \in 1..Len(wal) /\ Len(wal) \in 1..Len(wal) /\ k < Len(wal) /\ IsVote(wal, Len(wal))
        BY <1>a, <2>2 DEF IsVote
      <4>2. wal[k].vote < wal[Len(wal)].vote
        BY <3>1, <4>1, Zenon DEF WalInv, DiskInv, VotesAscend
      <4>3. wal[k].vote \in Nat
        BY <3>1, <4>1, SettledFacts, VotesAreNumbers, Zenon
      <4> QED BY <4>2, <4>3, <1>a, <2>1, <2>2, <2>3
    <3> QED BY <3>1, Zenon DEF VoteOf
  <2>5. \A j : ~Removes(op.record, j)
    BY <2>2, RemovesFacts, Zenon
  <2> QED BY <2>1, <2>3, <2>4, <2>5, <1>0, SyncedStep, ZenonT(30)
<1>2. ASSUME FinishTruncate PROVE WalInv'
  <2>1. /\ Synced("Truncate") /\ truncate_cache(op.record.id.index)
        /\ next' = op.record.id.index
        /\ issued' = {e \in issued : e.id.index <= op.record.id.index}
        /\ UNCHANGED <<vote, last_purged, promised>>
    BY <1>2, Zenon DEF FinishTruncate
  <2>2. op.kind = "write" /\ op.record.type = "Truncate"
    BY <2>1, Zenon DEF Synced
  <2>3. op.record.id.index \in Nat
    BY <2>2, <1>a, RecordFacts, IndexFacts, Zenon
  <2>4. /\ IsCache(log_cache')
        /\ \A j \in DOMAIN log_cache' : j \in DOMAIN log_cache /\ j <= op.record.id.index
                                        /\ log_cache'[j] = log_cache[j]
    BY <2>1, <2>3, <1>0, CutFacts, Zenon
  <2>5. \A j : Removes(op.record, j) <=> j > op.record.id.index
    BY <2>2, RemovesFacts, Zenon
  <2>6. \A j \in DOMAIN log_cache' : j \in DOMAIN log_cache /\ log_cache'[j] = log_cache[j]
                                     /\ ~Removes(op.record, j)
    BY <2>3, <2>4, <2>5, WalAssumption DEF IsCache
  <2>7. \A f \in issued : f \in Entries => Removes(op.record, f.id.index) \/ f \in issued'
    BY <2>1, <2>3, <2>5, IndexFacts
  <2> QED BY <2>1, <2>2, <2>3, <2>4, <2>6, <2>7, <1>0, <1>b, SyncedStep, ZenonT(30)
<1>3. ASSUME FinishPurge PROVE WalInv'
  <2>1. /\ Synced("Purge") /\ purge_cache(op.record.id.index)
        /\ last_purged' = op.record.id
        /\ next' = Greatest({next, op.record.id.index + 1})
        /\ issued' = {e \in issued : e.id.index > op.record.id.index}
        /\ UNCHANGED <<vote, promised>>
    BY <1>3, Zenon DEF FinishPurge
  <2>2. op.kind = "write" /\ op.record.type = "Purge"
    BY <2>1, Zenon DEF Synced
  <2>3. op.record.id.index \in Nat /\ op.record.id \in OptId
    BY <2>2, <1>a, RecordFacts, IndexFacts, Zenon DEF OptId
  <2>4. /\ IsCache(log_cache')
        /\ \A j \in DOMAIN log_cache' : j \in DOMAIN log_cache /\ j > op.record.id.index
                                        /\ log_cache'[j] = log_cache[j]
    BY <2>1, <2>3, <1>0, CutFacts, Zenon
  <2>5. \A j : Removes(op.record, j) <=> j <= op.record.id.index
    BY <2>2, RemovesFacts, Zenon
  <2>6. \A j \in DOMAIN log_cache' : j \in DOMAIN log_cache /\ log_cache'[j] = log_cache[j]
                                     /\ ~Removes(op.record, j)
    BY <2>3, <2>4, <2>5, WalAssumption DEF IsCache
  <2>7. \A f \in issued : f \in Entries => Removes(op.record, f.id.index) \/ f \in issued'
    BY <2>1, <2>3, <2>5, IndexFacts
  <2>8. next' \in Nat
    BY <2>1, <2>3, <1>0, GreaterOfTwo
  <2> QED BY <2>1, <2>2, <2>3, <2>4, <2>6, <2>7, <2>8, <1>0, <1>b, SyncedStep, ZenonT(30)
<1> QED BY <1>1, <1>2, <1>3, Zenon

\* What a read of the log returns: the cache first, then the scan.
LEMMA ScanFacts ==
  ASSUME wal \in Seq(Records)
  PROVE  \A e : e \in read_entries_from_wal <=> e \in Entries /\ Reads(wal, e, Len(wal))
<1>1. DOMAIN wal = 1..Len(wal) /\ Len(wal) \in Nat
  OBVIOUS
<1>2. \A k : Stays(k, Len(wal)) <=> Kept(wal, k, Len(wal))
  BY ZenonT(30) DEF Stays, Kept
<1>3. ASSUME NEW e, e \in read_entries_from_wal PROVE e \in Entries /\ Reads(wal, e, Len(wal))
  <2>1. PICK k \in DOMAIN wal : Stays(k, Len(wal)) /\ Uncovered(k, Len(wal)) /\ e = wal[k].entry
    BY <1>3, Zenon DEF read_entries_from_wal
  <2>2. k \in 1..Len(wal) /\ Kept(wal, k, Len(wal)) /\ wal[k].entry = e
    BY <1>1, <1>2, <2>1, Zenon
  <2>3. Reads(wal, e, Len(wal))
    BY <2>1, <2>2, ZenonT(30) DEF Reads, Uncovered
  <2> QED BY <2>2, <2>3, RecordFacts DEF Kept
<1>4. ASSUME NEW e, Reads(wal, e, Len(wal)) PROVE e \in read_entries_from_wal
  <2>1. PICK k \in 1..Len(wal) : /\ Kept(wal, k, Len(wal)) /\ wal[k].entry = e
                                 /\ \A j \in (k + 1)..Len(wal) : ~Covers(wal[j], e.id.index)
    BY <1>4, ZenonT(30) DEF Reads
  <2>2. Stays(k, Len(wal)) /\ Uncovered(k, Len(wal)) /\ k \in DOMAIN wal
    BY <1>1, <1>2, <2>1, ZenonT(30) DEF Uncovered
  <2> QED BY <2>1, <2>2, Zenon DEF read_entries_from_wal
<1> QED BY <1>3, <1>4, Zenon

LEMMA ViewFacts ==
  /\ DOMAIN LogView = DOMAIN log_cache \union {e.id.index : e \in read_entries_from_wal}
  /\ \A i \in DOMAIN LogView :
       \/ i \in DOMAIN log_cache /\ LogView[i] = log_cache[i]
       \/ i \notin DOMAIN log_cache /\ LogView[i].id.index = i /\ LogView[i] \in read_entries_from_wal
<1> DEFINE scanned == read_entries_from_wal
           pick(i) == CHOOSE e \in scanned : e.id.index = i
<1>1. LogView = [i \in DOMAIN log_cache \union {e.id.index : e \in scanned} |->
                   IF i \in DOMAIN log_cache THEN log_cache[i] ELSE pick(i)]
  BY ZenonT(30) DEF LogView
<1> HIDE DEF scanned
<1>2. ASSUME NEW i, \E e \in scanned : e.id.index = i PROVE pick(i) \in scanned /\ pick(i).id.index = i
  BY <1>2, Zenon
<1> HIDE DEF pick
<1> QED BY <1>1, <1>2, ZenonT(30) DEF scanned

\* try_get_log_entries.
LEMMA ReadSteps ==
  ASSUME WalInv
  PROVE  /\ \A first, last \in 1..MaxIndex : Read(first, last) => WalInv'
         /\ ReadStep => WalInv'
<1>0. /\ wal \in Seq(Records) /\ Len(wal) \in Nat /\ IsCache(log_cache)
  BY SettledFacts, Zenon DEF WalInv, MemoryTypes
<1>1. ASSUME NEW first \in 1..MaxIndex, NEW last \in 1..MaxIndex, Read(first, last) PROVE WalInv'
  <2> DEFINE hits == {i \in DOMAIN LogView : first <= i /\ i <= last}
             load == {LogView[i] : i \in hits \ DOMAIN log_cache}
  <2>1. /\ op.kind = "idle" /\ op' = [kind |-> "read", touch |-> hits, load |-> load]
        /\ UNCHANGED <<wal, synced, files, vote, log_cache, pending_unsynced, last_purged,
                       snapshot_meta, next, acked, issued, promised, removed>>
    BY <1>1, ZenonT(30) DEF Read, Ready, disk, cache, raft, ghosts
  <2>2. \A e \in load : e \in read_entries_from_wal
    BY ViewFacts, Zenon
  <2>3. \A e \in load : e \in Entries /\ Has(wal, e, Len(wal))
    BY <1>0, <2>2, ScanFacts, ReadsHas, ZenonT(30)
  <2>4. hits \subseteq 1..MaxIndex
    <3>1. DOMAIN log_cache \subseteq 1..MaxIndex
      BY <1>0, Zenon DEF IsCache
    <3>2. \A e \in read_entries_from_wal : e.id.index \in 1..MaxIndex
      BY <1>0, ScanFacts, IndexFacts, ZenonT(30)
    <3> QED BY <3>1, <3>2, ViewFacts, Zenon
  <2> HIDE DEF hits, load
  <2>5. op'.kind = "read" /\ op'.load = load /\ op' \in ReadOp
    BY <2>1, <2>3, <2>4, Zenon DEF ReadOp
  <2>6. DiskInv'
    BY <2>1, KeepDisk, Zenon DEF WalInv
  <2>7. MemoryTypes' /\ MemoryAgrees'
    BY <2>1, <2>5, SameMemory, Zenon DEF Settled
  <2>8. OpInv'
    BY <2>1, <2>3, <2>5, IdleDurable, Zenon DEF OpInv, Durable
  <2> QED BY <2>6, <2>7, <2>8, Zenon DEF WalInv
<1>2. ASSUME ReadStep PROVE WalInv'
  <2>1. /\ op.kind = "read"
        /\ UNCHANGED <<wal, synced, files, vote, pending_unsynced, last_purged,
                       snapshot_meta, next, acked, issued, promised, removed>>
    BY <1>2, Zenon DEF ReadStep, disk, raft, ghosts
  <2>2. op \in ReadOp /\ \A e \in op.load : Has(wal, e, Len(wal))
    BY <2>1, Zenon DEF WalInv, OpInv
  <2>3. op.load \subseteq Entries /\ op.touch \subseteq 1..MaxIndex
    BY <2>2, Zenon DEF ReadOp
  <2>4. CacheOf(log_cache, wal, Len(wal)) /\ VoteOf(vote, wal, Len(wal))
    BY <2>1, SettledFacts, Zenon DEF Settled
  <2>5. /\ IsCache(log_cache') /\ CacheOf(log_cache', wal, Len(wal))
        /\ \/ op'.kind = "read" /\ op' \in ReadOp /\ op'.load \subseteq op.load
           \/ op'.kind = "idle"
    <3>1. CASE \E e \in op.load : CacheInsert(e) /\ op' = [op EXCEPT !.load = @ \ {e}]
      <4>1. PICK e \in op.load : CacheInsert(e) /\ op' = [op EXCEPT !.load = @ \ {e}]
        BY <3>1, Zenon
      <4>2. e \in Entries /\ Has(wal, e, Len(wal))
        BY <2>2, <2>3, Zenon
      <4>3. /\ IsCache(log_cache')
            /\ \A i \in DOMAIN log_cache' :
                 \/ i = e.id.index /\ log_cache'[i] = e
                 \/ i # e.id.index /\ i \in DOMAIN log_cache /\ log_cache'[i] = log_cache[i]
        BY <4>1, <4>2, <1>0, InsertFacts, ZenonT(30)
      <4>4. CacheOf(log_cache', wal, Len(wal))
        BY <1>0, <2>4, <4>2, <4>3, CacheStays, ZenonT(30)
      <4>5. op'.kind = "read" /\ op' \in ReadOp /\ op'.load \subseteq op.load
        BY <2>1, <2>2, <4>1, Zenon DEF ReadOp
      <4> QED BY <4>3, <4>4, <4>5, Zenon
    <3>2. CASE \E i \in op.touch : UNCHANGED log_cache /\ op' = [op EXCEPT !.touch = @ \ {i}]
      <4>1. op'.kind = "read" /\ op' \in ReadOp /\ op'.load \subseteq op.load
        BY <2>1, <2>2, <3>2, Zenon DEF ReadOp
      <4> QED BY <4>1, <3>2, <1>0, <2>4, Zenon
    <3>3. CASE UNCHANGED log_cache /\ op' = Idle
      BY <3>3, <1>0, <2>4, Zenon DEF Idle
    <3> QED BY <1>2, <3>1, <3>2, <3>3, ZenonT(30) DEF ReadStep, CacheTouch, cache
  <2>6. DiskInv'
    BY <2>1, KeepDisk, Zenon DEF WalInv
  <2>7. op'.kind \in Settled
    BY <2>5, Zenon DEF Settled
  <2>8. MemoryAgrees'
    BY <2>1, <2>4, <2>5, <2>7, SettledNext, Zenon
  <2>9. MemoryTypes'
    BY <2>1, <2>5, Zenon DEF WalInv, MemoryTypes
  <2>10. OpInv'
    <3>1. synced' = Len(wal') /\ pending_unsynced' = 0
      BY <2>1, IdleDurable, Zenon
    <3>2. CASE op'.kind = "idle"
      BY <3>1, <3>2, NoOperation, Zenon
    <3>3. CASE op'.kind = "read" /\ op' \in ReadOp /\ op'.load \subseteq op.load
      BY <3>1, <3>3, <2>1, <2>2, Zenon DEF OpInv, Durable
    <3> QED BY <3>2, <3>3, <2>5, Zenon
  <2> QED BY <2>6, <2>8, <2>9, <2>10, Zenon DEF WalInv
<1> QED BY <1>1, <1>2, Zenon

\* apply and the builder leave the file's records and memory's log alone.
LEMMA ApplySteps ==
  ASSUME WalInv, Commit \/ (\E fails \in BOOLEAN : Apply(fails)) \/ GetSnapshotBuilder
  PROVE  WalInv'
<1>1. /\ op.kind = "idle" /\ op' \in {op, Idle, Stopped}
      /\ UNCHANGED <<wal, synced, files, vote, log_cache, pending_unsynced, last_purged,
                     snapshot_meta, next, acked, issued, promised, removed>>
  <2>1. CASE Commit
    BY <2>1, ZenonT(30) DEF Commit, Ready, disk, cache, raft, ghosts
  <2>2. CASE \E fails \in BOOLEAN : Apply(fails)
    BY <2>2, ZenonT(30) DEF Apply, Ready, disk, cache, raft, ghosts
  <2>3. CASE GetSnapshotBuilder
    BY <2>3, ZenonT(30) DEF GetSnapshotBuilder, Ready, disk, cache, raft, ghosts
  <2> QED BY <2>1, <2>2, <2>3, Zenon
<1>2. op'.kind \in {"idle", "stopped"}
  BY <1>1 DEF Idle, Stopped
<1>3. DiskInv'
  BY <1>1, KeepDisk, Zenon DEF WalInv
<1>4. MemoryTypes' /\ MemoryAgrees'
  BY <1>1, <1>2, SameMemory, Zenon DEF Settled
<1>5. OpInv'
  BY <1>1, <1>2, IdleDurable, NoOperation, ZenonT(30)
<1> QED BY <1>3, <1>4, <1>5, Zenon DEF WalInv

\* The builder, outside the mutex, may write its file at any point of another
\* operation.
LEMMA BuildStep ==
  ASSUME WalInv, BuildSnapshot
  PROVE  WalInv'
<1>1. /\ files \subseteq files' /\ op' = op
      /\ UNCHANGED <<wal, synced, vote, log_cache, pending_unsynced, last_purged,
                     snapshot_meta, next, acked, issued, promised, removed>>
  BY Zenon DEF BuildSnapshot, cache, ghosts
<1>2. DiskInv'
  BY <1>1, KeepDisk, Zenon DEF WalInv
<1>3. MemoryTypes'
  BY <1>1, SameMemory, Zenon
<1>4. MemoryAgrees'
  BY <1>1, Zenon DEF WalInv, MemoryAgrees, Reflected
<1>5. OpInv'
  BY <1>1, ZenonT(30) DEF WalInv, OpInv, Durable
<1> QED BY <1>2, <1>3, <1>4, <1>5, Zenon DEF WalInv

\* install_snapshot, up to its marker: the file is there before the record.
LEMMA InstallSteps ==
  ASSUME WalInv,
         (\E m \in Received : InstallSnapshot(m)) \/ WriteSnapshotFile \/ RestoreStateMachine
  PROVE  WalInv'
<1>1. /\ op.kind \in {"idle", "file", "restore"} /\ files \subseteq files'
      /\ UNCHANGED <<wal, synced, vote, log_cache, pending_unsynced, last_purged,
                     snapshot_meta, next, acked, issued, promised, removed>>
      /\ op' \in InstallOp /\ op'.kind \in {"file", "restore", "marker"}
      /\ op'.kind \in {"restore", "marker"} => op'.meta \in files'
  <2>1. CASE \E m \in Received : InstallSnapshot(m)
    <3>1. PICK m \in Received : InstallSnapshot(m)
      BY <2>1, Zenon
    <3>2. m \in Snapshots
      BY DEF Received, Snapshots, OptId
    <3>3. /\ op.kind = "idle" /\ op' = [kind |-> "file", meta |-> m]
          /\ UNCHANGED <<wal, synced, files, vote, log_cache, pending_unsynced, last_purged,
                         snapshot_meta, next, acked, issued, promised, removed>>
      BY <3>1, Zenon DEF InstallSnapshot, Ready, disk, cache, raft, ghosts
    <3>4. op' \in InstallOp /\ op'.kind = "file"
      BY <3>2, <3>3, Zenon DEF InstallOp
    <3> QED BY <3>3, <3>4, Zenon
  <2>2. CASE WriteSnapshotFile
    <3>1. /\ op.kind = "file" /\ files' = files \union {op.meta}
          /\ op' = [op EXCEPT !.kind = "restore"]
          /\ UNCHANGED <<wal, synced, vote, log_cache, pending_unsynced, last_purged,
                         snapshot_meta, next, acked, issued, promised, removed>>
      BY <2>2, Zenon DEF WriteSnapshotFile, cache, raft, ghosts
    <3>2. op \in InstallOp
      BY <3>1, Zenon DEF WalInv, OpInv
    <3>3. op' \in InstallOp /\ op'.kind = "restore" /\ op'.meta = op.meta
      BY <3>1, <3>2, Zenon DEF InstallOp
    <3> QED BY <3>1, <3>3
  <2>3. CASE RestoreStateMachine
    <3>1. /\ op.kind = "restore" /\ op' = [op EXCEPT !.kind = "marker"]
          /\ UNCHANGED <<wal, synced, files, vote, log_cache, pending_unsynced, last_purged,
                         snapshot_meta, next, acked, issued, promised, removed>>
      BY <2>3, Zenon DEF RestoreStateMachine, disk, cache, raft, ghosts
    <3>2. op \in InstallOp /\ op.meta \in files
      BY <3>1, Zenon DEF WalInv, OpInv
    <3>3. op' \in InstallOp /\ op'.kind = "marker" /\ op'.meta = op.meta
      BY <3>1, <3>2, Zenon DEF InstallOp
    <3> QED BY <3>1, <3>2, <3>3
  <2> QED BY <2>1, <2>2, <2>3, Zenon
<1>2. DiskInv'
  BY <1>1, KeepDisk, Zenon DEF WalInv
<1>3. MemoryTypes' /\ MemoryAgrees'
  BY <1>1, SameMemory, Zenon DEF Settled
<1>4. synced' = Len(wal') /\ pending_unsynced' = 0
  BY <1>1, IdleDurable, Zenon
<1>5. OpInv'
  BY <1>1, <1>4, Zenon DEF OpInv, Durable
<1> QED BY <1>2, <1>3, <1>5, Zenon DEF WalInv

LEMMA MarkerStep ==
  ASSUME WalInv, WriteMarker
  PROVE  WalInv'
<1> DEFINE r == SnapshotApplied(op.meta)
           n == Len(wal)
<1>1. /\ op.kind = "marker" /\ wal' = Append(wal, r)
      /\ acked' = {e \in acked : e.id.index > op.meta.last.index}
      /\ op' = [op EXCEPT !.kind = "publish"]
      /\ UNCHANGED <<synced, files, vote, log_cache, next, last_purged, snapshot_meta, issued,
                     promised, removed>>
  BY Zenon DEF WriteMarker, cache, raft
<1>2. op \in InstallOp /\ op.meta \in files /\ op.meta \in Snapshots
  BY <1>1, Zenon DEF WalInv, OpInv, InstallOp
<1>3. r \in Records /\ r.type = "SnapshotApplied" /\ r.meta = op.meta
  BY <1>2, RecordsAre, Zenon DEF SnapshotApplied
<1> HIDE DEF r
<1>4. /\ n \in Nat /\ wal \in Seq(Records)
      /\ CacheOf(log_cache, wal, n) /\ VoteOf(vote, wal, n)
  BY <1>1, SettledFacts, Zenon DEF Settled
<1>5. /\ Len(wal') = n + 1 /\ wal'[n + 1] = r
      /\ \A k \in 1..n : wal[k] = wal'[k]
  BY <1>1, <1>3, <1>4
<1>6. \A i : ~Removes(r, i)
  BY <1>3, RemovesFacts, Zenon
<1>7. DiskInv'
  <2>1. DiskInv /\ acked \subseteq Entries
    BY Zenon DEF WalInv, DiskInv
  <2>2. acked' \subseteq acked
    BY <1>1, Zenon
  <2>3. \A e \in acked' : ~Removes(r, e.id.index) /\ ~Covers(r, e.id.index)
    BY <2>1, <1>1, <1>2, <1>3, <1>6, IndexFacts DEF Covers
  <2>4. /\ r.type # "AppendLog" /\ r.type # "Vote" /\ r.meta \in files'
        /\ synced' \in {synced, Len(wal) + 1} /\ files \subseteq files' /\ issued \subseteq issued'
    BY <1>1, <1>2, <1>3, Zenon
  <2> HIDE DEF n
  <2> QED BY <2>1, <2>2, <2>3, <2>4, <1>1, <1>3, GrowDisk, ZenonT(30)
<1> HIDE DEF n
<1>8. op' \in InstallOp /\ op'.kind = "publish" /\ op'.meta = op.meta
  BY <1>1, <1>2, Zenon DEF InstallOp
<1>9. MemoryTypes'
  BY <1>1, SameMemory, Zenon
<1>10. MemoryAgrees'
  <2>1. CacheOf(log_cache, wal', n)
    BY <1>4, <1>5, CacheStays, ZenonT(30)
  <2>2. CacheOf(log_cache', wal', n + 1)
    BY <2>1, <1>1, <1>4, <1>5, <1>6, CacheAdvances, ZenonT(30)
  <2>3. VoteOf(vote, wal', n)
    BY <1>4, <1>5, VoteStays, ZenonT(30)
  <2>4. ~IsVote(wal', n + 1)
    BY <1>3, <1>5, Zenon DEF IsVote
  <2>5. \A k \in 1..(n + 1) : k = n + 1 \/ k \in 1..n
    BY <1>4
  <2>6. VoteOf(vote', wal', n + 1)
    BY <2>3, <2>4, <2>5, <1>1, ZenonT(30) DEF VoteOf
  <2> QED BY <2>2, <2>6, <1>5, <1>8, SettledNext, Zenon DEF Settled
<1>11. OpInv'
  BY <1>1, <1>2, <1>8 DEF OpInv
<1> QED BY <1>7, <1>9, <1>10, <1>11, Zenon DEF WalInv

\* The file is synced with nothing more to acknowledge.
LEMMA SyncOnly ==
  ASSUME WalInv, wal' = wal, synced' = Len(wal),
         UNCHANGED <<files, acked, issued, promised, removed>>
  PROVE  DiskInv'
<1>1. /\ DiskInv /\ Len(wal) \in synced..Len(wal) /\ acked' \subseteq Entries /\ promised' \in Nat
      /\ files \subseteq files' /\ promised' = promised
  BY SettledFacts DEF WalInv, DiskInv
<1>2. \A k \in 1..Len(wal) : Kept(wal, k, Len(wal)) => wal[k].entry \in issued'
  BY <1>1, Zenon DEF DiskInv, IssuedInv
<1>3. ~removed => \A e \in acked' : Reads(wal, e, Len(wal))
  BY <1>1, ZenonT(30) DEF DiskInv, AckedInv
<1> QED BY <1>1, <1>2, <1>3, SettleDisk, ZenonT(30)

LEMMA PublishStep ==
  ASSUME WalInv, PublishSnapshot
  PROVE  WalInv'
<1>1. /\ op.kind = "publish" /\ synced' = Len(wal) /\ pending_unsynced' = 0
      /\ snapshot_meta' = op.meta /\ next' = Greatest({next, op.meta.last.index + 1})
      /\ op' = Idle
      /\ UNCHANGED <<wal, files, vote, log_cache, last_purged, acked, issued, promised, removed>>
  BY Zenon DEF PublishSnapshot, cache, ghosts
<1>2. op.meta \in Snapshots
  BY <1>1, Zenon DEF WalInv, OpInv, InstallOp
<1>3. next' \in Nat
  <2>1. next \in Nat /\ op.meta.last.index + 1 \in Nat
    BY <1>2, IndexFacts DEF WalInv, MemoryTypes
  <2> QED BY <2>1, <1>1, GreaterOfTwo, Zenon
<1>4. DiskInv'
  BY <1>1, SyncOnly, Zenon
<1>5. op'.kind = "idle"
  BY <1>1, Zenon DEF Idle
<1>6. MemoryTypes'
  BY <1>1, <1>2, <1>3, Zenon DEF WalInv, MemoryTypes
<1>7. MemoryAgrees'
  BY <1>1, <1>5, SettledFacts, SettledNext, ZenonT(30) DEF Settled
<1>8. OpInv'
  BY <1>1, <1>5, NoOperation, Zenon
<1> QED BY <1>4, <1>6, <1>7, <1>8, Zenon DEF WalInv

-----------------------------------------------------------------------------
(* Crash and recovery.                                                     *)

LEMMA FailStep ==
  ASSUME WalInv, IoFails
  PROVE  WalInv'
<1>1. /\ op' = Stopped
      /\ UNCHANGED <<wal, synced, files, vote, log_cache, pending_unsynced, last_purged,
                     snapshot_meta, next, acked, issued, promised, removed>>
  BY Zenon DEF IoFails, disk, cache, raft, ghosts
<1>2. op'.kind = "stopped"
  BY <1>1, Zenon DEF Stopped
<1>3. DiskInv'
  BY <1>1, KeepDisk, Zenon DEF WalInv
<1>4. MemoryTypes' /\ OpInv'
  BY <1>1, <1>2, SameMemory, NoOperation, ZenonT(30)
<1>5. MemoryAgrees'
  BY <1>2, Zenon DEF MemoryAgrees
<1> QED BY <1>3, <1>4, <1>5, Zenon DEF WalInv

\* Empty memory.
LEMMA EmptyMemory ==
  ASSUME vote' = 0, log_cache' = NoEntries, last_purged' = NoId, snapshot_meta' = NoSnapshot,
         next' \in Nat
  PROVE  MemoryTypes' /\ DOMAIN log_cache' = {}
<1>1. NoId \in OptId /\ NoSnapshot \in Snapshots
  BY Zenon DEF OptId, NoSnapshot, Snapshots
<1>2. DOMAIN log_cache' = {} /\ IsCache(log_cache')
  BY Zenon DEF NoEntries, IsCache
<1> QED BY <1>1, <1>2, Zenon DEF MemoryTypes

LEMMA CrashesStep ==
  ASSUME WalInv, Crash
  PROVE  WalInv'
<1>1. PICK n \in synced..Len(wal) : wal' = SubSeq(wal, 1, n) /\ synced' = n
  BY Zenon DEF Crash
<1>2. /\ vote' = 0 /\ log_cache' = NoEntries /\ pending_unsynced' = 0
      /\ last_purged' = NoId /\ snapshot_meta' = NoSnapshot /\ next' = 1 /\ op' = Down
      /\ UNCHANGED <<files, acked, issued, promised, removed>>
  BY Zenon DEF Crash, ghosts
<1>3. DiskInv'
  BY <1>1, <1>2, CutDisk, Zenon DEF WalInv
<1>4. op'.kind = "down"
  BY <1>2, Zenon DEF Down
<1>5. MemoryTypes' /\ DOMAIN log_cache' = {}
  BY <1>2, EmptyMemory, Zenon
<1>6. MemoryAgrees'
  BY <1>4, <1>5, Zenon DEF MemoryAgrees
<1>7. synced' = Len(wal')
  BY <1>1 DEF WalInv, DiskInv
<1>8. OpInv'
  BY <1>2, <1>4, <1>7, Zenon DEF OpInv, Durable
<1> QED BY <1>3, <1>5, <1>6, <1>8, ZenonT(30) DEF WalInv

\* Recovery starts with nothing of the file in memory.
LEMMA ReplayBegins ==
  ASSUME op' = [kind |-> "replay", at |-> 0], DOMAIN log_cache' = {}, wal' \in Seq(Records),
         synced' = Len(wal'), pending_unsynced' = 0
  PROVE  MemoryAgrees' /\ OpInv'
<1>1. op'.kind = "replay" /\ op'.at = 0 /\ op' \in ReplayOp
  BY Zenon DEF ReplayOp
<1>2. Reflected' = 0
  BY <1>1, Zenon DEF Reflected
<1>3. CacheOf(log_cache', wal', 0) /\ VoteOf(vote', wal', 0)
  BY DEF CacheOf, VoteOf
<1>4. MemoryAgrees'
  BY <1>1, <1>2, <1>3, Zenon DEF MemoryAgrees
<1>5. OpInv'
  BY <1>1 DEF OpInv, Durable
<1> QED BY <1>4, <1>5, Zenon

LEMMA BeginReplayStep ==
  ASSUME WalInv, BeginReplay
  PROVE  WalInv'
<1>1. /\ op = Down /\ op' = [kind |-> "replay", at |-> 0]
      /\ UNCHANGED <<wal, synced, files, vote, log_cache, pending_unsynced, last_purged,
                     snapshot_meta, next, acked, issued, promised, removed>>
  BY Zenon DEF BeginReplay, disk, cache, raft, ghosts
<1>2. op.kind = "down"
  BY <1>1, Zenon DEF Down
<1>3. /\ DOMAIN log_cache = {} /\ wal \in Seq(Records)
      /\ synced = Len(wal) /\ pending_unsynced = 0
  BY <1>2, SettledFacts, IdleDurable, Zenon DEF WalInv, MemoryAgrees
<1>4. DiskInv'
  BY <1>1, KeepDisk, Zenon DEF WalInv
<1>5. MemoryTypes' /\ MemoryAgrees' /\ OpInv'
  BY <1>1, <1>3, SameMemory, ReplayBegins, Zenon
<1> QED BY <1>4, <1>5, Zenon DEF WalInv

LEMMA RemoveStep ==
  ASSUME WalInv, RemoveGroupDirs
  PROVE  WalInv'
<1>1. /\ wal' = <<>> /\ synced' = 0 /\ files' = {} /\ removed' = TRUE
      /\ op' = [kind |-> "replay", at |-> 0]
      /\ vote' = 0 /\ log_cache' = NoEntries /\ pending_unsynced' = 0
      /\ last_purged' = NoId /\ snapshot_meta' = NoSnapshot
      /\ UNCHANGED <<next, acked, issued, promised>>
  BY Zenon DEF RemoveGroupDirs, raft
<1>2. wal' \in Seq(Records) /\ Len(wal') = 0 /\ synced' \in 0..Len(wal')
  BY <1>1
<1>3. \A k : k \notin 1..0 /\ k \notin 1..Len(wal') /\ k \notin DOMAIN wal'
  BY <1>1, <1>2
<1>4. IssuedInv'
  <2>1. \A n \in synced'..Len(wal') : n = 0
    BY <1>1, <1>2
  <2> QED BY <2>1, <1>3, ZenonT(30) DEF IssuedInv
<1>5. AckedInv' /\ PromiseKept'
  BY <1>1, Zenon DEF AckedInv, PromiseKept
<1>6. VotesAscend' /\ CheckpointHasFile'
  BY <1>3, ZenonT(30) DEF VotesAscend, CheckpointHasFile
<1>7. DiskInv'
  BY <1>1, <1>2, <1>4, <1>5, <1>6, ZenonT(30) DEF WalInv, DiskInv
<1>8. next' \in Nat
  BY <1>1, Zenon DEF WalInv, MemoryTypes
<1>9. MemoryTypes' /\ DOMAIN log_cache' = {}
  BY <1>1, <1>8, EmptyMemory, Zenon
<1>10. MemoryAgrees' /\ OpInv'
  BY <1>1, <1>2, <1>9, ReplayBegins, Zenon
<1> QED BY <1>7, <1>9, <1>10, Zenon DEF WalInv

\* apply_wal_record: memory moves on by one record.
LEMMA ReplayStep ==
  ASSUME WalInv, ReplayRecord
  PROVE  WalInv'
<1> DEFINE n == op.at
           r == wal[n + 1]
<1>1. /\ op.kind = "replay" /\ n < Len(wal) /\ op' = [op EXCEPT !.at = @ + 1]
      /\ UNCHANGED <<wal, synced, files, pending_unsynced, next, acked, issued, promised, removed>>
      /\ \/ r.type = "AppendLog" /\ ReplayAppend(r.entry)
         \/ r.type = "Vote" /\ ReplayVote(r.vote)
         \/ r.type = "SnapshotApplied" /\ ReplaySnapshot(r.meta)
         \/ r.type = "Truncate" /\ ReplayTruncate(r.id)
         \/ r.type = "Purge" /\ ReplayPurge(r.id)
  BY ZenonT(30) DEF ReplayRecord, disk, raft, ghosts
<1>2. op \in ReplayOp /\ n <= Len(wal)
  BY <1>1, Zenon DEF WalInv, OpInv
<1>3. n \in Nat /\ wal \in Seq(Records) /\ Len(wal) \in Nat /\ n + 1 \in 1..Len(wal) /\ r \in Records
  BY <1>1, <1>2, SettledFacts DEF ReplayOp
<1>4. Reflected = n /\ op.kind \notin {"stopped", "down"}
  BY <1>1, Zenon DEF Reflected
<1>5. CacheOf(log_cache, wal, n) /\ VoteOf(vote, wal, n)
  BY <1>4, Zenon DEF WalInv, MemoryAgrees
<1>6. op'.kind = "replay" /\ op'.at = n + 1 /\ op' \in ReplayOp
  BY <1>1, <1>2, <1>3 DEF ReplayOp
<1>7. wal[n + 1] = r
  BY Zenon
<1> HIDE DEF n, r
<1>8. DiskInv'
  BY <1>1, KeepDisk, Zenon DEF WalInv
<1>9. OpInv'
  <2>1. synced' = Len(wal') /\ pending_unsynced' = 0
    BY <1>1, IdleDurable, Zenon
  <2>2. op'.at <= Len(wal')
    BY <1>1, <1>3, <1>6
  <2> QED BY <2>1, <2>2, <1>6, Zenon DEF OpInv, Durable
<1>10. /\ IsCache(log_cache) /\ vote \in Nat /\ last_purged \in OptId /\ snapshot_meta \in Snapshots
       /\ next \in Nat
  BY Zenon DEF WalInv, MemoryTypes
<1>11. \A k \in 1..n : IsVote(wal, k) => wal[k].vote \in Nat
  <2>1. \A k \in 1..n : k \in 1..Len(wal)
    BY <1>1, <1>3
  <2> QED BY <2>1, <1>3, VotesAreNumbers, ZenonT(30)
<1>a. ASSUME ~IsVote(wal, n + 1), vote' = vote PROVE VoteOf(vote', wal, n + 1)
  <2>1. vote <= vote'
    BY <1>a, <1>10
  <2> QED BY <2>1, <1>a, <1>3, <1>5, <1>10, <1>11, VoteAdvances, ZenonT(30)
<1>b. ASSUME log_cache' = log_cache, \A i : ~Removes(r, i)
      PROVE  IsCache(log_cache') /\ CacheOf(log_cache', wal, n + 1)
  BY <1>b, <1>3, <1>5, <1>7, <1>10, CacheAdvances, ZenonT(30)
<1>12. /\ IsCache(log_cache') /\ CacheOf(log_cache', wal, n + 1)
       /\ vote' \in Nat /\ VoteOf(vote', wal, n + 1)
       /\ last_purged' \in OptId /\ snapshot_meta' \in Snapshots
  <2>1. CASE r.type = "AppendLog" /\ ReplayAppend(r.entry)
    <3>1. CacheInsert(r.entry) /\ UNCHANGED <<vote, last_purged, snapshot_meta>>
      BY <2>1, Zenon DEF ReplayAppend
    <3>2. r.entry \in Entries
      BY <2>1, <1>3, RecordFacts, Zenon
    <3>3. /\ IsCache(log_cache')
          /\ \A i \in DOMAIN log_cache' :
               \/ i = r.entry.id.index /\ log_cache'[i] = r.entry
               \/ i # r.entry.id.index /\ i \in DOMAIN log_cache /\ log_cache'[i] = log_cache[i]
      BY <3>1, <3>2, <1>10, InsertFacts, ZenonT(30)
    <3>4. \A i : Removes(r, i) <=> i = r.entry.id.index
      BY <2>1, RemovesFacts, Zenon
    <3>5. Has(wal, r.entry, n + 1)
      <4>1. Kept(wal, n + 1, n + 1)
        BY <2>1, <1>3, <1>7 DEF Kept
      <4>2. n + 1 \in 1..(n + 1)
        BY <1>3
      <4> QED BY <4>1, <4>2, <1>7, Zenon DEF Has
    <3>6. CacheOf(log_cache', wal, n + 1)
      BY <3>3, <3>4, <3>5, <1>3, <1>5, <1>7, CacheAdvances, ZenonT(30)
    <3>7. ~IsVote(wal, n + 1)
      BY <2>1, <1>7, Zenon DEF IsVote
    <3> QED BY <3>1, <3>3, <3>6, <3>7, <1>a, <1>10, ZenonT(30)
  <2>2. CASE r.type = "Vote" /\ ReplayVote(r.vote)
    <3>1. vote' = r.vote /\ UNCHANGED <<log_cache, last_purged, snapshot_meta>>
      BY <2>2, Zenon DEF ReplayVote, cache
    <3>2. r.vote \in Nat /\ \A i : ~Removes(r, i)
      BY <2>2, <1>3, RecordFacts, RemovesFacts, ZenonT(30)
    <3>3. VoteOf(vote', wal, n + 1)
      <4> SUFFICES ASSUME NEW k \in 1..(n + 1), IsVote(wal, k) PROVE wal[k].vote <= vote'
        BY Zenon DEF VoteOf
      <4>1. CASE k = n + 1
        BY <4>1, <3>1, <3>2, <1>7
      <4>2. CASE k \in 1..n
        <5>1. k \in 1..Len(wal) /\ k < n + 1 /\ IsVote(wal, n + 1)
          BY <4>2, <2>2, <1>3, <1>7 DEF IsVote
        <5>2. wal[k].vote < wal[n + 1].vote
          BY <5>1, <1>3, Zenon DEF WalInv, DiskInv, VotesAscend
        <5>3. wal[k].vote \in Nat
          BY <4>2, <1>11, Zenon
        <5> QED BY <5>2, <5>3, <3>1, <3>2, <1>7
      <4> QED BY <4>1, <4>2, <1>3
    <3> QED BY <3>1, <3>2, <3>3, <1>b, <1>10, ZenonT(30)
  <2>3. CASE r.type = "SnapshotApplied" /\ ReplaySnapshot(r.meta)
    <3>1. snapshot_meta' = r.meta /\ UNCHANGED <<vote, log_cache, last_purged>>
      BY <2>3, Zenon DEF ReplaySnapshot, cache
    <3>2. r.meta \in Snapshots /\ \A i : ~Removes(r, i)
      BY <2>3, <1>3, RecordFacts, RemovesFacts, Zenon
    <3>3. ~IsVote(wal, n + 1)
      BY <2>3, <1>7, Zenon DEF IsVote
    <3> QED BY <3>1, <3>2, <3>3, <1>a, <1>b, <1>10, ZenonT(30)
  <2>4. CASE r.type = "Truncate" /\ ReplayTruncate(r.id)
    <3>1. truncate_cache(r.id.index) /\ UNCHANGED <<vote, last_purged, snapshot_meta>>
      BY <2>4, Zenon DEF ReplayTruncate
    <3>2. r.id.index \in Nat
      BY <2>4, <1>3, RecordFacts, IndexFacts, Zenon
    <3>3. /\ IsCache(log_cache')
          /\ \A j \in DOMAIN log_cache' : j \in DOMAIN log_cache /\ j <= r.id.index /\ log_cache'[j] = log_cache[j]
      BY <3>1, <3>2, <1>10, CutFacts, Zenon
    <3>4. \A j \in DOMAIN log_cache : j \in Nat
      BY <1>10, WalAssumption DEF IsCache
    <3>5. \A j \in DOMAIN log_cache' : ~Removes(r, j)
      BY <3>2, <3>3, <3>4, <2>4, RemovesFacts
    <3>6. CacheOf(log_cache', wal, n + 1)
      BY <3>3, <3>5, <1>3, <1>5, <1>7, CacheAdvances, ZenonT(30)
    <3>7. ~IsVote(wal, n + 1)
      BY <2>4, <1>7, Zenon DEF IsVote
    <3> QED BY <3>1, <3>3, <3>6, <3>7, <1>a, <1>10, ZenonT(30)
  <2>5. CASE r.type = "Purge" /\ ReplayPurge(r.id)
    <3>1. purge_cache(r.id.index) /\ last_purged' = r.id /\ UNCHANGED <<vote, snapshot_meta>>
      BY <2>5, Zenon DEF ReplayPurge
    <3>2. r.id.index \in Nat /\ r.id \in OptId
      BY <2>5, <1>3, RecordFacts, IndexFacts, Zenon DEF OptId
    <3>3. /\ IsCache(log_cache')
          /\ \A j \in DOMAIN log_cache' : j \in DOMAIN log_cache /\ j > r.id.index /\ log_cache'[j] = log_cache[j]
      BY <3>1, <3>2, <1>10, CutFacts, Zenon
    <3>4. \A j \in DOMAIN log_cache : j \in Nat
      BY <1>10, WalAssumption DEF IsCache
    <3>5. \A j \in DOMAIN log_cache' : ~Removes(r, j)
      BY <3>2, <3>3, <3>4, <2>5, RemovesFacts
    <3>6. CacheOf(log_cache', wal, n + 1)
      BY <3>3, <3>5, <1>3, <1>5, <1>7, CacheAdvances, ZenonT(30)
    <3>7. ~IsVote(wal, n + 1)
      BY <2>5, <1>7, Zenon DEF IsVote
    <3> QED BY <3>1, <3>2, <3>3, <3>6, <3>7, <1>a, <1>10, ZenonT(30)
  <2> QED BY <1>1, <2>1, <2>2, <2>3, <2>4, <2>5, ZenonT(30)
<1>13. MemoryTypes'
  BY <1>1, <1>10, <1>12, Zenon DEF MemoryTypes
<1>14. Reflected' = n + 1
  BY <1>6, Zenon DEF Reflected
<1>15. MemoryAgrees'
  BY <1>1, <1>6, <1>12, <1>14, Zenon DEF MemoryAgrees
<1> QED BY <1>8, <1>9, <1>13, <1>15, Zenon DEF WalInv

\* OpenRaft starts on the recovered storage.
LEMMA FinishReplayStep ==
  ASSUME WalInv, FinishReplay
  PROVE  WalInv'
<1>1. /\ op.kind = "replay" /\ op.at = Len(wal) /\ op' = Idle
      /\ issued' = {wal[k].entry : k \in {k \in DOMAIN wal : Stays(k, Len(wal))}}
      /\ next' = Greatest({last_log_id.index, last_purged.index, get_current_snapshot.last.index}) + 1
      /\ UNCHANGED <<wal, synced, files, vote, log_cache, pending_unsynced, last_purged,
                     snapshot_meta, acked, promised, removed>>
  BY ZenonT(30) DEF FinishReplay, disk, cache, raft
<1>2. /\ wal \in Seq(Records) /\ Len(wal) \in Nat /\ synced = Len(wal) /\ pending_unsynced = 0
      /\ DOMAIN wal = 1..Len(wal)
  BY <1>1, SettledFacts, IdleDurable
<1>3. Reflected = Len(wal) /\ op.kind \notin {"stopped", "down"}
  BY <1>1, Zenon DEF Reflected
<1>4. CacheOf(log_cache, wal, Len(wal)) /\ VoteOf(vote, wal, Len(wal))
  BY <1>3, Zenon DEF WalInv, MemoryAgrees
<1>5. DiskInv'
  <2>1. \A k \in 1..Len(wal) : Kept(wal, k, Len(wal)) => wal[k].entry \in issued'
    <3>1. \A k : Kept(wal, k, Len(wal)) <=> Stays(k, Len(wal))
      BY ZenonT(30) DEF Kept, Stays
    <3> QED BY <3>1, <1>1, <1>2, Zenon
  <2>2. /\ DiskInv /\ Len(wal) \in synced..Len(wal) /\ acked' \subseteq Entries /\ promised' \in Nat
        /\ files \subseteq files' /\ promised' = promised
    BY <1>1, <1>2 DEF WalInv, DiskInv
  <2>3. ~removed => \A e \in acked' : Reads(wal, e, Len(wal))
    BY <2>2, <1>1, ZenonT(30) DEF DiskInv, AckedInv
  <2> QED BY <2>1, <2>2, <2>3, <1>1, <1>2, SettleDisk, ZenonT(30)
<1>6. op'.kind = "idle"
  BY <1>1, Zenon DEF Idle
<1>7. MemoryAgrees' /\ OpInv'
  BY <1>1, <1>2, <1>4, <1>6, SettledNext, NoOperation, ZenonT(30) DEF Settled
<1>8. next' \in Nat
  <2>1. last_purged.index \in Nat
    BY IndexFacts, Zenon DEF WalInv, MemoryTypes
  <2>2. get_current_snapshot.last.index \in Nat
    <3>1. NoSnapshot \in Snapshots
      BY Zenon DEF OptId, NoSnapshot, Snapshots
    <3> QED BY <3>1, IndexFacts, Zenon DEF WalInv, MemoryTypes, get_current_snapshot
  <2>3. last_log_id.index \in Nat
    <3>1. IsCache(log_cache)
      BY Zenon DEF WalInv, MemoryTypes
    <3>2. CASE log_cache = NoEntries
      BY <3>2, Zenon DEF last_log_id, NoId
    <3>3. CASE log_cache # NoEntries
      <4>1. DOMAIN log_cache # {}
        <5> SUFFICES ASSUME DOMAIN log_cache = {} PROVE log_cache = NoEntries
          BY <3>3, Zenon
        <5>1. log_cache = [i \in {} |-> log_cache[i]]
          BY <3>1, ZenonT(30) DEF IsCache
        <5>2. [i \in {} |-> log_cache[i]] = [i \in {} |-> NoId]
          BY ZenonT(30)
        <5> QED BY <5>1, <5>2, Zenon DEF NoEntries
      <4>2. DOMAIN log_cache \in SUBSET (0..MaxIndex) /\ 0 \notin DOMAIN log_cache
        BY <3>1, WalAssumption DEF IsCache
      <4>3. MaxIndex \in Nat
        BY WalAssumption, Zenon
      <4>4. Greatest(DOMAIN log_cache) \in DOMAIN log_cache /\ Greatest(DOMAIN log_cache) \in Nat
        BY <4>1, <4>2, <4>3, GreatestFacts, ZenonT(30)
      <4>5. log_cache[Greatest(DOMAIN log_cache)].id.index = Greatest(DOMAIN log_cache)
        BY <4>4, <1>4, ZenonT(30) DEF CacheOf
      <4> QED BY <3>3, <4>4, <4>5, ZenonT(30) DEF last_log_id
    <3> QED BY <3>2, <3>3, Zenon
  <2>4. Greatest({last_log_id.index, last_purged.index, get_current_snapshot.last.index}) \in Nat
    BY <2>1, <2>2, <2>3, GreatestOfThree, Zenon
  <2> QED BY <2>4, <1>1
<1>9. MemoryTypes'
  BY <1>1, <1>8, Zenon DEF WalInv, MemoryTypes
<1> QED BY <1>5, <1>7, <1>9, Zenon DEF WalInv

-----------------------------------------------------------------------------
(* The theorems.                                                           *)

LEMMA WalInvInit == Init => WalInv
<1> SUFFICES ASSUME Init PROVE WalInv
  BY Zenon
<1>1. /\ wal = <<>> /\ synced = 0 /\ vote = 0 /\ log_cache = NoEntries /\ pending_unsynced = 0
      /\ last_purged = NoId /\ snapshot_meta = NoSnapshot /\ op = Idle /\ next = 1
      /\ acked = {} /\ promised = 0 /\ op.kind = "idle"
  BY Zenon DEF Init, Idle
<1>2. wal \in Seq(Records) /\ Len(wal) = 0 /\ \A k : k \notin 1..Len(wal) /\ k \notin DOMAIN wal
  BY <1>1
<1>3. DiskInv
  <2>1. IssuedInv
    BY <1>1, <1>2 DEF IssuedInv
  <2>2. AckedInv /\ PromiseKept
    BY <1>1, Zenon DEF AckedInv, PromiseKept
  <2>3. VotesAscend /\ CheckpointHasFile
    BY <1>2, ZenonT(30) DEF VotesAscend, CheckpointHasFile
  <2> QED BY <2>1, <2>2, <2>3, <1>1, <1>2 DEF DiskInv
<1>4. MemoryTypes /\ DOMAIN log_cache = {}
  <2>1. NoId \in OptId /\ NoSnapshot \in Snapshots
    BY Zenon DEF OptId, NoSnapshot, Snapshots
  <2>2. DOMAIN log_cache = {} /\ IsCache(log_cache)
    BY <1>1, Zenon DEF NoEntries, IsCache
  <2> QED BY <2>1, <2>2, <1>1, Zenon DEF MemoryTypes
<1>5. MemoryAgrees
  <2>1. Reflected = 0
    BY <1>1, <1>2, Zenon DEF Reflected
  <2>2. CacheOf(log_cache, wal, 0) /\ VoteOf(vote, wal, 0)
    BY <1>4 DEF CacheOf, VoteOf
  <2> QED BY <2>1, <2>2, <1>1, Zenon DEF MemoryAgrees
<1>6. OpInv
  BY <1>1, <1>2, Zenon DEF OpInv, Durable
<1> QED BY <1>3, <1>4, <1>5, <1>6, Zenon DEF WalInv

LEMMA WalInvNext ==
  ASSUME WalInv, [Next]_vars
  PROVE  WalInv'
<1>1. ASSUME UNCHANGED vars PROVE WalInv'
  <2>1. UNCHANGED <<wal, synced, files, vote, log_cache, pending_unsynced, last_purged,
                    snapshot_meta, op, next, acked, issued, promised, removed>>
    BY <1>1, Zenon DEF vars
  <2>2. DiskInv' /\ MemoryTypes'
    BY <2>1, KeepDisk, SameMemory, Zenon DEF WalInv
  <2>3. MemoryAgrees' /\ OpInv'
    BY <2>1, ZenonT(30) DEF WalInv, MemoryAgrees, Reflected, OpInv, Durable
  <2> QED BY <2>2, <2>3, Zenon DEF WalInv
<1>2. ASSUME LogStep PROVE WalInv'
  BY <1>2, BeginAppendStep, AppendEntryStep, FinishAppendStep, WriteSteps, FinishSteps, ReadSteps,
     ZenonT(30) DEF LogStep
<1>3. ASSUME SnapshotStep PROVE WalInv'
  BY <1>3, ApplySteps, BuildStep, InstallSteps, MarkerStep, PublishStep, ZenonT(30) DEF SnapshotStep
<1>4. ASSUME CrashStep PROVE WalInv'
  BY <1>4, FailStep, CrashesStep, BeginReplayStep, ReplayStep, FinishReplayStep, RemoveStep,
     ZenonT(30) DEF CrashStep
<1> QED BY <1>1, <1>2, <1>3, <1>4, Zenon DEF Next

LEMMA WalInvHolds == Spec => []WalInv
BY WalInvInit, WalInvNext, PTL DEF Spec

\* When the log can be read, memory reflects all of the file.
LEMMA ReadableFacts ==
  ASSUME WalInv, Readable
  PROVE  /\ wal \in Seq(Records) /\ Len(wal) \in Nat /\ Len(wal) \in synced..Len(wal)
         /\ CacheOf(log_cache, wal, Len(wal)) /\ VoteOf(vote, wal, Len(wal))
<1>1. wal \in Seq(Records) /\ Len(wal) \in Nat /\ Len(wal) \in synced..Len(wal)
  BY DEF WalInv, DiskInv
<1>2. Reflected = Len(wal) /\ op.kind \notin {"stopped", "down"}
  BY DEF Readable, Ready, Reflected
<1> QED BY <1>1, <1>2, Zenon DEF WalInv, MemoryAgrees

\* Every entry the log returns is one the file holds.
LEMMA ViewIsInFile ==
  ASSUME WalInv, Readable, NEW i \in DOMAIN LogView
  PROVE  LogView[i].id.index = i /\ Has(wal, LogView[i], Len(wal))
<1>1. wal \in Seq(Records) /\ CacheOf(log_cache, wal, Len(wal))
  BY ReadableFacts, Zenon
<1>2. CASE i \in DOMAIN log_cache /\ LogView[i] = log_cache[i]
  BY <1>1, <1>2, ZenonT(30) DEF CacheOf
<1>3. CASE LogView[i].id.index = i /\ LogView[i] \in read_entries_from_wal
  BY <1>1, <1>3, ScanFacts, ReadsHas, ZenonT(30)
<1> QED BY <1>2, <1>3, ViewFacts, ZenonT(30)

\* Between two operations every written record is durable.
THEOREM IdleStorageIsDurable == Spec => []IdleIsDurable
<1>1. WalInv => IdleIsDurable
  BY IdleDurable, Zenon DEF IdleIsDurable, Ready
<1> QED BY <1>1, WalInvHolds, PTL

\* While the group keeps its directories, no acknowledged vote is forgotten,
\* whatever crashes come between two steps of save_vote.
THEOREM VotesAreKept == Spec => []VoteIsKept
<1>1. ASSUME WalInv, Readable, ~removed PROVE promised <= vote
  <2>1. VoteOf(vote, wal, Len(wal)) /\ wal \in Seq(Records) /\ Len(wal) \in Nat
    BY <1>1, ReadableFacts, Zenon
  <2>2. promised \in Nat /\ vote \in Nat /\ synced \in 0..Len(wal)
    BY <1>1, Zenon DEF WalInv, DiskInv, MemoryTypes
  <2>3. CASE promised = 0
    BY <2>2, <2>3
  <2>4. CASE \E k \in 1..synced : IsVote(wal, k) /\ wal[k].vote >= promised
    <3>1. PICK k \in 1..synced : IsVote(wal, k) /\ wal[k].vote >= promised
      BY <2>4, Zenon
    <3>2. k \in 1..Len(wal)
      BY <2>1, <2>2
    <3>3. wal[k].vote <= vote /\ wal[k].vote \in Nat
      BY <3>1, <3>2, <2>1, VotesAreNumbers, Zenon DEF VoteOf
    <3> QED BY <3>1, <3>3, <2>2
  <2> QED BY <1>1, <2>3, <2>4, ZenonT(30) DEF WalInv, DiskInv, PromiseKept
<1>2. WalInv => VoteIsKept
  BY <1>1, ZenonT(30) DEF VoteIsKept
<1> QED BY <1>2, WalInvHolds, PTL

\* While the group keeps its directories, try_get_log_entries returns every
\* acknowledged entry that nothing has removed, through evictions, failed
\* writes, crashes and recoveries.
THEOREM AckedEntriesAreReadable == Spec => []AckedIsReadable
<1>1. ASSUME WalInv, Readable, ~removed, NEW e \in acked
      PROVE  e.id.index \in DOMAIN LogView /\ LogView[e.id.index] = e
  <2>1. wal \in Seq(Records) /\ Len(wal) \in Nat /\ Len(wal) \in synced..Len(wal)
    BY <1>1, ReadableFacts, Zenon
  <2>2. Reads(wal, e, Len(wal)) /\ e \in Entries
    BY <1>1, <2>1, ZenonT(30) DEF WalInv, DiskInv, AckedInv
  <2>3. e \in read_entries_from_wal /\ Has(wal, e, Len(wal))
    BY <2>1, <2>2, ScanFacts, ReadsHas, ZenonT(30)
  <2>4. e.id.index \in DOMAIN LogView
    BY <2>3, ViewFacts, Zenon
  <2>5. LogView[e.id.index].id.index = e.id.index /\ Has(wal, LogView[e.id.index], Len(wal))
    BY <1>1, <2>4, ViewIsInFile, ZenonT(30)
  <2>6. LogView[e.id.index] = e
    BY <2>1, <2>3, <2>5, OneEntry, ZenonT(30)
  <2> QED BY <2>4, <2>6, Zenon
<1>2. WalInv => AckedIsReadable
  BY <1>1, ZenonT(30) DEF AckedIsReadable, AckedIsIn
<1> QED BY <1>2, WalInvHolds, PTL

\* try_get_log_entries never returns an entry that an acknowledged truncate,
\* purge or overwrite removed.
THEOREM RemovedEntriesStayRemoved == Spec => []NothingIsResurrected
<1>1. ASSUME WalInv, Readable, NEW i \in DOMAIN LogView PROVE LogView[i] \in issued
  <2>1. Len(wal) \in synced..Len(wal)
    BY <1>1, ReadableFacts, Zenon
  <2>2. Has(wal, LogView[i], Len(wal))
    BY <1>1, ViewIsInFile, ZenonT(30)
  <2>3. PICK k \in 1..Len(wal) : Kept(wal, k, Len(wal)) /\ wal[k].entry = LogView[i]
    BY <2>2, ZenonT(30) DEF Has
  <2> QED BY <1>1, <2>1, <2>3, ZenonT(30) DEF WalInv, DiskInv, IssuedInv
<1>2. WalInv => NothingIsResurrected
  BY <1>1, ZenonT(30) DEF NothingIsResurrected
<1> QED BY <1>2, WalInvHolds, PTL

\* Recovery never meets a SnapshotApplied record without its file.
THEOREM CheckpointsHaveFiles == Spec => []CheckpointHasFile
<1>1. WalInv => CheckpointHasFile
  BY Zenon DEF WalInv, DiskInv
<1> QED BY <1>1, WalInvHolds, PTL
=============================================================================
