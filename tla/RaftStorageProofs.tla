------------------------- MODULE RaftStorageProofs -------------------------
(***************************************************************************)
(* Proofs about what a Raft node keeps: the durability barrier of the      *)
(* write-ahead logs, for any number of groups, any registration order and  *)
(* any bound on records; and the chunked snapshot transfer, for any number *)
(* of chunks, transfers, retries and timeouts.                             *)
(***************************************************************************)
EXTENDS WalDurability, SnapshotTransfer, FiniteSetTheorems, TLAPS

----------------------------------------------------------------------------
(* The durability barrier.                                                 *)

\* BarrierTypeOK is inductive: every action of the barrier keeps its variables in
\* the types the coordinator and the sinks declare.
THEOREM TypeCorrect == BarrierSpec => []BarrierTypeOK
<1>1. BarrierInit => BarrierTypeOK
  BY DEF BarrierInit, BarrierTypeOK, Outcomes, Places
<1>2. BarrierTypeOK /\ [BarrierNext]_barrierVars => BarrierTypeOK'
  <2> SUFFICES ASSUME BarrierTypeOK, [BarrierNext]_barrierVars
               PROVE  BarrierTypeOK'
    BY Zenon
  <2> USE DEF BarrierTypeOK, Outcomes, Places
  <2>1. ASSUME NEW g \in Groups, AppendRecord(g)
        PROVE  BarrierTypeOK'
    BY <2>1 DEF AppendRecord
  <2>2. ASSUME NEW g \in Groups, StoreDirty(g)
        PROVE  BarrierTypeOK'
    BY <2>2, Zenon DEF StoreDirty
  <2>3. ASSUME NEW g \in Groups, JoinBarrier(g)
        PROVE  BarrierTypeOK'
    BY <2>3, Zenon DEF JoinBarrier
  <2>4. ASSUME NEW g \in Groups, LeadBarrier(g)
        PROVE  BarrierTypeOK'
    BY <2>4, Zenon DEF LeadBarrier
  <2>5. ASSUME NEW g \in Groups, CollectDirty(g)
        PROVE  BarrierTypeOK'
    BY <2>5, Zenon DEF CollectDirty
  <2>6. ASSUME NEW g \in Groups, FlushWriter(g)
        PROVE  BarrierTypeOK'
    BY <2>6, ZenonT(30) DEF FlushWriter
  <2>7. ASSUME NEW g \in Groups, FlushFails(g)
        PROVE  BarrierTypeOK'
    BY <2>7 DEF FlushFails
  <2>8. ASSUME NEW g \in Groups, PublishResult(g)
        PROVE  BarrierTypeOK'
    BY <2>8 DEF PublishResult, ReturnFromSync
  <2>9. ASSUME NEW g \in Groups, WakeWaiter(g)
        PROVE  BarrierTypeOK'
    BY <2>9, Zenon DEF WakeWaiter, ReturnFromSync
  <2>10. CASE UNCHANGED barrierVars
    BY <2>10, Zenon DEF barrierVars
  <2> QED
    BY <2>1, <2>2, <2>3, <2>4, <2>5, <2>6, <2>7, <2>8, <2>9, <2>10, Zenon
    DEF BarrierNext, Step
<1> QED
  BY <1>1, <1>2, PTL DEF BarrierSpec

\* One thread at a time runs a barrier, and it is the one that closed the
\* gate: the test and the store of gate.syncing happen under one lock.
THEOREM OneLeader == BarrierSpec => []SingleLeader
<1>1. BarrierInit => SingleLeader
  BY DEF BarrierInit, SingleLeader, Leaders
<1>2. BarrierTypeOK /\ SingleLeader /\ [BarrierNext]_barrierVars => SingleLeader'
  <2> SUFFICES ASSUME BarrierTypeOK, SingleLeader, [BarrierNext]_barrierVars
               PROVE  SingleLeader'
    BY Zenon
  <2> USE DEF BarrierTypeOK, SingleLeader, Leaders, Outcomes, Places
  <2>1. ASSUME NEW g \in Groups, AppendRecord(g)
        PROVE  SingleLeader'
    BY <2>1 DEF AppendRecord
  <2>2. ASSUME NEW g \in Groups, StoreDirty(g)
        PROVE  SingleLeader'
    BY <2>2 DEF StoreDirty
  <2>3. ASSUME NEW g \in Groups, JoinBarrier(g)
        PROVE  SingleLeader'
    BY <2>3 DEF JoinBarrier
  <2>4. ASSUME NEW g \in Groups, LeadBarrier(g)
        PROVE  SingleLeader'
    BY <2>4, ZenonT(30) DEF LeadBarrier
  <2>5. ASSUME NEW g \in Groups, CollectDirty(g)
        PROVE  SingleLeader'
    BY <2>5 DEF CollectDirty
  <2>6. ASSUME NEW g \in Groups, FlushWriter(g)
        PROVE  SingleLeader'
    BY <2>6 DEF FlushWriter
  <2>7. ASSUME NEW g \in Groups, FlushFails(g)
        PROVE  SingleLeader'
    BY <2>7 DEF FlushFails
  <2>8. ASSUME NEW g \in Groups, PublishResult(g)
        PROVE  SingleLeader'
    BY <2>8 DEF PublishResult, ReturnFromSync
  <2>9. ASSUME NEW g \in Groups, WakeWaiter(g)
        PROVE  SingleLeader'
    BY <2>9, ZenonT(30) DEF WakeWaiter, ReturnFromSync
  <2>10. CASE UNCHANGED barrierVars
    BY <2>10, ZenonT(30) DEF barrierVars
  <2> QED
    BY <2>1, <2>2, <2>3, <2>4, <2>5, <2>6, <2>7, <2>8, <2>9, <2>10, Zenon
    DEF BarrierNext, Step
<1> QED
  BY <1>1, <1>2, TypeCorrect, PTL DEF BarrierSpec

\* What barriers keep until the first failure: no sync_all runs ahead of the
\* records, a leader's own flag is clear once it has collected, and every
\* unsynced record is tracked.
BarrierInv ==
    sync_failures = 0 =>
    /\ \A g \in Groups : durable[g] <= written[g]
    /\ \A g \in Groups : pc[g] = "flushing" => ~dirty[g]
    /\ UnsyncedIsTracked

LEMMA BarrierInvImplies ==
  BarrierInv /\ BarrierTypeOK => UnsyncedIsTracked /\ LeaderOkMeansDurable
BY DEF BarrierInv, BarrierTypeOK, UnsyncedIsTracked, LeaderOkMeansDurable

\* Until a sync_all fails, no written record is forgotten by the dirty flags,
\* and a leader that returns Ok has its own records on disk.
THEOREM BarrierSound ==
  BarrierSpec => [](UnsyncedIsTracked /\ LeaderOkMeansDurable)
<1>1. BarrierInit => BarrierInv
  BY SMTT(30) DEF BarrierInit, BarrierInv, UnsyncedIsTracked
<1>2. BarrierTypeOK /\ SingleLeader /\ BarrierInv /\ [BarrierNext]_barrierVars => BarrierInv'
  <2> SUFFICES ASSUME BarrierTypeOK, SingleLeader, BarrierInv, [BarrierNext]_barrierVars
               PROVE  BarrierInv'
    BY Zenon
  <2> USE DEF BarrierTypeOK, BarrierInv, UnsyncedIsTracked
  <2>1. ASSUME NEW g \in Groups, AppendRecord(g)
        PROVE  BarrierInv'
    BY <2>1 DEF AppendRecord, Places
  <2>2. ASSUME NEW g \in Groups, StoreDirty(g)
        PROVE  BarrierInv'
    BY <2>2, Zenon DEF StoreDirty, Places
  <2>3. ASSUME NEW g \in Groups, JoinBarrier(g)
        PROVE  BarrierInv'
    BY <2>3, Zenon DEF JoinBarrier, Places
  <2>4. ASSUME NEW g \in Groups, LeadBarrier(g)
        PROVE  BarrierInv'
    BY <2>4, Zenon DEF LeadBarrier, Places
  <2>5. ASSUME NEW g \in Groups, CollectDirty(g)
        PROVE  BarrierInv'
    \* writers was empty: the only leader was still batching.
    BY <2>5, ZenonT(30) DEF CollectDirty, SingleLeader, Leaders, Places
  <2>6. ASSUME NEW g \in Groups, FlushWriter(g)
        PROVE  BarrierInv'
    BY <2>6 DEF FlushWriter, Places
  <2>7. ASSUME NEW g \in Groups, FlushFails(g)
        PROVE  BarrierInv'
    BY <2>7 DEF FlushFails
  <2>8. ASSUME NEW g \in Groups, PublishResult(g)
        PROVE  BarrierInv'
    BY <2>8, Zenon DEF PublishResult, ReturnFromSync, Places
  <2>9. ASSUME NEW g \in Groups, WakeWaiter(g)
        PROVE  BarrierInv'
    BY <2>9, Zenon DEF WakeWaiter, ReturnFromSync, Places
  <2>10. CASE UNCHANGED barrierVars
    BY <2>10, Zenon DEF barrierVars
  <2> QED
    BY <2>1, <2>2, <2>3, <2>4, <2>5, <2>6, <2>7, <2>8, <2>9, <2>10, Zenon
    DEF BarrierNext, Step
<1>3. BarrierTypeOK /\ BarrierInv => UnsyncedIsTracked /\ LeaderOkMeansDurable
  BY BarrierInvImplies, Zenon
<1> QED
  BY <1>1, <1>2, <1>3, TypeCorrect, OneLeader, PTL DEF BarrierSpec

----------------------------------------------------------------------------
(* The snapshot transfer: the invariant.                                   *)

\* From here on a leaf that names no prover is given thirty seconds of SMT.
USE SMTT(30)

RequestRecord == [t : Transfers, slot : Slots, n : Nat]
Data == {"missing"} \cup {Content[t] : t \in Transfers}
Session == [t : Transfers, chunks : [Chunks -> Data]]
Installation == [r : RequestRecord, stage : {"install", "apply", "wait", "late"},
                 t : Transfers, bytes : Data]

SenderOK ==
    /\ phase \in {"idle", "begin", "chunks", "finish", "abort"}
    /\ attempts \in [Slots -> Nat] /\ awaiting \subseteq Slots
    /\ outcome \in [Transfers -> {"none", "installed", "higher_vote", "error"}]
    /\ BeginRpc \in awaiting => phase = "begin"
    /\ FinishRpc \in awaiting => phase = "finish"
    /\ \A i \in Chunks : i \in awaiting => phase \in {"chunks", "finish"} /\ attempts[i] > 0
    /\ phase = "idle" => awaiting = {}

\* The transfer t has sent no chunk, and will send none.
Quiet(t) ==
    /\ t = transfer => phase \notin {"chunks", "finish"}
    /\ \A r \in requests : r.t = t => r.slot \notin Chunks
    /\ Repeated(t) \/ \A s \in incoming : \A i \in Chunks : s.chunks[i] # Content[t]

\* A begin is sent once. One that is still on its way has no chunk behind it.
RequestOK(r) ==
    /\ r \in RequestRecord /\ r.t <= transfer
    /\ r.slot = BeginRpc => r.n = 1 /\ Quiet(r.t)
    /\ phase \in {"begin", "chunks"} /\ r.t = transfer => r.slot # FinishRpc

\* The chunks are those of transfers that have begun.
Filled(s) ==
    \A i \in Chunks : \/ s.chunks[i] = "missing"
                      \/ \E d \in Transfers : d <= transfer /\ s.chunks[i] = Content[d]

\* A session that a late begin opened is never filled.
SessionOK(s) ==
    /\ s \in Session /\ Filled(s)
    /\ phase \in {"chunks", "finish"} => s.t = transfer \/ Quiet(s.t) \/ Repeated(s.t)

InstallOK(w) ==
    /\ w \in Installation /\ w.bytes = Content[w.t] /\ w.r.t <= transfer
    /\ phase \in {"begin", "chunks"} => w.r.t # transfer
    /\ phase = "finish" /\ w.r.t = transfer => w.t = transfer \/ Repeated(w.t)

SnapInv ==
    /\ transfer \in Transfers \/ (transfer = 0 /\ phase = "idle")
    /\ SenderOK
    /\ \A r \in requests : RequestOK(r)
    /\ \A s \in incoming : SessionOK(s)
    /\ \A s, o \in incoming : s = o
    /\ \A w \in installing : InstallOK(w)
    /\ snapshot.index \in Nat
    /\ SnapshotIsSound

\* The slots are apart.
LEMMA SlotFacts ==
    /\ BeginRpc \in Slots /\ FinishRpc \in Slots /\ AbortRpc \in Slots /\ Chunks \subseteq Slots
    /\ BeginRpc \notin Chunks /\ FinishRpc \notin Chunks /\ AbortRpc \notin Chunks /\ 1 \in Chunks
    /\ BeginRpc # FinishRpc /\ BeginRpc # AbortRpc /\ FinishRpc # AbortRpc
BY SnapshotAssumption DEF BeginRpc, FinishRpc, AbortRpc, Slots, Chunks

LEMMA TransferNumbers == \A t \in Transfers : t \in Nat /\ t # 0 /\ t <= t
<1>1. \A t \in Transfers : t \in Nat \ {0}
  BY SnapshotAssumption, ZenonT(30)
<1>2. \A t \in Nat \ {0} : t \in Nat /\ t # 0 /\ t <= t
  OBVIOUS
<1> QED
  BY <1>1, <1>2, ZenonT(30)

----------------------------------------------------------------------------
(* What the sender does, but for a new transfer and an accepted begin.     *)

NewRequest(q) ==
    /\ q \in RequestRecord /\ q.t = transfer
    /\ \/ q.slot = AbortRpc
       \/ q.slot = FinishRpc /\ phase' = "finish"
       \/ q.slot \in Chunks /\ phase \in {"chunks", "finish"}

Effect ==
    /\ SenderOK' /\ transfer' = transfer
    /\ phase' \in {phase, "idle", "abort"} \/ (phase = "chunks" /\ phase' = "finish")
    /\ phase = "idle" => phase' = "idle"
    /\ \A q \in requests' : q \in requests \/ NewRequest(q)
    /\ \A t \in Transfers : outcome'[t] = "installed" => snapshot.index >= Index[t]
    /\ ChunksAreBounded'

LEMMA StartedShrinks ==
    ASSUME ChunksAreBounded, Started' \subseteq Started
    PROVE  ChunksAreBounded'
<1>1. IsFiniteSet(Chunks)
  BY FS_Interval, SnapshotAssumption DEF Chunks
<1>2. Started \in SUBSET Chunks /\ Started' \in SUBSET Started
  BY ZenonT(30) DEF Started
<1>3. IsFiniteSet(Started)
  BY <1>1, <1>2, FS_Subset, ZenonT(30)
<1>4. IsFiniteSet(Started') /\ Cardinality(Started') <= Cardinality(Started)
  BY <1>2, <1>3, FS_Subset, ZenonT(30)
<1>5. Cardinality(Started) \in Nat /\ Cardinality(Started') \in Nat
  BY <1>3, <1>4, FS_CardinalityType, ZenonT(30)
<1> QED
  BY <1>4, <1>5, SnapshotAssumption DEF ChunksAreBounded

\* Types of a new request.
LEMMA RequestTypes ==
    ASSUME SnapInv, phase # "idle", NEW s \in Slots
    PROVE  /\ transfer \in Transfers
           /\ [t |-> transfer, slot |-> s, n |-> attempts[s] + 1] \in RequestRecord
           /\ [t |-> transfer, slot |-> s, n |-> 1] \in RequestRecord
           /\ [attempts EXCEPT ![s] = attempts[s] + 1] \in [Slots -> Nat]
           /\ [attempts EXCEPT ![s] = 1] \in [Slots -> Nat]
<1>1. transfer \in Transfers /\ attempts \in [Slots -> Nat]
  BY ZenonT(30) DEF SnapInv, SenderOK
<1>2. attempts[s] \in Nat
  BY <1>1, ZenonT(30)
<1>3. attempts[s] + 1 \in Nat /\ 1 \in Nat
  BY <1>2
<1> QED
  BY <1>1, <1>3, ZenonT(30) DEF RequestRecord

LEMMA AbortEffect ==
    ASSUME SnapInv, phase # "idle", NEW rest, rest \subseteq requests, Abort(rest),
           transfer' = transfer, verified \subseteq verified'
    PROVE  Effect
<1> DEFINE q == [t |-> transfer, slot |-> AbortRpc, n |-> 1]
<1>1. /\ phase' = "abort" /\ attempts' = [attempts EXCEPT ![AbortRpc] = 1]
      /\ awaiting' = {AbortRpc} /\ requests' = rest \cup {q} /\ outcome' = outcome
  BY ZenonT(30) DEF Abort
<1>2. SenderOK /\ SnapshotIsSound
  BY ZenonT(30) DEF SnapInv
<1>3. q \in RequestRecord /\ attempts' \in [Slots -> Nat]
  BY <1>1, RequestTypes, SlotFacts, ZenonT(30)
<1>4. SenderOK'
  BY <1>1, <1>2, <1>3, SlotFacts, ZenonT(30) DEF SenderOK, Slots, Transfers
<1>5. ChunksAreBounded'
  <2>1. \A i \in Chunks : attempts'[i] = attempts[i]
    BY <1>1, <1>2, SlotFacts, ZenonT(30) DEF SenderOK
  <2>2. Started' \subseteq Started
    BY <2>1, ZenonT(30) DEF Started
  <2> QED
    BY <1>2, <2>2, StartedShrinks, ZenonT(30) DEF SnapshotIsSound
<1>6. NewRequest(q)
  BY <1>3, ZenonT(30) DEF NewRequest
<1> HIDE DEF q
<1> QED
  BY <1>1, <1>2, <1>4, <1>5, <1>6, ZenonT(30) DEF Effect, SnapshotIsSound, ReportedIsInstalled

\* A transfer that ends is not reported installed unless it is.
LEMMA EndEffect ==
    ASSUME SnapInv, phase # "idle", NEW ok \in BOOLEAN, NEW v, EndTransfer(ok, v),
           ok => snapshot.index >= Index[transfer],
           transfer' = transfer, verified \subseteq verified', attempts' = attempts,
           requests' \subseteq requests
    PROVE  Effect
<1>1. /\ phase' = "idle" /\ awaiting' = {}
      /\ outcome' = [outcome EXCEPT ![transfer] = Returned(ok, v)]
  BY ZenonT(30) DEF EndTransfer
<1>2. SenderOK /\ SnapshotIsSound /\ transfer \in Transfers
  BY ZenonT(30) DEF SnapInv
<1>3. /\ Returned(ok, v) \in {"none", "installed", "higher_vote", "error"}
      /\ Returned(ok, v) = "installed" => ok
  BY ZenonT(30) DEF Returned
<1>4. SenderOK'
  BY <1>1, <1>2, <1>3, SlotFacts, ZenonT(30) DEF SenderOK
<1>5. ChunksAreBounded'
  BY <1>2, StartedShrinks, ZenonT(30) DEF SnapshotIsSound, Started
<1>6. ASSUME NEW t \in Transfers, outcome'[t] = "installed" PROVE snapshot.index >= Index[t]
  BY <1>1, <1>2, <1>3, <1>6, ZenonT(30) DEF SenderOK, SnapshotIsSound, ReportedIsInstalled
<1> QED
  BY <1>1, <1>4, <1>5, <1>6, ZenonT(30) DEF Effect

LEMMA ChunkRequestEffect ==
    ASSUME SnapInv, phase \in {"chunks", "finish"}, NEW i \in Chunks, NEW rest, rest \subseteq requests,
           Request(i, rest), UNCHANGED <<transfer, phase, outcome>>, ChunksAreBounded'
    PROVE  Effect
<1> DEFINE q == [t |-> transfer, slot |-> i, n |-> attempts[i] + 1]
<1>0. i \in Slots /\ SenderOK /\ SnapshotIsSound
  BY SlotFacts, ZenonT(30) DEF SnapInv
<1>1. /\ attempts' = [attempts EXCEPT ![i] = attempts[i] + 1] /\ awaiting' = awaiting \cup {i}
      /\ requests' = rest \cup {q}
  BY ZenonT(30) DEF Request
<1>2. q \in RequestRecord /\ attempts' \in [Slots -> Nat]
  BY <1>0, <1>1, RequestTypes, ZenonT(30)
<1>3. \A j \in Chunks : j \in awaiting' => attempts'[j] > 0
  <2>1. attempts \in [Slots -> Nat] /\ attempts[i] \in Nat
    BY <1>0, ZenonT(30) DEF SenderOK
  <2>2. attempts'[i] = attempts[i] + 1 /\ \A j \in Slots : j # i => attempts'[j] = attempts[j]
    BY <1>0, <1>1, <2>1, ZenonT(30)
  <2>3. attempts'[i] > 0
    BY <2>1, <2>2
  <2> QED
    BY <1>0, <1>1, <2>2, <2>3, SlotFacts, ZenonT(30) DEF SenderOK
<1>4. SenderOK'
  BY <1>0, <1>1, <1>2, <1>3, SlotFacts, ZenonT(30) DEF SenderOK
<1>5. NewRequest(q)
  BY <1>2, ZenonT(30) DEF NewRequest
<1> HIDE DEF q
<1> QED
  BY <1>0, <1>1, <1>4, <1>5, ZenonT(30) DEF Effect, SnapshotIsSound, ReportedIsInstalled

LEMMA FailsEffect ==
    ASSUME SnapInv, NEW s \in awaiting, NEW retryable, NEW v, NEW rest, rest \subseteq requests,
           Fails(s, retryable, v, rest), transfer' = transfer, verified' = verified
    PROVE  Effect
<1>0. SenderOK /\ SnapshotIsSound /\ phase # "idle" /\ s \in Slots
  BY ZenonT(30) DEF SnapInv, SenderOK
<1>1. CASE s \in {BeginRpc, AbortRpc}
  <2>1. EndTransfer(FALSE, v) /\ requests' = rest /\ attempts' = attempts
    BY <1>1, SlotFacts, ZenonT(30) DEF Fails
  <2> QED
    BY <1>0, <2>1, EndEffect, ZenonT(30)
<1>2. CASE s \in Chunks /\ retryable /\ attempts[s] <= max_retries
  <2>1. Request(s, rest) /\ UNCHANGED <<phase, outcome>>
    BY <1>2, SlotFacts, ZenonT(30) DEF Fails
  <2>2. phase \in {"chunks", "finish"} /\ attempts[s] > 0 /\ attempts \in [Slots -> Nat]
    BY <1>0, <1>2, ZenonT(30) DEF SenderOK
  <2>3. \A j \in Slots : j # s => attempts'[j] = attempts[j]
    BY <1>0, <2>1, <2>2, ZenonT(30) DEF Request
  <2>4. Started' \subseteq Started
    BY <1>2, <2>2, <2>3, SlotFacts, ZenonT(30) DEF Started
  <2>5. ChunksAreBounded'
    BY <1>0, <2>4, StartedShrinks, ZenonT(30) DEF SnapshotIsSound
  <2> QED
    BY <1>2, <2>1, <2>2, <2>5, ChunkRequestEffect, ZenonT(30)
<1>3. CASE s \notin {BeginRpc, AbortRpc} /\ ~(s \in Chunks /\ retryable /\ attempts[s] <= max_retries)
  <2>1. Abort(rest)
    BY <1>3, ZenonT(30) DEF Fails
  <2> QED
    BY <1>0, <2>1, AbortEffect, ZenonT(30)
<1> QED
  BY <1>1, <1>2, <1>3, ZenonT(30)

\* The RPC that waits for the answer to r.
Waited(r) == r.t = transfer /\ phase # "idle" /\ r.slot \in awaiting /\ attempts[r.slot] = r.n

LEMMA RespondCases ==
    ASSUME NEW r, NEW status, Respond(r, status)
    PROVE  /\ ~Waited(r) => requests' = requests \ {r} /\ UNCHANGED senderVars
           /\ Waited(r) => seenVote' = vote /\ transfer' = transfer
           /\ Waited(r) /\ status = "ok" /\ r.slot # AbortRpc =>
                /\ Succeeds(r.slot, vote) /\ requests' = requests \ {r} /\ attempts' = attempts
                /\ verified' = IF r.slot \in Chunks THEN verified \union {r.slot} ELSE verified
           /\ Waited(r) /\ ~(status = "ok" /\ r.slot # AbortRpc) =>
                Fails(r.slot, status = "retry", vote, requests \ {r}) /\ verified' = verified
BY ZenonT(30) DEF Respond, Waited

LEMMA IdleEffect ==
    ASSUME SnapInv, UNCHANGED senderVars, requests' \subseteq requests
    PROVE  Effect
<1>1. UNCHANGED <<transfer, phase, attempts, awaiting, verified, seenVote, outcome>>
  BY ZenonT(30) DEF senderVars
<1>2. SenderOK /\ SnapshotIsSound
  BY ZenonT(30) DEF SnapInv
<1>3. SenderOK'
  BY <1>1, <1>2, ZenonT(30) DEF SenderOK
<1>4. ChunksAreBounded'
  BY <1>1, <1>2, StartedShrinks, ZenonT(30) DEF SnapshotIsSound, Started
<1> QED
  BY <1>1, <1>2, <1>3, <1>4, ZenonT(30) DEF Effect, SnapshotIsSound, ReportedIsInstalled

\* Any answer but the one that accepts a begin; a finish is not answered Ok here.
LEMMA RespondEffect ==
    ASSUME SnapInv, NEW r \in requests, NEW status, Respond(r, status),
           status = "ok" => r.slot \in Chunks \/ ~Waited(r)
    PROVE  Effect
<1>0. SenderOK /\ SnapshotIsSound
  BY ZenonT(30) DEF SnapInv
<1>1. CASE ~Waited(r)
  BY <1>1, RespondCases, IdleEffect, ZenonT(30)
<1>2. CASE Waited(r) /\ status = "ok"
  <2>1. r.slot \in Chunks /\ r.slot # AbortRpc /\ transfer' = transfer
    BY <1>2, RespondCases, SlotFacts, ZenonT(30)
  <2>2. /\ Succeeds(r.slot, vote) /\ requests' = requests \ {r} /\ attempts' = attempts
        /\ verified' = verified \union {r.slot}
    BY <1>2, <2>1, RespondCases, ZenonT(30)
  <2>3. awaiting' = awaiting \ {r.slot} /\ phase' = phase /\ outcome' = outcome
    BY <2>1, <2>2, SlotFacts, ZenonT(30) DEF Succeeds
  <2>4. SenderOK'
    BY <1>0, <2>2, <2>3, ZenonT(30) DEF SenderOK
  <2>5. ChunksAreBounded'
    BY <1>0, <2>2, StartedShrinks, ZenonT(30) DEF SnapshotIsSound, Started
  <2> QED
    BY <1>0, <2>1, <2>2, <2>3, <2>4, <2>5, ZenonT(30) DEF Effect, SnapshotIsSound, ReportedIsInstalled
<1>3. CASE Waited(r) /\ status # "ok"
  <2>1. /\ Fails(r.slot, status = "retry", vote, requests \ {r}) /\ verified' = verified
        /\ transfer' = transfer /\ r.slot \in awaiting
    BY <1>3, RespondCases, ZenonT(30) DEF Waited
  <2> QED
    BY <2>1, FailsEffect, ZenonT(30)
<1> QED
  BY <1>1, <1>2, <1>3, ZenonT(30)

LEMMA SendChunkEffect ==
    ASSUME SnapInv, NEW i \in Chunks, SendChunk(i)
    PROVE  Effect
<1>0. SenderOK /\ SnapshotIsSound /\ i \in Slots
  BY SlotFacts, ZenonT(30) DEF SnapInv
<1>1. /\ phase = "chunks" /\ Cardinality(Started) < max_concurrent_chunks /\ Request(i, requests)
      /\ attempts[i] = 0
      /\ UNCHANGED <<transfer, phase, verified, outcome>>
  BY ZenonT(30) DEF SendChunk
<1>2. Started' \subseteq Started \cup {i}
  <2>1. attempts \in [Slots -> Nat]
    BY <1>0, ZenonT(30) DEF SenderOK
  <2>2. \A j \in Slots : j # i => attempts'[j] = attempts[j]
    BY <1>0, <1>1, <2>1, ZenonT(30) DEF Request
  <2> QED
    BY <1>1, <2>2, SlotFacts, ZenonT(30) DEF Started
<1>3. ChunksAreBounded'
  <2>1. IsFiniteSet(Chunks)
    BY FS_Interval, SnapshotAssumption DEF Chunks
  <2>2. Started \in SUBSET Chunks
    BY ZenonT(30) DEF Started
  <2>3. IsFiniteSet(Started)
    BY <2>1, <2>2, FS_Subset, ZenonT(30)
  <2>4. /\ IsFiniteSet(Started \cup {i})
        /\ \/ Cardinality(Started \cup {i}) = Cardinality(Started)
           \/ Cardinality(Started \cup {i}) = Cardinality(Started) + 1
    BY <2>3, FS_AddElement, ZenonT(30)
  <2>5. Started' \in SUBSET (Started \cup {i})
    BY <1>2, ZenonT(30)
  <2>6. IsFiniteSet(Started') /\ Cardinality(Started') <= Cardinality(Started \cup {i})
    BY <2>4, <2>5, FS_Subset, ZenonT(30)
  <2>7. Cardinality(Started) \in Nat /\ Cardinality(Started') \in Nat
    BY <2>3, <2>6, FS_CardinalityType, ZenonT(30)
  <2> QED
    BY <1>1, <2>4, <2>6, <2>7, SnapshotAssumption DEF ChunksAreBounded
<1> QED
  BY <1>1, <1>3, ChunkRequestEffect, ZenonT(30)

LEMMA SendFinishEffect ==
    ASSUME SnapInv, SendFinish
    PROVE  Effect
<1> DEFINE q == [t |-> transfer, slot |-> FinishRpc, n |-> attempts[FinishRpc] + 1]
<1>0. SenderOK /\ SnapshotIsSound
  BY ZenonT(30) DEF SnapInv
<1>1. /\ phase = "chunks" /\ phase' = "finish"
      /\ attempts' = [attempts EXCEPT ![FinishRpc] = attempts[FinishRpc] + 1]
      /\ awaiting' = awaiting \cup {FinishRpc} /\ requests' = requests \cup {q}
      /\ UNCHANGED <<transfer, verified, outcome>>
  BY ZenonT(30) DEF SendFinish, Request
<1>2. q \in RequestRecord /\ attempts' \in [Slots -> Nat]
  BY <1>1, RequestTypes, SlotFacts, ZenonT(30)
<1>3. \A j \in Chunks : attempts'[j] = attempts[j]
  BY <1>0, <1>1, SlotFacts, ZenonT(30) DEF SenderOK
<1>4. SenderOK'
  BY <1>0, <1>1, <1>2, <1>3, SlotFacts, ZenonT(30) DEF SenderOK
<1>5. Started' \subseteq Started
  BY <1>1, <1>3, ZenonT(30) DEF Started
<1>6. ChunksAreBounded'
  BY <1>0, <1>5, StartedShrinks, ZenonT(30) DEF SnapshotIsSound
<1>7. NewRequest(q)
  BY <1>1, <1>2, ZenonT(30) DEF NewRequest
<1> HIDE DEF q
<1> QED
  BY <1>0, <1>1, <1>4, <1>6, <1>7, ZenonT(30) DEF Effect, SnapshotIsSound, ReportedIsInstalled

----------------------------------------------------------------------------
(* The steps.                                                              *)

\* What the follower does in the same step.
FollowerStep ==
    /\ \A s \in incoming' :
         /\ s \in Session /\ Filled(s)
         /\ phase \in {"chunks", "finish"} => s.t = transfer \/ Quiet(s.t) \/ Repeated(s.t)
    /\ \A s, o \in incoming' : s = o
    /\ \A u \in Transfers : Quiet(u) =>
         Repeated(u) \/ \A s \in incoming' : \A i \in Chunks : s.chunks[i] # Content[u]
    /\ \A w \in installing' : InstallOK(w)
    /\ snapshot'.index \in Nat /\ snapshot'.index >= snapshot.index /\ InstalledIsWhole'

LEMMA EffectKeeps ==
    ASSUME SnapInv, Effect, FollowerStep
    PROVE  SnapInv'
<1>0. /\ transfer' = transfer /\ SenderOK' /\ ChunksAreBounded'
      /\ phase' \in {phase, "idle", "abort"} \/ (phase = "chunks" /\ phase' = "finish")
      /\ phase = "idle" => phase' = "idle"
      /\ \A q \in requests' : q \in requests \/ NewRequest(q)
  BY ZenonT(30) DEF Effect
<1>1. ASSUME NEW u \in Transfers, Quiet(u) PROVE Quiet(u)'
  <2>1. u = transfer => phase' \notin {"chunks", "finish"}
    BY <1>0, <1>1, ZenonT(30) DEF Quiet
  <2>2. ASSUME NEW q \in requests', q.t = u PROVE q.slot \notin Chunks
    BY <1>0, <1>1, <2>2, SlotFacts, ZenonT(30) DEF Quiet, NewRequest
  <2>3. Repeated(u) \/ \A s \in incoming' : \A i \in Chunks : s.chunks[i] # Content[u]
    BY <1>1, ZenonT(30) DEF FollowerStep
  <2> QED
    BY <1>0, <2>1, <2>2, <2>3, ZenonT(30) DEF Quiet, Repeated
<1>2. ASSUME NEW q \in requests' PROVE RequestOK(q)'
  <2>1. CASE q \in requests
    <3>1. RequestOK(q) /\ q.t \in Transfers
      BY <2>1, ZenonT(30) DEF SnapInv, RequestOK, RequestRecord
    <3> QED
      BY <1>0, <1>1, <3>1, ZenonT(30) DEF RequestOK
  <2>2. CASE NewRequest(q)
    <3>1. q \in RequestRecord /\ q.t = transfer /\ q.slot # BeginRpc
      BY <2>2, SlotFacts, ZenonT(30) DEF NewRequest
    <3>2. phase' \in {"begin", "chunks"} => q.slot # FinishRpc
      BY <2>2, SlotFacts, ZenonT(30) DEF NewRequest
    <3>3. transfer <= transfer
      BY <3>1, TransferNumbers, ZenonT(30) DEF RequestRecord
    <3> QED
      BY <1>0, <3>1, <3>2, <3>3, ZenonT(30) DEF RequestOK
  <2> QED
    BY <1>0, <2>1, <2>2, ZenonT(30)
<1>3. ASSUME NEW s \in incoming' PROVE SessionOK(s)'
  <2>1. /\ s \in Session /\ Filled(s) /\ s.t \in Transfers
        /\ phase \in {"chunks", "finish"} => s.t = transfer \/ Quiet(s.t) \/ Repeated(s.t)
    BY ZenonT(30) DEF FollowerStep, Session
  <2> QED
    BY <1>0, <1>1, <2>1, ZenonT(30) DEF SessionOK, Filled, Repeated
<1>4. ASSUME NEW w \in installing' PROVE InstallOK(w)'
  <2>1. InstallOK(w)
    BY ZenonT(30) DEF FollowerStep
  <2> QED
    BY <1>0, <2>1, ZenonT(30) DEF InstallOK
<1>5. SnapshotIsSound'
  <2>1. ASSUME NEW t \in Transfers, outcome'[t] = "installed" PROVE snapshot'.index >= Index[t]
    <3>1. snapshot.index >= Index[t] /\ snapshot'.index >= snapshot.index
      BY <2>1, ZenonT(30) DEF Effect, FollowerStep
    <3>2. snapshot.index \in Nat /\ snapshot'.index \in Nat /\ Index[t] \in Nat
      BY SnapshotAssumption, ZenonT(30) DEF SnapInv, FollowerStep
    <3> QED
      BY <3>1, <3>2
  <2> QED
    BY <1>0, <2>1, ZenonT(30) DEF SnapshotIsSound, ReportedIsInstalled, FollowerStep
<1>6. (transfer \in Transfers \/ (transfer = 0 /\ phase = "idle"))'
  BY <1>0, ZenonT(30) DEF SnapInv
<1>7. (\A s, o \in incoming : s = o)' /\ snapshot'.index \in Nat
  BY ZenonT(30) DEF FollowerStep
<1> QED
  BY <1>0, <1>2, <1>3, <1>4, <1>5, <1>6, <1>7, ZenonT(30) DEF SnapInv

\* The follower's sessions stay or go.
LEMMA SessionsStay ==
    ASSUME SnapInv, incoming' \subseteq incoming, \A w \in installing' : InstallOK(w),
           snapshot'.index \in Nat, snapshot'.index >= snapshot.index, InstalledIsWhole'
    PROVE  FollowerStep
<1>1. \A s \in incoming : SessionOK(s)
  BY ZenonT(30) DEF SnapInv
<1>2. \A s, o \in incoming' : s = o
  BY ZenonT(30) DEF SnapInv
<1>3. \A u \in Transfers : Quiet(u) =>
        Repeated(u) \/ \A s \in incoming' : \A i \in Chunks : s.chunks[i] # Content[u]
  BY ZenonT(30) DEF Quiet
<1> QED
  BY <1>1, <1>2, <1>3, ZenonT(30) DEF FollowerStep, SessionOK

LEMMA SnapshotStays ==
    ASSUME SnapInv, snapshot' = snapshot
    PROVE  snapshot'.index \in Nat /\ snapshot'.index >= snapshot.index /\ InstalledIsWhole'
<1>1. snapshot.index \in Nat /\ InstalledIsWhole
  BY ZenonT(30) DEF SnapInv, SnapshotIsSound
<1>2. snapshot.index >= snapshot.index
  BY <1>1
<1> QED
  BY <1>1, <1>2, ZenonT(30) DEF InstalledIsWhole

LEMMA InstallsStay ==
    ASSUME SnapInv
    PROVE  \A w \in installing : InstallOK(w)
BY ZenonT(30) DEF SnapInv

\* The leader alone moves.
LEMMA LeaderSteps ==
    ASSUME SnapInv, \/ \E i \in Chunks : SendChunk(i)
                    \/ SendFinish \/ TransferDropped \/ NewTerm
                    \/ \E s \in Slots : RpcTimesOut(s)
    PROVE  SnapInv'
<1>1. UNCHANGED <<incoming, installing, snapshot>>
  BY ZenonT(30) DEF SendChunk, SendFinish, TransferDropped, NewTerm, RpcTimesOut, followerVars
<1>2. FollowerStep
  BY <1>1, SessionsStay, SnapshotStays, InstallsStay, ZenonT(30)
<1>3. ASSUME NEW i \in Chunks, SendChunk(i) PROVE Effect
  BY <1>3, SendChunkEffect, Zenon
<1>4. CASE SendFinish
  BY <1>4, SendFinishEffect, <1>2, EffectKeeps, Zenon
<1>5. ASSUME TransferDropped PROVE Effect
  <2>1. phase # "idle" /\ Abort(requests) /\ UNCHANGED <<transfer, verified>>
    BY <1>5, ZenonT(30) DEF TransferDropped
  <2> QED
    BY <2>1, AbortEffect, ZenonT(30)
<1>6. ASSUME NewTerm PROVE Effect
  BY <1>6, IdleEffect, ZenonT(30) DEF NewTerm
<1>7. ASSUME NEW s \in Slots, RpcTimesOut(s) PROVE Effect
  <2>1. s \in awaiting /\ Fails(s, TRUE, seenVote, requests) /\ UNCHANGED <<transfer, verified>>
    BY <1>7, ZenonT(30) DEF RpcTimesOut
  <2> QED
    BY <2>1, FailsEffect, ZenonT(30)
<1> QED
  BY <1>2, <1>3, <1>4, <1>5, <1>6, <1>7, EffectKeeps, ZenonT(30)

LEMMA FullSnapshotKeeps ==
    ASSUME SnapInv, FullSnapshot
    PROVE  SnapInv'
<1> DEFINE q == [t |-> transfer', slot |-> BeginRpc, n |-> 1]
<1>0. SenderOK /\ SnapshotIsSound
  BY ZenonT(30) DEF SnapInv
<1>1. /\ transfer' \in Transfers /\ transfer' = transfer + 1 /\ phase' = "begin"
      /\ attempts' = [s \in Slots |-> IF s = BeginRpc THEN 1 ELSE 0]
      /\ awaiting' = {BeginRpc} /\ verified' = {} /\ requests' = requests \cup {q}
      /\ UNCHANGED <<outcome, incoming, installing, vote, snapshot>>
  BY ZenonT(30) DEF FullSnapshot, followerVars
<1>2. ASSUME NEW d, d \in Transfers \cup {0}, d <= transfer PROVE d <= transfer' /\ d # transfer'
  <2>0. 0 \in Nat
    BY Zenon
  <2>1. transfer \in Nat /\ d \in Nat
    BY <1>2, <2>0, TransferNumbers, ZenonT(30) DEF SnapInv
  <2> QED
    BY <1>1, <1>2, <2>1
<1>3. q \in RequestRecord /\ q.t = transfer' /\ q.slot = BeginRpc /\ q.n = 1
  BY <1>1, SlotFacts, ZenonT(30) DEF RequestRecord
<1> HIDE DEF q
<1>4. SenderOK'
  <2>1. attempts' \in [Slots -> Nat]
    BY <1>1, Zenon
  <2> QED
    BY <1>0, <1>1, <2>1, SlotFacts, ZenonT(30) DEF SenderOK
<1>5. \A r \in requests : RequestOK(r) /\ r \in RequestRecord /\ r.t \in Transfers /\ r.t <= transfer
  BY ZenonT(30) DEF SnapInv, RequestOK, RequestRecord
<1>6. \A s \in incoming : SessionOK(s) /\ Filled(s)
  BY ZenonT(30) DEF SnapInv, SessionOK
<1>7. ASSUME NEW u \in Transfers, u # transfer', Quiet(u) PROVE Quiet(u)'
  BY <1>1, <1>3, <1>7, SlotFacts, ZenonT(30) DEF Quiet, Repeated
<1>8. ASSUME NEW u, u = transfer' PROVE Quiet(u)'
  <2>1. \A r \in requests' : r.t = u => r.slot \notin Chunks
    BY <1>1, <1>2, <1>3, <1>5, <1>8, SlotFacts, ZenonT(30)
  <2>2. ASSUME NEW s \in incoming', NEW i \in Chunks, s.chunks[i] = Content[u]
        PROVE  \E d \in Transfers : d # u /\ Content[d] = Content[u]
    <3>1. Content[u] # "missing"
      BY <1>1, <1>8, SnapshotAssumption, ZenonT(30)
    <3>2. PICK d \in Transfers : d <= transfer /\ s.chunks[i] = Content[d]
      BY <1>1, <1>6, <2>2, <3>1, ZenonT(30) DEF Filled
    <3> QED
      BY <1>2, <1>8, <2>2, <3>2, ZenonT(30)
  <2>3. phase' \notin {"chunks", "finish"}
    BY <1>1, ZenonT(30)
  <2> QED
    BY <2>1, <2>2, <2>3, ZenonT(30) DEF Quiet, Repeated
<1>9. ASSUME NEW r \in requests' PROVE RequestOK(r)'
  <2>1. CASE r \in requests
    BY <1>1, <1>2, <1>5, <1>7, <2>1, ZenonT(30) DEF RequestOK
  <2>2. CASE r = q
    <3>1. transfer' <= transfer'
      BY <1>1, TransferNumbers, ZenonT(30)
    <3>2. r \in RequestRecord /\ r.t <= transfer' /\ r.n = 1 /\ r.slot # FinishRpc
      BY <1>3, <2>2, <3>1, SlotFacts, ZenonT(30)
    <3>3. Quiet(r.t)'
      BY <1>3, <1>8, <2>2, ZenonT(30)
    <3> QED
      BY <3>2, <3>3, ZenonT(30) DEF RequestOK
  <2> QED
    BY <1>1, <2>1, <2>2, ZenonT(30)
<1>10. ASSUME NEW s \in incoming' PROVE SessionOK(s)'
  <2>1. Filled(s)'
    BY <1>1, <1>2, <1>6, ZenonT(30) DEF Filled
  <2> QED
    BY <1>1, <1>6, <2>1, ZenonT(30) DEF SessionOK
<1>11. ASSUME NEW w \in installing' PROVE InstallOK(w)'
  <2>1. InstallOK(w) /\ w.r.t \in Transfers /\ w.r.t <= transfer
    BY <1>1, ZenonT(30) DEF SnapInv, InstallOK, Installation, RequestRecord
  <2>2. w.r.t <= transfer' /\ w.r.t # transfer'
    BY <1>2, <2>1, ZenonT(30)
  <2> QED
    BY <1>1, <2>1, <2>2, ZenonT(30) DEF InstallOK
<1>12. SnapshotIsSound'
  <2>1. \A i \in Chunks : ~(attempts'[i] > 0)
    BY <1>1, SlotFacts
  <2>2. Started' \subseteq Started
    BY <2>1, ZenonT(30) DEF Started
  <2>3. ChunksAreBounded'
    BY <1>0, <2>2, StartedShrinks, ZenonT(30) DEF SnapshotIsSound
  <2> QED
    BY <1>0, <1>1, <2>3, ZenonT(30) DEF SnapshotIsSound, InstalledIsWhole, ReportedIsInstalled
<1> QED
  BY <1>1, <1>4, <1>9, <1>10, <1>11, <1>12, ZenonT(30) DEF SnapInv

\* A begin opens an empty session.
LEMMA NewSessionFacts ==
    ASSUME SnapInv, NEW r \in requests
    PROVE  /\ NewSession(r.t) \in Session /\ NewSession(r.t).t = r.t /\ Filled(NewSession(r.t))
           /\ \A u \in Transfers, i \in Chunks : NewSession(r.t).chunks[i] # Content[u]
<1>1. r.t \in Transfers
  BY ZenonT(30) DEF SnapInv, RequestOK, RequestRecord
<1>2. [i \in Chunks |-> "missing"] \in [Chunks -> Data]
  BY ZenonT(30) DEF Data
<1>3. NewSession(r.t) \in Session /\ NewSession(r.t).t = r.t
  BY <1>1, <1>2, ZenonT(30) DEF Session, NewSession
<1>4. \A i \in Chunks : NewSession(r.t).chunks[i] = "missing"
  BY ZenonT(30) DEF NewSession
<1> QED
  BY <1>3, <1>4, SnapshotAssumption, ZenonT(30) DEF Filled

LEMMA AcceptedBeginKeeps ==
    ASSUME SnapInv, NEW r \in requests, r.slot = BeginRpc, Respond(r, "ok"), Waited(r),
           incoming' = {NewSession(r.t)}, UNCHANGED <<installing, snapshot>>
    PROVE  SnapInv'
<1> DEFINE s0 == NewSession(r.t)
<1>0. SenderOK /\ SnapshotIsSound /\ transfer \in Transfers /\ RequestOK(r)
  BY ZenonT(30) DEF SnapInv, Waited
<1>1. /\ r.t = transfer /\ phase = "begin" /\ phase' = "chunks" /\ awaiting' = {}
      /\ requests' = requests \ {r} /\ UNCHANGED <<transfer, attempts, verified, outcome>>
  <2>1. r.slot # AbortRpc /\ r.slot \notin Chunks
    BY SlotFacts, ZenonT(30)
  <2>2. /\ Succeeds(r.slot, vote) /\ requests' = requests \ {r} /\ attempts' = attempts
        /\ verified' = verified /\ transfer' = transfer
    BY <2>1, RespondCases, ZenonT(30)
  <2> QED
    BY <1>0, <2>2, ZenonT(30) DEF Succeeds, Waited, SenderOK
<1>2. SenderOK'
  BY <1>0, <1>1, ZenonT(30) DEF SenderOK
<1>3. s0 \in Session /\ s0.t = transfer /\ Filled(s0)
      /\ \A u \in Transfers, i \in Chunks : s0.chunks[i] # Content[u]
  BY <1>1, NewSessionFacts, ZenonT(30)
<1>3a. incoming' = {s0}
  BY ZenonT(30)
<1> HIDE DEF s0
<1>4. ASSUME NEW u \in Transfers, u # transfer, Quiet(u) PROVE Quiet(u)'
  BY <1>1, <1>3, <1>3a, <1>4, ZenonT(30) DEF Quiet, Repeated
<1>5. ASSUME NEW q \in requests' PROVE RequestOK(q)'
  <2>1. q \in requests /\ q # r /\ RequestOK(q) /\ q \in RequestRecord /\ r \in RequestRecord
    BY <1>0, <1>1, ZenonT(30) DEF SnapInv, RequestOK
  <2>2. q.slot = BeginRpc => q.t # transfer
    <3>1. q = [t |-> q.t, slot |-> q.slot, n |-> q.n] /\ r = [t |-> r.t, slot |-> r.slot, n |-> r.n]
      BY <2>1, ZenonT(30) DEF RequestRecord
    <3>2. q.slot = BeginRpc => q.n = 1 /\ r.n = 1
      BY <1>0, <2>1, ZenonT(30) DEF RequestOK
    <3> QED
      BY <1>1, <2>1, <3>1, <3>2, ZenonT(30)
  <2>3. q.t \in Transfers
    BY <2>1, ZenonT(30) DEF RequestRecord
  <2> QED
    BY <1>1, <1>4, <2>1, <2>2, <2>3, ZenonT(30) DEF RequestOK
<1>6. ASSUME NEW s \in incoming' PROVE SessionOK(s)'
  BY <1>1, <1>3, <1>3a, ZenonT(30) DEF SessionOK, Filled
<1>7. ASSUME NEW w \in installing' PROVE InstallOK(w)'
  <2>1. InstallOK(w)
    BY ZenonT(30) DEF SnapInv
  <2> QED
    BY <1>1, <2>1, ZenonT(30) DEF InstallOK
<1>8. ChunksAreBounded'
  BY <1>0, <1>1, StartedShrinks, ZenonT(30) DEF SnapshotIsSound, Started
<1>9. SnapshotIsSound'
  BY <1>0, <1>1, <1>8, ZenonT(30) DEF SnapshotIsSound, InstalledIsWhole, ReportedIsInstalled
<1> QED
  BY <1>0, <1>1, <1>2, <1>3a, <1>5, <1>6, <1>7, <1>9, ZenonT(30) DEF SnapInv

LEMMA HandleBeginKeeps ==
    ASSUME SnapInv, NEW r \in requests, HandleBegin(r)
    PROVE  SnapInv'
<1>1. r.slot = BeginRpc /\ UNCHANGED <<installing, snapshot>> /\ r.slot \notin Chunks
  BY SlotFacts, ZenonT(30) DEF HandleBegin
<1>2. CASE incoming' = incoming /\ Respond(r, "rejected")
  <2>1. Effect
    BY <1>2, RespondEffect, ZenonT(30)
  <2>2. FollowerStep
    BY <1>1, <1>2, SessionsStay, SnapshotStays, InstallsStay, ZenonT(30)
  <2> QED
    BY <2>1, <2>2, EffectKeeps, ZenonT(30)
<1>3. CASE incoming' = {NewSession(r.t)} /\ Respond(r, "ok") /\ ~Waited(r)
  <2>1. Effect
    BY <1>3, RespondEffect, ZenonT(30)
  <2>2. Quiet(r.t)
    BY <1>1, ZenonT(30) DEF SnapInv, RequestOK
  <2>3. \A w \in installing' : InstallOK(w)
    BY <1>1, InstallsStay, ZenonT(30)
  <2>4. snapshot'.index \in Nat /\ snapshot'.index >= snapshot.index /\ InstalledIsWhole'
    BY <1>1, SnapshotStays, ZenonT(30)
  <2>5. \A s \in incoming' : s \in Session /\ Filled(s) /\ Quiet(s.t)
    BY <1>3, <2>2, NewSessionFacts, ZenonT(30)
  <2>6. \A s \in incoming', u \in Transfers, i \in Chunks : s.chunks[i] # Content[u]
    BY <1>3, NewSessionFacts, ZenonT(30)
  <2>7. \A s, o \in incoming' : s = o
    BY <1>3, ZenonT(30)
  <2>8. FollowerStep
    BY <2>3, <2>4, <2>5, <2>6, <2>7, ZenonT(30) DEF FollowerStep
  <2> QED
    BY <2>1, <2>8, EffectKeeps, ZenonT(30)
<1>4. CASE incoming' = {NewSession(r.t)} /\ Respond(r, "ok") /\ Waited(r)
  BY <1>1, <1>4, AcceptedBeginKeeps, ZenonT(30)
<1> QED
  BY <1>2, <1>3, <1>4, ZenonT(30) DEF HandleBegin

\* A chunk is accepted into the session that is open, whichever transfer it is of.
LEMMA HandleChunkKeeps ==
    ASSUME SnapInv, NEW r \in requests, HandleChunk(r)
    PROVE  SnapInv'
<1>1. r.slot \in Chunks /\ UNCHANGED <<installing, snapshot>>
  BY ZenonT(30) DEF HandleChunk
<1>2. \/ incoming' = incoming /\ (Respond(r, "rejected") \/ Respond(r, "retry"))
      \/ \E s \in incoming : /\ incoming' = {[s EXCEPT !.chunks[r.slot] = Content[r.t]]}
                             /\ Respond(r, "ok")
  BY ZenonT(30) DEF HandleChunk
<1>3. Effect
  BY <1>1, <1>2, RespondEffect, ZenonT(30)
<1>4. CASE incoming' = incoming
  <2>1. FollowerStep
    BY <1>1, <1>4, SessionsStay, SnapshotStays, InstallsStay, ZenonT(30)
  <2> QED
    BY <1>3, <2>1, EffectKeeps, ZenonT(30)
<1>5. ASSUME NEW s \in incoming, incoming' = {[s EXCEPT !.chunks[r.slot] = Content[r.t]]}
      PROVE  SnapInv'
  <2> DEFINE o == [s EXCEPT !.chunks[r.slot] = Content[r.t]]
  <2>1. /\ SessionOK(s) /\ s \in Session /\ s.chunks \in [Chunks -> Data]
        /\ r.t \in Transfers /\ r.t <= transfer
    BY ZenonT(30) DEF SnapInv, SessionOK, Session, RequestOK, RequestRecord
  <2>2. Content[r.t] \in Data
    BY <2>1, ZenonT(30) DEF Data
  <2>3. o.t = s.t /\ o.chunks = [s.chunks EXCEPT ![r.slot] = Content[r.t]]
    BY <2>1, ZenonT(30) DEF Session
  <2>4. o \in Session
    <3>1. [s.chunks EXCEPT ![r.slot] = Content[r.t]] \in [Chunks -> Data]
      BY <1>1, <2>1, <2>2, ZenonT(30)
    <3> QED
      BY <2>1, <3>1, Zenon DEF Session
  <2>5. \A i \in Chunks : o.chunks[i] = IF i = r.slot THEN Content[r.t] ELSE s.chunks[i]
    <3> HIDE DEF o
    <3> QED
      BY <2>1, <2>3, ZenonT(30)
  <2>6. incoming' = {o}
    BY <1>5, ZenonT(30)
  <2> HIDE DEF o
  <2>7. Filled(o)
    BY <2>1, <2>5, ZenonT(30) DEF Filled, SessionOK
  <2>8. ASSUME NEW u \in Transfers, Quiet(u), NEW i \in Chunks, o.chunks[i] = Content[u]
        PROVE  Repeated(u)
    <3>1. r.t # u
      BY <1>1, <2>8, ZenonT(30) DEF Quiet
    <3> QED
      BY <2>1, <2>5, <2>8, <3>1, ZenonT(30) DEF Quiet, Repeated
  <2>9. \A w \in installing' : InstallOK(w)
    BY <1>1, InstallsStay, ZenonT(30)
  <2>10. snapshot'.index \in Nat /\ snapshot'.index >= snapshot.index /\ InstalledIsWhole'
    BY <1>1, SnapshotStays, ZenonT(30)
  <2>11. phase \in {"chunks", "finish"} => o.t = transfer \/ Quiet(o.t) \/ Repeated(o.t)
    BY <2>1, <2>3, ZenonT(30) DEF SessionOK
  <2>12. FollowerStep
    BY <2>4, <2>6, <2>7, <2>8, <2>9, <2>10, <2>11, ZenonT(30) DEF FollowerStep
  <2> QED
    BY <1>3, <2>12, EffectKeeps, ZenonT(30)
<1> QED
  BY <1>2, <1>4, <1>5, ZenonT(30)

\* What is verified is the whole of the session's transfer, and the transfer
\* that waits for the answer is that one, or one with the same content.
LEMMA HandleFinishKeeps ==
    ASSUME SnapInv, NEW r \in requests, HandleFinish(r)
    PROVE  SnapInv'
<1>1. r.slot = FinishRpc /\ incoming' = {} /\ snapshot' = snapshot
  BY ZenonT(30) DEF HandleFinish
<1>2. RequestOK(r) /\ r \in RequestRecord
  BY ZenonT(30) DEF SnapInv, RequestOK
<1>3. snapshot'.index \in Nat /\ snapshot'.index >= snapshot.index /\ InstalledIsWhole'
  BY <1>1, SnapshotStays, ZenonT(30)
<1>4. CASE Respond(r, "rejected") /\ installing' = installing
  <2>1. FollowerStep
    BY <1>1, <1>3, <1>4, SessionsStay, InstallsStay, ZenonT(30)
  <2> QED
    BY <1>4, <2>1, RespondEffect, EffectKeeps, ZenonT(30)
<1>5. CASE /\ \E s \in incoming : verify_complete(s)
           /\ installing' = installing \union
                {[r |-> r, stage |-> "install", t |-> s.t, bytes |-> s.chunks[1]] : s \in incoming}
           /\ requests' = requests \ {r}
           /\ UNCHANGED senderVars
  <2>1. ASSUME NEW s \in incoming,
               NEW w, w = [r |-> r, stage |-> "install", t |-> s.t, bytes |-> s.chunks[1]]
        PROVE  InstallOK(w)
    <3>1. verify_complete(s) /\ SessionOK(s) /\ s \in Session /\ s.t \in Transfers
      BY <1>5, ZenonT(30) DEF SnapInv, SessionOK, Session
    <3>2. s.chunks[1] = Content[s.t]
      BY <3>1, SlotFacts, ZenonT(30) DEF verify_complete
    <3>3. Content[s.t] \in Data
      BY <3>1, ZenonT(30) DEF Data
    <3>4. w \in Installation /\ w.r = r /\ w.t = s.t /\ w.bytes = Content[w.t]
      BY <1>2, <2>1, <3>1, <3>2, <3>3, ZenonT(30) DEF Installation
    <3>5. Quiet(s.t) => Repeated(s.t)
      BY <3>2, SlotFacts, ZenonT(30) DEF Quiet
    <3> QED
      BY <1>1, <1>2, <3>1, <3>4, <3>5, ZenonT(30) DEF InstallOK, RequestOK, SessionOK
  <2>2. \A w \in installing' : InstallOK(w)
    BY <1>5, <2>1, InstallsStay, ZenonT(30)
  <2>3. FollowerStep
    BY <1>1, <1>3, <2>2, SessionsStay, ZenonT(30)
  <2> QED
    BY <1>5, <2>3, IdleEffect, EffectKeeps, ZenonT(30)
<1> QED
  BY <1>4, <1>5, ZenonT(30) DEF HandleFinish

LEMMA HandleAbortKeeps ==
    ASSUME SnapInv, NEW r \in requests, HandleAbort(r)
    PROVE  SnapInv'
<1>1. /\ Respond(r, "aborted") /\ incoming' = {} /\ installing' = installing
      /\ snapshot' = snapshot
  BY ZenonT(30) DEF HandleAbort
<1>2. FollowerStep
  BY <1>1, SessionsStay, SnapshotStays, InstallsStay, ZenonT(30)
<1> QED
  BY <1>1, <1>2, RespondEffect, EffectKeeps, ZenonT(30)

LEMMA Restaged ==
    ASSUME NEW w, InstallOK(w), NEW st \in {"install", "apply", "wait", "late"}
    PROVE  InstallOK([w EXCEPT !.stage = st])
<1> DEFINE x == [w EXCEPT !.stage = st]
<1>1. w \in Installation
  BY ZenonT(30) DEF InstallOK
<1>2. x \in Installation /\ x.r = w.r /\ x.t = w.t /\ x.bytes = w.bytes
  BY <1>1, ZenonT(30) DEF Installation
<1> HIDE DEF x
<1>3. InstallOK(x)
  BY <1>2, ZenonT(30) DEF InstallOK
<1> QED
  BY <1>3, ZenonT(30) DEF x

LEMMA InstallKeeps ==
    ASSUME SnapInv, NEW w \in installing, Install(w)
    PROVE  SnapInv'
<1>1. UNCHANGED senderVars /\ UNCHANGED <<requests, incoming, snapshot>>
  BY ZenonT(30) DEF Install
<1>2. \E st \in {"apply", "wait"} : installing' = (installing \ {w}) \cup {[w EXCEPT !.stage = st]}
  BY ZenonT(30) DEF Install
<1>3. \A x \in installing' : InstallOK(x)
  <2>1. PICK st \in {"apply", "wait"} : installing' = (installing \ {w}) \cup {[w EXCEPT !.stage = st]}
    BY <1>2, ZenonT(30)
  <2>2. InstallOK([w EXCEPT !.stage = st])
    BY InstallsStay, Restaged, ZenonT(30)
  <2> QED
    BY <2>1, <2>2, InstallsStay, ZenonT(30)
<1>4. FollowerStep
  BY <1>1, <1>3, SessionsStay, SnapshotStays, ZenonT(30)
<1> QED
  BY <1>1, <1>4, IdleEffect, EffectKeeps, ZenonT(30)

LEMMA ApplySnapshotKeeps ==
    ASSUME SnapInv, NEW w \in installing, ApplySnapshot(w)
    PROVE  SnapInv'
<1>1. UNCHANGED senderVars /\ UNCHANGED <<requests, incoming>>
  BY ZenonT(30) DEF ApplySnapshot
<1>2. \/ installing' = installing \ {w}
      \/ installing' = (installing \ {w}) \cup {[w EXCEPT !.stage = "wait"]}
  BY ZenonT(30) DEF ApplySnapshot
<1>3. \A x \in installing' : InstallOK(x)
  BY <1>2, InstallsStay, Restaged, ZenonT(30)
<1>4. snapshot'.index \in Nat /\ snapshot'.index >= snapshot.index /\ InstalledIsWhole'
  <2>1. CASE snapshot' = snapshot
    BY <2>1, SnapshotStays, ZenonT(30)
  <2>2. CASE /\ Index[w.t] > snapshot.index
             /\ snapshot' = [index |-> Index[w.t], content |-> w.bytes]
    <3>1. w.t \in Transfers /\ w.bytes = Content[w.t] /\ snapshot.index \in Nat
      BY ZenonT(30) DEF SnapInv, InstallOK, Installation
    <3>2. Index[w.t] \in Nat
      BY <3>1, SnapshotAssumption, ZenonT(30)
    <3>3. snapshot'.index = Index[w.t] /\ InstalledIsWhole'
      BY <2>2, <3>1, ZenonT(30) DEF InstalledIsWhole
    <3> QED
      BY <2>2, <3>1, <3>2, <3>3
  <2> QED
    BY <2>1, <2>2, ZenonT(30) DEF ApplySnapshot
<1>5. FollowerStep
  BY <1>1, <1>3, <1>4, SessionsStay, ZenonT(30)
<1> QED
  BY <1>1, <1>5, IdleEffect, EffectKeeps, ZenonT(30)

LEMMA FinishAnsweredKeeps ==
    ASSUME SnapInv, NEW w \in installing, FinishAnswered(w)
    PROVE  SnapInv'
<1>1. UNCHANGED <<incoming, snapshot>>
  BY ZenonT(30) DEF FinishAnswered
<1>2. \/ installing' = installing \ {w}
      \/ installing' = (installing \ {w}) \cup {[w EXCEPT !.stage = "late"]}
  BY ZenonT(30) DEF FinishAnswered
<1>3. \A x \in installing' : InstallOK(x)
  BY <1>2, InstallsStay, Restaged, ZenonT(30)
<1>4. FollowerStep
  BY <1>1, <1>3, SessionsStay, SnapshotStays, ZenonT(30)
<1>5. CASE UNCHANGED <<requests, senderVars>>
  BY <1>4, <1>5, IdleEffect, EffectKeeps, ZenonT(30)
<1>6. CASE /\ FinishRpc \in awaiting /\ Fails(FinishRpc, FALSE, vote, requests)
           /\ UNCHANGED <<transfer, verified>>
  BY <1>4, <1>6, FailsEffect, EffectKeeps, ZenonT(30)
<1>7. CASE /\ FinishRpc \in awaiting /\ w.r.t = transfer /\ Applied(w)
           /\ Succeeds(FinishRpc, vote) /\ UNCHANGED <<transfer, verified, attempts, requests>>
  <2>1. phase = "finish" /\ transfer \in Transfers /\ w.t \in Transfers
    BY <1>7, ZenonT(30) DEF SnapInv, SenderOK, InstallOK, Installation
  <2>2. w.t = transfer \/ Repeated(w.t)
    BY <1>7, <2>1, InstallsStay, ZenonT(30) DEF InstallOK
  <2>3. Index[transfer] \in Nat /\ Index[w.t] \in Nat /\ snapshot.index \in Nat
    BY <2>1, SnapshotAssumption, ZenonT(30) DEF SnapInv
  <2>4. w.t = transfer \/ Index[transfer] <= Index[w.t]
    BY <2>1, <2>2, RepeatAssumption, ZenonT(30)
  <2>5. snapshot.index >= Index[transfer]
    <3>1. snapshot.index >= Index[w.t]
      BY <1>7, ZenonT(30) DEF Applied
    <3>2. Index[transfer] <= Index[w.t]
      BY <2>3, <2>4
    <3> QED
      BY <2>3, <3>1, <3>2
  <2>6. EndTransfer(TRUE, vote)
    BY <1>7, SlotFacts, ZenonT(30) DEF Succeeds
  <2>7. phase # "idle"
    BY <2>1, ZenonT(30)
  <2>8. Effect
    BY <1>7, <2>5, <2>6, <2>7, EndEffect, ZenonT(30)
  <2> QED
    BY <1>4, <2>8, EffectKeeps, ZenonT(30)
<1> QED
  BY <1>5, <1>6, <1>7, ZenonT(30) DEF FinishAnswered

LEMMA SnapInvInit ==
    ASSUME SnapInit
    PROVE  SnapInv
<1>1. attempts = [s \in Slots |-> 0] /\ 0 \in Nat /\ snapshot.index = 0
  BY Zenon DEF SnapInit
<1>2. attempts \in [Slots -> Nat] /\ Started = {}
  <2>1. \A i \in Chunks : ~(attempts[i] > 0)
    BY <1>1, SlotFacts
  <2> QED
    BY <1>1, <2>1, ZenonT(30) DEF Started
<1>3. ChunksAreBounded
  <2>1. Cardinality(Started) = 0
    BY <1>2, FS_EmptySet, ZenonT(30)
  <2> QED
    BY <2>1, SnapshotAssumption DEF ChunksAreBounded
<1>4. SenderOK
  BY <1>2, ZenonT(30) DEF SnapInit, SenderOK
<1>5. SnapshotIsSound
  BY <1>1, <1>3, ZenonT(30) DEF SnapInit, SnapshotIsSound, InstalledIsWhole, ReportedIsInstalled
<1> QED
  BY <1>1, <1>4, <1>5, ZenonT(30) DEF SnapInit, SnapInv

LEMMA SnapInvNext ==
    ASSUME SnapInv, [SnapNext]_snapVars
    PROVE  SnapInv'
<1>1. CASE UNCHANGED snapVars
  <2>1. /\ UNCHANGED senderVars /\ requests' \subseteq requests
        /\ UNCHANGED <<incoming, installing, snapshot>>
    BY <1>1, ZenonT(30) DEF snapVars, senderVars
  <2>2. FollowerStep
    BY <2>1, SessionsStay, SnapshotStays, InstallsStay, ZenonT(30)
  <2> QED
    BY <2>1, <2>2, IdleEffect, EffectKeeps, ZenonT(30)
<1>2. ASSUME NEW r \in requests, Handle(r) PROVE SnapInv'
  BY <1>2, HandleBeginKeeps, HandleChunkKeeps, HandleFinishKeeps, HandleAbortKeeps, ZenonT(30) DEF Handle
<1>3. ASSUME NEW w \in installing, Install(w) \/ ApplySnapshot(w) \/ FinishAnswered(w)
      PROVE  SnapInv'
  BY <1>3, InstallKeeps, ApplySnapshotKeeps, FinishAnsweredKeeps, ZenonT(30)
<1> QED
  BY <1>1, <1>2, <1>3, LeaderSteps, FullSnapshotKeeps, ZenonT(30) DEF SnapNext, SnapTasks

\* Whatever is lost, late, retried or aborted between the leader and the
\* follower, what handle_snapshot_transfer installs is one transfer's whole
\* content, full_snapshot reports an installation only when the follower's
\* snapshot reaches at least as far, and no more than max_concurrent_chunks
\* chunk futures run at a time.
THEOREM SnapshotsAreSound == SnapSpec => []SnapshotIsSound
<1>1. SnapInit => SnapInv
  BY SnapInvInit, Zenon
<1>2. SnapInv /\ [SnapNext]_snapVars => SnapInv'
  BY SnapInvNext, Zenon
<1>3. SnapInv => SnapshotIsSound
  BY Zenon DEF SnapInv
<1> QED
  BY <1>1, <1>2, <1>3, PTL DEF SnapSpec

=============================================================================
