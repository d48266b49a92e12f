-------------------------- MODULE SnapshotTransfer --------------------------
(***************************************************************************)
(* A Raft snapshot sent in chunks: RaftNetwork::full_snapshot with its     *)
(* SnapshotSender on the leader, and RaftNode::handle_snapshot_transfer    *)
(* with its SnapshotReceiver on the follower.                              *)
(*                                                                         *)
(* The transfers of a run follow one another and carry the same snapshot   *)
(* id, which is all the follower's sessions are keyed by: OpenRaft repeats *)
(* a transfer that failed, and two leaders may have named their snapshots  *)
(* in the same microsecond.  A request that timed out may still arrive.    *)
(*                                                                         *)
(* External: OpenRaft, which installs a verified snapshot unless its vote  *)
(* is stale, and raises the follower's vote at elections.                  *)
(***************************************************************************)
EXTENDS Integers, FiniteSets

CONSTANTS
  chunk_count,
  Content,              \* Content[t]: what transfer t carries; a whole-snapshot
                        \* digest tells contents apart
  LeaderVote,           \* LeaderVote[t]: the vote of the leader that sends it
  Index,                \* Index[t]: the last log index of the snapshot
  max_concurrent_chunks,
  max_retries,
  MaxVote,              \* bound: the follower's vote
  MaxRpcTimeouts        \* bound: RPCs and transfers that time out or are cancelled

Transfers == DOMAIN Content
Chunks    == 1..chunk_count
BeginRpc  == 0
FinishRpc == chunk_count + 1
AbortRpc  == chunk_count + 2
Slots     == BeginRpc..AbortRpc    \* the RPCs of a transfer

ASSUME SnapshotAssumption ==
  /\ chunk_count \in Nat \ {0} /\ max_concurrent_chunks \in Nat \ {0}
  /\ max_retries \in Nat
  /\ Transfers \subseteq Nat \ {0} /\ \A t \in Transfers : Index[t] \in Nat /\ Content[t] # "missing"

(* The transfers under one id: a content that is sent again is the newest.  *)
(* A retry alone, or two leaders alone, are such; a retry of one leader and *)
(* then a longer snapshot of another are not.                               *)
Repeated(t) == \E s \in Transfers : s # t /\ Content[s] = Content[t]

ASSUME RepeatAssumption ==
  \A t \in Transfers : Repeated(t) => \A u \in Transfers : Index[u] <= Index[t]

VARIABLES
  transfer,     \* the transfer of full_snapshot's current call, 0 before the first
  phase,        \* "idle", "begin", "chunks", "finish" or "abort"
  attempts,     \* attempts[s]: RPCs made for slot s, in this transfer
  awaiting,     \* slots whose RPC waits for its response
  verified,     \* chunks acknowledged to the sender
  seenVote,     \* RaftSnapshotSink::vote
  outcome,      \* outcome[t]: what full_snapshot returned
  requests,     \* requests on their way
  incoming,     \* the follower's sessions: none or one, for the one id
  installing,   \* verified snapshots handed to OpenRaft, and who waits for it
  vote,         \* the follower's vote
  snapshot,     \* [index, content] of the follower's snapshot
  rpcTimeouts

snapVars == <<transfer, phase, attempts, awaiting, verified, seenVote, outcome,
              requests, incoming, installing, vote, snapshot, rpcTimeouts>>
senderVars   == <<transfer, phase, attempts, awaiting, verified, seenVote, outcome>>
followerVars == <<incoming, installing, vote, snapshot>>

SnapInit ==
  /\ transfer = 0 /\ phase = "idle"
  /\ attempts = [s \in Slots |-> 0]
  /\ awaiting = {} /\ verified = {} /\ seenVote = 0
  /\ outcome = [t \in Transfers |-> "none"]
  /\ requests = {} /\ incoming = {} /\ installing = {}
  /\ vote = 0 /\ snapshot = [index |-> 0, content |-> "none"]
  /\ rpcTimeouts = 0

----------------------------------------------------------------------------
(* The leader.                                                             *)

(* RaftSnapshotSink::request; rest are the other requests on their way. *)
Request(s, rest) ==
  /\ attempts' = [attempts EXCEPT ![s] = @ + 1]
  /\ awaiting' = awaiting \union {s}
  /\ requests' = rest \union {[t |-> transfer, slot |-> s, n |-> attempts[s] + 1]}

(* full_snapshot for a snapshot above the threshold. *)
FullSnapshot ==
  /\ phase = "idle" /\ transfer + 1 \in Transfers
  /\ transfer' = transfer + 1 /\ phase' = "begin"
  /\ attempts' = [s \in Slots |-> IF s = BeginRpc THEN 1 ELSE 0]
  /\ awaiting' = {BeginRpc} /\ verified' = {}
  /\ seenVote' = LeaderVote[transfer + 1]
  /\ requests' = requests \union {[t |-> transfer + 1, slot |-> BeginRpc, n |-> 1]}
  /\ UNCHANGED <<outcome, followerVars, rpcTimeouts>>

(* A chunk future runs from its first attempt to its result; a failed       *)
(* attempt is followed by the next within it.                               *)
Started == {i \in Chunks : attempts[i] > 0 /\ i \notin verified}

(* buffer_unordered starts the futures in order. *)
SendChunk(i) ==
  /\ phase = "chunks" /\ attempts[i] = 0
  /\ \A j \in 1..(i - 1) : attempts[j] > 0
  /\ Cardinality(Started) < max_concurrent_chunks
  /\ Request(i, requests)
  /\ UNCHANGED <<transfer, phase, verified, seenVote, outcome, followerVars, rpcTimeouts>>

(* try_collect has every chunk. *)
SendFinish ==
  /\ phase = "chunks" /\ verified = Chunks
  /\ phase' = "finish"
  /\ Request(FinishRpc, requests)
  /\ UNCHANGED <<transfer, verified, seenVote, outcome, followerVars, rpcTimeouts>>

(* full_snapshot returns.  OpenRaft takes Ok with the leader's own vote for *)
(* a snapshot that was installed.                                           *)
Returned(ok, v) ==
  IF ok \/ v > LeaderVote[transfer]
  THEN IF v > LeaderVote[transfer] THEN "higher_vote" ELSE "installed"
  ELSE "error"

EndTransfer(ok, v) ==
  /\ phase' = "idle"
  /\ outcome' = [outcome EXCEPT ![transfer] = Returned(ok, v)]
  /\ awaiting' = {}

(* Every future of the transfer is dropped and the abort goes out; its      *)
(* answer does not matter.                                                  *)
Abort(rest) ==
  /\ phase' = "abort"
  /\ attempts' = [attempts EXCEPT ![AbortRpc] = 1]
  /\ awaiting' = {AbortRpc}
  /\ requests' = rest \union {[t |-> transfer, slot |-> AbortRpc, n |-> 1]}
  /\ UNCHANGED outcome

(* An answer that failed: a chunk is retried if the failure allows it and   *)
(* the budget is not used up, anything else ends the transfer.  A failed    *)
(* begin returns without an abort.                                          *)
Fails(s, retryable, v, rest) ==
  CASE s \in {BeginRpc, AbortRpc} -> EndTransfer(FALSE, v) /\ requests' = rest /\ UNCHANGED attempts
    [] s \in Chunks /\ retryable /\ attempts[s] <= max_retries ->
         Request(s, rest) /\ UNCHANGED <<phase, outcome>>
    [] OTHER -> Abort(rest)

Succeeds(s, v) ==
  CASE s = BeginRpc -> phase' = "chunks" /\ awaiting' = {} /\ UNCHANGED outcome
    [] s \in Chunks -> awaiting' = awaiting \ {s} /\ UNCHANGED <<phase, outcome>>
    [] s = FinishRpc -> EndTransfer(TRUE, v)

(* The response to a request: it is matched with the RPC that waits for it, *)
(* or nobody waits any more.                                                *)
Respond(r, status) ==
  LET waited == r.t = transfer /\ phase # "idle" /\ r.slot \in awaiting
                /\ attempts[r.slot] = r.n
      rest   == requests \ {r}
  IN IF ~waited
     THEN requests' = rest /\ UNCHANGED senderVars
     ELSE /\ seenVote' = vote
          /\ UNCHANGED transfer
          /\ IF status = "ok" /\ r.slot # AbortRpc
             THEN /\ Succeeds(r.slot, vote)
                  /\ verified' = IF r.slot \in Chunks THEN verified \union {r.slot} ELSE verified
                  /\ requests' = rest
                  /\ UNCHANGED attempts
             ELSE /\ Fails(r.slot, status = "retry", vote, rest)
                  /\ UNCHANGED verified

(* send_rpc times out: to the sink a retryable failure. *)
RpcTimesOut(s) ==
  /\ s \in awaiting
  /\ rpcTimeouts < MaxRpcTimeouts /\ rpcTimeouts' = rpcTimeouts + 1
  /\ Fails(s, TRUE, seenVote, requests)
  /\ UNCHANGED <<transfer, verified, seenVote, followerVars>>

(* transfer_timeout, or OpenRaft closes the replication. *)
TransferDropped ==
  /\ phase \in {"begin", "chunks", "finish"}
  /\ rpcTimeouts < MaxRpcTimeouts /\ rpcTimeouts' = rpcTimeouts + 1
  /\ Abort(requests)
  /\ UNCHANGED <<transfer, verified, seenVote, followerVars>>

----------------------------------------------------------------------------
(* The follower: handle_snapshot_transfer.                                 *)

NewSession(t) == [t |-> t, chunks |-> [i \in Chunks |-> "missing"]]

(* Begin: a stale vote is rejected; a session of the same id is replaced.   *)
(* validate_manifest holds of every manifest from_bytes builds.             *)
HandleBegin(r) ==
  /\ r \in requests /\ r.slot = BeginRpc
  /\ IF LeaderVote[r.t] < vote
     THEN incoming' = incoming /\ Respond(r, "rejected")
     ELSE incoming' = {NewSession(r.t)} /\ Respond(r, "ok")
  /\ UNCHANGED <<installing, vote, snapshot, rpcTimeouts>>

(* SnapshotReceiver::accept: a chunk vouches for its own bytes only, and a  *)
(* second one for the same index must carry the same.                       *)
HandleChunk(r) ==
  /\ r \in requests /\ r.slot \in Chunks
  /\ LET i == r.slot
         data == Content[r.t]
     IN IF incoming = {} THEN incoming' = incoming /\ Respond(r, "rejected")
        ELSE \E session \in incoming :
               IF session.chunks[i] \in {"missing", data}
               THEN /\ incoming' = {[session EXCEPT !.chunks[i] = data]}
                    /\ Respond(r, "ok")
               ELSE incoming' = incoming /\ Respond(r, "retry")
  /\ UNCHANGED <<installing, vote, snapshot, rpcTimeouts>>

(* A defect the mutants use: completeness without the whole digest. *)
verify_complete_NoDigest(session) == \A i \in Chunks : session.chunks[i] # "missing"

(* Every chunk is there, and the digest of the whole is the manifest's. *)
verify_complete(session) ==
  /\ \A i \in Chunks : session.chunks[i] # "missing"
  /\ \A i \in Chunks : session.chunks[i] = Content[session.t]

(* Finish, up to install_full_snapshot: the session is removed, whether it  *)
(* verifies or not.                                                         *)
HandleFinish(r) ==
  /\ r \in requests /\ r.slot = FinishRpc
  /\ incoming' = {}
  /\ IF \E session \in incoming : verify_complete(session)
     THEN /\ installing' = installing \union
               {[r |-> r, stage |-> "install", t |-> session.t,
                 bytes |-> session.chunks[1]] : session \in incoming}
          /\ requests' = requests \ {r}
          /\ UNCHANGED senderVars
     ELSE Respond(r, "rejected") /\ UNCHANGED installing
  /\ UNCHANGED <<vote, snapshot, rpcTimeouts>>

(* install_full_snapshot: OpenRaft takes the snapshot unless its vote is    *)
(* stale, answers, and applies it later.                                    *)
Install(w) ==
  /\ w \in installing /\ w.stage = "install"
  /\ LET accepted == LeaderVote[w.t] >= vote
     IN /\ vote' = IF accepted THEN LeaderVote[w.t] ELSE vote
        /\ installing' = (installing \ {w}) \union
             {[w EXCEPT !.stage = IF accepted THEN "apply" ELSE "wait"]}
  /\ UNCHANGED <<senderVars, requests, incoming, snapshot, rpcTimeouts>>

ApplySnapshot(w) ==
  /\ w \in installing /\ w.stage \in {"apply", "late"}
  /\ installing' = (installing \ {w}) \union
                     (IF w.stage = "late" THEN {} ELSE {[w EXCEPT !.stage = "wait"]})
  /\ snapshot' = IF Index[w.t] > snapshot.index
                 THEN [index |-> Index[w.t], content |-> w.bytes] ELSE snapshot
  /\ UNCHANGED <<senderVars, requests, incoming, vote, rpcTimeouts>>

(* wait_for_snapshot_apply: a snapshot that reaches at least as far. *)
Applied(w) == snapshot.index >= Index[w.t]

(* The follower reports the installation, or 30 seconds were not enough.    *)
FinishAnswered(w) ==
  /\ w \in installing /\ w.stage \in {"apply", "wait"}
  /\ installing' = (installing \ {w}) \union
       (IF w.stage = "apply" THEN {[w EXCEPT !.stage = "late"]} ELSE {})
  /\ IF w.r.t # transfer \/ FinishRpc \notin awaiting
     THEN UNCHANGED <<requests, senderVars>>
     ELSE /\ seenVote' = vote
          /\ UNCHANGED <<transfer, verified>>
          /\ IF Applied(w)
             THEN Succeeds(FinishRpc, vote) /\ UNCHANGED <<attempts, requests>>
             ELSE Fails(FinishRpc, FALSE, vote, requests)
  /\ UNCHANGED <<incoming, vote, snapshot, rpcTimeouts>>

HandleAbort(r) ==
  /\ r \in requests /\ r.slot = AbortRpc
  /\ incoming' = {}
  /\ Respond(r, "aborted")
  /\ UNCHANGED <<installing, vote, snapshot, rpcTimeouts>>

(* An election raises the follower's vote. *)
NewTerm ==
  /\ vote < MaxVote
  /\ vote' = vote + 1
  /\ UNCHANGED <<senderVars, requests, incoming, installing, snapshot, rpcTimeouts>>

----------------------------------------------------------------------------
Handle(r) == HandleBegin(r) \/ HandleChunk(r) \/ HandleFinish(r) \/ HandleAbort(r)

SnapTasks ==
  \/ FullSnapshot \/ SendFinish
  \/ \E i \in Chunks : SendChunk(i)
  \/ \E r \in requests : Handle(r)
  \/ \E w \in installing : Install(w) \/ ApplySnapshot(w) \/ FinishAnswered(w)

SnapNext ==
  \/ SnapTasks
  \/ TransferDropped \/ NewTerm
  \/ \E s \in Slots : RpcTimesOut(s)

SnapSpec == SnapInit /\ [][SnapNext]_snapVars

----------------------------------------------------------------------------
(* What the follower has installed is one transfer's whole content, though  *)
(* chunks of several transfers reach one session.                           *)
InstalledIsWhole ==
  snapshot.index # 0 =>
    \E t \in Transfers : snapshot = [index |-> Index[t], content |-> Content[t]]

(* The leader takes the snapshot for installed only when the follower's     *)
(* snapshot reaches at least as far.                                        *)
ReportedIsInstalled ==
  \A t \in Transfers : outcome[t] = "installed" => snapshot.index >= Index[t]

ChunksAreBounded == Cardinality(Started) <= max_concurrent_chunks

(* All of the above. *)
SnapshotIsSound == InstalledIsWhole /\ ReportedIsInstalled /\ ChunksAreBounded

(* full_snapshot has not returned. *)
SnapshotWaits == phase # "idle"
=============================================================================
