---------------------------- MODULE FileTransfer ----------------------------
(***************************************************************************)
(* One resumable transfer session of chirps-file-transfer, from            *)
(* send_file_with_context at the sender (ops/send.rs) to ReceiveHandler at *)
(* the receiver (ops/receive.rs): request, manifest, chunks with           *)
(* acknowledgements and retries, the trailing hash and the installation of *)
(* the file; pause, resume and cancel at both ends (service.rs), the       *)
(* sessions and the journal on disk (persistence.rs), and crashes of both  *)
(* processes.                                                              *)
(*                                                                         *)
(* A control message is delivered at most once, late and out of order, or  *)
(* never (ReliableLink). A chunk stream that the receiver has not read     *)
(* ends with its connection. The receiver reads the streams one after the  *)
(* other (spawn_file_transfer_stream_loop in mesh.rs) while its control    *)
(* loop answers requests, so a chunk and a request interleave.             *)
(*                                                                         *)
(* A chunk's data is the version of the source it was read from; the hash  *)
(* of a file is the data itself. Every wait of the sender has a timeout    *)
(* that may expire at any time.                                            *)
(***************************************************************************)
EXTENDS Naturals, Sequences, FiniteSets

CONSTANTS
    chunk_count,
    max_retries,        \* RetryPolicy::max_retries
    concurrency,        \* TransferOptions::concurrency
    overwrite,          \* TransferOptions::overwrite
    move,               \* TransferMode::Move
    None,
    MaxVersion,         \* bound: versions of the source
    MaxStarts,          \* bound: calls of send_file and resume_transfer
    MaxFaults           \* bound: crashes, refused chunks, edits of the source, and
                        \* calls of pause and cancel, together

ASSUME TransferAssumption ==
    /\ {chunk_count, max_retries, MaxVersion, MaxStarts, MaxFaults} \subseteq Nat
    /\ concurrency \in Nat \ {0}
    /\ {overwrite, move} \subseteq BOOLEAN

VARIABLES
    source,     \* the version of the source file, None once removed
    offered,    \* ghost: the contents the sender has read to the end
    temp,       \* the receiver's temporary file
    dest,       \* the destination
    task,       \* the sender's send_file_with_context
    s_reg,      \* the session in the sender's registry
    s_disk,     \* and on its disk
    s_ctl,      \* TransferControl of the sender's session
    r_reg, r_disk, r_ctl,
    journal,    \* the receiver's progress file
    r_hash,     \* IncrementalReceiveHash: the data recorded
    chunk,      \* the chunk the receiver's stream loop handles
    plane,      \* the request its control loop handles
    wire,       \* control messages not yet handled
    streams,    \* chunk streams not yet read
    used        \* what is used of the bounds; ghost: a crash, a spoiled hash

Chunks == 1..chunk_count
Contents == [Chunks -> 1..MaxVersion]
Zeroed == [i \in Chunks |-> 0]
TransferStates == {"InProgress", "Paused", "Verifying", "Completed", "Failed", "Cancelled"}
ControlStates == {"Running", "Paused", "Cancelled"}
Sessions == [state : TransferStates, completed : SUBSET Chunks, hashed : BOOLEAN]

senderVars == <<source, offered, task, s_reg, s_disk, s_ctl>>
receiverVars == <<temp, dest, r_reg, r_disk, r_ctl, journal, r_hash, chunk, plane>>
transferVars == <<senderVars, receiverVars, wire, streams, used>>

NoTask ==
    [pc |-> "idle", completed |-> {}, skip |-> {}, read |-> <<>>, pending |-> <<>>,
     in_flight |-> {}, scheduled |-> Zeroed, retries |-> Zeroed, checked |-> FALSE]
NoSession == [state |-> "None", completed |-> {}, hashed |-> FALSE]
Idle == [pc |-> "idle"]

TransferInit ==
    /\ source = 1 /\ offered = {} /\ task = NoTask
    /\ s_reg = NoSession /\ s_disk = NoSession /\ s_ctl = "Running"
    /\ temp = None /\ dest = None
    /\ r_reg = NoSession /\ r_disk = NoSession /\ r_ctl = "Running"
    /\ journal = {} /\ r_hash = None /\ chunk = Idle /\ plane = Idle
    /\ wire = {} /\ streams = {}
    /\ used = [starts |-> 0, faults |-> 0, crashed |-> FALSE, spoiled |-> FALSE]

\* What is not part of a transfer that goes well is bounded.
Fault == used.faults < MaxFaults /\ used' = [used EXCEPT !.faults = @ + 1]
Crash == used.faults < MaxFaults /\ used' = [used EXCEPT !.faults = @ + 1, !.crashed = TRUE]
Registered(session) == session.state # "None"
can_transition(current, next) ==
    \/ current = "InProgress" /\ next \in TransferStates \ {"InProgress"}
    \/ current = "Paused" /\ next \in {"InProgress", "Failed", "Cancelled"}
    \/ current = "Verifying" /\ next \in {"Completed", "Failed"}

-----------------------------------------------------------------------------
(* The sender's task.                                                      *)

\* send_transfer_request and send_manifest.
TransferRequest == [type |-> "TransferRequest"]
Manifest == [type |-> "Manifest"]

\* resume_transfer restarts a session from disk when the registry has none.
CanResume == ~Registered(s_reg) /\ Registered(s_disk)

\* send_file_with_context up to the request: a new session, or a resumed one.
Start ==
    /\ task.pc = "idle" /\ ~Registered(s_reg)
    /\ used.starts = 0 \/ CanResume
    /\ source # None
    /\ used.starts < MaxStarts /\ used' = [used EXCEPT !.starts = @ + 1]
    /\ LET session == [state |-> "InProgress", completed |-> s_disk.completed, hashed |-> FALSE]
       IN  /\ task' = [NoTask EXCEPT !.pc = "request", !.completed = session.completed]
           /\ s_reg' = session
           /\ s_disk' = session
    /\ s_ctl' = "Running"
    /\ wire' = wire \cup {TransferRequest}
    /\ UNCHANGED <<source, offered, streams, receiverVars>>

\* store_session and persist_session: the task's copy of the session.
Save(state) ==
    LET session == [state |-> state, completed |-> task.completed, hashed |-> FALSE]
    IN  s_reg' = session /\ s_disk' = session

\* fail_session and cancel_session: the task returns.
End(state) == Save(state) /\ task' = NoTask
fail_session == End("Failed")
cancel_session == End("Cancelled")

ReceiveResponse ==
    /\ task.pc = "request"
    /\ \E m \in wire :
         /\ m.type = "TransferResponse"
         /\ \/ /\ m.accepted
               /\ task' = [task EXCEPT !.pc = "manifest", !.skip = m.existing]
               /\ wire' = (wire \ {m}) \cup {Manifest}
               /\ UNCHANGED <<s_reg, s_disk>>
            \/ /\ ~m.accepted
               /\ fail_session
               /\ wire' = wire \ {m}
    /\ UNCHANGED <<source, offered, s_ctl, streams, used, receiverVars>>

\* The chunks that are launched at the top of the loop, in order.
Launched(t) ==
    LET free == concurrency - Cardinality(t.in_flight)
    IN  SubSeq(t.pending, 1, IF free < Len(t.pending) THEN free ELSE Len(t.pending))
LoopDone(t) ==
    /\ Len(t.read) = chunk_count
    /\ t.pending = <<>> /\ t.in_flight = {} /\ t.scheduled = Zeroed

\* The top of the transfer loop, reached after every event: leave it, wait
\* for the control to change, or launch sends and wait for an event.
Loop(t, open) ==
    IF LoopDone(t) THEN task' = [t EXCEPT !.pc = "sent", !.checked = FALSE] /\ streams' = open
    ELSE IF s_ctl # "Running" THEN task' = [t EXCEPT !.checked = FALSE] /\ streams' = open
    ELSE LET launched == Launched(t)
             indices == {launched[k] : k \in DOMAIN launched}
         IN  /\ task' = [t EXCEPT !.pending = SubSeq(@, Len(launched) + 1, Len(@)),
                                  !.in_flight = @ \cup indices,
                                  !.checked = TRUE]
             /\ streams' = open \cup {[index |-> i, data |-> t.read[i]] : i \in indices}

ReceiveManifestAck ==
    /\ task.pc = "manifest"
    /\ \E m \in wire :
         /\ m.type = "ManifestAck"
         /\ wire' = wire \ {m}
         /\ \/ /\ m.accepted
               /\ LET skip == task.skip \cup m.skip
                  IN  Loop([task EXCEPT !.pc = "sending", !.skip = skip,
                                        !.completed = @ \cup skip], streams)
               /\ UNCHANGED <<s_reg, s_disk>>
            \/ /\ ~m.accepted
               /\ fail_session
               /\ UNCHANGED streams
    /\ UNCHANGED <<source, offered, s_ctl, used, receiverVars>>

InSelect == task.pc = "sending" /\ task.checked

\* prepare_chunks_single_pass reads one chunk, and hashes it; one that is not
\* skipped is handed to the loop.
Prepare ==
    /\ InSelect
    /\ Len(task.read) < chunk_count
    /\ LET i == Len(task.read) + 1
           read == Append(task.read, source)
       IN  /\ Loop([task EXCEPT !.read = read,
                                !.pending = IF i \in task.skip THEN @ ELSE Append(@, i)], streams)
           /\ offered' = IF i = chunk_count THEN offered \cup {read} ELSE offered
    /\ UNCHANGED <<source, s_reg, s_disk, s_ctl, wire, used, receiverVars>>

\* should_retry and schedule_retry.
Retry(t, i, open) ==
    IF t.retries[i] < max_retries
    THEN /\ Loop([t EXCEPT !.retries[i] = @ + 1, !.scheduled[i] = @ + 1], open)
         /\ UNCHANGED <<s_reg, s_disk>>
    ELSE fail_session /\ streams' = open

\* send_prepared_chunk fails for a chunk that has not reached the receiver.
SendError ==
    /\ InSelect
    /\ \E s \in streams :
         Retry([task EXCEPT !.in_flight = @ \ {s.index}], s.index, streams \ {s})
    /\ UNCHANGED <<source, offered, s_ctl, wire, used, receiverVars>>

RetryDue ==
    /\ InSelect
    /\ \E i \in Chunks :
         /\ task.scheduled[i] > 0
         /\ Loop([task EXCEPT !.scheduled[i] = @ - 1,
                              !.pending = IF i \in task.completed \cup task.in_flight
                                          THEN @ ELSE Append(@, i)], streams)
    /\ UNCHANGED <<source, offered, s_reg, s_disk, s_ctl, wire, used, receiverVars>>

ReceiveChunkAck ==
    /\ InSelect
    /\ \E m \in wire :
         /\ m.type = "ChunkAck"
         /\ wire' = wire \ {m}
         /\ LET t == [task EXCEPT !.in_flight = @ \ {m.index}]
            IN  IF m.index \notin task.in_flight
                THEN Loop(t, streams) /\ UNCHANGED <<s_reg, s_disk>>
                ELSE IF m.verified
                THEN /\ Loop([t EXCEPT !.completed = @ \cup {m.index}], streams)
                     /\ UNCHANGED <<s_reg, s_disk>>
                ELSE Retry(t, m.index, streams)
    /\ UNCHANGED <<source, offered, s_ctl, used, receiverVars>>

\* Error and Cancel end the loop.
ReceiveStop ==
    /\ InSelect
    /\ \E m \in wire :
         /\ wire' = wire \ {m}
         /\ \/ m.type = "Error" /\ fail_session /\ UNCHANGED s_ctl
            \/ m.type = "Cancel" /\ m.to = "sender" /\ cancel_session /\ s_ctl' = "Cancelled"
    /\ UNCHANGED <<source, offered, streams, used, receiverVars>>

\* The loop notices that the transfer was paused, resumed or cancelled.
ControlChanged ==
    /\ task.pc = "sending"
    /\ \/ s_ctl = "Paused" /\ task.checked /\ Loop(task, streams) /\ UNCHANGED <<s_reg, s_disk>>
       \/ s_ctl = "Running" /\ ~task.checked /\ Loop(task, streams) /\ UNCHANGED <<s_reg, s_disk>>
       \/ s_ctl = "Cancelled" /\ cancel_session /\ UNCHANGED streams
    /\ UNCHANGED <<source, offered, s_ctl, wire, used, receiverVars>>

\* Every chunk is acknowledged: ask the receiver to verify and install the
\* file. A failed send leaves the session as it is.
Finalize ==
    /\ task.pc = "sent"
    /\ \/ /\ task.completed # Chunks
          /\ fail_session
          /\ UNCHANGED wire
       \/ /\ task.completed = Chunks
          /\ task' = [task EXCEPT !.pc = "completing"]
          /\ wire' = wire \cup {[type |-> "FinalizeRequest", hash |-> task.read]}
          /\ UNCHANGED <<s_reg, s_disk>>
       \/ /\ task.completed = Chunks
          /\ task' = NoTask
          /\ UNCHANGED <<s_reg, s_disk, wire>>
    /\ UNCHANGED <<source, offered, s_ctl, streams, used, receiverVars>>

\* wait_for_receiver_completion, and what follows its success.
ReceiveCompletion ==
    /\ task.pc = "completing"
    /\ \E m \in wire :
         /\ wire' = wire \ {m}
         /\ \/ /\ m.type = "Complete" /\ m.hash = task.read
               /\ End("Completed")
               /\ source' = IF move THEN None ELSE source
            \/ /\ \/ m.type = "Complete" /\ m.hash # task.read
                  \/ m.type = "Error"
                  \/ m.type = "Cancel" /\ m.to = "sender"
               /\ fail_session
               /\ UNCHANGED source
    /\ UNCHANGED <<offered, s_ctl, streams, used, receiverVars>>

\* Mutant: the wait for an acknowledgement has no timeout.
Timeout_NotForChunks ==
    /\ task.pc \in {"request", "manifest", "completing"}
    /\ fail_session
    /\ UNCHANGED <<source, offered, s_ctl, wire, streams, used, receiverVars>>

Timeout ==
    /\ task.pc \in {"request", "manifest", "completing"} \/ InSelect
    /\ fail_session
    /\ UNCHANGED <<source, offered, s_ctl, wire, streams, used, receiverVars>>

SenderTask ==
    \/ ReceiveResponse \/ ReceiveManifestAck \/ Prepare \/ SendError \/ RetryDue
    \/ ReceiveChunkAck \/ ReceiveStop \/ ControlChanged \/ Finalize \/ ReceiveCompletion
    \/ Timeout

-----------------------------------------------------------------------------
(* The receiver's stream loop: one chunk at a time.                        *)

\* SessionPersistence::save of the registered session removes the journal.
SaveReceived(session) == r_reg' = session /\ r_disk' = session /\ journal' = {}
Ack(i, verified) == [type |-> "ChunkAck", index |-> i, verified |-> verified]

\* handle_chunk_data once the session has been found: wait while the
\* transfer is paused, give up when it is cancelled.
Admit(s) ==
    \/ /\ r_ctl \in {"Running", "Paused"}
       /\ chunk' = [pc |-> IF r_ctl = "Running" THEN "write" ELSE "paused",
                    index |-> s.index, data |-> s.data]
       /\ UNCHANGED <<r_reg, r_disk, journal, r_hash>>
    \/ /\ r_ctl = "Cancelled"
       /\ SaveReceived([r_reg EXCEPT !.state = "Cancelled"])
       /\ r_hash' = None
       /\ chunk' = Idle

TakeChunk ==
    /\ chunk = Idle
    /\ \E s \in streams :
         /\ streams' = streams \ {s}
         /\ \/ /\ Registered(r_reg)
               /\ Admit(s)
               /\ UNCHANGED wire
            \/ /\ ~Registered(r_reg)
               /\ wire' = wire \cup {Ack(s.index, FALSE)}
               /\ UNCHANGED <<r_reg, r_disk, journal, r_hash, chunk>>
    /\ UNCHANGED <<temp, dest, r_ctl, plane, used, senderVars>>

Unpaused ==
    /\ chunk.pc = "paused" /\ r_ctl # "Paused"
    /\ Admit(chunk)
    /\ UNCHANGED <<temp, dest, r_ctl, plane, wire, streams, used, senderVars>>

\* The checksum does not match.
RefuseChunk ==
    /\ chunk.pc = "write"
    /\ Fault
    /\ chunk' = Idle
    /\ wire' = wire \cup {Ack(chunk.index, FALSE)}
    /\ UNCHANGED <<temp, dest, r_reg, r_disk, r_ctl, journal, r_hash, plane, streams, senderVars>>

write_owned_chunk_at(i, data) == [temp EXCEPT ![i] = data]

\* The hash the receiver goes by, kept as chunks arrive or computed from the
\* file, already covers chunk i of the temporary file.
Hashed(i) ==
    \/ r_hash # None /\ r_hash[i] # 0
    \/ plane.pc = "verify" /\ plane.computed # None
    \/ plane.pc = "install"

\* write_chunk_to_temp fails when the file is gone. It does not look at the
\* state of the session, so it may change what has been hashed.
WriteChunk ==
    /\ chunk.pc = "write"
    /\ \/ /\ temp # None
          /\ used' = [used EXCEPT !.spoiled = @ \/ (Hashed(chunk.index) /\ temp[chunk.index] # chunk.data)]
          /\ temp' = write_owned_chunk_at(chunk.index, chunk.data)
          /\ chunk' = IF r_reg.state \in {"Cancelled", "Failed"}
                      THEN Idle ELSE [chunk EXCEPT !.pc = "checkpoint"]
          /\ UNCHANGED r_hash
       \/ /\ temp = None
          /\ chunk' = Idle
          /\ r_hash' = None
          /\ UNCHANGED <<temp, used>>
    /\ UNCHANGED <<dest, r_reg, r_disk, r_ctl, journal, plane, wire, streams, senderVars>>

\* Mutant: the chunk is acknowledged before it is marked.
CheckpointChunk_AcksFirst ==
    /\ chunk.pc = "checkpoint"
    /\ journal' = journal \cup {chunk.index}
    /\ chunk' = [chunk EXCEPT !.pc = "mark"]
    /\ wire' = wire \cup {Ack(chunk.index, TRUE)}
    /\ UNCHANGED <<temp, dest, r_reg, r_disk, r_ctl, r_hash, plane, streams, used, senderVars>>

\* checkpoint_chunk.
CheckpointChunk ==
    /\ chunk.pc = "checkpoint"
    /\ \/ /\ journal' = journal \cup {chunk.index}
          /\ chunk' = [chunk EXCEPT !.pc = "mark"]
          /\ UNCHANGED <<wire, used>>
       \/ /\ Fault
          /\ wire' = wire \cup {Ack(chunk.index, FALSE)}
          /\ chunk' = Idle
          /\ UNCHANGED journal
    /\ UNCHANGED <<temp, dest, r_reg, r_disk, r_ctl, r_hash, plane, streams, senderVars>>

\* IncrementalReceiveHash::record: a chunk is hashed once.
record(i, data) ==
    IF r_hash # None /\ r_hash[i] = 0 THEN [r_hash EXCEPT ![i] = data] ELSE r_hash

\* The progress is published and acknowledged; the last chunk moves the
\* session to Verifying.
MarkChunk ==
    /\ chunk.pc = "mark"
    /\ chunk' = Idle
    /\ IF r_reg.state \in {"Cancelled", "Failed"}
       THEN UNCHANGED <<r_reg, r_hash, wire>>
       ELSE LET completed == r_reg.completed \cup {chunk.index}
            IN  /\ r_reg' = [r_reg EXCEPT !.completed = completed,
                                          !.state = IF completed = Chunks /\ @ = "InProgress"
                                                    THEN "Verifying" ELSE @]
                /\ r_hash' = record(chunk.index, chunk.data)
                /\ wire' = wire \cup {Ack(chunk.index, TRUE)}
    /\ UNCHANGED <<temp, dest, r_disk, r_ctl, journal, plane, streams, used, senderVars>>

ReceiverStreams ==
    TakeChunk \/ Unpaused \/ RefuseChunk \/ WriteChunk \/ CheckpointChunk \/ MarkChunk

-----------------------------------------------------------------------------
(* The receiver's control loop (spawn_control_plane): one request at a     *)
(* time.                                                                   *)

\* SessionPersistence::load: the saved session and the journal.
load == [r_disk EXCEPT !.completed = @ \cup journal]
session_snapshot == IF Registered(r_reg) THEN r_reg ELSE IF Registered(r_disk) THEN load ELSE NoSession

handle_transfer_request ==
    /\ plane = Idle
    /\ \E m \in wire :
         /\ m.type = "TransferRequest"
         /\ LET accepted == overwrite \/ dest = None
            IN  wire' = (wire \ {m})
                   \cup {[type |-> "TransferResponse", accepted |-> accepted,
                          existing |-> IF accepted THEN session_snapshot.completed ELSE {}]}
    /\ UNCHANGED <<streams, used, senderVars, receiverVars>>

\* An existing temporary file keeps its data.
prepare_temp_file == IF temp = None THEN Zeroed ELSE temp

\* handle_manifest up to prepare_temp_file: a session that has its hash does
\* not match a new manifest, which has none yet.
handle_manifest ==
    /\ plane = Idle
    /\ \E m \in wire :
         /\ m.type = "Manifest"
         /\ \/ /\ session_snapshot.hashed
               /\ wire' = (wire \ {m})
                    \cup {[type |-> "ManifestAck", accepted |-> FALSE, skip |-> {}]}
               /\ UNCHANGED <<temp, plane>>
            \/ /\ ~session_snapshot.hashed
               /\ temp' = prepare_temp_file
               /\ plane' = [pc |-> "register", completed |-> session_snapshot.completed]
               /\ wire' = wire \ {m}
    /\ UNCHANGED <<dest, r_reg, r_disk, r_ctl, journal, r_hash, chunk, streams, used, senderVars>>

\* The new session replaces the one in the registry; a chunk that waits for
\* the old one to be resumed gives up.
RegisterSession ==
    /\ plane.pc = "register"
    /\ r_reg' = [state |-> "InProgress", completed |-> plane.completed, hashed |-> FALSE]
    /\ r_ctl' = "Running"
    /\ r_hash' = IF plane.completed = {} THEN Zeroed ELSE None
    /\ chunk' = IF chunk.pc = "paused" THEN Idle ELSE chunk
    /\ plane' = [pc |-> "save", skip |-> plane.completed]
    /\ UNCHANGED <<temp, dest, r_disk, journal, wire, streams, used, senderVars>>

\* The registered session is saved and the manifest acknowledged.
AcceptManifest ==
    /\ plane.pc = "save"
    /\ r_disk' = r_reg /\ journal' = {}
    /\ r_reg' = [r_reg EXCEPT !.state = IF r_reg.completed = Chunks THEN "Verifying" ELSE @]
    /\ plane' = Idle
    /\ wire' = wire \cup {[type |-> "ManifestAck", accepted |-> TRUE, skip |-> plane.skip]}
    /\ UNCHANGED <<temp, dest, r_ctl, r_hash, chunk, streams, used, senderVars>>

\* send_terminal_error and send_control_error report the same failure.
Errors(kinds) == {[type |-> "Error", by |-> k] : k \in kinds}

\* The incremental hash serves only when it has seen every chunk.
incremental_hash == IF r_hash # None /\ \A i \in Chunks : r_hash[i] # 0 THEN r_hash ELSE None

\* handle_finalize_request up to verify_and_finalize.
handle_finalize_request ==
    /\ plane = Idle
    /\ \E m \in wire :
         /\ m.type = "FinalizeRequest"
         /\ \/ /\ r_reg.state = "Verifying" /\ r_reg.completed = Chunks
               /\ plane' = [pc |-> "verify", hash |-> m.hash,
                            computed |-> incremental_hash]
               /\ r_hash' = None
               /\ wire' = wire \ {m}
            \/ /\ ~(r_reg.state = "Verifying" /\ r_reg.completed = Chunks)
               /\ wire' = (wire \ {m}) \cup Errors({"control"})
               /\ UNCHANGED <<plane, r_hash>>
    /\ UNCHANGED <<temp, dest, r_reg, r_disk, r_ctl, journal, chunk, streams, used, senderVars>>

\* The hash of what was received, or compute_file_hash of the temporary file.
Computed == IF plane.computed # None THEN plane.computed ELSE temp

\* Mutant: the file is installed without a look at its hash.
Verify_NoHash ==
    /\ plane.pc = "verify"
    /\ plane' = [pc |-> "install", hash |-> plane.hash]
    /\ UNCHANGED <<temp, r_reg, r_disk, journal, wire, dest, r_ctl, r_hash, chunk, streams, used,
                   senderVars>>

\* verify_and_finalize up to the rename.
Verify ==
    /\ plane.pc = "verify"
    /\ LET matches == Computed = plane.hash
           free == overwrite \/ dest = None
       IN  IF matches /\ free
           THEN /\ plane' = [pc |-> "install", hash |-> plane.hash]
                /\ UNCHANGED <<temp, r_reg, r_disk, journal, wire>>
           ELSE /\ temp' = IF matches THEN temp ELSE None
                /\ SaveReceived([r_reg EXCEPT !.state = "Failed"])
                /\ wire' = wire \cup Errors({"terminal", "control"})
                /\ plane' = Idle
    /\ UNCHANGED <<dest, r_ctl, r_hash, chunk, streams, used, senderVars>>

\* The rename.
Install ==
    /\ plane.pc = "install"
    /\ dest' = temp
    /\ temp' = None
    /\ plane' = [pc |-> "publish", hash |-> plane.hash]
    /\ UNCHANGED <<r_reg, r_disk, r_ctl, journal, r_hash, chunk, wire, streams, used, senderVars>>

Publish ==
    /\ plane.pc = "publish"
    /\ SaveReceived([r_reg EXCEPT !.state = "Completed", !.hashed = TRUE])
    /\ wire' = wire \cup {[type |-> "Complete", hash |-> plane.hash]}
    /\ plane' = Idle
    /\ UNCHANGED <<temp, dest, r_ctl, r_hash, chunk, streams, used, senderVars>>

ReceiverPlane ==
    \/ handle_transfer_request \/ handle_manifest \/ RegisterSession \/ AcceptManifest
    \/ handle_finalize_request \/ Verify \/ Install \/ Publish

-----------------------------------------------------------------------------
(* pause_transfer, resume_transfer and cancel_transfer, at either end, and *)
(* the loop that handles Cancel.                                           *)

SaveSent(session) == s_reg' = session /\ s_disk' = session

Pause ==
    /\ Fault
    /\ \/ /\ can_transition(s_reg.state, "Paused")
          /\ SaveSent([s_reg EXCEPT !.state = "Paused"])
          /\ s_ctl' = "Paused"
          /\ UNCHANGED <<r_reg, r_disk, journal, r_ctl>>
       \/ /\ can_transition(r_reg.state, "Paused")
          /\ SaveReceived([r_reg EXCEPT !.state = "Paused"])
          /\ r_ctl' = "Paused"
          /\ UNCHANGED <<s_reg, s_disk, s_ctl>>
    /\ UNCHANGED <<source, offered, task, temp, dest, r_hash, chunk, plane, wire, streams>>

Resume ==
    /\ \/ /\ s_reg.state = "Paused"
          /\ SaveSent([s_reg EXCEPT !.state = "InProgress"])
          /\ s_ctl' = "Running"
          /\ UNCHANGED <<r_reg, r_disk, journal, r_ctl>>
       \/ /\ r_reg.state = "Paused"
          /\ SaveReceived([r_reg EXCEPT !.state = "InProgress"])
          /\ r_ctl' = "Running"
          /\ UNCHANGED <<s_reg, s_disk, s_ctl>>
    /\ UNCHANGED <<source, offered, task, temp, dest, r_hash, chunk, plane, wire, streams, used>>

CancelMessage(to) == [type |-> "Cancel", to |-> to]

\* The sender's session, registered again if it is only on disk.
load_session == IF Registered(s_reg) THEN s_reg ELSE s_disk

\* The peer is told first; a session that cannot be cancelled stays.
CancelSent ==
    /\ Fault
    /\ LET session == load_session
       IN  /\ Registered(session)
           /\ IF session.state = "Cancelled" \/ can_transition(session.state, "Cancelled")
              THEN SaveSent([session EXCEPT !.state = "Cancelled"]) /\ s_ctl' = "Cancelled"
              ELSE s_reg' = session /\ UNCHANGED <<s_disk, s_ctl>>
    /\ wire' = wire \cup {CancelMessage("receiver")}
    /\ UNCHANGED <<source, offered, task, streams, receiverVars>>

CancelReceived ==
    /\ Fault
    /\ LET session == session_snapshot
       IN  /\ Registered(session)
           /\ IF session.state = "Cancelled" \/ can_transition(session.state, "Cancelled")
              THEN SaveReceived([session EXCEPT !.state = "Cancelled"]) /\ r_ctl' = "Cancelled"
              ELSE r_reg' = session /\ UNCHANGED <<r_disk, journal, r_ctl>>
    /\ wire' = wire \cup {CancelMessage("sender")}
    /\ UNCHANGED <<temp, dest, r_hash, chunk, plane, streams, senderVars>>

\* The cancel loop overwrites the state of a registered session.
HandleCancel ==
    \/ /\ CancelMessage("sender") \in wire
       /\ wire' = wire \ {CancelMessage("sender")}
       /\ IF Registered(s_reg)
          THEN SaveSent([s_reg EXCEPT !.state = "Cancelled"]) /\ s_ctl' = "Cancelled"
          ELSE UNCHANGED <<s_reg, s_disk, s_ctl>>
       /\ UNCHANGED <<source, offered, task, streams, used, receiverVars>>
    \/ /\ CancelMessage("receiver") \in wire
       /\ wire' = wire \ {CancelMessage("receiver")}
       /\ IF Registered(r_reg)
          THEN SaveReceived([r_reg EXCEPT !.state = "Cancelled"]) /\ r_ctl' = "Cancelled"
          ELSE UNCHANGED <<r_reg, r_disk, journal, r_ctl>>
       /\ r_hash' = None
       /\ UNCHANGED <<temp, dest, chunk, plane, streams, used, senderVars>>

-----------------------------------------------------------------------------
(* What happens around the transfer.                                       *)

CrashSender ==
    /\ Crash
    /\ task' = NoTask /\ s_reg' = NoSession /\ s_ctl' = "Running"
    /\ streams' = {}
    /\ UNCHANGED <<source, offered, s_disk, wire, receiverVars>>

CrashReceiver ==
    /\ Crash
    /\ r_reg' = NoSession /\ r_ctl' = "Running" /\ r_hash' = None
    /\ chunk' = Idle /\ plane' = Idle
    /\ UNCHANGED <<temp, dest, r_disk, journal, wire, streams, senderVars>>

\* The source is written while a transfer reads it.
EditSource ==
    /\ source # None /\ source < MaxVersion
    /\ Fault
    /\ source' = source + 1
    /\ UNCHANGED <<offered, task, s_reg, s_disk, s_ctl, wire, streams, receiverVars>>

TransferNext ==
    \/ Start \/ SenderTask \/ ReceiverStreams \/ ReceiverPlane
    \/ Pause \/ Resume \/ CancelSent \/ CancelReceived \/ HandleCancel
    \/ CrashSender \/ CrashReceiver \/ EditSource

TransferSpec == TransferInit /\ [][TransferNext]_transferVars

-----------------------------------------------------------------------------
TransferTypeOK ==
    /\ source \in (1..MaxVersion) \cup {None}
    /\ offered \subseteq Contents
    /\ temp \in [Chunks -> 0..MaxVersion] \cup {None}
    /\ dest \in Contents \cup {None}
    /\ {s_reg, s_disk, r_reg, r_disk} \subseteq Sessions \cup {NoSession}
    /\ {s_ctl, r_ctl} \subseteq ControlStates
    /\ task.completed \subseteq Chunks /\ task.in_flight \subseteq Chunks
    /\ Cardinality(task.in_flight) <= concurrency
    /\ \A i \in Chunks : task.retries[i] <= max_retries
    /\ journal \subseteq Chunks

\* The destination appears whole, with a content the sender has read to its
\* end unless a chunk was written over what the receiver had hashed, and a move
\* removes the source and reports success only after that:
\* send_file_with_context and ReceiveHandler implement FileMove.
Move == INSTANCE FileMove WITH Contents <- Contents, NoFile <- None, src <- source # None,
          offered <- offered, dst <- dest, spoiled <- used.spoiled,
          reported <- s_disk.state = "Completed"
ImplementsMove == Move!MoveSpec

\* "Validates a manifest-v2 trailing whole-file hash and atomically installs
\* the received file" (receive.rs:901): what has been renamed to the
\* destination is what the hash of the FinalizeRequest was compared with.
InstalledIsValidated == plane.pc = "publish" => dest = plane.hash

\* A call of send_file or resume_transfer that has not returned and is not
\* paused. Every wait of send_file_with_context has a timeout and the retries
\* are bounded, so it ends.
SendWaits == task.pc # "idle" /\ s_ctl # "Paused"

\* While neither process is restarted, a chunk the sender counts as complete
\* is one the receiver counts as complete, so a transfer that has sent
\* everything finds the receiver ready to verify it.
AckedIsReceived == ~used.crashed => task.completed \subseteq r_reg.completed

=============================================================================
