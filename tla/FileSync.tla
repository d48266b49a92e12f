------------------------------ MODULE FileSync ------------------------------
(***************************************************************************)
(* sync_file and broadcast_file of chirps-file-transfer (ops/sync.rs,      *)
(* ops/broadcast.rs, service.rs): two nodes that each hold a copy of one   *)
(* file and synchronize it by modification time, in either direction, and  *)
(* a node that sends its copy to several others. A transfer is what        *)
(* FileMove promises: it reads its source, and installs all of it or       *)
(* fails. Every call holds one of its node's transfer slots while it runs; *)
(* a node that is asked to send its copy (SyncRequest) takes a slot of its *)
(* own, so two calls can wait for each other. The nodes can read their     *)
(* copies: an unreadable one counts as missing in request_remote_metadata. *)
(***************************************************************************)
EXTENDS Naturals, FiniteSets

CONSTANTS
    SyncNode,           \* the two nodes that synchronize
    Target,             \* the targets of the broadcast
    Directions,         \* SyncDirection of the calls
    Resolutions,        \* ConflictResolution of the calls
    tolerance,          \* SyncOptions::clock_skew_tolerance
    max_concurrent_transfers,
    NoCopy,
    Modified,           \* modification times
    MaxCalls            \* bound: calls of sync_file and broadcast_file

ASSUME SyncAssumption ==
    /\ \E a, b \in SyncNode : a # b /\ SyncNode = {a, b}
    /\ IsFiniteSet(Target) /\ NoCopy \notin [by : SyncNode, modified : Modified]
    /\ Directions \subseteq {"Push", "Pull", "Bidirectional"}
    /\ Resolutions \subseteq {"NewerWins", "SourceWins", "TargetWins", "Manual"}
    /\ Modified \subseteq Nat /\ tolerance \in Nat /\ MaxCalls \in Nat
    /\ max_concurrent_transfers \in Nat \ {0}

VARIABLES
    copy,       \* the node's file: who wrote it and when, NoCopy if there is none
    slots,      \* transfer_slots: free permits
    call,       \* the node's sync_file
    serve,      \* the task the node has spawned for a SyncRequest
    bcast,      \* broadcast_file, in move mode: its state for every target
    original,   \* the file to broadcast exists
    calls       \* calls so far

syncVars == <<copy, slots, call, serve, bcast, original, calls>>

Peer(n) == CHOOSE m \in SyncNode : m # n
Exists(f) == f # NoCopy
NoCall == [pc |-> "idle", dir |-> "Push", res |-> "Manual", file |-> NoCopy, overwrite |-> FALSE,
           ok |-> FALSE, clean |-> FALSE]

SyncInit ==
    /\ copy \in [SyncNode -> {NoCopy} \cup [by : SyncNode, modified : Modified]]
    /\ \A n \in SyncNode : Exists(copy[n]) => copy[n].by = n
    /\ slots = [n \in SyncNode |-> max_concurrent_transfers]
    /\ call = [n \in SyncNode |-> NoCall]
    /\ serve = [n \in SyncNode |-> NoCall]
    /\ bcast = [t \in Target |-> "idle"]
    /\ original = TRUE
    /\ calls = 0

-----------------------------------------------------------------------------
(* What sync_file decides.                                                 *)

\* Nothing is newer within the tolerance.
compare_modified(l, r) ==
    IF l - r <= tolerance /\ r - l <= tolerance THEN "None"
    ELSE IF l > r THEN "Greater" ELSE "Less"
Ordering(l, r) ==
    IF Exists(l) /\ Exists(r) THEN compare_modified(l.modified, r.modified) ELSE "None"

\* resolve_push_conflict and resolve_pull_conflict.
resolve_conflict(resolution, action) ==
    CASE resolution \in {"NewerWins", "TargetWins"} -> "Nothing"
      [] resolution = "SourceWins" -> action
      [] resolution = "Manual" -> "Err"

decide_push(ordering, l, r, resolution) ==
    IF ~l THEN "Err"
    ELSE IF ~r \/ ordering = "Greater" THEN "Push"
    ELSE IF ordering = "Less" THEN resolve_conflict(resolution, "Push") ELSE "Nothing"

decide_pull(ordering, l, r, resolution) ==
    IF ~r THEN "Nothing"
    ELSE IF ~l \/ ordering = "Less" THEN "Pull"
    ELSE IF ordering = "Greater" THEN resolve_conflict(resolution, "Pull") ELSE "Nothing"

decide_bidirectional(ordering, l, r, resolution) ==
    CASE l /\ ~r -> "Push"
      [] ~l /\ r -> "Pull"
      [] ~l /\ ~r -> "Nothing"
      [] l /\ r -> CASE resolution = "Manual" -> "Err"
                     [] resolution = "SourceWins" -> "Push"
                     [] resolution = "TargetWins" -> "Pull"
                     [] resolution = "NewerWins" ->
                          CASE ordering = "Greater" -> "Push"
                            [] ordering = "Less" -> "Pull"
                            [] ordering = "None" -> "Nothing"

decide_action(direction, ordering, l, r, resolution) ==
    CASE direction = "Push" -> decide_push(ordering, l, r, resolution)
      [] direction = "Pull" -> decide_pull(ordering, l, r, resolution)
      [] direction = "Bidirectional" -> decide_bidirectional(ordering, l, r, resolution)

-----------------------------------------------------------------------------
(* The call.                                                               *)

Acquire(n) == slots[n] > 0 /\ slots' = [slots EXCEPT ![n] = @ - 1]
Release(n) == slots' = [slots EXCEPT ![n] = @ + 1]

\* What sync_file returned is kept until the next call.
Returned(c, ok) == [c EXCEPT !.pc = "returned", !.ok = ok, !.file = NoCopy, !.overwrite = FALSE]
Return(n, ok) == call' = [call EXCEPT ![n] = Returned(@, ok)] /\ Release(n)

\* A call is clean until the file is written by anything but a clean call
\* that has decided for the newer copy.
Disturbed == [n \in SyncNode |-> [call[n] EXCEPT !.clean = FALSE]]
After(c) == IF c.clean /\ c.res = "NewerWins" THEN call ELSE Disturbed

sync_file(n) ==
    /\ call[n].pc \in {"idle", "returned"}
    /\ calls < MaxCalls
    /\ calls' = calls + 1
    /\ \E d \in Directions, r \in Resolutions :
         call' = [call EXCEPT ![n] = [NoCall EXCEPT !.pc = "slot", !.dir = d, !.res = r]]
    /\ UNCHANGED <<copy, slots, serve, bcast, original>>

\* With a slot, the local metadata is read.
ReadLocal(n) ==
    /\ call[n].pc = "slot"
    /\ Acquire(n)
    /\ call' = [call EXCEPT ![n].pc = "metadata", ![n].file = copy[n], ![n].clean = TRUE]
    /\ UNCHANGED <<copy, serve, bcast, original, calls>>

\* request_remote_metadata and the decision.
Decide(n) ==
    /\ call[n].pc = "metadata"
    /\ LET local == call[n].file
           remote == copy[Peer(n)]
           action == decide_action(call[n].dir, Ordering(local, remote), Exists(local),
                                   Exists(remote), call[n].res)
       IN  \/ action \in {"Nothing", "Err"} /\ Return(n, action = "Nothing")
           \/ /\ action = "Push"
              /\ call' = [call EXCEPT ![n].pc = "push", ![n].file = NoCopy,
                                      ![n].overwrite = Exists(remote)]
              /\ UNCHANGED slots
           \/ /\ action = "Pull"
              /\ call' = [call EXCEPT ![n].pc = "request", ![n].file = NoCopy,
                                      ![n].overwrite = Exists(local)]
              /\ UNCHANGED slots
    /\ UNCHANGED <<copy, serve, bcast, original, calls>>

\* The transfer of a push reads the local file; its metadata comes with it.
PushReads(n) ==
    /\ call[n].pc = "push"
    /\ call' = [call EXCEPT ![n].pc = "sending", ![n].file = copy[n]]
    /\ UNCHANGED <<copy, slots, serve, bcast, original, calls>>

\* A file is installed at p unless one has appeared there.
Installs(file, overwrite, p) == Exists(file) /\ (overwrite \/ ~Exists(copy[p]))

PushInstalls(n) ==
    /\ call[n].pc = "sending"
    /\ LET ok == Installs(call[n].file, call[n].overwrite, Peer(n))
       IN  /\ copy' = IF ok THEN [copy EXCEPT ![Peer(n)] = call[n].file] ELSE copy
           /\ call' = [After(call[n]) EXCEPT ![n] = Returned(@, ok)]
    /\ Release(n)
    /\ UNCHANGED <<serve, bcast, original, calls>>

\* request_pull_transfer: the peer spawns a task for the SyncRequest, and the
\* call waits for the session that the task will open.
RequestPull(n) ==
    /\ call[n].pc = "request" /\ serve[Peer(n)].pc = "idle"
    /\ serve' = [serve EXCEPT ![Peer(n)] = [call[n] EXCEPT !.pc = "slot", !.clean = FALSE]]
    /\ call' = [call EXCEPT ![n].pc = "pulling", ![n].overwrite = FALSE]
    /\ UNCHANGED <<copy, slots, bcast, original, calls>>

\* The task at n takes a slot and reads the file.
ServeReads(n) ==
    /\ serve[n].pc = "slot"
    /\ Acquire(n)
    /\ serve' = [serve EXCEPT ![n].pc = "sending", ![n].file = copy[n]]
    /\ UNCHANGED <<copy, call, bcast, original, calls>>

\* The file is installed at the peer; wait_for_completion sees the session
\* end, unless the call has timed out by then.
ServeInstalls(n) ==
    /\ serve[n].pc = "sending"
    /\ LET p == Peer(n)
           ok == Installs(serve[n].file, serve[n].overwrite, p)
           waits == call[p].pc = "pulling"
       IN  /\ copy' = IF ok THEN [copy EXCEPT ![p] = serve[n].file] ELSE copy
           /\ call' = IF waits THEN [After(call[p]) EXCEPT ![p] = Returned(@, ok)]
                       ELSE Disturbed
           /\ slots' = [slots EXCEPT ![n] = @ + 1, ![p] = IF waits THEN @ + 1 ELSE @]
    /\ serve' = [serve EXCEPT ![n] = NoCall]
    /\ UNCHANGED <<bcast, original, calls>>

\* A wait of the call times out, or its transfer fails.
SyncTimeout(n) ==
    /\ call[n].pc \in {"metadata", "sending", "pulling"}
    /\ Return(n, FALSE)
    /\ UNCHANGED <<copy, serve, bcast, original, calls>>

\* The transfer of the spawned task fails. The Error it sends ends the call.
ServeFails(n) ==
    /\ serve[n].pc = "sending"
    /\ serve' = [serve EXCEPT ![n] = NoCall]
    /\ Release(n)
    /\ UNCHANGED <<copy, call, bcast, original, calls>>

Edit(n) ==
    /\ \E m \in Modified :
         /\ \A k \in SyncNode : Exists(copy[k]) => m > copy[k].modified
         /\ copy' = [copy EXCEPT ![n] = [by |-> n, modified |-> m]]
    /\ call' = Disturbed
    /\ UNCHANGED <<slots, serve, bcast, original, calls>>

-----------------------------------------------------------------------------
(* broadcast_file_with_context in move mode, at the first node: one send   *)
(* per target, each with a slot of its own; the source is removed when all *)
(* of them have succeeded.                                                 *)

Broadcaster == CHOOSE n \in SyncNode : TRUE
Settled(t) == bcast[t] \in {"ok", "failed"}

broadcast_file ==
    /\ \A t \in Target : bcast[t] = "idle"
    /\ calls < MaxCalls
    /\ calls' = calls + 1
    /\ bcast' = [t \in Target |-> "slot"]
    /\ UNCHANGED <<copy, slots, call, serve, original>>

BroadcastReads(t) ==
    /\ bcast[t] = "slot"
    /\ Acquire(Broadcaster)
    /\ bcast' = [bcast EXCEPT ![t] = "sending"]
    /\ UNCHANGED <<copy, call, serve, original, calls>>

\* Mutant: the send deletes its source (delete_source).
BroadcastSends_Deletes(t) ==
    /\ bcast[t] = "sending"
    /\ bcast' = [bcast EXCEPT ![t] = IF original THEN "ok" ELSE "failed"]
    /\ original' = FALSE
    /\ Release(Broadcaster)
    /\ UNCHANGED <<copy, call, serve, calls>>

BroadcastSends(t) ==
    /\ bcast[t] = "sending"
    /\ \E result \in {"ok", "failed"} :
         /\ result = "ok" => original
         /\ bcast' = [bcast EXCEPT ![t] = result]
    /\ Release(Broadcaster)
    /\ UNCHANGED <<copy, call, serve, original, calls>>

BroadcastEnds ==
    /\ \A t \in Target : Settled(t)
    /\ original /\ \A t \in Target : bcast[t] # "failed"
    /\ original' = FALSE
    /\ UNCHANGED <<copy, slots, call, serve, bcast, calls>>

SyncNext ==
    \/ \E n \in SyncNode :
         \/ sync_file(n) \/ ReadLocal(n) \/ Decide(n) \/ PushReads(n) \/ PushInstalls(n)
         \/ RequestPull(n) \/ ServeReads(n) \/ ServeInstalls(n) \/ SyncTimeout(n)
         \/ ServeFails(n) \/ Edit(n)
    \/ broadcast_file \/ BroadcastEnds
    \/ \E t \in Target : BroadcastReads(t) \/ BroadcastSends(t)

\* The steps of the tasks that have been started: calls, spawned tasks, sends.
SyncTasks ==
    \/ \E n \in SyncNode :
         \/ ReadLocal(n) \/ Decide(n) \/ PushReads(n) \/ PushInstalls(n) \/ RequestPull(n)
         \/ SyncTimeout(n) \/ ServeReads(n) \/ ServeInstalls(n) \/ ServeFails(n)
    \/ \E t \in Target : BroadcastReads(t) \/ BroadcastSends(t)

SyncSpec == SyncInit /\ [][SyncNext]_syncVars

-----------------------------------------------------------------------------
SyncTypeOK ==
    /\ copy \in [SyncNode -> {NoCopy} \cup [by : SyncNode, modified : Modified]]
    /\ slots \in [SyncNode -> 0..max_concurrent_transfers]
    /\ bcast \in [Target -> {"idle", "slot", "sending", "ok", "failed"}]

\* Every slot that is not free is held by exactly one running transfer, so a
\* node never runs more than max_concurrent_transfers and never loses one.
SlotsAreHeld ==
    \A n \in SyncNode :
        slots[n] + Cardinality({k \in {"call", "serve"} :
                       CASE k = "call" -> call[n].pc \notin {"idle", "slot", "returned"}
                         [] k = "serve" -> serve[n].pc = "sending"})
                 + (IF n = Broadcaster THEN Cardinality({t \in Target : bcast[t] = "sending"}) ELSE 0)
          = max_concurrent_transfers

\* A bidirectional sync_file by modification time that returns Ok leaves both
\* nodes with the same file, or with files of the same age, unless the file
\* has been written since it read the metadata by anything but another such
\* call.
SyncAgrees ==
    \A n \in SyncNode :
        LET a == copy[n]
            b == copy[Peer(n)]
        IN  (/\ call[n].pc = "returned" /\ call[n].ok /\ call[n].clean
             /\ call[n].dir = "Bidirectional" /\ call[n].res = "NewerWins")
            => a = b \/ (Exists(a) /\ Exists(b) /\ Ordering(a, b) = "None")

\* A broadcast in move mode removes the source only when every target has it.
BroadcastMovesToAll == ~original => \A t \in Target : bcast[t] = "ok"

\* Slots are neither lost nor shared, a sync_file that returned Ok by
\* modification time has made the two copies agree, and a broadcast moves
\* its file to every target or keeps it.
SyncIsSound == SlotsAreHeld /\ SyncAgrees /\ BroadcastMovesToAll

\* A sync_file that has not returned. Two nodes that hold their only slot and
\* wait for the other's are freed by the deadline of wait_for_completion.
SyncWaits == \E n \in SyncNode : call[n].pc \notin {"idle", "returned"}
=============================================================================
