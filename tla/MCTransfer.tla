----------------------------- MODULE MCTransfer -----------------------------
(***************************************************************************)
(* The file transfer service, part by part: one session (FileTransfer),    *)
(* the inbox its control messages go through (ControlDispatcher), the      *)
(* calls that start several sessions (FileSync), the operations on remote  *)
(* files and the rate limit of the chunks (FileService). The parts share   *)
(* no state: a behaviour of this module is a behaviour of one of them      *)
(* while the others rest.                                                  *)
(***************************************************************************)
EXTENDS FileTransfer, ControlDispatcher, FileSync, FileService

VARIABLE part

vars == <<part, transferVars, dispatcherVars, syncVars, remoteVars, throttleVars>>

MCMatches == [w \in Waiter |-> IF w = "cancel loop" THEN {"Cancel"}
                               ELSE IF w = "control plane" THEN {"Request"} ELSE Kind]

Init ==
    /\ part \in {"transfer", "inbox", "sync", "remote", "throttle"}
    /\ TransferInit /\ DispatcherInit /\ SyncInit /\ RemoteInit /\ ThrottleInit
    /\ part # "sync" => copy = [n \in SyncNode |-> NoCopy]

Next ==
    \/ /\ part = "transfer" /\ TransferNext
       /\ UNCHANGED <<part, dispatcherVars, syncVars, remoteVars, throttleVars>>
    \/ /\ part = "inbox" /\ DispatcherNext
       /\ UNCHANGED <<part, transferVars, syncVars, remoteVars, throttleVars>>
    \/ /\ part = "sync" /\ SyncNext
       /\ UNCHANGED <<part, transferVars, dispatcherVars, remoteVars, throttleVars>>
    \/ /\ part = "remote" /\ RemoteNext
       /\ UNCHANGED <<part, transferVars, dispatcherVars, syncVars, throttleVars>>
    \/ /\ part = "throttle" /\ ThrottleNext
       /\ UNCHANGED <<part, transferVars, dispatcherVars, syncVars, remoteVars>>

\* A task that can run is polled, and its timers fire.
Fairness ==
    WF_vars(\/ /\ part = "transfer" /\ SenderTask
               /\ UNCHANGED <<part, dispatcherVars, syncVars, remoteVars, throttleVars>>
            \/ /\ part = "sync" /\ SyncTasks
               /\ UNCHANGED <<part, transferVars, dispatcherVars, remoteVars, throttleVars>>)

Spec == Init /\ [][Next]_vars /\ Fairness

\* The states of the machines are well formed, and a chunk counts as sent
\* only when the receiver counts it as received.
TransferIsSound ==
    /\ TransferTypeOK /\ DispatcherTypeOK /\ SyncTypeOK /\ RemoteTypeOK /\ ThrottleTypeOK
    /\ AckedIsReceived

\* send_file, resume_transfer and sync_file return to their caller unless the
\* transfer is paused. The calls are bounded by MaxStarts and MaxCalls, so a
\* state in which none waits comes only when each has returned.
CallsReturn == []<>~(SendWaits \/ SyncWaits)
=============================================================================
