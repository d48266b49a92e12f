---------------------------- MODULE FileService -----------------------------
(***************************************************************************)
(* What the file transfer service does beside its transfers: it answers    *)
(* the remote file operations of its peers, and its throttle paces the     *)
(* chunks it sends. The two share no state.                                *)
(***************************************************************************)
EXTENDS RemoteFiles, BandwidthThrottle

ServiceSpec == RemoteSpec /\ ThrottleSpec

\* A remote remove has happened when it returns Ok and never happens after it
\* was answered; the chunks of a transfer keep to the configured rate.
ServiceIsSound == RemoveIsDone /\ RateIsKept
=============================================================================
