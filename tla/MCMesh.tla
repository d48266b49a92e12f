------------------------------- MODULE MCMesh -------------------------------
(***************************************************************************)
(* The parts of a mesh node that do not share state, side by side: in each *)
(* behaviour one of them runs, and the others stay as they started.        *)
(***************************************************************************)
EXTENDS Swim, HlcGossip, MeshDispatch, RaftRouting

CONSTANTS a, b, c, s1, s2

MCNodes == {a, b, c}
MCSubjects == {c}
MCGossipers == {"g1", "g2"}
MCSubscribers == {s1, s2}

VARIABLE part

Init ==
    /\ part \in {"swim", "gossip", "dispatch", "routing"}
    /\ SwimInit /\ GossipInit /\ DispatchInit /\ RoutingInit
    /\ part # "routing" => (\A p \in RaftPeers : life[p] = 0) /\ disk = {}

Next ==
    \/ part = "swim" /\ SwimNext /\ UNCHANGED <<part, gossipVars, dispatchVars, routingVars>>
    \/ part = "gossip" /\ GossipNext /\ UNCHANGED <<part, swimVars, dispatchVars, routingVars>>
    \/ part = "dispatch" /\ DispatchNext /\ UNCHANGED <<part, swimVars, gossipVars, routingVars>>
    \/ part = "routing" /\ RoutingNext /\ UNCHANGED <<part, swimVars, gossipVars, dispatchVars>>

vars == <<part, swimVars, gossipVars, dispatchVars, routingVars>>

Spec ==
    /\ Init /\ [][Next]_vars
    /\ WF_vars(\/ part = "swim" /\ DecidingTick /\ UNCHANGED <<part, gossipVars, dispatchVars, routingVars>>
               \/ part = "dispatch" /\ DispatchStep /\ UNCHANGED <<part, swimVars, gossipVars, routingVars>>)
    /\ WF_vars(part = "swim" /\ SilenceTimesOut(c) /\ UNCHANGED <<part, gossipVars, dispatchVars, routingVars>>)
    /\ WF_vars(part = "swim" /\ SuspicionTimesOut(c) /\ UNCHANGED <<part, gossipVars, dispatchVars, routingVars>>)

\* A crashed peer is found out, and no frame waits for good behind a subscriber.
MeshMakesProgress == []<>~(CrashIsHidden \/ FrameWaits)

\* What a node holds of a peer only moves forward: plain gossip and probes never
\* bring back an older incarnation or a dead peer, and stamped gossip never
\* replaces an event by one it supersedes.
NewerNewsWins == OldNewsLoses /\ NewestEventWins

\* Every frame goes where it belongs, and nowhere else.
FramesAreRouted ==
    /\ part = "dispatch" => DispatchTypeOK /\ NoFrameIsMissed /\ InternalStaysInternal
    /\ part = "routing" => RoutingIsSound
=============================================================================
