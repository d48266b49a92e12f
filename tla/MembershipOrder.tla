--------------------------- MODULE MembershipOrder ---------------------------
(* Which news of a peer wins (chirps-gossip-swim, engine.rs). *)
EXTENDS Naturals

Statuses == {"Alive", "Suspect", "Dead"}

status_rank(s) == CASE s = "Alive" -> 0 [] s = "Suspect" -> 1 [] s = "Dead" -> 2

\* Incarnation first, then the stronger status.
Supersedes(upd, p) ==
    \/ upd.incarnation > p.incarnation
    \/ upd.incarnation = p.incarnation /\ status_rank(upd.status) > status_rank(p.status)
=============================================================================
