------------------------------ MODULE LocalHlc ------------------------------
(***************************************************************************)
(* The hybrid logical clock of one node (chirps-gossip-swim, hlc.rs) over  *)
(* the timestamps of chirps-wire (hlc.rs), which saturate where those of   *)
(* chirps-core overflow. Both have the order of HybridTimestamps.          *)
(***************************************************************************)
EXTENDS HybridTimestamps, FiniteSetsExt

CONSTANT max_clock_skew

ASSUME SkewAssumption == max_clock_skew \in Nat

hlc_next(t) ==
    IF t.logical < LOGICAL_CARDINALITY - 1
    THEN [t EXCEPT !.logical = @ + 1]
    ELSE [physical |-> IF t.physical < MaxPhysical THEN t.physical + 1 ELSE t.physical, logical |-> 0]

hlc_tick(current, wall) ==
    IF wall > current.physical THEN [physical |-> wall, logical |-> 0] ELSE hlc_next(current)

\* receive returns ClockSkewTooLarge and changes nothing.
SkewTooLarge(remote, wall) == remote.physical > wall + max_clock_skew

Later(s, t) == IF Before(s, t) THEN t ELSE s

\* Mutant: a message only ticks the clock.
hlc_receive_Ticks(current, wall, remote) == hlc_tick(current, wall)

hlc_receive(current, wall, remote) ==
    LET merged == Max({current.physical, wall, remote.physical}) IN
    IF merged \in {current.physical, remote.physical}
    THEN hlc_next(Later(current, remote))
    ELSE [physical |-> merged, logical |-> 0]
=============================================================================
