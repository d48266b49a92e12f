-------------------------- MODULE HybridTimestamps --------------------------
(***************************************************************************)
(* HybridTimestamp and TimestampRange of crates/chirps-core/src/time.rs.   *)
(* A timestamp is a u64 of physical milliseconds and a u32 that orders the *)
(* timestamps of one millisecond.  The two widths are parameters, so that  *)
(* carries and overflows happen on small instances.                        *)
(***************************************************************************)
EXTENDS Integers

CONSTANTS
    MaxPhysical,           \* u64::MAX
    LOGICAL_CARDINALITY    \* u32::MAX + 1

ASSUME WidthAssumption ==
    /\ MaxPhysical \in Nat
    /\ LOGICAL_CARDINALITY \in Nat \ {0}

HybridTimestamp == [physical: 0..MaxPhysical,
                    logical: 0..(LOGICAL_CARDINALITY - 1)]

\* The derived lexicographic order of HybridTimestamp.
Before(s, t) ==
    \/ s.physical < t.physical
    \/ s.physical = t.physical /\ s.logical < t.logical

AtMost(s, t) == s = t \/ Before(s, t)

\* checked_add: the logical counter carries into the physical part.  The
\* result is a HybridTimestamp unless the physical part overflows.
checked_add(t, delta) ==
    [physical |-> t.physical + ((t.logical + delta) \div LOGICAL_CARDINALITY),
     logical  |-> (t.logical + delta) % LOGICAL_CARDINALITY]

Overflows(t) == t.physical > MaxPhysical

checked_next(t) == checked_add(t, 1)

\* TimestampRange: inclusive and contiguous.  from_start builds one, at is its
\* offset-th timestamp.
TimestampRange == [start: HybridTimestamp, end: HybridTimestamp, count: Nat]

from_start(start, count) ==
    [start |-> start, end |-> checked_add(start, count - 1), count |-> count]

at(range, offset) == checked_add(range.start, offset)

Within(t, range) == AtMost(range.start, t) /\ AtMost(t, range.end)
=============================================================================
