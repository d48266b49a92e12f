-------------------------- MODULE TimestampService --------------------------
(***************************************************************************)
(* What the timestamp oracle promises its clients, whatever leaders and    *)
(* clocks do: ranges are granted above everything granted before, every    *)
(* timestamp is handed to one caller once, and each client sees its own    *)
(* timestamps increase.                                                    *)
(***************************************************************************)
EXTENDS HybridTimestamps, Sequences

CONSTANTS Clients, MaxCount

VARIABLES
    granted,    \* ranges committed so far, in order
    returned    \* returned[c]: timestamps client c handed to its callers

Init ==
    /\ granted = <<>>
    /\ returned = [c \in Clients |-> {}]

Grant ==
    /\ \E start \in HybridTimestamp, count \in 1..MaxCount :
         /\ ~Overflows(from_start(start, count).end)
         /\ \A i \in DOMAIN granted : Before(granted[i].end, start)
         /\ granted' = Append(granted, from_start(start, count))
    /\ UNCHANGED returned

Return(c) ==
    /\ \E t \in HybridTimestamp :
         /\ \E i \in DOMAIN granted : Within(t, granted[i])
         /\ \A u \in returned[c] : Before(u, t)
         /\ \A d \in Clients : t \notin returned[d]
         /\ returned' = [returned EXCEPT ![c] = @ \cup {t}]
    /\ UNCHANGED granted

Next == Grant \/ \E c \in Clients : Return(c)

Spec == Init /\ [][Next]_<<granted, returned>>
=============================================================================
