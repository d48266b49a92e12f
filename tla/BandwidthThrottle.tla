------------------------- MODULE BandwidthThrottle -------------------------
(***************************************************************************)
(* BandwidthThrottle of chirps-file-transfer (bandwidth.rs): a token       *)
(* bucket that the chunk senders of a transfer share. A sender that needs  *)
(* more tokens than there are takes what there is and sleeps for the rest. *)
(* Time is counted in ticks, second of them to a second; the bucket earns  *)
(* limit tokens in a second, rounded down at every refill.                 *)
(***************************************************************************)
EXTENDS Naturals

CONSTANTS
    Sender,             \* the tasks that send chunks
    limit,              \* limit_bytes_per_sec
    second,             \* ticks in a second
    ChunkSizes,         \* sizes of the payloads
    MaxTime             \* bound: ticks

ASSUME ThrottleAssumption ==
    /\ {limit, second} \subseteq Nat \ {0}
    /\ ChunkSizes \subseteq Nat \ {0} /\ MaxTime \in Nat

VARIABLES
    tokens,     \* the bucket
    last_refill,
    remaining,  \* what each sender still needs, 0 when it does not wait
    wake,       \* when its sleep ends
    ticks,      \* the clock
    taken       \* ghost: tokens taken out so far

throttleVars == <<tokens, last_refill, remaining, wake, ticks, taken>>

Least(a, b) == IF a <= b THEN a ELSE b

\* new: the bucket starts full.
ThrottleInit ==
    /\ tokens = limit /\ last_refill = 0
    /\ remaining = [s \in Sender |-> 0] /\ wake = [s \in Sender |-> 0]
    /\ ticks = 0 /\ taken = 0

tokens_for_elapsed(elapsed) == (elapsed * limit) \div second
missing_wait(missing) == LET wait == (missing * second) \div limit
                         IN  IF wait = 0 THEN 1 ELSE wait

acquire(s) ==
    /\ remaining[s] = 0
    /\ \E bytes \in ChunkSizes : remaining' = [remaining EXCEPT ![s] = bytes]
    /\ wake' = [wake EXCEPT ![s] = ticks]
    /\ UNCHANGED <<tokens, last_refill, ticks, taken>>

\* The body of the loop, under the lock of last_refill: the bucket is
\* refilled when a whole token was earned, and the sender takes all that it
\* needs or all that there is.
TakeTokens(s) ==
    /\ remaining[s] > 0 /\ wake[s] <= ticks
    /\ LET add == tokens_for_elapsed(ticks - last_refill)
           available == Least(tokens + add, limit)
           take == Least(available, remaining[s])
       IN  /\ last_refill' = IF add > 0 THEN ticks ELSE last_refill
           /\ tokens' = available - take
           /\ remaining' = [remaining EXCEPT ![s] = @ - take]
           /\ wake' = [wake EXCEPT ![s] = IF take = remaining[s] THEN ticks
                                          ELSE ticks + missing_wait(remaining[s] - take)]
           /\ taken' = taken + take
    /\ UNCHANGED ticks

PassTime ==
    /\ ticks < MaxTime
    /\ ticks' = ticks + 1
    /\ UNCHANGED <<tokens, last_refill, remaining, wake, taken>>

ThrottleNext == (\E s \in Sender : acquire(s) \/ TakeTokens(s)) \/ PassTime

ThrottleSpec == ThrottleInit /\ [][ThrottleNext]_throttleVars

-----------------------------------------------------------------------------
ThrottleTypeOK ==
    /\ {tokens, last_refill, ticks, taken} \subseteq Nat
    /\ remaining \in [Sender -> Nat] /\ wake \in [Sender -> Nat]

\* Whatever the senders do, no more than one burst of limit tokens and limit
\* tokens per second have been taken.
RateIsKept == second * taken <= limit * (second + ticks)
=============================================================================
