-------------------------- MODULE ControlDispatcher --------------------------
(***************************************************************************)
(* ControlDispatcher of chirps-file-transfer (ops/mod.rs): one task files  *)
(* incoming frames in an inbox, and the calls of recv_filtered and         *)
(* recv_any_filtered take the first message that matches their predicate.  *)
(* Notify::notify_waiters wakes the waiters registered at that moment and  *)
(* keeps nothing for a later one.                                          *)
(***************************************************************************)
EXTENDS Naturals, Sequences

CONSTANTS
    Waiter,         \* tasks that call recv_filtered
    Kind,           \* kinds of messages
    Matches,        \* [Waiter -> SUBSET Kind]: the predicates
    MaxArrivals     \* bound: messages that arrive

ASSUME DispatcherAssumption == Matches \in [Waiter -> SUBSET Kind] /\ MaxArrivals \in Nat

VARIABLES
    inbox,      \* the queue of the session, messages numbered by arrival
    waiter,     \* where the call of each task is
    notified,   \* the tasks whose Notified future is registered and not woken
    arrived,
    closed      \* the control channel is closed

dispatcherVars == <<inbox, waiter, notified, arrived, closed>>

DispatcherInit ==
    /\ inbox = <<>>
    /\ waiter = [w \in Waiter |-> "idle"]
    /\ notified = {}
    /\ arrived = 0
    /\ closed = FALSE

\* The receiving task: push the frame and notify, under the inbox lock.
Arrive ==
    /\ ~closed /\ arrived < MaxArrivals
    /\ \E k \in Kind : inbox' = Append(inbox, [kind |-> k, number |-> arrived])
    /\ arrived' = arrived + 1
    /\ notified' = {}
    /\ UNCHANGED <<waiter, closed>>

Close ==
    /\ ~closed
    /\ closed' = TRUE
    /\ notified' = {}
    /\ UNCHANGED <<inbox, waiter, arrived>>

\* recv_filtered: register, then look into the inbox. A call that is woken
\* starts over.
Register(w) ==
    /\ waiter[w] = "idle" \/ (waiter[w] = "sleeping" /\ w \notin notified)
    /\ waiter' = [waiter EXCEPT ![w] = "checking"]
    /\ notified' = notified \cup {w}
    /\ UNCHANGED <<inbox, arrived, closed>>

Found(w) == {i \in DOMAIN inbox : inbox[i].kind \in Matches[w]}
First(S) == CHOOSE i \in S : \A j \in S : i <= j
Without(s, i) == SubSeq(s, 1, i - 1) \o SubSeq(s, i + 1, Len(s))

\* pop_matching and pop_matching_any.
Pop(w) ==
    /\ waiter[w] = "checking"
    /\ \/ /\ Found(w) # {}
          /\ inbox' = Without(inbox, First(Found(w)))
          /\ waiter' = [waiter EXCEPT ![w] = "idle"]
          /\ notified' = notified \ {w}
       \/ /\ Found(w) = {}
          /\ waiter' = [waiter EXCEPT ![w] = "checked"]
          /\ UNCHANGED <<inbox, notified>>
    /\ UNCHANGED <<arrived, closed>>

\* Mutant: the future is created when the call goes to sleep.
Sleep_Registers(w) ==
    /\ waiter[w] = "checked" /\ ~closed
    /\ waiter' = [waiter EXCEPT ![w] = "sleeping"]
    /\ notified' = notified \cup {w}
    /\ UNCHANGED <<inbox, arrived, closed>>

\* Nothing was found: give up if the channel is closed, or wait.
Sleep(w) ==
    /\ waiter[w] = "checked"
    /\ \/ /\ closed
          /\ waiter' = [waiter EXCEPT ![w] = "closed"]
          /\ notified' = notified \ {w}
       \/ /\ ~closed
          /\ waiter' = [waiter EXCEPT ![w] = "sleeping"]
          /\ UNCHANGED notified
    /\ UNCHANGED <<inbox, arrived, closed>>

WaitExpires(w) ==
    /\ waiter[w] = "sleeping"
    /\ waiter' = [waiter EXCEPT ![w] = "idle"]
    /\ notified' = notified \ {w}
    /\ UNCHANGED <<inbox, arrived, closed>>

DispatcherNext ==
    \/ Arrive \/ Close
    \/ \E w \in Waiter : Register(w) \/ Pop(w) \/ Sleep(w) \/ WaitExpires(w)

DispatcherTypeOK ==
    /\ inbox \in Seq([kind : Kind, number : 0..MaxArrivals])
    /\ waiter \in [Waiter -> {"idle", "checking", "checked", "sleeping", "closed"}]
    /\ notified \subseteq Waiter

\* A call sleeps only while nothing it could take is in the inbox, or it is
\* about to be woken: no answer waits for the timeout of its reader.
NoWakeupIsLost ==
    \A w \in Waiter : waiter[w] = "sleeping" /\ (Found(w) # {} \/ closed) => w \notin notified
=============================================================================
