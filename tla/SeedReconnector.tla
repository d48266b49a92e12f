--------------------------- MODULE SeedReconnector ---------------------------
(***************************************************************************)
(* The seed reconnector of QuicBackend: a loop that launches at most one   *)
(* task per seed, and the tasks, which connect, run the connection's       *)
(* handler to its end, and try again after a backoff until shutdown.       *)
(*                                                                         *)
(* External: the seed node, which is reachable or not, and the connections *)
(* it makes to this node.                                                  *)
(***************************************************************************)
EXTENDS Integers

CONSTANTS
  Seeds,
  MaxChanges    \* bound: how often the seeds' state changes

VARIABLES
  seedTask,     \* seedTask[s]: [pc, subscribed, backoff] of reconnect_seed
  inflight,     \* seeds with a task
  up,           \* seeds that accept connections
  entry,        \* entry[s]: "none", "ours" or "theirs": the registered
                \* connection to the seed's address, by who made it
  shutdown,     \* the shutdown broadcast was sent
  changes

seedVars == <<seedTask, inflight, up, entry, shutdown, changes>>

MinBackoff == 200
MaxBackoff == 5000
NoSeedTask == [pc |-> "none", subscribed |-> FALSE, backoff |-> MinBackoff]

SeedInit ==
  /\ seedTask = [s \in Seeds |-> NoSeedTask]
  /\ inflight = {} /\ up = {} /\ entry = [s \in Seeds |-> "none"]
  /\ shutdown = FALSE /\ changes = 0

is_connected(s) == entry[s] # "none"

(* launch_attempts for one seed, on a tick or a trigger; the loop that      *)
(* calls it ends at shutdown.                                               *)
Launch(s) ==
  /\ ~shutdown /\ ~is_connected(s) /\ s \notin inflight
  /\ inflight' = inflight \union {s}
  /\ seedTask' = [seedTask EXCEPT ![s] = [NoSeedTask EXCEPT !.pc = "spawned"]]
  /\ UNCHANGED <<up, entry, shutdown, changes>>

(* The task subscribes when it first runs: a shutdown that was broadcast    *)
(* before that is never seen.                                               *)
Subscribe(s) ==
  /\ seedTask[s].pc = "spawned"
  /\ seedTask' = [seedTask EXCEPT ![s].pc = "check", ![s].subscribed = ~shutdown]
  /\ UNCHANGED <<inflight, up, entry, shutdown, changes>>

SeedEnds(s) ==
  /\ seedTask' = [seedTask EXCEPT ![s] = NoSeedTask]
  /\ inflight' = inflight \ {s}

(* The head of the loop: shutdown, a connected seed, or an attempt. *)
CheckSeed(s) ==
  /\ seedTask[s].pc = "check"
  /\ IF shutdown /\ seedTask[s].subscribed
     THEN SeedEnds(s)
     ELSE /\ seedTask' = IF is_connected(s)
                         THEN [seedTask EXCEPT ![s].pc = "sleep", ![s].backoff = MinBackoff]
                         ELSE [seedTask EXCEPT ![s].pc = "connecting"]
          /\ UNCHANGED inflight
  /\ UNCHANGED <<up, entry, shutdown, changes>>

Doubled(backoff) == IF backoff * 2 < MaxBackoff THEN backoff * 2 ELSE MaxBackoff

(* The attempt succeeds and handle_connection registers it. *)
SeedConnects(s) ==
  /\ seedTask[s].pc = "connecting" /\ s \in up /\ ~shutdown
  /\ seedTask' = [seedTask EXCEPT ![s].pc = "handling"]
  /\ entry' = [entry EXCEPT ![s] = "ours"]
  /\ UNCHANGED <<inflight, up, shutdown, changes>>

(* The attempt fails: nobody answers, or the endpoint is closed. *)
SeedRefuses(s) ==
  /\ seedTask[s].pc = "connecting" /\ (s \notin up \/ shutdown)
  /\ seedTask' = [seedTask EXCEPT ![s].pc = "sleep", ![s].backoff = Doubled(@)]
  /\ UNCHANGED <<inflight, up, entry, shutdown, changes>>

(* The handler returns: the connection was lost, replaced by one the seed   *)
(* made, or shut down.                                                      *)
SeedHandlerEnds(s) ==
  /\ seedTask[s].pc = "handling"
  /\ s \notin up \/ shutdown \/ entry[s] # "ours"
  /\ seedTask' = [seedTask EXCEPT ![s].pc = "sleep", ![s].backoff = Doubled(MinBackoff)]
  /\ entry' = IF entry[s] = "ours" THEN [entry EXCEPT ![s] = "none"] ELSE entry
  /\ UNCHANGED <<inflight, up, shutdown, changes>>

SeedWakes(s) ==
  /\ seedTask[s].pc = "sleep"
  /\ seedTask' = [seedTask EXCEPT ![s].pc = "check"]
  /\ UNCHANGED <<inflight, up, entry, shutdown, changes>>

----------------------------------------------------------------------------
SeedChanges(s) ==
  /\ changes < MaxChanges /\ changes' = changes + 1
  /\ up' = IF s \in up THEN up \ {s} ELSE up \union {s}
  /\ entry' = IF s \in up /\ entry[s] = "theirs" THEN [entry EXCEPT ![s] = "none"] ELSE entry
  /\ UNCHANGED <<seedTask, inflight, shutdown>>

SeedCalls(s) ==
  /\ s \in up /\ ~shutdown /\ changes < MaxChanges /\ changes' = changes + 1
  /\ entry' = [entry EXCEPT ![s] = "theirs"]
  /\ UNCHANGED <<seedTask, inflight, up, shutdown>>

ShutDown ==
  /\ ~shutdown
  /\ shutdown' = TRUE
  /\ entry' = [s \in Seeds |-> IF entry[s] = "theirs" THEN "none" ELSE entry[s]]
  /\ UNCHANGED <<seedTask, inflight, up, changes>>

SeedTasks ==
  \E s \in Seeds : \/ Launch(s) \/ Subscribe(s) \/ CheckSeed(s) \/ SeedConnects(s)
                   \/ SeedRefuses(s) \/ SeedHandlerEnds(s) \/ SeedWakes(s)

SeedNext ==
  \/ SeedTasks
  \/ ShutDown
  \/ \E s \in Seeds : SeedChanges(s) \/ SeedCalls(s)

----------------------------------------------------------------------------
(* The seeds in flight are those with a task: none is tried by two tasks,   *)
(* and none is forgotten while its task is over.                            *)
OneTaskPerSeed == inflight = {s \in Seeds : seedTask[s].pc # "none"}

(* A task that subscribed in time goes on after shutdown. *)
SeedLingers == shutdown /\ \E s \in Seeds : seedTask[s].subscribed

(* A seed that stays reachable is connected at last. *)
SeedIsReconnected ==
  \A s \in Seeds : <>[](s \in up /\ ~shutdown) => <>[](is_connected(s))
=============================================================================
