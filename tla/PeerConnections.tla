--------------------------- MODULE PeerConnections ---------------------------
(***************************************************************************)
(* The connection table of one QuicBackend (chirps-transport-quic): the    *)
(* task that serves a connection, the senders, the idle eviction loop and  *)
(* the health check share three maps, each behind a lock of its own.       *)
(*                                                                         *)
(* quinn is external: a connection may close at any time, and closing it   *)
(* makes accept_uni fail.  Time is abstract: an entry of last_activity may *)
(* have expired at every tick, a probe may fail whenever it is sent.       *)
(***************************************************************************)
EXTENDS FiniteSets, Naturals

CONSTANTS
    Peers, Conns,
    None,               \* no connection
    remote_id,          \* remote_id[c]: the peer at the other end of c
    max_connections

ASSUME PeerAssumption ==
    /\ None \notin Conns
    /\ remote_id \in [Conns -> Peers]
    /\ max_connections \in Nat \ {0}

VARIABLES
    quic,               \* quic[c]: what quinn says of connection c
    handler,            \* handler[c]: handle_connection's progress for c
    connections,        \* connections[p]: the connection retained for p
    last_activity,      \* peers with an entry in last_activity
    peer_capabilities,  \* peers with an entry in peer_capabilities
    doomed,             \* connections a task has cloned to remove if current
    removal,            \* removal[c]: what is left of the removal of c
    stopped             \* close() was called

tables == <<connections, last_activity, peer_capabilities>>
vars == <<quic, handler, tables, doomed, removal, stopped>>

Registered == {"registered", "touched", "serving"}

Init ==
    /\ quic = [c \in Conns |-> "unused"]
    /\ handler = [c \in Conns |-> "none"]
    /\ connections = [p \in Peers |-> None]
    /\ last_activity = {} /\ peer_capabilities = {}
    /\ doomed = {}
    /\ removal = [c \in Conns |-> "none"]
    /\ stopped = FALSE

----------------------------------------------------------------------------
\* handle_connection.

\* The accept loop or the seed reconnector has a connection.
Connect(c) ==
    /\ quic[c] = "unused" /\ ~stopped
    /\ quic' = [quic EXCEPT ![c] = "open"]
    /\ handler' = [handler EXCEPT ![c] = "handshake"]
    /\ UNCHANGED <<tables, doomed, removal, stopped>>

\* A timeout, a version mismatch or a missing capability: the handler's
\* handle, the last one, is dropped.
HandshakeFails(c) ==
    /\ handler[c] = "handshake"
    /\ quic' = [quic EXCEPT ![c] = "closed"]
    /\ handler' = [handler EXCEPT ![c] = "exited"]
    /\ UNCHANGED <<tables, doomed, removal, stopped>>

\* Mutant of connection_limit_reached: > for >=.
connection_limit_reached_Greater(p) ==
    /\ connections[p] = None
    /\ Cardinality({q \in Peers : connections[q] # None}) > max_connections

connection_limit_reached(p) ==
    /\ connections[p] = None
    /\ Cardinality({q \in Peers : connections[q] # None}) >= max_connections

\* Mutant of Register: the connection that is replaced stays open.
Register_KeepsPrevious(c) ==
    LET p == remote_id[c]
    IN  /\ handler[c] = "handshake"
        /\ IF connection_limit_reached(p)
           THEN /\ quic' = [quic EXCEPT ![c] = "closed"]
                /\ handler' = [handler EXCEPT ![c] = "exited"]
                /\ UNCHANGED connections
           ELSE /\ connections' = [connections EXCEPT ![p] = c]
                /\ handler' = [handler EXCEPT ![c] = "registered"]
                /\ UNCHANGED quic
        /\ UNCHANGED <<last_activity, peer_capabilities, doomed, removal, stopped>>

\* The handshake is done: under the lock of the table the connection is
\* refused, or retained in place of an older one, which is closed.
Register(c) ==
    LET p == remote_id[c]
        previous == connections[p]
    IN  /\ handler[c] = "handshake"
        /\ IF connection_limit_reached(p)
           THEN /\ quic' = [quic EXCEPT ![c] = "closed"]
                /\ handler' = [handler EXCEPT ![c] = "exited"]
                /\ UNCHANGED connections
           ELSE /\ quic' = [d \in Conns |-> IF d = previous THEN "closed" ELSE quic[d]]
                /\ connections' = [connections EXCEPT ![p] = c]
                /\ handler' = [handler EXCEPT ![c] = "registered"]
        /\ UNCHANGED <<last_activity, peer_capabilities, doomed, removal, stopped>>

InsertActivity(c) ==
    /\ handler[c] = "registered"
    /\ handler' = [handler EXCEPT ![c] = "touched"]
    /\ last_activity' = last_activity \cup {remote_id[c]}
    /\ UNCHANGED <<quic, connections, peer_capabilities, doomed, removal, stopped>>

InsertCapabilities(c) ==
    /\ handler[c] = "touched"
    /\ handler' = [handler EXCEPT ![c] = "serving"]
    /\ peer_capabilities' = peer_capabilities \cup {remote_id[c]}
    /\ UNCHANGED <<quic, connections, last_activity, doomed, removal, stopped>>

\* accept_uni returned a stream.
AcceptStream(c) ==
    /\ handler[c] = "serving" /\ quic[c] = "open"
    /\ last_activity' = last_activity \cup {remote_id[c]}
    /\ UNCHANGED <<quic, handler, connections, peer_capabilities, doomed, removal, stopped>>

----------------------------------------------------------------------------
\* remove_connection_if_current.

\* Its first lock: a newer connection of the same peer stays.
RemoveIfCurrent(c) ==
    LET p == remote_id[c]
    IN  IF connections[p] = c
        THEN /\ connections' = [connections EXCEPT ![p] = None]
             /\ removal' = [removal EXCEPT ![c] = "activity"]
        ELSE UNCHANGED <<connections, removal>>

RemoveActivity(c) ==
    /\ removal[c] = "activity"
    /\ removal' = [removal EXCEPT ![c] = "capabilities"]
    /\ last_activity' = last_activity \ {remote_id[c]}
    /\ UNCHANGED <<quic, handler, connections, peer_capabilities, doomed, stopped>>

RemoveCapabilities(c) ==
    /\ removal[c] = "capabilities"
    /\ removal' = [removal EXCEPT ![c] = "close"]
    /\ peer_capabilities' = peer_capabilities \ {remote_id[c]}
    /\ UNCHANGED <<quic, handler, connections, last_activity, doomed, stopped>>

\* The eviction loop and the health check close what they removed; for the
\* other callers it is closed already.
CloseRemoved(c) ==
    /\ removal[c] = "close"
    /\ removal' = [removal EXCEPT ![c] = "none"]
    /\ quic' = [quic EXCEPT ![c] = "closed"]
    /\ UNCHANGED <<handler, tables, doomed, stopped>>

\* Mutant of HandlerExits: the table is left alone.
HandlerExits_KeepsEntry(c) ==
    /\ handler[c] = "serving" /\ (quic[c] = "closed" \/ stopped)
    /\ handler' = [handler EXCEPT ![c] = "exited"]
    /\ UNCHANGED <<quic, tables, removal, doomed, stopped>>

\* accept_uni or accept_bi fails, or the shutdown broadcast arrives.
HandlerExits(c) ==
    /\ handler[c] = "serving" /\ (quic[c] = "closed" \/ stopped)
    /\ handler' = [handler EXCEPT ![c] = "exited"]
    /\ RemoveIfCurrent(c)
    /\ UNCHANGED <<quic, last_activity, peer_capabilities, doomed, stopped>>

\* A task that cloned the connection some time ago removes it if it is still
\* the one retained.
RemoveDoomed(c) ==
    /\ c \in doomed
    /\ doomed' = doomed \ {c}
    /\ RemoveIfCurrent(c)
    /\ UNCHANGED <<quic, handler, last_activity, peer_capabilities, stopped>>

----------------------------------------------------------------------------
\* spawn_idle_eviction_loop: the connection of a peer listed as expired is
\* looked up again, and need not be the one that was idle.  (The list is not
\* kept: a health check may doom a retained connection at any time as well.)
EvictIdle(p) ==
    /\ p \in last_activity /\ connections[p] # None
    /\ doomed' = doomed \cup {connections[p]}
    /\ UNCHANGED <<quic, handler, tables, removal, stopped>>

\* health_check_peer: the probe of the retained connection failed.
HealthCheckFails(p) ==
    /\ connections[p] # None
    /\ doomed' = doomed \cup {connections[p]}
    /\ UNCHANGED <<quic, handler, tables, removal, stopped>>

\* send_to_peer finds the retained connection closed.
SendFindsClosed(p) ==
    /\ connections[p] # None /\ quic[connections[p]] = "closed"
    /\ doomed' = doomed \cup {connections[p]}
    /\ UNCHANGED <<quic, handler, tables, removal, stopped>>

\* send_to_peer or open_file_transfer_stream, which cloned a connection of the
\* peer some time ago, marks the peer as active.
MarkActive(p) ==
    /\ \E c \in Conns : remote_id[c] = p /\ handler[c] \in Registered \cup {"exited"}
    /\ last_activity' = last_activity \cup {p}
    /\ UNCHANGED <<quic, handler, connections, peer_capabilities, doomed, removal, stopped>>

\* The peer closes the connection, or quinn gives it up.
ConnectionLost(c) ==
    /\ quic[c] = "open"
    /\ quic' = [quic EXCEPT ![c] = "closed"]
    /\ UNCHANGED <<handler, tables, doomed, removal, stopped>>

\* QuicBackend::close.
Close ==
    /\ ~stopped
    /\ stopped' = TRUE
    /\ quic' = [c \in Conns |-> IF quic[c] = "open" THEN "closed" ELSE quic[c]]
    /\ UNCHANGED <<handler, tables, doomed, removal>>

----------------------------------------------------------------------------
HandlerStep(c) ==
    \/ Connect(c) \/ HandshakeFails(c) \/ Register(c) \/ InsertActivity(c)
    \/ InsertCapabilities(c) \/ AcceptStream(c) \/ HandlerExits(c)

RemovalStep(c) ==
    \/ RemoveDoomed(c) \/ RemoveActivity(c) \/ RemoveCapabilities(c) \/ CloseRemoved(c)

Next ==
    \/ \E c \in Conns : HandlerStep(c) \/ RemovalStep(c) \/ ConnectionLost(c)
    \/ \E p \in Peers : EvictIdle(p) \/ HealthCheckFails(p) \/ SendFindsClosed(p) \/ MarkActive(p)
    \/ Close

Spec == Init /\ [][Next]_vars

----------------------------------------------------------------------------
\* Every variable has its type.
TypeOK ==
    /\ quic \in [Conns -> {"unused", "open", "closed"}]
    /\ handler \in [Conns -> Registered \cup {"none", "handshake", "exited"}]
    /\ connections \in [Peers -> Conns \cup {None}]
    /\ last_activity \subseteq Peers /\ peer_capabilities \subseteq Peers
    /\ doomed \subseteq Conns
    /\ removal \in [Conns -> {"none", "activity", "capabilities", "close"}]
    /\ stopped \in BOOLEAN

\* An open connection that a handler serves is the one retained for its peer,
\* unless its removal is under way: no handler that ends late, eviction or
\* health check takes a newer connection out of the table or leaves an open
\* one behind that nobody can send on or evict.
OpenIsRetained ==
    \A c \in Conns :
        (quic[c] = "open" /\ handler[c] \in Registered /\ removal[c] = "none")
            => connections[remote_id[c]] = c

\* handle_connection never retains more than max_connections peers.
WithinLimit == Cardinality({p \in Peers : connections[p] # None}) <= max_connections

\* What the table retains has a handler at work, which takes it out once it is
\* closed: no handler ends and leaves its connection behind.
RetainedIsServed ==
    \A p \in Peers : connections[p] # None =>
        /\ remote_id[connections[p]] = p
        /\ handler[connections[p]] \in Registered

\* backend.rs:85 "Broadcasts a message to all connected peers": once a retained
\* connection is served and nothing is being registered or removed, send_to_peer
\* finds the peer's capabilities.
ConnectedIsSendable ==
    (\A c \in Conns : removal[c] = "none" /\ handler[c] \notin {"registered", "touched"})
        => \A p \in Peers : connections[p] # None => p \in peer_capabilities
=============================================================================
