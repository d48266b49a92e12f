CONSTANTS
    p1 = p1
    p2 = p2
    c1 = c1
    c2 = c2
    c3 = c3
    Peers <- MCPeers
    Conns <- MCConns
    remote_id <- MCRemote
    None = None
    max_connections = 1
CHECK_DEADLOCK FALSE
SPECIFICATION Spec
INVARIANT ConnectedIsSendable
