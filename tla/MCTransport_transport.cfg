SPECIFICATION TransportSpec
CONSTANTS
  p1 = p1
  p2 = p2
  c1 = c1
  c2 = c2
  c3 = c3
  Peers <- MCPeers
  Conns <- MCConns
  remote_id <- MCRemote
  None = None
  max_connections = 1
  frame = frame
  Frames <- MCFrames
  MaxConns = 2
  MaxSeq = 2
  MaxRestarts = 2
  SEND_RETRY_ATTEMPTS = 1
  window_size = 2
  max_messages_per_peer = 2
  Kinds <- MCKinds
  KindPriority <- MCKindPriority
  queue_limits <- MCLimits
  scheduler_config <- MCScheduler
  FrameSizes = {1, 3}
  snapshot_bandwidth_limit = 3
  TicksPerSecond = 2
  throttle_timeout = 3
  MaxEnqueues = 4
  MaxTime = 3
SYMMETRY MCSymmetry
INVARIANTS OpenIsRetained RetainedIsServed WithinLimit AtMostOnce AcknowledgedIsAccepted QosIsSound
CHECK_DEADLOCK FALSE
