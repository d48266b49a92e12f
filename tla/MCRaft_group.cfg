SPECIFICATION RaftSpec
CONSTANTS
  None = None
  Proposals = {p1}
  Background = {b1}
  Managers = {m1}
  Closers = {c1}
  MaxIncarnations = 2
  MaxFailures = 1
  MaxCancels = 2
  proposal_concurrency = 1
  Content <- MCContent
  LeaderVote <- MCVotes
  Index <- MCIndex
  chunk_count = 2
  max_concurrent_chunks = 1
  max_retries = 1
  MaxVote = 2
  MaxRpcTimeouts = 2
  peer = peer
  raft = raft
  user = user
  All = All
  Senders = {raft, user}
  Peers = {peer}
  Shape <- MCShape
  Caps <- MCCaps
  priority_config <- MCPriority
  send_queue_capacity = 2
  MAX_CONCURRENT_SENDS = 2
  SEND_ATTEMPTS = 1
  raft_stream_batch_size = 2
  MaxSends = 3
  MaxLinks = 2
  MaxTimeouts = 1
  Seeds = {s1}
  MaxChanges = 4
  g1 = g1
  g2 = g2
  g3 = g3
  Groups <- MCGroups
  Rank <- MCRank
  MaxRecords = 2
  MaxSyncFailures = 2
INVARIANTS Consistent OneNodeRuns DrainIsExclusive NothingPendsAfterShutdown AnswersTheCall SnapshotIsSound CarryingIsSound LeaderOkMeansDurable
PROPERTIES  SyncReturns
CHECK_DEADLOCK FALSE
