SPECIFICATION NodeSpec
CONSTANTS
  MaxIndex = 2
  MaxTerm = 2
  MaxRecords = 5
  MaxBatch = 2
  MaxSnapshots = 1
  Payloads = {"normal"}
  log_cache_size = 1
  fsync_interval = 2
  TornTails = TRUE
  IoErrors = TRUE
  Sizes = {1, 3}
  Indices = {1, 2}
  message_buffer_limit = 4
  raft_log_cache_limit = 3
  connection_pool_limit = 2
  total_budget = 10
  emergency_threshold = 75
  Workloads <- MCWorkloads
  Budgets = {0, 5}
  MaxMemoryOps = 4
  NetNodes = {1, 2}
  NetLinks <- MCNetLinks
  FaultSchedules <- MCFaultSchedules
  inbox_capacity = 1
  NetTicks = {1}
  MaxGenerations <- MCGenerations
  MaxPackets = 2
  MaxNow = 1
  MaxNetCalls = 2
  Votes = 2
  Schedules <- MCSchedules
  FailureSets <- MCFailureSets
  RunSchedules <- MCRunSchedules
  RunVotes = 4
INVARIANTS
  Consistent
  
  
  VoteIsKept
  IdleIsDurable
  MemoryIsSound
  HarnessIsSound
CHECK_DEADLOCK FALSE
