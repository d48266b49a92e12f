SPECIFICATION Spec
CONSTANTS
  MaxIndex = 2
  MaxTerm = 2
  MaxRecords = 4
  MaxBatch = 1
  MaxSnapshots = 1
  Payloads = {"normal"}
  log_cache_size = 2
  fsync_interval = 2
  TornTails = TRUE
  IoErrors = TRUE
INVARIANTS
  RecoveryRestores
CHECK_DEADLOCK FALSE
