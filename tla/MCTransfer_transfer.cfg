SPECIFICATION Spec
CONSTANTS
    chunk_count = 2
    max_retries = 1
    concurrency = 2
    overwrite = TRUE
    move = TRUE
    None = None
    MaxVersion = 2
    MaxStarts = 2
    MaxFaults = 2
    Waiter = {"cancel loop", "control plane", "task"}
    Kind = {"Cancel", "Request", "Ack"}
    Matches <- MCMatches
    MaxArrivals = 3
    SyncNode = {a, b}
    Target = {t1, t2}
    Directions = {"Pull", "Bidirectional"}
    Resolutions = {"NewerWins", "SourceWins"}
    tolerance = 1
    max_concurrent_transfers = 1
    NoCopy = NoCopy
    Modified = {0, 1, 3}
    MaxCalls = 2
    RemoteCall = {1, 2}
    MaxChanges = 1
    Sender = {1, 2}
    limit = 3
    second = 4
    ChunkSizes = {1, 5}
    MaxTime = 5
INVARIANTS TransferIsSound NoWakeupIsLost  ServiceIsSound
PROPERTIES ImplementsMove CallsReturn
CHECK_DEADLOCK FALSE
