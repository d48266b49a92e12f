\* Two resumed attempts, and a source that is edited between them.
SPECIFICATION TransferSpec
CONSTANTS
    chunk_count = 2
    max_retries = 0
    concurrency = 1
    overwrite = TRUE
    move = TRUE
    None = None
    MaxVersion = 2
    MaxStarts = 3
    MaxFaults = 3
INVARIANT InstalledIsValidated
CHECK_DEADLOCK FALSE
