SPECIFICATION Spec
CONSTANTS
    Ranges = {2, 4}
    max_retry_attempts = 2
    None = None
    MaxTx = 2
    MaxLost = 1
    MaxCrashes = 1
    MaxFailures = 1
INVARIANTS LinkedTxIsMined OutboxIsTrue OneEventPerRange
PROPERTIES EveryCheckpointSettles
CHECK_DEADLOCK FALSE
