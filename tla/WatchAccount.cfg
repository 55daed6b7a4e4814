SPECIFICATION WatchSpec
CONSTANTS
    MaxEvents = 4
    MaxReconnects = 2
    MaxIterators = 1
    MaxSequence = 4
INVARIANTS
    WaitsInStep
    ReturnIsReconciled
CHECK_DEADLOCK FALSE
