CONSTANTS
    Subscriptions = {1, 2}
    Events = {e1}
    Replicas = {r1, r2}
    MaxAttempts = 2
    RETRIES <- MCLadder
    PauseAt = 2
    MaxCrashes = 1
SPECIFICATION Spec
INVARIANTS TypeOK AttemptsCounted TriesBounded QueuedOrReported
PROPERTIES DeliveriesSettle
CHECK_DEADLOCK FALSE
