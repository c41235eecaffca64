CONSTANTS
    build = build
    orphan = orphan
    timer = timer
    Ids = {1, 2}
    Keys = {build, timer}
    Handled = {build, timer}
    Timers = {timer}
    Priority <- MCPriority
    Delays = {0}
    Workers = {w1, w2}
    NoWorker = NoWorker
    NoKey = NoKey
    Lease = 3
    Ladder <- MCLadder
    MaxAttempts = 2
    MaxLate = 0
    Disturbances = {"crash", "stall", "db", "cancel", "retry", "drain"}
    MaxDisturbances = 2
SPECIFICATION Spec
SYMMETRY Replicas
INVARIANTS TypeOK ClaimsAreExclusive
PROPERTIES TableSpec NeverStolen FinishedStays
