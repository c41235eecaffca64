CONSTANTS
    build = build
    orphan = orphan
    timer = timer
    Ids = {1, 2, 3}
    Keys = {build, orphan, timer}
    Handled = {build, timer}
    Timers = {timer}
    Priority <- MCPriority
    Delays = {0}
    Workers = {w1}
    NoWorker = NoWorker
    NoKey = NoKey
    Lease = 3
    Ladder <- MCLadder
    MaxAttempts = 2
    MaxLate = 0
    Disturbances = {"crash", "db", "drain"}
    MaxDisturbances = 1
SPECIFICATION FairSpec

PROPERTY HandledJobsSettle
