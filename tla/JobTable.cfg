CONSTANTS
    k1 = k1
    k2 = k2
    Ids = {1, 2}
    Keys = {k1, k2}
    Handled = {k1}
    Priority <- MCPriority
    Delays = {0, 1}
    Workers = {w1, w2}
    NoWorker = NoWorker
    NoKey = NoKey
    Lease = 1
    Ladder <- MCLadder
    MaxAttempts = 2
    MaxLate = 1
    MaxVersion = 3
SPECIFICATION TableSpec
CONSTRAINT FirstWrites
INVARIANTS RowOK LeaseMatchesState OneLivePerKey
PROPERTY RunnableUntilVersionMoves
