CONSTANTS
    main = main
    docs = docs
    site = site
    wiki = wiki
    Ids = {1, 2, 3, 4}
    Keys = {main, docs, site, wiki}
    Handled = {main, docs, site, wiki}
    Priority <- MCPriority
    Project <- MCProject
    Delays = {0}
    Workers = {w1, w2}
    NoWorker = NoWorker
    NoKey = NoKey
    Lease = 1
    Ladder <- MCLadder
    MaxAttempts = 2
    MaxLate = 1
    Submitters = {s1}
    Cap = 4
    Limit = 1
    MaxPushes = 4
    MaxFailures = 0
SPECIFICATION Spec
INVARIANTS OrderIsRanked NextIsRanked
CHECK_DEADLOCK FALSE
