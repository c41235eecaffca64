CONSTANTS
    main = main
    docs = docs
    site = site
    wiki = wiki
    Ids = {1, 2, 3, 4}
    Keys = {main, docs, site, wiki}
    Handled = {main, docs, site, wiki}
    Priority <- AllAlike
    Project <- OneProject
    Delays = {0}
    Workers = {w1}
    NoWorker = NoWorker
    NoKey = NoKey
    Lease = 1
    Ladder <- MCLadder
    MaxAttempts = 2
    MaxLate = 1
    Submitters = {s1, s2}
    Cap = 1
    Limit = 1
    MaxPushes = 4
    MaxFailures = 1
SPECIFICATION Spec
SYMMETRY Alike
INVARIANTS QueueSafe
PROPERTIES AnsweredIsQueued
CHECK_DEADLOCK FALSE
