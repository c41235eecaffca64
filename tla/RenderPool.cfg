CONSTANTS
    build = build
    page = page
    other = other
    Callers = {build, page, other}
    Threads = 2
    Queue = 2
    Blocking = {build}
SPECIFICATION Spec
INVARIANTS TypeOK DepthIsWork WakerInTime
PROPERTIES FutureSpec
CHECK_DEADLOCK FALSE
