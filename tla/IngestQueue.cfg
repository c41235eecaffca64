CONSTANTS
    Events = {1, 2, 3, 4, 5}
    Class <- MCClass
    Capacity = 2
    Batch = 1
    Pressure = 2
    RawSink = "auto"
    MaxFailures = 1
SPECIFICATION Spec
INVARIANTS TypeOK DropsAreCounted RawIsKept NothingLeftBehind
PROPERTIES SinkSpec BufferSettles
CHECK_DEADLOCK FALSE
