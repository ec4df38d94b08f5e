\* Two flush() callers and the drain task over a buffer that fills up; the sink
\* may fail any number of times and never takes a batch with d4 in it.
CONSTANTS
    Records = {d1, d2, d3, d4}
    Poison = {d4}
    Flushers = {flusher, aclose}
    Closer = aclose
    Runner = run
    Capacity = 2
    BatchMax = 2
    BackPressure = "drop"
SPECIFICATION FairEmitterSpec
INVARIANTS RecordsAccounted WrittenInOrder
PROPERTIES FlushLeavesNothing RecordsArrive
CHECK_DEADLOCK FALSE
