CONSTANTS
    Streams <- MCStreams
    Retried = {"ticks", "books"}
    Retries = 2
    Window = 1
    Latency = {5, 7}
    MaxChanges = 2
    MaxTimeouts = 1
    MaxTicks = 4
    MaxClock = 3
    MaxSteps = 1
SPECIFICATION Spec
CHECK_DEADLOCK FALSE
INVARIANTS
    RateOfWindow
PROPERTIES
    StartsAnyway
    RetriedConnects
