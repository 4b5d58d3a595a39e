CONSTANTS
    Symbol = {a, b}
    Quantity = {1, 2}
    Price = {}
    LimitValue = {}
    DailyLoss = {}
    MaxLimit = 2
    MaxMessages = 1
    WordSize = 1024
    MaxClock = 1
    MaxSteps = 1
    MaxSignals = 3
    MaxToggles = 0
    MaxFaults = 1
    MaxBoots = 2
    Handler = {}
    DefaultPosition = 2
    DefaultSize = 2
    DefaultLoss = 5
    Defaults <- MCDefaults
SPECIFICATION Spec
CHECK_DEADLOCK FALSE
INVARIANTS
    TypeOK
    ExposureCapped
    RedisShowsExposure
    RateCapped
SYMMETRY Interchangeable
