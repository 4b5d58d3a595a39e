CONSTANTS
    Symbol = {a}
    Quantity = {1}
    Price = {}
    LimitValue = {1}
    DailyLoss = {}
    MaxLimit = 3
    MaxMessages = 5
    WordSize = 1024
    MaxClock = 0
    MaxSteps = 0
    MaxSignals = 1
    MaxToggles = 2
    MaxFaults = 1
    MaxBoots = 2
    Handler = {h}
    DefaultPosition = 2
    DefaultSize = 2
    DefaultLoss = 5
    Defaults <- MCDefaults
SPECIFICATION Spec
CHECK_DEADLOCK FALSE
INVARIANT KillSwitchHonored
PROPERTIES
    StableDuringCheck
    KillSwitchFollows
    LimitsFollow
    SignalsDecided
