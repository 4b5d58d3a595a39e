CONSTANTS
    Orders = 4
    Symbols <- MCSymbols
    Detail <- MCDetail
    Final = {"Filled"}
    MaxRecent = 3
    MaxTrades = 3
    MaxKnown = 3
    Eviction = 4
    MaxLost = 1
    MaxOpen = 2
    MaxWaiting = 2
SPECIFICATION Spec
CHECK_DEADLOCK FALSE
INVARIANTS
    TradesAreFills
    ProfitIsFifo
PROPERTIES
    StatusNeverBack
    OutcomeShown
