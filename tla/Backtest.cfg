CONSTANTS
    Levels = {3, 4, 5, 6}
    Price <- MCPrice
    Period = 3
    Whole = 8
    Buffers <- MCBuffers
    MaxCandles = 7
SPECIFICATION Spec
CHECK_DEADLOCK FALSE
INVARIANTS
    RiskPositive
    
    FlatAtEnd
    TradesDated
