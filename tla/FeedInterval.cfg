CONSTANTS
    Price = {10, 11}
    Quantity = {1}
    Scale = 100
    Fixed <- MCFixed
    Sent = 1
    Top = 1
    Depth = 2
    BookInterval = 1
    CandleInterval = 2
    HighWater = 2
    Epoch = 2
    MaxMessages = 3
    MaxChanges = 2
    MaxClock = 2
    MaxSteps = 1
    MinInterval = 1
    Nanos = 2
    Period = 2
    History = 3
    DepthLevels = 2
    PlainSpread = {1}
    TrendSpread = {1, 2}
    Bps = 90
    Cent = 21
    MaxStarts = 2
SPECIFICATION FeedSpec
CHECK_DEADLOCK FALSE
PROPERTIES
    QuotesEveryInterval
