CONSTANTS
    o1 = o1
    o2 = o2
    o3 = o3
    s1 = s1
    Order = {o1, o2, o3}
    Symbol = {s1}
    Quantity = {1}
    Price = {10, 11}
    Cost = {1}
    MaxFaults = 1
    MaxCrashes = 1
SPECIFICATION Spec
CHECK_DEADLOCK FALSE
SYMMETRY Interchangeable
INVARIANTS
    TypeOK
    UnacknowledgedNeverTrades
    PositionIsFills
    AvgBetweenPaid
PROPERTIES
    FillsAtTouch
