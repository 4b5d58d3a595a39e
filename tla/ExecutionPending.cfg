CONSTANTS
    Order = {o1}
    Symbol = {s1}
    Quantity = {1}
    Price = {10, 11}
    Cost = {1}
    MaxFaults = 0
    MaxCrashes = 0
SPECIFICATION Spec
CHECK_DEADLOCK FALSE
PROPERTIES
    PendingIsExecuted
