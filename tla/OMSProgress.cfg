CONSTANTS
    Order = {o1, o2}
    MaxRetries = 1
    AuditKeep = 2
    MaxCopies = 1
    MaxFaults = 1
    MaxCrashes = 0
    MaxExpiries = 0
    Final = {"Filled"}
SPECIFICATION Spec
CHECK_DEADLOCK FALSE
PROPERTIES
    TasksEnd
    DeliveredIsSent
    TerminalClears
