CONSTANTS
    Order = {o1}
    MaxRetries = 3
    AuditKeep = 2
    MaxCopies = 1
    MaxFaults = 0
    MaxCrashes = 0
    MaxExpiries = 0
    Final = {"Filled"}
SPECIFICATION Spec
CHECK_DEADLOCK FALSE
PROPERTY TerminalIsFinal
