CONSTANTS
    Order = {o1}
    MaxRetries = 1
    AuditKeep = 1
    MaxCopies = 2
    MaxFaults = 2
    MaxCrashes = 1
    MaxExpiries = 1
    Final = {"Filled"}
SPECIFICATION Spec
CHECK_DEADLOCK FALSE
INVARIANTS
    TypeOK
    SentOnce
    KnownIsPersisted
    SettledNotPending
    AuditBounded
PROPERTIES
    KeepsLedger
