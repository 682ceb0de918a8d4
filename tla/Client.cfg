CONSTANTS
    Ops = {creation, update}
    Creation = creation
    MaxRetries = 1
    None = None
SPECIFICATION FairSpec
INVARIANTS
    ConfirmedIsIndexed
    ReturnedDataIsARequest
PROPERTIES
    FailedForGood
    ReportedOnce
    Reported
    WaiterInTimeSettles
CHECK_DEADLOCK FALSE
