CONSTANTS
    Ops = {creation, update}
    Creation = creation
    MaxRetries = 1
    None = None
SPECIFICATION Spec
PROPERTIES
    RefreshedDataNotOlder
CHECK_DEADLOCK FALSE
