SPECIFICATION Spec
CONSTANTS
    creation = creation
    update = update
    request = request
    None = None
    Calls = {creation, update}
    Readers = {r1}
    Channel <- ChannelOf
    WithTopic = {creation}
    MaxRetries = 1
CHECK_DEADLOCK FALSE
PROPERTY OnlyIndexedRemoved
