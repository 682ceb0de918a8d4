SPECIFICATION HistorySpec
CONSTANTS
    alice = alice
    bob = bob
    carol = carol
    update = update
    key1 = key1
    None = None
    Unparsable = Unparsable
    Opening = Opening
    Users = {alice, bob, carol}
    Groups <- Circles
    Strangers = {stranger}
    Providers = {alice, bob}
    Updates = {update}
    Keys = {key1, key2}
    Strays <- OtherTransactions
    MaxLog = 3
    MaxWriting = 1
    MaxSubmitted = 2
CHECK_DEADLOCK FALSE
INVARIANTS TypeOK PartiesCanWrite PartiesRead OnlyNamedRead
PROPERTY ImplementsChannel
