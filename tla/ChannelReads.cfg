SPECIFICATION HistorySpec
CONSTANTS
    payee = payee
    payer = payer
    contract = contract
    bad = bad
    decl = decl
    content = content
    alien = alien
    None = None
    Unparsable = Unparsable
    EthereumAddresses = {payee, payer}
    SmartContracts = {contract}
    MalformedIdentities = {bad}
    DeclarativeIds = {decl}
    AddressBasedIds = {}
    FeeBasedIds = {}
    ToNativeIds = {}
    MetaIds = {}
    SubNetworkIds = {decl}
    WrongCurrencyIds = {}
    Salts = {}
    ContentDataIds = {content}
    UnknownIds = {alien}
    HasAdvancedLogic = TRUE
    Actions <- IncreaseThenReduce
    MaxLog = 3
    MaxMempool = 2
    MaxTime = 1
    Skews = {0, 1}
CHECK_DEADLOCK FALSE
INVARIANTS TypeOK AppliedOnce ConfirmedIgnoresPending PendingIsForecast DiffRestoresPending
PROPERTY ImplementsLifecycle
