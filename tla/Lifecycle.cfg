SPECIFICATION Spec
CONSTANTS
    payee = payee
    payer = payer
    other = other
    contract = contract
    bad = bad
    decl = decl
    toErc20 = toErc20
    toEth = toEth
    bitcoin = bitcoin
    meta = meta
    salt1 = salt1
    salt2 = salt2
    content = content
    alien = alien
    None = None
    EthereumAddresses = {payee, payer, other}
    SmartContracts = {contract}
    MalformedIdentities = {bad}
    DeclarativeIds = {decl, toErc20, toEth, bitcoin, meta}
    AddressBasedIds = {toErc20, toEth, bitcoin}
    FeeBasedIds = {toErc20, toEth}
    ToNativeIds = {toEth}
    MetaIds = {meta}
    SubNetworkIds = {decl, toErc20, toEth}
    WrongCurrencyIds = {bitcoin}
    Salts = {salt1, salt2}
    ContentDataIds = {content}
    UnknownIds = {alien}
    HasAdvancedLogic = TRUE
    Actions <- AllActions
    MaxEvents = 4
CHECK_DEADLOCK FALSE
INVARIANTS
    StateExplainedByEvents
    EventsAuthorised
    CancelIsFinal
    AmountExplainedByEvents
    DeclaredExplainedByEvents
PROPERTIES
    ExtensionsNeverReset
