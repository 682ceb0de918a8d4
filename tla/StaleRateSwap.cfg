SPECIFICATION Spec
CONSTANTS
    alice = alice
    bob = bob
    carol = carol
    dave = dave
    A = A
    B = B
    ETH = ETH
    EUR = EUR
    Dollar = Dollar
    r1 = r1
    r2 = r2
    r3 = r3
    r4 = r4
    r5 = r5
    None = None
    Users = {alice, bob, carol, dave}
    Tokens = {A, B}
    Native = ETH
    USD = Dollar
    Payer = alice
    Payee = bob
    Buyer = dave
    Ten = 10
    Precision = 100
    Fiat = {EUR, Dollar}
    ChainlinkDecimals = 2
    Decimals <- MCDecimals
    CurrencyDecimals <- MCCurrencyDecimals
    request <- MCRequest
    PathFromToken <- MCPathFromToken
    InitialBalance <- MCInitialBalance
    InitialMarket <- MCInitialMarket
    Markets <- MCMarkets
    Configs <- MCConfigs
    Batches <- MCBatches
    Budgets = {1250, 1700}
    SwapPaths <- MCSwapPaths
    SwapCosts = {900}
    RateAges = {0, 1, 2}
    Extras = {0, 100}
    Refunds = {50}
    Declarations = {40}
    References <- MCReferences
    Amounts = {0, 100}
    MaxTransactions = 2
    MaxReceivableTransactions = 4
    MaxChanges = 1
CHECK_DEADLOCK FALSE
PROPERTY RequestSpanKept
