\* The books a worker writes, against what the vault holds.
SPECIFICATION OverlapSpec
CONSTANTS
    Workers = {w1}
    Admins = {a1}
    Operator = a1
    Users = {u1}
    NoVault = NoVault
    Amounts = {10000}
    SyncArgs <- NoSync
    ReserveReadings <- NoReadings
    Chart <- RealChart
    AccScaler = 100
    BotScaler = 10000
    BotScaleDown = 10
    JupDust = 50
    TokenUnit = 100
    MinMarketAmount = 1
    Prices = {10300, 10900}
    MaxPrice = 10900
    InitialWallet = 20000
    MaxRuns = 3
    MaxInterrupts = 0
    U64Max = 1048575
PROPERTY BooksAreHoldings
\* The system stops when the invocations, the wallet and the prices are used up.
CHECK_DEADLOCK FALSE
