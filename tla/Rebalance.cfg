\* The rebalancer among deposits and interest; at most one invocation is cut short.
SPECIFICATION FairSpec
CONSTANTS
    Workers = {w1}
    Admins = {a1}
    Operator = a1
    Users = {u1}
    NoVault = NoVault
    Amounts = {20000}
    SyncArgs <- NoSync
    ReserveReadings <- NoReadings
    Chart <- RealChart
    AccScaler = 100
    BotScaler = 10000
    BotScaleDown = 10
    JupDust = 50
    TokenUnit = 100
    MinMarketAmount = 0
    Prices = {10333, 10957}
    MaxPrice = 10957
    InitialWallet = 40000
    MaxRuns = 3
    MaxInterrupts = 1
    U64Max = 1048575
INVARIANTS
    FavoursAGrowingMarket
    LittleLeftIdle
    BooksPutRight
    WithdrawableAfterRebalance
PROPERTY FundsGetDeployed
\* The system stops when the invocations, the wallet and the prices are used up.
CHECK_DEADLOCK FALSE
