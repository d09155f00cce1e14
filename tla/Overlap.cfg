\* Two workers on one vault, among deposits, interest and one interruption.
SPECIFICATION OverlapSpec
CONSTANTS
    Workers = {w1, w2}
    Admins = {a1}
    Operator = a1
    Users = {u1}
    NoVault = NoVault
    Amounts = {10000}
    SyncArgs <- NoSync
    ReserveReadings <- NoReadings
    Chart <- RealChart
    AccScaler = 1
    BotScaler = 10000
    BotScaleDown = 10
    JupDust = 50
    TokenUnit = 100
    MinMarketAmount = 0
    Prices = {10300, 10900}
    MaxPrice = 10900
    InitialWallet = 20000
    MaxRuns = 2
    MaxInterrupts = 1
    U64Max = 40000
SYMMETRY WorkerSymmetry
INVARIANTS
    AllocationsMakeAWhole
PROPERTIES
    OverlapErrsLow
\* The system stops when the invocations, the wallet and the prices are used up.
CHECK_DEADLOCK FALSE
