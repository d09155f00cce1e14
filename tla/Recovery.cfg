\* Two workers among deposits, withdrawals, interest and one interruption.
SPECIFICATION MCRecoverySpec
CONSTANTS
    Workers = {w1, w2}
    Admins = {a1}
    Operator = a1
    Users = {u1}
    NoVault = NoVault
    Amounts = {4000}
    SyncArgs <- NoSync
    ReserveReadings <- FairReading
    Chart <- RealChart
    AccScaler = 1
    BotScaler = 10000
    BotScaleDown = 10
    JupDust = 50
    TokenUnit = 100
    MinMarketAmount = 0
    Prices = {10900}
    MaxPrice = 10900
    InitialWallet = 4000
    MaxRuns = 2
    MaxInterrupts = 1
    U64Max = 40000
SYMMETRY WorkerSymmetry
INVARIANT MeasurableUnlessSpoiled
\* The system stops when the invocations, the wallet and the prices are used up.
CHECK_DEADLOCK FALSE
