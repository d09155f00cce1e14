\* What the recorded values tell, after failures and withdrawals.
SPECIFICATION RebSpec
CONSTANTS
    Workers = {w1}
    Admins = {a1}
    Operator = a1
    Users = {u1}
    NoVault = NoVault
    Amounts = {4000}
    SyncArgs <- NoSync
    ReserveReadings <- FairReading
    Chart <- RealChart
    AccScaler = 100
    BotScaler = 10000
    BotScaleDown = 10
    JupDust = 50
    TokenUnit = 100
    MinMarketAmount = 1
    Prices = {10900}
    MaxPrice = 10900
    InitialWallet = 8000
    MaxRuns = 3
    MaxInterrupts = 1
    U64Max = 1048575
INVARIANT MeasuresInterest
\* The system stops when the invocations, the wallet and the prices are used up.
CHECK_DEADLOCK FALSE
