\* The client withdrawal next to one worker, users and interest.
SPECIFICATION MCClientSpec
CONSTANTS
    Workers = {w1}
    Admins = {a1}
    Operator = a1
    Users = {u1}
    NoVault = NoVault
    Amounts = {4000}
    SyncArgs <- NoSync
    ReserveReadings <- FairReading
    Chart <- RealChart
    AccScaler = 1
    BotScaler = 10000
    BotScaleDown = 10
    JupDust = 50
    TokenUnit = 100
    MinMarketAmount = 0
    Prices = {10900}
    MaxPrice = 10900
    InitialWallet = 8000
    MaxRuns = 1
    MaxInterrupts = 0
    U64Max = 40000
    MaxRequests = 2
INVARIANTS
    BooksStayCovered
    PayoutFunded
PROPERTY ClientBooksLikeProgram
\* The system stops when the invocations, the wallet and the prices are used up.
CHECK_DEADLOCK FALSE
