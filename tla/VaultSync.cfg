\* One user and an admin who writes the books: truncation and overflow reached.
SPECIFICATION Spec
CONSTANTS
    Admins = {a1}
    Users = {u1}
    NoVault = NoVault
    Amounts = {1, 3}
    SyncArgs <- MCSyncArgs
    ReserveReadings <- MCReserveReadings
    AccScaler = 2
    TokenUnit = 2
    MinMarketAmount = 0
    Prices = {5}
    MaxPrice = 5
    InitialWallet = 3
    U64Max = 7
INVARIANTS
    TypeOK
PROPERTIES
    NoDilution
    RewardsNeverLost
\* Wallets empty and prices stop at their bound: the instance may stop.
CHECK_DEADLOCK FALSE
