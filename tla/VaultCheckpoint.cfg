\* The rewards of a deposit that follows yield.
SPECIFICATION Spec
CONSTANTS
    Admins = {a1}
    Users = {u1}
    NoVault = NoVault
    Amounts = {3}
    SyncArgs <- NoSync
    ReserveReadings <- MCReserveReadings
    AccScaler = 8
    TokenUnit = 2
    MinMarketAmount = 1
    Prices = {5}
    MaxPrice = 5
    InitialWallet = 9
    U64Max = 15
PROPERTY DepositSettlesRewards
\* Wallets empty and prices stop at their bound: the instance may stop.
CHECK_DEADLOCK FALSE
