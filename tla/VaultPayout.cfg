\* What a withdrawal pays against the shares behind it.
SPECIFICATION Spec
CONSTANTS
    Admins = {a1}
    Users = {u1, u2}
    NoVault = NoVault
    Amounts = {3}
    SyncArgs <- NoSync
    ReserveReadings <- MCReserveReadings
    AccScaler = 8
    TokenUnit = 2
    MinMarketAmount = 1
    Prices = {5}
    MaxPrice = 5
    InitialWallet = 6
    U64Max = 15
PROPERTY WithdrawalTakesShareOnly
\* Wallets empty and prices stop at their bound: the instance may stop.
CHECK_DEADLOCK FALSE
