\* A user and two vaults; the books are written by deposit and withdraw alone.
SPECIFICATION SolvencySpec
CONSTANTS
    Admins = {a1, a2}
    Users = {u1}
    NoVault = NoVault
    Amounts = {3, 7}
    SyncArgs <- NoSync
    ReserveReadings <- MCReserveReadings
    AccScaler = 2
    TokenUnit = 2
    MinMarketAmount = 0
    Prices = {5, 6}
    MaxPrice = 6
    InitialWallet = 10
    U64Max = 31
    MaxMoves = 4
INVARIANTS
    Solvent
    ShareBacking
PROPERTY FundsInCustody
\* Wallets empty and prices stop at their bound: the instance may stop.
CHECK_DEADLOCK FALSE
