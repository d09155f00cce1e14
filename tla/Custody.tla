------------------------------ MODULE Custody ------------------------------
(***************************************************************************)
(* What the yield aggregator promises about custody, and nothing of how:   *)
(* users hold USDC in their purses, and what each vault is worth changes   *)
(* in four ways only.  A user pays in, and the vault is worth exactly that *)
(* much more.  A user is paid, and the vault is worth that much less.      *)
(* Interest makes vaults worth more.  And funds are shifted inside a       *)
(* vault, which may round a little away but never makes it worth more.     *)
(* A payment and a shift concern one vault: no step moves worth between    *)
(* two vaults, and none between two users.                                 *)
(***************************************************************************)
EXTENDS Integers

CONSTANTS
    Owners,     \* who pays in and is paid
    Vaults,
    Loss        \* most that one step rounds away from a vault

VARIABLES purse, worth

CustodyInit ==
    /\ purse \in [Owners -> Nat]
    /\ worth = [v \in Vaults |-> 0]

\* Nobody's purse but u's changes; no vault's worth but v's does.
OnlyPurse(u) == \A o \in Owners \ {u} : purse'[o] = purse[o]
OnlyWorth(v) == \A w \in Vaults \ {v} : worth'[w] = worth[w]

PayIn(u, v) ==
    /\ OnlyPurse(u) /\ OnlyWorth(v)
    /\ purse'[u] <= purse[u]
    /\ worth'[v] - worth[v] = purse[u] - purse'[u]

PayOut(u, v) ==
    /\ OnlyPurse(u) /\ OnlyWorth(v)
    /\ purse'[u] >= purse[u]
    /\ LET lost == (worth[v] - worth'[v]) - (purse'[u] - purse[u])
       IN  0 <= lost /\ lost <= Loss

Shift(v) ==
    /\ purse' = purse
    /\ OnlyWorth(v)
    /\ worth'[v] <= worth[v]
    /\ worth[v] <= worth'[v] + Loss

Interest ==
    /\ purse' = purse
    /\ \A v \in Vaults : worth'[v] >= worth[v]

CustodyNext ==
    \/ \E u \in Owners, v \in Vaults : PayIn(u, v) \/ PayOut(u, v)
    \/ \E v \in Vaults : Shift(v)
    \/ Interest

CustodySpec == CustodyInit /\ [][CustodyNext]_<<purse, worth>>
=============================================================================
