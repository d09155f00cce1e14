--------------------------- MODULE VaultSolvency ---------------------------
(***************************************************************************)
(* The vault's books against what it holds.  total_underlying is kept by   *)
(* deposit and withdraw alone, the four lending instructions move funds    *)
(* without touching it, and prices move under it.  sync_vault_state, which *)
(* writes whatever its caller says, is left to the Rebalancer: here the    *)
(* books are the program's own.                                            *)
(*                                                                         *)
(* The history variable `moves' counts the market calls made for a vault,  *)
(* since each may round away up to MaxLoss.                                *)
(***************************************************************************)
EXTENDS VaultProgram

CONSTANT MaxMoves     \* bound on moves, so that the instance is finite

ASSUME MaxMovesAssumption == MaxMoves \in Nat

VARIABLE moves

solvencyVars == <<vars, moves>>

SolvencyInit == Init /\ moves = [a \in Admins |-> 0]

Moved(a, n) ==
    /\ moves[a] + n <= MaxMoves
    /\ moves' = [moves EXCEPT ![a] = @ + n]

Lend(a, amount) ==
    /\ JupDeposit(a, amount) \/ KaminoDeposit(a, amount)
       \/ JupWithdraw(a, amount) \/ KaminoWithdraw(a, amount)
    /\ Moved(a, 1)

SolvencyNext ==
    \/ \E a \in Admins :
          \/ InitializeVault(a) /\ UNCHANGED moves
          \/ \E amount \in Amounts : Lend(a, amount)
          \/ \E u \in Users, amount \in Amounts :
                \/ Deposit(u, a, amount) /\ UNCHANGED moves
                \/ Withdraw(u, a, amount) /\ Moved(a, 2)
    \/ MarketNext /\ UNCHANGED moves

SolvencySpec == SolvencyInit /\ [][SolvencyNext]_solvencyVars

(***************************************************************************)
(* The vault can cover what its books claim: total_underlying never        *)
(* exceeds what the vault could redeem by more than the rounding of the    *)
(* market calls made so far, whatever order users, admin and interest come *)
(* in and whatever exchange rates withdraw computes with.                  *)
(***************************************************************************)
Solvent ==
    \A a \in Admins :
        vault[a].total_underlying <= Holdings(a) + MaxLoss * moves[a]
=============================================================================
