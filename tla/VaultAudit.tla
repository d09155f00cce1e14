----------------------------- MODULE VaultAudit -----------------------------
(***************************************************************************)
(* What an auditor asks of VaultProgram: whether the shares add up, and    *)
(* what the field documentation says of positions.                         *)
(***************************************************************************)
EXTENDS VaultProgram, FiniteSets

\* One pair for each unit of each amount: as many as the amounts add up to.
Units(amounts) == UNION { {x} \X (1 .. amounts[x]) : x \in DOMAIN amounts }

SharesHeld == [u \in Users |-> position[u].shares]

SharesIssued == [a \in Admins |-> vault[a].total_shares]

\* The value of a position under the vault's own books, the reading of
\* `shares' that the field's documentation gives.
ShareValue(u, a) ==
    IF vault[a].total_shares = 0 THEN 0
    ELSE (position[u].shares * vault[a].total_underlying) \div vault[a].total_shares

-----------------------------------------------------------------------------
(***************************************************************************)
(* The shares of all positions are the shares all vaults have issued:      *)
(* deposit credits both sides alike through every special case, although a *)
(* user keeps one position however many vaults it deposits into, and       *)
(* nothing that resets a position or a vault loses issued shares.          *)
(***************************************************************************)
ShareBacking == Cardinality(Units(SharesHeld)) = Cardinality(Units(SharesIssued))

(***************************************************************************)
(* user_position.rs:24-27 says reward_debt is shares * acc_per_share as of *)
(* the last deposit, and 30-31 that a second deposit first adds the        *)
(* pending rewards, that is all of them; stated of the step that changes a *)
(* user's shares (deposit.rs:60, 70, 74-76, 92: the checkpoint is made     *)
(* before the new shares, the rewards are cast before they are added).     *)
(***************************************************************************)
DepositSettlesRewards ==
    [][\A u \in Users : position'[u].shares # position[u].shares =>
          LET a == position'[u].vault
          IN  /\ position'[u].reward_debt =
                    position'[u].shares * vault'[a].acc_per_share
              /\ position[u].shares > 0 =>
                    position'[u].pending_rewards =
                       position[u].pending_rewards + Pending(u, a)]_vars

(***************************************************************************)
(* user_position.rs:15-21 says shares determine how much a user gets back: *)
(* no wallet gains more in a step than its user's shares are worth in some *)
(* vault (withdraw.rs:257-333 reads no position).  And vault.rs:21 says    *)
(* acc_per_share is accumulated yield: as long as neither market has paid  *)
(* any interest, a withdrawal adds nothing to it (withdraw.rs:285-301      *)
(* takes the amount withdrawn for yield).                                  *)
(***************************************************************************)
WithdrawalTakesShareOnly ==
    [][\A u \in Users : wallet'[u] > wallet[u] =>
          /\ \E a \in Admins : wallet'[u] - wallet[u] <= ShareValue(u, a)
          /\ (\A m \in Markets : price[m] = PriceScale) =>
                \A a \in Admins : vault'[a].acc_per_share = vault[a].acc_per_share]_vars
=============================================================================
