-------------------------- MODULE RebalancerClaims --------------------------
(***************************************************************************)
(* What the field documentation says of the books the rebalancer writes.   *)
(* Each statement is checked against what the code does.                   *)
(***************************************************************************)
EXTENDS Rebalancer, FiniteSetsExt

\* The step in which w writes the books at the end of a rebalancing, and of
\* a lazy balancing.
Rebalanced(w) == pc[w] = "reb_sync" /\ result'[w] = "rebalanced"

LazilyBalanced(w) == pc[w] = "lazy_sync" /\ result'[w] = "lazy"

(***************************************************************************)
(* vault.rs:25-26: total_underlying is the USDC value of the vault, in the *)
(* markets and idle.  What a rebalancing or a lazy balancing writes is     *)
(* what the vault then holds, up to the rounding of two deposits: not      *)
(* more, though deposit has already counted what is lazily spread          *)
(* (invokeRebalance.ts:349-351), and not less, though a deposit may land   *)
(* between the readings and the sync (lines 204-264, 311-349).             *)
(***************************************************************************)
BooksAreHoldings ==
    [][\A w \in Workers :
          /\ Rebalanced(w) \/ LazilyBalanced(w)
          /\ disturbed[w] \subseteq {"deposit"}
          => LET total == vault'[Operator].total_underlying
                 held  == Holdings(Operator)'
             IN  total <= held + 2 * MaxLoss /\ held <= total + 2 * MaxLoss]_rebVars

(***************************************************************************)
(* vault.rs:21: acc_per_share is accumulated yield, scaled.  It            *)
(* accumulates, so no step lowers it (invokeRebalance.ts:72 writes zero in *)
(* the first-time branch); and what one rebalancing adds for all shares is *)
(* no more than the vault has earned since it was opened, which is what it *)
(* holds beyond what users have paid in (invokeRebalance.ts:265-287).      *)
(***************************************************************************)
Earned ==
    Holdings(Operator)
      - MapThenSumSet(LAMBDA u : InitialWallet - wallet[u], Users)

AccIsYield ==
    [][LET acc == vault[Operator].acc_per_share
           new == vault'[Operator].acc_per_share
       IN  /\ new >= acc
           /\ \A w \in Workers : Rebalanced(w) =>
                 (new - acc) * vault[Operator].total_shares * BotScaleDown
                   <= Max({Earned, 0}) * BotScaler]_rebVars

(***************************************************************************)
(* vault.rs:37-38, 42-43: the last recorded values serve to measure gain   *)
(* and loss since they were recorded.  So an invocation that nobody        *)
(* disturbs can measure them (invokeRebalance.ts:129, 146 divide by them), *)
(* and what it measures is the markets' interest: funds are all moved only *)
(* for an increase in the platforms (lines 90-91), not in a vault neither  *)
(* of whose markets has paid any since the vault entered it.               *)
(***************************************************************************)
MeasuresInterest ==
    \A w \in Workers :
        /\ disturbed[w] = {} => ~CannotMeasure(w)
        /\ pc[w] = "reb_read_jup" => \E m \in Markets : price[m] > basePrice[m]
=============================================================================
