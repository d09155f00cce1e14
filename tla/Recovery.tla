------------------------------ MODULE Recovery ------------------------------
(***************************************************************************)
(* Whether the rebalancer stays able to measure.  The growth of a market   *)
(* is a quotient by the value recorded for it, so a market that holds      *)
(* something while zero is recorded makes every invocation throw           *)
(* (invokeRebalance.ts:129, 146), and none of them writes the value that   *)
(* is missing.                                                             *)
(*                                                                         *)
(* The history variable `spoiled' says whether, since an invocation last   *)
(* recorded both values together, something has happened that may have     *)
(* parted a recorded value from the position it stands for.                *)
(***************************************************************************)
EXTENDS Rebalancer

VARIABLE spoiled

recoveryVars == <<rebVars, spoiled>>

RecoveryInit == RebInit /\ spoiled = FALSE

\* First-time allocation and rebalancing record both values.
RecordsBoth ==
    \E w \in Workers : /\ pc[w] \in {"first_sync", "reb_sync"}
                       /\ result'[w] \in {"first", "rebalanced"}

\* w has supplied a market, for the first time or lazily, and not yet said so.
Supplying(w) ==
    pc[w] \in {"first_kamino", "first_sync", "lazy_kamino", "lazy_sync"}

\* An invocation ends there.
EndsUnrecorded ==
    \E w \in Workers : Supplying(w) /\ result'[w] \in {"interrupted", "threw"}

\* A recorded value falls to zero.
ValueErased ==
    \/ vault[Operator].last_jup_value > 0 /\ vault'[Operator].last_jup_value = 0
    \/ vault[Operator].last_kamino_value > 0 /\ vault'[Operator].last_kamino_value = 0

RecoveryNext ==
    /\ RebNext
    /\ spoiled' = (~RecordsBoth /\ (spoiled \/ EndsUnrecorded \/ ValueErased))

RecoverySpec == RecoveryInit /\ [][RecoveryNext]_recoveryVars

(***************************************************************************)
(* An invocation that nobody disturbs can measure the markets, whatever    *)
(* happened before: deposits, withdrawals, interest, other invocations     *)
(* overlapping in any way, redemptions without the deposits that should    *)
(* follow.  Only two things can take that from it: an invocation that      *)
(* supplied a market and did not reach its sync, and books in which a      *)
(* recorded value has been erased while the position has not, as by a      *)
(* withdrawal (withdraw.rs:328).                                           *)
(***************************************************************************)
MeasurableUnlessSpoiled ==
    \A w \in Workers :
        CannotMeasure(w) /\ disturbed[w] = {} =>
            spoiled \/ \E v \in Workers \ {w} : Supplying(v)
=============================================================================
