----------------------------- MODULE MCThreshold -----------------------------
(***************************************************************************)
(* getThresholdAmount over a range of inputs: Kamino's growth is fixed,    *)
(* Jup's climbs from a heavy loss to a large gain through every threshold  *)
(* on both sides, one hundredth of a percent at a time.                    *)
(***************************************************************************)
EXTENDS Threshold

CONSTANTS KaminoGrowths, MaxGrowth

ASSUME GrowthsAssumption == KaminoGrowths \subseteq Int /\ MaxGrowth \in Nat

RealChart == [t \in {200, 400, 600} |->
                CASE t = 200 -> <<6000, 4000>>
                  [] t = 400 -> <<7000, 3000>>
                  [] t = 600 -> <<8000, 2000>>]

MCKaminoGrowths == {-250, 0, 133}

VARIABLES jup, kamino

Decision == getThresholdAmount(jup, kamino)

MCInit == jup = -MaxGrowth /\ kamino \in KaminoGrowths

Climb == jup < MaxGrowth /\ jup' = jup + 1 /\ UNCHANGED kamino

MCSpec == MCInit /\ [][Climb]_<<jup, kamino>>

(***************************************************************************)
(* The whole of the funds is assigned, and more than half of it to the     *)
(* market that grew faster, whether the growths are gains or losses        *)
(* (helper-fns.ts:169-174).                                                *)
(***************************************************************************)
BetterMarketGetsMore ==
    Decision.needsRebalance =>
        /\ Decision.JUP + Decision.KAMINO = Whole
        /\ Decision.JUP > Decision.KAMINO <=> jup > kamino

(***************************************************************************)
(* The better Jup does, the more of the funds a decision to move them      *)
(* gives it: among all such decisions, through every threshold on either   *)
(* side, a higher growth never comes with a smaller share                  *)
(* (helper-fns.ts:150-165).  Where the policy decides not to move, the     *)
(* split recorded before stays (invokeRebalance.ts:325-326), whatever it   *)
(* is, so nothing is said of those growths.                                *)
(***************************************************************************)
ShareFollowsGrowth ==
    \A lower \in -MaxGrowth .. jup :
        LET before == getThresholdAmount(lower, kamino)
        IN  before.needsRebalance /\ Decision.needsRebalance
                => before.JUP <= Decision.JUP
=============================================================================
