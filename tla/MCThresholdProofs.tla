-------------------------- MODULE MCThresholdProofs --------------------------
(***************************************************************************)
(* The properties of the policy, for every chart and every range of        *)
(* growths, from what ThresholdProofs shows of a single decision.          *)
(***************************************************************************)
EXTENDS MCThreshold, ThresholdProofs

GrowthsTyped == jup \in Int /\ kamino \in Int

(***************************************************************************)
(* The policy assigns the whole of the funds, and more than half of it to  *)
(* the market that grew faster, whatever thresholds and splits are written *)
(* into the chart and whatever the growths.                                *)
(***************************************************************************)
THEOREM PolicyFavoursTheBetter == MCSpec => []BetterMarketGetsMore
<1>1. MCInit => GrowthsTyped
    BY GrowthsAssumption DEF MCInit, GrowthsTyped
<1>2. GrowthsTyped /\ [Climb]_<<jup, kamino>> => GrowthsTyped'
    BY DEF Climb, GrowthsTyped
<1>3. GrowthsTyped => BetterMarketGetsMore
    BY DecisionFavoursTheBetter DEF GrowthsTyped, BetterMarketGetsMore, Decision
<1> QED BY <1>1, <1>2, <1>3, PTL DEF MCSpec

(***************************************************************************)
(* Among the decisions to move the funds, Jup's share never falls as its   *)
(* growth rises, for every chart whose shares rise with its thresholds.    *)
(***************************************************************************)
THEOREM PolicyFollowsGrowth ==
    ASSUME ChartRises
    PROVE  MCSpec => []ShareFollowsGrowth
<1>1. MCInit => GrowthsTyped
    BY GrowthsAssumption DEF MCInit, GrowthsTyped
<1>2. GrowthsTyped /\ [Climb]_<<jup, kamino>> => GrowthsTyped'
    BY DEF Climb, GrowthsTyped
<1>3. GrowthsTyped => ShareFollowsGrowth
    <2> SUFFICES ASSUME GrowthsTyped, NEW lower \in -MaxGrowth .. jup,
                        getThresholdAmount(lower, kamino).needsRebalance,
                        Decision.needsRebalance
                 PROVE  getThresholdAmount(lower, kamino).JUP <= Decision.JUP
        BY DEF ShareFollowsGrowth
    <2>1. lower \in Int /\ jup \in Int /\ kamino \in Int /\ lower <= jup
        BY GrowthsAssumption DEF GrowthsTyped
    <2> QED BY <2>1, DecidedShareRises DEF Decision
<1> QED BY <1>1, <1>2, <1>3, PTL DEF MCSpec
=============================================================================
