------------------------------ MODULE Threshold ------------------------------
(***************************************************************************)
(* The rebalancing policy: getThresholdAmount of helper-fns.ts compares    *)
(* the growth of the two markets since the last snapshot (in hundredths of *)
(* a percent, negative when a market lost value) and picks a split from    *)
(* allocationDistributionChart.  The chart invites editing ("Feel free to  *)
(* change the values and add more distributions"), so it is a constant.    *)
(***************************************************************************)
EXTENDS Integers

CONSTANT Chart     \* threshold -> <<share of the better market, of the other>>

Whole == 10000     \* 100 %

ASSUME ChartAssumption ==
    /\ DOMAIN Chart \subseteq Nat \ {0}
    /\ DOMAIN Chart # {}
    /\ \A t \in DOMAIN Chart :
          /\ Chart[t] \in Nat \X Nat
          /\ Chart[t][1] + Chart[t][2] = Whole
          /\ Chart[t][1] > Chart[t][2]

Gap(jup, kamino) == IF jup >= kamino THEN jup - kamino ELSE kamino - jup

\* The thresholds the gap reaches.
Reached(gap) == { t \in DOMAIN Chart : gap >= t }

\* The loop over the thresholds in descending order stops at the first hit.
Selected(gap) == CHOOSE t \in Reached(gap) : \A s \in Reached(gap) : t >= s

\* Faulty variant: the absolute growths are compared.
GetThresholdUnsigned(jup, kamino) ==
    LET split  == Chart[Selected(Gap(jup, kamino))]
        better == IF jup * jup > kamino * kamino THEN 1 ELSE 2
    IN  IF Reached(Gap(jup, kamino)) = {}
        THEN [needsRebalance |-> FALSE]
        ELSE [needsRebalance |-> TRUE,
              JUP |-> split[better], KAMINO |-> split[3 - better]]

getThresholdAmount(jup, kamino) ==
    LET split  == Chart[Selected(Gap(jup, kamino))]
        better == IF jup > kamino THEN 1 ELSE 2
    IN  IF Reached(Gap(jup, kamino)) = {}
        THEN [needsRebalance |-> FALSE]
        ELSE [needsRebalance |-> TRUE,
              JUP |-> split[better], KAMINO |-> split[3 - better]]
=============================================================================
