--------------------------- MODULE ThresholdProofs ---------------------------
(***************************************************************************)
(* The rebalancing policy, for every chart that ChartAssumption admits     *)
(* and every pair of growths.                                              *)
(***************************************************************************)
EXTENDS Threshold, WellFoundedInduction, TLAPS

\* Naturals below a bound have a greatest among them.
LEMMA GreatestExists ==
    ASSUME NEW bound \in Nat, NEW T \in SUBSET (0 .. bound), T # {}
    PROVE  \E t \in T : \A s \in T : t >= s
<1> DEFINE D == { bound - t : t \in T }
<1>1. D \subseteq Nat /\ D # {}
    <2>1. \A t \in T : bound - t \in Nat
        OBVIOUS
    <2>2. \E d : d \in D
        OBVIOUS
    <2> QED BY <2>1, <2>2
<1>2. PICK d \in D : \A e \in D : <<e, d>> \notin OpToRel(<, Nat)
    BY <1>1, NatLessThanWellFounded, WFMin
<1>3. \A e \in D : ~ (e < d)
    BY <1>1, <1>2 DEF OpToRel
<1>4. PICK t \in T : d = bound - t
    OBVIOUS
<1>5. ASSUME NEW s \in T
      PROVE  t >= s
    <2>1. ~ (bound - s < bound - t)
        BY <1>3, <1>4
    <2> QED BY <1>4, <2>1
<1> QED BY <1>5

\* The gap between two growths.
LEMMA GapIsNat ==
    ASSUME NEW x \in Int, NEW y \in Int
    PROVE  Gap(x, y) \in Nat /\ (Gap(x, y) = 0 <=> x = y)
BY DEF Gap

\* The threshold that the loop stops at is the greatest the gap reaches.
LEMMA SelectedIsGreatest ==
    ASSUME NEW gap \in Nat, Reached(gap) # {}
    PROVE  /\ Selected(gap) \in Reached(gap)
           /\ \A s \in Reached(gap) : Selected(gap) >= s
<1>1. Reached(gap) \in SUBSET (0 .. gap)
    BY ChartAssumption DEF Reached
<1>2. \E t \in Reached(gap) : \A s \in Reached(gap) : t >= s
    BY <1>1, GreatestExists
<1> QED BY <1>2 DEF Selected

\* What a decision to rebalance assigns.
LEMMA DecisionFavoursTheBetter ==
    ASSUME NEW x \in Int, NEW y \in Int, getThresholdAmount(x, y).needsRebalance
    PROVE  LET decision == getThresholdAmount(x, y)
           IN  /\ decision.JUP \in Nat /\ decision.KAMINO \in Nat
               /\ decision.JUP + decision.KAMINO = Whole
               /\ decision.JUP > decision.KAMINO <=> x > y
<1> DEFINE gap == Gap(x, y)
           split == Chart[Selected(gap)]
           better == IF x > y THEN 1 ELSE 2
<1>1. Reached(gap) # {}
    BY DEF getThresholdAmount
<1>2. gap \in Nat
    BY GapIsNat
<1>3. Selected(gap) \in DOMAIN Chart
    BY <1>1, <1>2, SelectedIsGreatest DEF Reached
<1>4. /\ split[1] \in Nat /\ split[2] \in Nat
      /\ split[1] + split[2] = Whole /\ split[1] > split[2]
    BY <1>3, ChartAssumption
<1>5. /\ getThresholdAmount(x, y).JUP = split[better]
      /\ getThresholdAmount(x, y).KAMINO = split[3 - better]
    BY <1>1 DEF getThresholdAmount
<1> HIDE DEF split
<1>6. CASE x > y
    BY <1>4, <1>5, <1>6
<1>7. CASE ~ (x > y)
    BY <1>4, <1>5, <1>7
<1> QED BY <1>6, <1>7

-----------------------------------------------------------------------------
(* Monotonicity.                                                           *)

\* Higher thresholds give the better market no smaller share.
ChartRises ==
    \A s, t \in DOMAIN Chart : s <= t => Chart[s][1] <= Chart[t][1]

\* Of two gaps that both reach a threshold, the wider one gives its leader
\* no smaller share.
LEMMA LeadRises ==
    ASSUME ChartRises, NEW g \in Nat, NEW h \in Nat, g <= h, Reached(g) # {}
    PROVE  /\ Reached(h) # {}
           /\ Chart[Selected(g)][1] <= Chart[Selected(h)][1]
<1>1. Reached(g) \subseteq Reached(h)
    BY ChartAssumption DEF Reached
<1>2. Reached(h) # {}
    BY <1>1
<1>3. Selected(g) \in DOMAIN Chart /\ Selected(h) \in DOMAIN Chart
    BY <1>2, SelectedIsGreatest DEF Reached
<1>4. Selected(g) <= Selected(h)
    BY <1>1, <1>2, SelectedIsGreatest
<1> QED BY <1>2, <1>3, <1>4 DEF ChartRises

\* A decision gives Jup the leader's share or what the leader leaves.
LEMMA DecisionByGap ==
    ASSUME NEW x \in Int, NEW y \in Int, getThresholdAmount(x, y).needsRebalance
    PROVE  LET split == Chart[Selected(Gap(x, y))]
           IN  /\ Reached(Gap(x, y)) # {}
               /\ split[1] \in Nat /\ split[2] \in Nat
               /\ split[1] + split[2] = Whole
               /\ x > y => getThresholdAmount(x, y).JUP = split[1]
               /\ ~ (x > y) => getThresholdAmount(x, y).JUP = split[2]
<1>1. Reached(Gap(x, y)) # {}
    BY DEF getThresholdAmount
<1>2. Selected(Gap(x, y)) \in DOMAIN Chart
    BY <1>1, GapIsNat, SelectedIsGreatest DEF Reached
<1>3. /\ x > y => getThresholdAmount(x, y).JUP = Chart[Selected(Gap(x, y))][1]
      /\ ~ (x > y) => getThresholdAmount(x, y).JUP = Chart[Selected(Gap(x, y))][2]
    BY <1>1 DEF getThresholdAmount
<1> QED BY <1>1, <1>2, <1>3, ChartAssumption

\* Between two decisions to move the funds, Jup's share rises with its growth.
LEMMA DecidedShareRises ==
    ASSUME ChartRises, NEW x \in Int, NEW z \in Int, NEW y \in Int, x <= z,
           getThresholdAmount(x, y).needsRebalance,
           getThresholdAmount(z, y).needsRebalance
    PROVE  getThresholdAmount(x, y).JUP <= getThresholdAmount(z, y).JUP
<1>1. CASE x > y
    <2>1. z > y /\ Gap(x, y) \in Nat /\ Gap(z, y) \in Nat /\ Gap(x, y) <= Gap(z, y)
        BY <1>1 DEF Gap
    <2>2. Reached(Gap(x, y)) # {}
        BY DecisionByGap
    <2>3. Chart[Selected(Gap(x, y))][1] <= Chart[Selected(Gap(z, y))][1]
        BY <2>1, <2>2, LeadRises
    <2> QED BY <1>1, <2>1, <2>3, DecisionByGap
<1>2. CASE ~ (x > y) /\ z > y
    <2>1. /\ getThresholdAmount(x, y).JUP \in Nat
          /\ getThresholdAmount(x, y).KAMINO \in Nat
          /\ getThresholdAmount(x, y).JUP + getThresholdAmount(x, y).KAMINO = Whole
          /\ ~ (getThresholdAmount(x, y).JUP > getThresholdAmount(x, y).KAMINO)
        BY <1>2, DecisionFavoursTheBetter
    <2>2. /\ getThresholdAmount(z, y).JUP \in Nat
          /\ getThresholdAmount(z, y).KAMINO \in Nat
          /\ getThresholdAmount(z, y).JUP + getThresholdAmount(z, y).KAMINO = Whole
          /\ getThresholdAmount(z, y).JUP > getThresholdAmount(z, y).KAMINO
        BY <1>2, DecisionFavoursTheBetter
    <2> QED BY <2>1, <2>2
<1>3. CASE ~ (z > y)
    <2>1. /\ ~ (x > y)
          /\ Gap(x, y) \in Nat /\ Gap(z, y) \in Nat /\ Gap(z, y) <= Gap(x, y)
        BY <1>3 DEF Gap
    <2>2. Reached(Gap(z, y)) # {}
        BY DecisionByGap
    <2>3. Chart[Selected(Gap(z, y))][1] <= Chart[Selected(Gap(x, y))][1]
        BY <2>1, <2>2, LeadRises
    <2> DEFINE near == Chart[Selected(Gap(z, y))]
               far  == Chart[Selected(Gap(x, y))]
    <2>4. /\ near[1] \in Nat /\ near[2] \in Nat /\ near[1] + near[2] = Whole
          /\ getThresholdAmount(z, y).JUP = near[2]
        BY <1>3, DecisionByGap
    <2>5. /\ far[1] \in Nat /\ far[2] \in Nat /\ far[1] + far[2] = Whole
          /\ getThresholdAmount(x, y).JUP = far[2]
        BY <2>1, DecisionByGap
    <2>6. near[1] <= far[1]
        BY <2>3
    <2> HIDE DEF near, far
    <2> QED BY <2>4, <2>5, <2>6 DEF Whole
<1> QED BY <1>1, <1>2, <1>3
=============================================================================
