---------------------------- MODULE CustodyProofs ----------------------------
(***************************************************************************)
(* The on-chain program implements Custody, for every number of users and  *)
(* vaults and every price a market token may reach: whatever the           *)
(* instructions are asked for, no step moves value between two users or    *)
(* two vaults, and what a market call loses is bounded by MaxLoss.         *)
(***************************************************************************)
EXTENDS VaultProgramProofs

-----------------------------------------------------------------------------
(* Quotients.                                                              *)

\* A quotient multiplied back misses less than the divisor.
LEMMA DivisionMissesLess ==
    ASSUME NEW x \in Nat, NEW y \in Nat \ {0}
    PROVE  x < (x \div y + 1) * y
OBVIOUS

\* What fits into x by multiples of y is no larger than the quotient.
LEMMA QuotientIsLargest ==
    ASSUME NEW x \in Nat, NEW y \in Nat \ {0}, NEW k \in Nat, k * y <= x
    PROVE  k <= x \div y
OBVIOUS

\* What exceeds x by multiples of y is larger than the quotient.
LEMMA QuotientIsBelow ==
    ASSUME NEW x \in Nat, NEW y \in Nat \ {0}, NEW k \in Nat, x < (k + 1) * y
    PROVE  x \div y <= k
OBVIOUS

\* Dividing keeps the order.
LEMMA QuotientKeepsOrder ==
    ASSUME NEW x \in Nat, NEW y \in Nat, NEW d \in Nat \ {0}, x <= y
    PROVE  x \div d <= y \div d
<1>1. x \div d \in Nat /\ (x \div d) * d <= x
    BY DivisionRoundsDown
<1> QED BY <1>1, QuotientIsLargest

\* Dividing two amounts apart loses at most one against dividing their sum.
LEMMA QuotientOfSum ==
    ASSUME NEW x \in Nat, NEW y \in Nat, NEW d \in Nat \ {0}
    PROVE  /\ x \div d + y \div d <= (x + y) \div d
           /\ (x + y) \div d <= x \div d + y \div d + 1
OBVIOUS

\* Factors come out of sums.
LEMMA Distributes ==
    ASSUME NEW x \in Nat, NEW y \in Nat, NEW z \in Nat
    PROVE  (x + y) * z = x * z + y * z
OBVIOUS

\* What a multiple of d is smaller than, its factor is smaller than.
LEMMA FactorsCompare ==
    ASSUME NEW x \in Nat, NEW y \in Nat, NEW d \in Nat \ {0}, x * d < y * d
    PROVE  x < y
OBVIOUS

-----------------------------------------------------------------------------
(* What tokens are worth.                                                  *)

PricesBounded == \A m \in Markets : price[m] <= MaxPrice

\* Redeeming tokens in two parts brings at most one unit less.
LEMMA RedeemedInParts ==
    ASSUME TypeOK, NEW m \in Markets, NEW x \in Nat, NEW y \in Nat
    PROVE  /\ RedeemedFor(m, x) + RedeemedFor(m, y) <= RedeemedFor(m, x + y)
           /\ RedeemedFor(m, x + y) <= RedeemedFor(m, x) + RedeemedFor(m, y) + 1
<1>1. price[m] \in Nat /\ PriceScale \in Nat \ {0}
    BY PricesArePositive, U64IsNat DEF TypeOK
<1>2. x * price[m] \in Nat /\ y * price[m] \in Nat
    BY <1>1, ProductOfNaturals
<1>3. (x + y) * price[m] = x * price[m] + y * price[m]
    BY <1>1, Distributes
<1> QED BY <1>1, <1>2, <1>3, QuotientOfSum DEF RedeemedFor

\* With p for the price and s for the scale: tokens bought for x add at most
\* x to what t tokens are worth, and at most p / s + 1 less.
LEMMA BoughtTokens ==
    ASSUME NEW t \in Nat, NEW x \in Nat, NEW s \in Nat \ {0},
           NEW p \in Nat \ {0}, NEW top \in Nat, p <= top
    PROVE  LET bought == (x * s) \div p
           IN  /\ ((t + bought) * p) \div s <= (t * p) \div s + x
               /\ (t * p) \div s + x <= ((t + bought) * p) \div s + (top \div s + 1)
<1> DEFINE b == (x * s) \div p
           before == (t * p) \div s
           after  == ((t + b) * p) \div s
           loss   == top \div s + 1
<1>1. x * s \in Nat /\ t * p \in Nat
    BY ProductOfNaturals
<1>2. b \in Nat /\ b * p <= x * s /\ x * s < (b + 1) * p
    BY <1>1, DivisionRoundsDown, DivisionMissesLess
<1> HIDE DEF b
<1>3. /\ b * p \in Nat
      /\ (t + b) * p = t * p + b * p
      /\ (b + 1) * p = b * p + p
    BY <1>2, ProductOfNaturals, Distributes
<1>4. before \in Nat /\ before * s <= t * p /\ t * p < (before + 1) * s
    BY <1>1, DivisionRoundsDown, DivisionMissesLess
<1>5. (t + b) * p \in Nat
    BY <1>1, <1>3
<1>6. after \in Nat /\ (t + b) * p < (after + 1) * s
    BY <1>5, DivisionRoundsDown, DivisionMissesLess
<1>7. loss \in Nat /\ p < loss * s
    <2>1. top \div s \in Nat /\ top < (top \div s + 1) * s
        BY DivisionRoundsDown, DivisionMissesLess
    <2>2. (top \div s + 1) * s \in Nat
        BY <2>1, ProductOfNaturals
    <2> QED BY <2>1, <2>2
<1>8. after <= before + x
    <2> HIDE DEF before
    <2>1. ((before + x) + 1) * s = (before + 1) * s + x * s
        BY <1>4, Distributes
    <2>2. (before + 1) * s \in Nat
        BY <1>4, ProductOfNaturals
    <2>3. (t + b) * p < ((before + x) + 1) * s
        BY <1>1, <1>2, <1>3, <1>4, <2>1, <2>2
    <2>4. before + x \in Nat
        BY <1>4
    <2> QED BY <1>5, <2>3, <2>4, QuotientIsBelow
<1>9. before + x <= after + loss
    <2> HIDE DEF before, after, loss
    <2>1. (before + x) * s = before * s + x * s
        BY <1>4, Distributes
    <2>2. ((after + 1) + loss) * s = (after + 1) * s + loss * s
        BY <1>6, <1>7, Distributes
    <2>3. before * s \in Nat /\ (after + 1) * s \in Nat /\ loss * s \in Nat
        BY <1>4, <1>6, <1>7, ProductOfNaturals
    <2>4. (before + x) * s < ((after + 1) + loss) * s
        BY <1>1, <1>2, <1>3, <1>4, <1>6, <1>7, <2>1, <2>2, <2>3
    <2>5. before + x < (after + 1) + loss
        BY <1>4, <1>6, <1>7, <2>4, FactorsCompare
    <2> QED BY <1>4, <1>6, <1>7, <2>5
<1> QED BY <1>8, <1>9 DEF b

\* Supplying x to a market changes what the vault is worth by rounding only.
LEMMA MintedWorth ==
    ASSUME TypeOK, PricesBounded, NEW m \in Markets, NEW t \in Nat, NEW x \in Nat
    PROVE  /\ RedeemedFor(m, t + MintedFor(m, x)) <= RedeemedFor(m, t) + x
           /\ RedeemedFor(m, t) + x <= RedeemedFor(m, t + MintedFor(m, x)) + MaxLoss
<1>1. price[m] \in Nat \ {0} /\ PriceScale \in Nat \ {0}
    BY PricesArePositive, U64IsNat DEF TypeOK
<1>2. price[m] <= MaxPrice /\ MaxPrice \in Nat
    BY U64IsNat, VaultConstantsAssumption DEF PricesBounded
<1> QED BY <1>1, <1>2, BoughtTokens DEF RedeemedFor, MintedFor, MaxLoss

-----------------------------------------------------------------------------
(* What a step makes of a vault's worth.                                   *)

LEMMA HoldingsAreNat ==
    ASSUME TypeOK, NEW a \in Admins
    PROVE  /\ idle[a] \in Nat /\ tokens["jup"][a] \in Nat /\ tokens["kamino"][a] \in Nat
           /\ RedeemedFor("jup", tokens["jup"][a]) \in Nat
           /\ RedeemedFor("kamino", tokens["kamino"][a]) \in Nat
           /\ Holdings(a) \in Nat
<1>1. /\ idle[a] \in Nat /\ tokens["jup"][a] \in Nat /\ tokens["kamino"][a] \in Nat
    BY U64IsNat DEF TypeOK, Markets
<1>2. /\ RedeemedFor("jup", tokens["jup"][a]) \in Nat
      /\ RedeemedFor("kamino", tokens["kamino"][a]) \in Nat
    BY <1>1, MarketAmounts DEF Markets
<1> QED BY <1>1, <1>2 DEF Holdings

\* While prices rest, the worth after a step follows from the balances after it.
LEMMA HoldingsAfter ==
    ASSUME UNCHANGED price, NEW a \in Admins, NEW i, NEW j, NEW k,
           idle'[a] = i, tokens'["jup"][a] = j, tokens'["kamino"][a] = k
    PROVE  Holdings(a)' = i + RedeemedFor("jup", j) + RedeemedFor("kamino", k)
BY DEF Holdings, RedeemedFor

\* A vault whose balances a step leaves alone is worth what it was.
LEMMA HoldingsKept ==
    ASSUME UNCHANGED price, NEW a \in Admins, idle'[a] = idle[a],
           tokens'["jup"][a] = tokens["jup"][a],
           tokens'["kamino"][a] = tokens["kamino"][a]
    PROVE  Holdings(a)' = Holdings(a)
BY DEF Holdings, RedeemedFor

\* Supplying a market and redeeming from it leave a vault worth the same, up
\* to rounding, and touch no other vault.
LEMMA SupplyKeepsWorth ==
    ASSUME TypeOK, PricesBounded, NEW m \in Markets, NEW a \in Admins, NEW x \in Nat,
           Supply(m, a, x), UNCHANGED price
    PROVE  /\ Holdings(a)' \in Int
           /\ Holdings(a)' <= Holdings(a) /\ Holdings(a) <= Holdings(a)' + MaxLoss
           /\ \A b \in Admins \ {a} : Holdings(b)' = Holdings(b)
<1> DEFINE i == idle[a]
           j == tokens["jup"][a]
           k == tokens["kamino"][a]
           Kept == /\ Holdings(a)' \in Int
                   /\ Holdings(a)' <= Holdings(a) /\ Holdings(a) <= Holdings(a)' + MaxLoss
<1>1. /\ i \in Nat /\ j \in Nat /\ k \in Nat
      /\ RedeemedFor("jup", j) \in Nat /\ RedeemedFor("kamino", k) \in Nat
      /\ Holdings(a) = i + RedeemedFor("jup", j) + RedeemedFor("kamino", k)
    BY HoldingsAreNat DEF Holdings
<1>2. idle'[a] = i - x
    BY DEF Supply, TypeOK
<1>3. MaxLoss \in Nat
    BY PricesArePositive, U64IsNat, VaultConstantsAssumption, DivisionRoundsDown DEF MaxLoss
<1>4. MintedFor(m, x) \in Nat
    BY MarketAmounts
<1>5. ASSUME m = "jup" PROVE Kept
    <2>1. tokens'["jup"][a] = j + MintedFor("jup", x) /\ tokens'["kamino"][a] = k
        BY <1>5 DEF Supply, TypeOK, Markets
    <2>2. Holdings(a)' = (i - x) + RedeemedFor("jup", j + MintedFor("jup", x))
                                 + RedeemedFor("kamino", k)
        BY <1>2, <2>1, HoldingsAfter
    <2>3. RedeemedFor("jup", j + MintedFor("jup", x)) \in Nat
        BY <1>1, <1>4, <1>5, MarketAmounts
    <2>4. /\ RedeemedFor("jup", j + MintedFor("jup", x)) <= RedeemedFor("jup", j) + x
          /\ RedeemedFor("jup", j) + x <= RedeemedFor("jup", j + MintedFor("jup", x)) + MaxLoss
        BY <1>1, <1>5, MintedWorth
    <2> HIDE DEF i, j, k
    <2> QED BY <1>1, <1>3, <2>2, <2>3, <2>4
<1>6. ASSUME m = "kamino" PROVE Kept
    <2>1. tokens'["kamino"][a] = k + MintedFor("kamino", x) /\ tokens'["jup"][a] = j
        BY <1>6 DEF Supply, TypeOK, Markets
    <2>2. Holdings(a)' = (i - x) + RedeemedFor("jup", j)
                                 + RedeemedFor("kamino", k + MintedFor("kamino", x))
        BY <1>2, <2>1, HoldingsAfter
    <2>3. RedeemedFor("kamino", k + MintedFor("kamino", x)) \in Nat
        BY <1>1, <1>4, <1>6, MarketAmounts
    <2>4. /\ RedeemedFor("kamino", k + MintedFor("kamino", x)) <= RedeemedFor("kamino", k) + x
          /\ RedeemedFor("kamino", k) + x
                <= RedeemedFor("kamino", k + MintedFor("kamino", x)) + MaxLoss
        BY <1>1, <1>6, MintedWorth
    <2> HIDE DEF i, j, k
    <2> QED BY <1>1, <1>3, <2>2, <2>3, <2>4
<1>7. ASSUME NEW b \in Admins \ {a}
      PROVE  Holdings(b)' = Holdings(b)
    <2>1. idle'[b] = idle[b]
        BY DEF Supply, TypeOK
    <2>2. tokens'["jup"][b] = tokens["jup"][b] /\ tokens'["kamino"][b] = tokens["kamino"][b]
        BY DEF Supply, TypeOK, Markets
    <2> QED BY <2>1, <2>2, HoldingsKept
<1> QED BY <1>5, <1>6, <1>7 DEF Markets

LEMMA RedeemKeepsWorth ==
    ASSUME TypeOK, NEW m \in Markets, NEW a \in Admins, NEW x \in Nat,
           Redeem(m, a, x), UNCHANGED price
    PROVE  /\ Holdings(a)' \in Int
           /\ Holdings(a)' <= Holdings(a) /\ Holdings(a) <= Holdings(a)' + MaxLoss
           /\ \A b \in Admins \ {a} : Holdings(b)' = Holdings(b)
<1> DEFINE i == idle[a]
           t == tokens[m][a]
           Kept == /\ Holdings(a)' \in Int
                   /\ Holdings(a)' <= Holdings(a) /\ Holdings(a) <= Holdings(a)' + MaxLoss
<1>1. i \in Nat /\ t \in Nat /\ t - x \in Nat
    <2>1. i \in Nat /\ t \in Nat
        BY U64IsNat DEF TypeOK
    <2>2. x <= t
        BY DEF Redeem, CanRedeem
    <2> QED BY <2>1, <2>2
<1>2. MaxLoss \in Nat \ {0}
    BY PricesArePositive, U64IsNat, VaultConstantsAssumption, DivisionRoundsDown DEF MaxLoss
<1>3. /\ RedeemedFor(m, x) \in Nat /\ RedeemedFor(m, t - x) \in Nat
      /\ RedeemedFor(m, t) \in Nat
    BY <1>1, MarketAmounts
<1>4. /\ RedeemedFor(m, x) + RedeemedFor(m, t - x) <= RedeemedFor(m, t)
      /\ RedeemedFor(m, t) <= RedeemedFor(m, x) + RedeemedFor(m, t - x) + 1
    <2>1. x + (t - x) = t
        BY <1>1
    <2> QED BY <1>1, <2>1, RedeemedInParts
<1>5. idle'[a] = i + RedeemedFor(m, x)
    BY DEF Redeem, TypeOK
<1>6. tokens'[m][a] = t - x
    BY DEF Redeem, TypeOK
<1>7. ASSUME m = "jup" PROVE Kept
    <2>1. tokens'["kamino"][a] = tokens["kamino"][a]
        BY <1>7 DEF Redeem, TypeOK, Markets
    <2>2. Holdings(a)' = i + RedeemedFor("jup", x) + RedeemedFor("jup", t - x)
                           + RedeemedFor("kamino", tokens["kamino"][a])
        BY <1>5, <1>6, <1>7, <2>1, HoldingsAfter
    <2>3. Holdings(a) = i + RedeemedFor("jup", t)
                          + RedeemedFor("kamino", tokens["kamino"][a])
        BY <1>7 DEF Holdings
    <2>4. RedeemedFor("kamino", tokens["kamino"][a]) \in Nat
        BY HoldingsAreNat
    <2> HIDE DEF i, t
    <2> QED BY <1>1, <1>2, <1>3, <1>4, <1>7, <2>2, <2>3, <2>4
<1>8. ASSUME m = "kamino" PROVE Kept
    <2>1. tokens'["jup"][a] = tokens["jup"][a]
        BY <1>8 DEF Redeem, TypeOK, Markets
    <2>2. Holdings(a)' = i + RedeemedFor("kamino", x)
                           + RedeemedFor("jup", tokens["jup"][a])
                           + RedeemedFor("kamino", t - x)
        BY <1>5, <1>6, <1>8, <2>1, HoldingsAfter
    <2>3. Holdings(a) = i + RedeemedFor("jup", tokens["jup"][a])
                          + RedeemedFor("kamino", t)
        BY <1>8 DEF Holdings
    <2>4. RedeemedFor("jup", tokens["jup"][a]) \in Nat
        BY HoldingsAreNat
    <2> HIDE DEF i, t
    <2> QED BY <1>1, <1>2, <1>3, <1>4, <1>8, <2>2, <2>3, <2>4
<1>9. ASSUME NEW b \in Admins \ {a}
      PROVE  Holdings(b)' = Holdings(b)
    <2>1. idle'[b] = idle[b]
        BY DEF Redeem, TypeOK
    <2>2. tokens'["jup"][b] = tokens["jup"][b] /\ tokens'["kamino"][b] = tokens["kamino"][b]
        BY DEF Redeem, TypeOK, Markets
    <2> QED BY <2>1, <2>2, HoldingsKept
<1> QED BY <1>7, <1>8, <1>9 DEF Markets

-----------------------------------------------------------------------------
(* Every step is one of Custody's.                                         *)

\* Withdrawing redeems twice, so two roundings fit into MaxLoss.
LEMMA TwoUnitsAreLost == MaxLoss \in Nat /\ 2 <= MaxLoss
<1>1. PriceScale \in Nat \ {0} /\ MaxPrice \in Nat /\ 1 * PriceScale <= MaxPrice
    BY PricesArePositive, U64IsNat, VaultConstantsAssumption
<1>2. MaxPrice \div PriceScale \in Nat
    BY <1>1, DivisionRoundsDown
<1>3. 1 <= MaxPrice \div PriceScale
    BY <1>1, QuotientIsLargest
<1> QED BY <1>2, <1>3 DEF MaxLoss

\* Lending and taking back is a shift inside one vault.
LEMMA LendingShifts ==
    ASSUME NEW a \in Admins, UNCHANGED wallet,
           Holdings(a)' <= Holdings(a), Holdings(a) <= Holdings(a)' + MaxLoss,
           \A b \in Admins \ {a} : Holdings(b)' = Holdings(b)
    PROVE  Promise!CustodyNext
<1>1. Promise!Shift(a)
    BY DEF Promise!Shift, Promise!OnlyWorth
<1> QED BY <1>1 DEF Promise!CustodyNext

\* A deposit is worth exactly what the user paid.
LEMMA DepositedWorth ==
    ASSUME TypeOK, NEW u \in Users, NEW a \in Admins, NEW x \in Amounts,
           Deposit(u, a, x)
    PROVE  /\ wallet'[u] = wallet[u] - x
           /\ \A o \in Users \ {u} : wallet'[o] = wallet[o]
           /\ Holdings(a)' = Holdings(a) + x
           /\ \A b \in Admins \ {a} : Holdings(b)' = Holdings(b)
<1>1. x \in Nat /\ wallet[u] \in Nat
    BY AmountsAreNat, U64IsNat DEF TypeOK
<1>2. /\ wallet' = [wallet EXCEPT ![u] = @ - x]
      /\ idle' = [idle EXCEPT ![a] = @ + x]
      /\ UNCHANGED <<tokens, price>>
    BY DEF Deposit
<1>3. /\ wallet'[u] = wallet[u] - x
      /\ \A o \in Users \ {u} : wallet'[o] = wallet[o]
    BY <1>2 DEF TypeOK
<1>4. idle'[a] = idle[a] + x /\ \A b \in Admins \ {a} : idle'[b] = idle[b]
    BY <1>2 DEF TypeOK
<1>5. Holdings(a)' = Holdings(a) + x
    <2>1. Holdings(a)' = (idle[a] + x) + RedeemedFor("jup", tokens["jup"][a])
                                       + RedeemedFor("kamino", tokens["kamino"][a])
        BY <1>2, <1>4, HoldingsAfter
    <2>2. /\ idle[a] \in Nat
          /\ RedeemedFor("jup", tokens["jup"][a]) \in Nat
          /\ RedeemedFor("kamino", tokens["kamino"][a]) \in Nat
        BY HoldingsAreNat
    <2> QED BY <1>1, <2>1, <2>2 DEF Holdings
<1>6. \A b \in Admins \ {a} : Holdings(b)' = Holdings(b)
    BY <1>2, <1>4, HoldingsKept
<1> QED BY <1>3, <1>5, <1>6

LEMMA DepositPaysIn ==
    ASSUME TypeOK, NEW u \in Users, NEW a \in Admins, NEW x \in Amounts,
           Deposit(u, a, x)
    PROVE  Promise!CustodyNext
<1>1. x \in Nat /\ wallet[u] \in Nat /\ Holdings(a) \in Nat
    BY AmountsAreNat, U64IsNat, HoldingsAreNat DEF TypeOK
<1>2. /\ wallet'[u] = wallet[u] - x /\ Holdings(a)' = Holdings(a) + x
      /\ \A o \in Users \ {u} : wallet'[o] = wallet[o]
      /\ \A b \in Admins \ {a} : Holdings(b)' = Holdings(b)
    BY DepositedWorth
<1>3. Holdings(a)' - Holdings(a) = wallet[u] - wallet'[u] /\ wallet'[u] <= wallet[u]
    BY <1>1, <1>2
<1>4. Promise!PayIn(u, a)
    BY <1>2, <1>3 DEF Promise!PayIn, Promise!OnlyPurse, Promise!OnlyWorth
<1> QED BY <1>4 DEF Promise!CustodyNext

\* A withdrawal takes what the user is paid, and at most two roundings more.
LEMMA WithdrawnWorth ==
    ASSUME TypeOK, NEW u \in Users, NEW a \in Admins, NEW x \in Amounts,
           Withdraw(u, a, x)
    PROVE  /\ wallet'[u] = wallet[u] + x
           /\ \A o \in Users \ {u} : wallet'[o] = wallet[o]
           /\ Holdings(a)' \in Nat /\ Holdings(a)' + x <= Holdings(a)
           /\ Holdings(a) <= Holdings(a)' + x + 2
           /\ \A b \in Admins \ {a} : Holdings(b)' = Holdings(b)
<1>1. PICK jup \in U64, kamino \in U64 :
          /\ jup <= tokens["jup"][a] /\ kamino <= tokens["kamino"][a]
          /\ tokens' = [tokens EXCEPT !["jup"][a] = @ - jup,
                                      !["kamino"][a] = @ - kamino]
          /\ Payout(u, a, RedeemedFor("jup", jup)
                            + RedeemedFor("kamino", kamino), x)
          /\ UNCHANGED price
    BY WithdrawParts
<1> DEFINE i == idle[a]
           j == tokens["jup"][a]
           k == tokens["kamino"][a]
<1>2. /\ x \in Nat /\ wallet[u] \in Nat /\ i \in Nat /\ j \in Nat /\ k \in Nat
      /\ jup \in Nat /\ kamino \in Nat /\ j - jup \in Nat /\ k - kamino \in Nat
    <2>1. i \in Nat /\ j \in Nat /\ k \in Nat
        BY HoldingsAreNat
    <2>2. x \in Nat /\ wallet[u] \in Nat /\ jup \in Nat /\ kamino \in Nat
        BY AmountsAreNat, U64IsNat DEF TypeOK
    <2> QED BY <1>1, <2>1, <2>2
<1>3. /\ wallet'[u] = wallet[u] + x
      /\ \A o \in Users \ {u} : wallet'[o] = wallet[o]
    BY <1>1 DEF Payout, TypeOK
<1>4. /\ idle'[a] = i + (RedeemedFor("jup", jup) + RedeemedFor("kamino", kamino)) - x
      /\ \A b \in Admins \ {a} : idle'[b] = idle[b]
    BY <1>1 DEF Payout, TypeOK
<1>5. /\ tokens'["jup"][a] = j - jup /\ tokens'["kamino"][a] = k - kamino
      /\ \A b \in Admins \ {a} : /\ tokens'["jup"][b] = tokens["jup"][b]
                                 /\ tokens'["kamino"][b] = tokens["kamino"][b]
    BY <1>1 DEF TypeOK, Markets
<1>6. Holdings(a)' = (i + (RedeemedFor("jup", jup) + RedeemedFor("kamino", kamino)) - x)
                       + RedeemedFor("jup", j - jup)
                       + RedeemedFor("kamino", k - kamino)
    <2>1. UNCHANGED price
        BY <1>1
    <2>2. /\ idle'[a] = i + (RedeemedFor("jup", jup) + RedeemedFor("kamino", kamino)) - x
          /\ tokens'["jup"][a] = j - jup
          /\ tokens'["kamino"][a] = k - kamino
        BY <1>4, <1>5
    <2> QED BY ONLY <2>1, <2>2, HoldingsAfter, a \in Admins
<1>7. /\ RedeemedFor("jup", jup) \in Nat /\ RedeemedFor("kamino", kamino) \in Nat
      /\ RedeemedFor("jup", j - jup) \in Nat /\ RedeemedFor("kamino", k - kamino) \in Nat
      /\ RedeemedFor("jup", j) \in Nat /\ RedeemedFor("kamino", k) \in Nat
    BY <1>2, MarketAmounts DEF Markets
<1>8. /\ RedeemedFor("jup", jup) + RedeemedFor("jup", j - jup) <= RedeemedFor("jup", j)
      /\ RedeemedFor("jup", j)
           <= RedeemedFor("jup", jup) + RedeemedFor("jup", j - jup) + 1
    <2>1. jup + (j - jup) = j
        BY <1>2
    <2> QED BY <1>2, <2>1, RedeemedInParts DEF Markets
<1>9. /\ RedeemedFor("kamino", kamino) + RedeemedFor("kamino", k - kamino)
           <= RedeemedFor("kamino", k)
      /\ RedeemedFor("kamino", k)
           <= RedeemedFor("kamino", kamino) + RedeemedFor("kamino", k - kamino) + 1
    <2>1. kamino + (k - kamino) = k
        BY <1>2
    <2> QED BY <1>2, <2>1, RedeemedInParts DEF Markets
<1>10. Holdings(a) = i + RedeemedFor("jup", j) + RedeemedFor("kamino", k)
    BY DEF Holdings
<1>11. \A b \in Admins \ {a} : Holdings(b)' = Holdings(b)
    BY <1>1, <1>4, <1>5, HoldingsKept
<1> HIDE DEF i, j, k
<1>12. /\ Holdings(a)' \in Nat /\ Holdings(a)' + x <= Holdings(a)
       /\ Holdings(a) <= Holdings(a)' + x + 2
    <2>1. x <= i + (RedeemedFor("jup", jup) + RedeemedFor("kamino", kamino))
        BY <1>1 DEF Payout, i
    <2> QED BY <2>1, <1>2, <1>6, <1>7, <1>8, <1>9, <1>10
<1> QED BY <1>3, <1>11, <1>12

LEMMA WithdrawPaysOut ==
    ASSUME TypeOK, NEW u \in Users, NEW a \in Admins, NEW x \in Amounts,
           Withdraw(u, a, x)
    PROVE  Promise!CustodyNext
<1>1. x \in Nat /\ wallet[u] \in Nat /\ Holdings(a) \in Nat
    BY AmountsAreNat, U64IsNat, HoldingsAreNat DEF TypeOK
<1>2. /\ wallet'[u] = wallet[u] + x
      /\ \A o \in Users \ {u} : wallet'[o] = wallet[o]
      /\ Holdings(a)' \in Nat /\ Holdings(a)' + x <= Holdings(a)
      /\ Holdings(a) <= Holdings(a)' + x + 2
      /\ \A b \in Admins \ {a} : Holdings(b)' = Holdings(b)
    BY WithdrawnWorth
<1>3. /\ wallet'[u] >= wallet[u]
      /\ LET lost == (Holdings(a) - Holdings(a)') - (wallet'[u] - wallet[u])
         IN  0 <= lost /\ lost <= MaxLoss
    BY <1>1, <1>2, TwoUnitsAreLost
<1>4. Promise!PayOut(u, a)
    BY <1>2, <1>3 DEF Promise!PayOut, Promise!OnlyPurse, Promise!OnlyWorth
<1> QED BY <1>4 DEF Promise!CustodyNext

\* Interest does not lower what tokens are redeemed for.
LEMMA AccrueRaisesRedemptions ==
    ASSUME TypeOK, NEW m \in Markets, Accrue(m), NEW n \in Markets, NEW t \in Nat
    PROVE  /\ (t * price[n]) \div PriceScale \in Nat
           /\ (t * price'[n]) \div PriceScale \in Nat
           /\ (t * price[n]) \div PriceScale <= (t * price'[n]) \div PriceScale
<1>1. PICK p \in Prices :
          price[m] < p /\ price' = [price EXCEPT ![m] = p] /\ UNCHANGED funds
    BY DEF Accrue
<1>2. PriceScale \in Nat \ {0} /\ p \in Nat
    BY PricesArePositive, U64IsNat
<1>3. price[n] \in Nat /\ price'[n] \in Nat /\ price[n] <= price'[n]
    <2>1. price[n] \in Nat
        BY U64IsNat DEF TypeOK
    <2>2. price'[n] = IF n = m THEN p ELSE price[n]
        BY <1>1 DEF TypeOK
    <2> QED BY <1>1, <1>2, <2>1, <2>2
<1>4. /\ t * price[n] \in Nat /\ t * price'[n] \in Nat
      /\ t * price[n] <= t * price'[n]
    <2>1. price[n] * t <= price'[n] * t /\ price[n] * t \in Nat /\ price'[n] * t \in Nat
        BY <1>3, ProductKeepsOrder, ProductOfNaturals
    <2>2. t * price[n] = price[n] * t /\ t * price'[n] = price'[n] * t
        BY <1>3
    <2> QED BY <2>1, <2>2
<1> QED BY <1>2, <1>4, QuotientKeepsOrder, DivisionRoundsDown

\* A larger price makes no vault worth less.
LEMMA AccrueRaisesWorth ==
    ASSUME TypeOK, NEW m \in Markets, Accrue(m), NEW a \in Admins
    PROVE  Holdings(a)' \in Nat /\ Holdings(a) <= Holdings(a)'
<1>1. UNCHANGED funds
    BY DEF Accrue
<1>2. ASSUME NEW n \in Markets, NEW t \in Nat
      PROVE  /\ (t * price[n]) \div PriceScale \in Nat
             /\ (t * price'[n]) \div PriceScale \in Nat
             /\ (t * price[n]) \div PriceScale <= (t * price'[n]) \div PriceScale
    BY AccrueRaisesRedemptions
<1> "jup" \in Markets /\ "kamino" \in Markets
    BY DEF Markets
<1>3. Holdings(a)' \in Nat /\ Holdings(a) <= Holdings(a)'
    <2> DEFINE worthAt(q) == idle[a] + (tokens["jup"][a] * q["jup"]) \div PriceScale
                               + (tokens["kamino"][a] * q["kamino"]) \div PriceScale
    <2>1. /\ idle[a] \in Nat /\ tokens["jup"][a] \in Nat /\ tokens["kamino"][a] \in Nat
        BY HoldingsAreNat
    <2>2. worthAt(price') \in Nat /\ worthAt(price) <= worthAt(price')
        <3>1. /\ (tokens["jup"][a] * price["jup"]) \div PriceScale \in Nat
              /\ (tokens["jup"][a] * price'["jup"]) \div PriceScale \in Nat
              /\ (tokens["jup"][a] * price["jup"]) \div PriceScale
                   <= (tokens["jup"][a] * price'["jup"]) \div PriceScale
            BY ONLY <1>2, <2>1, "jup" \in Markets
        <3>2. /\ (tokens["kamino"][a] * price["kamino"]) \div PriceScale \in Nat
              /\ (tokens["kamino"][a] * price'["kamino"]) \div PriceScale \in Nat
              /\ (tokens["kamino"][a] * price["kamino"]) \div PriceScale
                   <= (tokens["kamino"][a] * price'["kamino"]) \div PriceScale
            BY ONLY <1>2, <2>1, "kamino" \in Markets
        <3> QED BY ONLY <2>1, <3>1, <3>2
    <2>3. Holdings(a) = worthAt(price)
        BY DEF Holdings, RedeemedFor
    <2>4. Holdings(a)' = worthAt(price')
        BY <1>1 DEF Holdings, RedeemedFor, funds
    <2> QED BY <2>2, <2>3, <2>4
<1> QED BY <1>3

LEMMA AccruePaysInterest ==
    ASSUME TypeOK, NEW m \in Markets, Accrue(m)
    PROVE  Promise!CustodyNext
<1>1. UNCHANGED wallet /\ \A a \in Admins : Holdings(a)' >= Holdings(a)
    BY AccrueRaisesWorth, HoldingsAreNat DEF Accrue, funds
<1>2. Promise!Interest
    BY <1>1 DEF Promise!Interest
<1> QED BY <1>2 DEF Promise!CustodyNext

\* What touches no balance and no price stutters.
LEMMA BookkeepingStutters ==
    ASSUME UNCHANGED <<funds, price>>
    PROVE  UNCHANGED <<wallet, [a \in Admins |-> Holdings(a)]>>
<1>1. UNCHANGED <<wallet, idle, tokens, price>>
    BY DEF funds
<1>2. \A a \in Admins : Holdings(a)' = Holdings(a)
    BY <1>1, HoldingsKept
<1> QED BY <1>1, <1>2

LEMMA NextKeepsCustody ==
    ASSUME TypeOK, PricesBounded, [Next]_vars
    PROVE  [Promise!CustodyNext]_<<wallet, [a \in Admins |-> Holdings(a)]>>
<1>1. ASSUME NEW u \in Users, NEW a \in Admins, NEW x \in Amounts,
             Deposit(u, a, x) \/ Withdraw(u, a, x)
      PROVE  Promise!CustodyNext
    BY <1>1, DepositPaysIn, WithdrawPaysOut
<1>2. ASSUME NEW a \in Admins, NEW x \in Amounts,
             JupDeposit(a, x) \/ KaminoDeposit(a, x)
      PROVE  Promise!CustodyNext
    <2>1. PICK m \in Markets : Supply(m, a, x) /\ UNCHANGED <<wallet, price>>
        BY <1>2 DEF JupDeposit, KaminoDeposit, Markets
    <2>2. x \in Nat
        BY AmountsAreNat
    <2> QED BY <2>1, <2>2, SupplyKeepsWorth, LendingShifts
<1>3. ASSUME NEW a \in Admins, NEW x \in Amounts,
             JupWithdraw(a, x) \/ KaminoWithdraw(a, x)
      PROVE  Promise!CustodyNext
    <2>1. PICK m \in Markets : Redeem(m, a, x) /\ UNCHANGED <<wallet, price>>
        BY <1>3 DEF JupWithdraw, KaminoWithdraw, Markets
    <2>2. x \in Nat
        BY AmountsAreNat
    <2> QED BY <2>1, <2>2, RedeemKeepsWorth, LendingShifts
<1>4. ASSUME NEW a \in Admins,
             InitializeVault(a) \/ \E args \in SyncArgs : SyncVaultState(a, args)
      PROVE  UNCHANGED <<funds, price>>
    BY <1>4 DEF InitializeVault, SyncVaultState
<1>5. ASSUME NEW m \in Markets, Accrue(m)
      PROVE  Promise!CustodyNext
    BY <1>5, AccruePaysInterest
<1>6. ASSUME UNCHANGED vars
      PROVE  UNCHANGED <<funds, price>>
    BY <1>6 DEF vars, funds
<1>7. Promise!CustodyNext \/ UNCHANGED <<funds, price>>
    BY <1>1, <1>2, <1>3, <1>4, <1>5, <1>6 DEF Next, UserNext, AdminNext, MarketNext
<1> QED BY <1>7, BookkeepingStutters

LEMMA PricesStayBounded ==
    ASSUME TypeOK, PricesBounded, [Next]_vars
    PROVE  PricesBounded'
<1>1. ASSUME NEW m \in Markets, Accrue(m)
      PROVE  PricesBounded'
    <2>1. PICK p \in Prices : price' = [price EXCEPT ![m] = p]
        BY <1>1 DEF Accrue
    <2>2. p <= MaxPrice
        BY VaultConstantsAssumption
    <2> QED BY <2>1, <2>2 DEF PricesBounded, TypeOK
<1>2. ASSUME UNCHANGED price
      PROVE  PricesBounded'
    BY <1>2 DEF PricesBounded
<1>3. ASSUME NEW u \in Users, NEW a \in Admins, NEW x \in Amounts,
             Deposit(u, a, x) \/ Withdraw(u, a, x)
      PROVE  UNCHANGED price
    BY <1>3 DEF Deposit, Withdraw
<1>4. ASSUME NEW a \in Admins, NEW x \in Amounts,
             \/ JupDeposit(a, x) \/ KaminoDeposit(a, x)
             \/ JupWithdraw(a, x) \/ KaminoWithdraw(a, x)
      PROVE  UNCHANGED price
    BY <1>4 DEF JupDeposit, KaminoDeposit, JupWithdraw, KaminoWithdraw
<1>5. ASSUME NEW a \in Admins,
             InitializeVault(a) \/ \E args \in SyncArgs : SyncVaultState(a, args)
      PROVE  UNCHANGED price
    BY <1>5 DEF InitializeVault, SyncVaultState
<1>6. UNCHANGED vars => UNCHANGED price
    BY DEF vars
<1> QED BY <1>1, <1>2, <1>3, <1>4, <1>5, <1>6
        DEF Next, UserNext, AdminNext, MarketNext

\* No price exceeds MaxPrice, which bounds what one market call can lose.
LEMMA PricesStayInBounds == Spec => []PricesBounded
<1>1. Init => PricesBounded
    BY VaultConstantsAssumption DEF Init, PricesBounded
<1> QED BY <1>1, PricesStayBounded, TypeCorrect, PTL DEF Spec

LEMMA CustodyStarts ==
    ASSUME Init
    PROVE  Promise!CustodyInit
<1>1. wallet \in [Users -> Nat]
    BY U64IsNat, VaultConstantsAssumption DEF Init
<1>2. PriceScale \in Nat \ {0}
    BY PricesArePositive, U64IsNat
<1>3. ASSUME NEW a \in Admins
      PROVE  Holdings(a) = 0
    <2>1. /\ idle[a] = 0 /\ tokens["jup"][a] = 0 /\ tokens["kamino"][a] = 0
          /\ price["jup"] = PriceScale /\ price["kamino"] = PriceScale
        BY DEF Init, Markets
    <2>2. (0 * PriceScale) \div PriceScale = 0
        BY <1>2
    <2> QED BY <2>1, <2>2 DEF Holdings, RedeemedFor
<1> QED BY <1>1, <1>3 DEF Promise!CustodyInit

(***************************************************************************)
(* The program implements Custody: whatever users, admins and markets do,  *)
(* a user gains what its vault loses, no step moves funds between two      *)
(* users or two vaults, and a market call loses MaxLoss at most.           *)
(***************************************************************************)
THEOREM ProgramKeepsCustody == Spec => FundsInCustody
<1>1. Init => Promise!CustodyInit
    BY CustodyStarts
<1>2. TypeOK /\ PricesBounded /\ [Next]_vars
        => [Promise!CustodyNext]_<<wallet, [a \in Admins |-> Holdings(a)]>>
    BY NextKeepsCustody
<1> QED BY <1>1, <1>2, TypeCorrect, PricesStayInBounds, PTL
        DEF Spec, FundsInCustody, Promise!CustodySpec
=============================================================================
