--------------------------- MODULE SolvencyProofs ---------------------------
(***************************************************************************)
(* Solvency, for every number of users, vaults and market calls.           *)
(*                                                                         *)
(* Every instruction moves the books and the holdings alike, except that   *)
(* a market call loses up to MaxLoss of the holdings, which `moves' pays   *)
(* for, and that interest adds to the holdings alone.  A withdrawal whose  *)
(* books are already empty takes nothing from them: they stay covered      *)
(* because holdings never become negative.                                 *)
(***************************************************************************)
EXTENDS VaultSolvency, CustodyProofs

MovesCounted == moves \in [Admins -> Nat]

\* The accounts live by the program's own next-state relation.
LEMMA SolvencyStepsAreSteps == [SolvencyNext]_solvencyVars => [Next]_vars
<1>1. ASSUME NEW a \in Admins, NEW x \in Amounts, Lend(a, x)
      PROVE  Next
    BY <1>1 DEF Lend, Next, AdminNext
<1>2. ASSUME NEW a \in Admins, InitializeVault(a)
      PROVE  Next
    BY <1>2 DEF Next, AdminNext
<1>3. ASSUME NEW a \in Admins, NEW u \in Users, NEW x \in Amounts,
             Deposit(u, a, x) \/ Withdraw(u, a, x)
      PROVE  Next
    BY <1>3 DEF Next, UserNext
<1>4. MarketNext => Next
    BY DEF Next
<1>5. SolvencyNext => Next
    BY <1>1, <1>2, <1>3, <1>4 DEF SolvencyNext
<1> QED BY <1>5 DEF solvencyVars

LEMMA SolvencyIsOfTheProgram == SolvencySpec => Spec
<1>1. SolvencyInit => Init
    BY DEF SolvencyInit
<1> QED BY <1>1, SolvencyStepsAreSteps, PTL DEF SolvencySpec, Spec

\* Counting the market calls restricts nothing that custody is about.
THEOREM SolvencyKeepsCustody == SolvencySpec => FundsInCustody
BY SolvencyIsOfTheProgram, ProgramKeepsCustody

LEMMA MovesStayCounted ==
    ASSUME MovesCounted, [SolvencyNext]_solvencyVars
    PROVE  MovesCounted'
<1>1. ASSUME NEW a \in Admins, NEW n \in {1, 2}, Moved(a, n)
      PROVE  MovesCounted'
    BY <1>1 DEF MovesCounted, Moved
<1>2. ASSUME UNCHANGED moves
      PROVE  MovesCounted'
    BY <1>2 DEF MovesCounted
<1>3. \/ \E a \in Admins, n \in {1, 2} : Moved(a, n)
      \/ UNCHANGED moves
    BY DEF SolvencyNext, solvencyVars, Lend
<1> QED BY <1>1, <1>2, <1>3

-----------------------------------------------------------------------------
(* The books of one vault.                                                 *)

Covered(a) == vault[a].total_underlying <= Holdings(a) + MaxLoss * moves[a]

\* What covering speaks of are natural numbers.
LEMMA CoveredParts ==
    ASSUME TypeOK, MovesCounted, NEW a \in Admins
    PROVE  /\ vault[a].total_underlying \in Nat /\ Holdings(a) \in Nat
           /\ moves[a] \in Nat /\ MaxLoss * moves[a] \in Nat
<1>1. vault[a].total_underlying \in Nat /\ moves[a] \in Nat
    BY U64IsNat DEF TypeOK, Vault, MovesCounted
<1>2. MaxLoss * moves[a] \in Nat
    BY <1>1, TwoUnitsAreLost, ProductOfNaturals
<1> QED BY <1>1, <1>2, HoldingsAreNat

\* n more market calls pay for n * MaxLoss more.
LEMMA MovesPay ==
    ASSUME MovesCounted, NEW a \in Admins, NEW n \in {1, 2}, Moved(a, n)
    PROVE  /\ MaxLoss * moves'[a] = MaxLoss * moves[a] + MaxLoss * n
           /\ \A b \in Admins \ {a} : moves'[b] = moves[b]
<1>1. moves[a] \in Nat /\ moves'[a] = moves[a] + n
    BY DEF MovesCounted, Moved
<1>2. MaxLoss \in Nat
    BY TwoUnitsAreLost
<1>3. MaxLoss * (moves[a] + n) = MaxLoss * moves[a] + MaxLoss * n
    BY <1>1, <1>2
<1>4. \A b \in Admins \ {a} : moves'[b] = moves[b]
    BY DEF MovesCounted, Moved
<1> QED BY <1>1, <1>3, <1>4

\* A vault that a step leaves alone stays covered.
LEMMA UntouchedStaysCovered ==
    ASSUME NEW b \in Admins, Covered(b), vault'[b] = vault[b],
           moves'[b] = moves[b], Holdings(b)' = Holdings(b)
    PROVE  Covered(b)'
BY DEF Covered

LEMMA DepositStaysCovered ==
    ASSUME TypeOK, MovesCounted, Solvent,
           NEW u \in Users, NEW a \in Admins, NEW x \in Amounts,
           Deposit(u, a, x), UNCHANGED moves, NEW b \in Admins
    PROVE  Covered(b)'
<1>1. /\ vault'[a].total_underlying = vault[a].total_underlying + x
      /\ \A c \in Admins \ {a} : vault'[c] = vault[c]
    BY DEF Deposit, TypeOK, Vault
<1>2. /\ Holdings(a)' = Holdings(a) + x
      /\ \A c \in Admins \ {a} : Holdings(c)' = Holdings(c)
    BY DepositedWorth
<1>3. Covered(b)
    BY DEF Solvent, Covered
<1>4. CASE b = a
    <2>1. x \in Nat
        BY AmountsAreNat
    <2> QED BY <1>1, <1>2, <1>3, <1>4, <2>1, CoveredParts DEF Covered
<1>5. CASE b # a
    BY <1>1, <1>2, <1>3, <1>5, UntouchedStaysCovered
<1> QED BY <1>4, <1>5

LEMMA WithdrawStaysCovered ==
    ASSUME TypeOK, MovesCounted, Solvent,
           NEW u \in Users, NEW a \in Admins, NEW x \in Amounts,
           Withdraw(u, a, x), Moved(a, 2), NEW b \in Admins
    PROVE  Covered(b)'
<1>1. vault' = [vault EXCEPT ![a] = AfterWithdraw(@, x)]
    BY DEF Withdraw
<1>2. /\ vault'[a].total_underlying = SaturatingSub(vault[a].total_underlying, x)
      /\ \A c \in Admins \ {a} : vault'[c] = vault[c]
    <2>1. vault[a] \in Vault /\ vault'[a] = AfterWithdraw(vault[a], x)
        BY <1>1 DEF TypeOK
    <2>2. vault'[a].total_underlying = SaturatingSub(vault[a].total_underlying, x)
        BY <2>1 DEF AfterWithdraw, Vault
    <2> QED BY <1>1, <2>2 DEF TypeOK
<1>3. /\ Holdings(a)' \in Nat /\ Holdings(a) <= Holdings(a)' + x + 2
      /\ \A c \in Admins \ {a} : Holdings(c)' = Holdings(c)
    BY WithdrawnWorth
<1>4. Covered(b)
    BY DEF Solvent, Covered
<1>5. /\ MaxLoss * moves'[a] = MaxLoss * moves[a] + MaxLoss * 2
      /\ \A c \in Admins \ {a} : moves'[c] = moves[c]
    BY MovesPay
<1>6. CASE b = a
    <2>1. x \in Nat /\ MaxLoss \in Nat /\ 2 <= MaxLoss
        BY AmountsAreNat, TwoUnitsAreLost
    <2>2. /\ vault[a].total_underlying \in Nat /\ Holdings(a) \in Nat
          /\ MaxLoss * moves[a] \in Nat
        BY CoveredParts
    <2>3. vault[a].total_underlying <= Holdings(a) + MaxLoss * moves[a]
        BY <1>4, <1>6 DEF Covered
    <2>4. SaturatingSub(vault[a].total_underlying, x)
            <= Holdings(a)' + (MaxLoss * moves[a] + MaxLoss * 2)
        BY <1>3, <2>1, <2>2, <2>3 DEF SaturatingSub
    <2> QED BY <1>2, <1>5, <1>6, <2>4 DEF Covered
<1>7. CASE b # a
    BY <1>2, <1>3, <1>4, <1>5, <1>7, UntouchedStaysCovered
<1> QED BY <1>6, <1>7

\* Lending loses one rounding and writes no books.
LEMMA LendStaysCovered ==
    ASSUME TypeOK, PricesBounded, MovesCounted, Solvent,
           NEW a \in Admins, NEW x \in Amounts, Lend(a, x), NEW b \in Admins
    PROVE  Covered(b)'
<1>1. Moved(a, 1) /\ UNCHANGED vault
    BY DEF Lend, JupDeposit, KaminoDeposit, JupWithdraw, KaminoWithdraw, accounts
<1>2. /\ Holdings(a)' <= Holdings(a) /\ Holdings(a) <= Holdings(a)' + MaxLoss
      /\ Holdings(a)' \in Int
      /\ \A c \in Admins \ {a} : Holdings(c)' = Holdings(c)
    <2>1. x \in Nat
        BY AmountsAreNat
    <2>2. PICK m \in Markets : Supply(m, a, x) \/ Redeem(m, a, x)
        BY DEF Lend, JupDeposit, KaminoDeposit, JupWithdraw, KaminoWithdraw, Markets
    <2>3. UNCHANGED price
        BY DEF Lend, JupDeposit, KaminoDeposit, JupWithdraw, KaminoWithdraw
    <2> QED BY <2>1, <2>2, <2>3, SupplyKeepsWorth, RedeemKeepsWorth
<1>3. Covered(b)
    BY DEF Solvent, Covered
<1>4. /\ MaxLoss * moves'[a] = MaxLoss * moves[a] + MaxLoss * 1
      /\ \A c \in Admins \ {a} : moves'[c] = moves[c]
    BY <1>1, MovesPay
<1>5. CASE b = a
    <2>1. MaxLoss \in Nat
        BY TwoUnitsAreLost
    <2>2. /\ vault[a].total_underlying \in Nat /\ Holdings(a) \in Nat
          /\ MaxLoss * moves[a] \in Nat
        BY CoveredParts
    <2>3. vault[a].total_underlying <= Holdings(a) + MaxLoss * moves[a]
        BY <1>3, <1>5 DEF Covered
    <2>4. vault[a].total_underlying
            <= Holdings(a)' + (MaxLoss * moves[a] + MaxLoss * 1)
        BY <1>2, <2>1, <2>2, <2>3
    <2> QED BY <1>1, <1>4, <1>5, <2>4 DEF Covered
<1>6. CASE b # a
    BY <1>1, <1>2, <1>3, <1>4, <1>6, UntouchedStaysCovered
<1> QED BY <1>5, <1>6

LEMMA InitializeStaysCovered ==
    ASSUME TypeOK, MovesCounted, Solvent,
           NEW a \in Admins, InitializeVault(a), UNCHANGED moves, NEW b \in Admins
    PROVE  Covered(b)'
<1>1. \A c \in Admins : Holdings(c)' = Holdings(c)
    BY HoldingsKept DEF InitializeVault, funds
<1>2. Covered(b)
    BY DEF Solvent, Covered
<1>3. CASE b = a
    <2>1. vault'[a].total_underlying = 0
        BY DEF InitializeVault, TypeOK, NewVault
    <2> QED BY <1>1, <1>3, <2>1, CoveredParts DEF Covered
<1>4. CASE b # a
    <2>1. vault'[b] = vault[b]
        BY <1>4 DEF InitializeVault, TypeOK
    <2> QED BY <1>1, <1>2, <2>1, UntouchedStaysCovered
<1> QED BY <1>3, <1>4

LEMMA AccrueStaysCovered ==
    ASSUME TypeOK, MovesCounted, Solvent,
           NEW m \in Markets, Accrue(m), UNCHANGED moves, NEW b \in Admins
    PROVE  Covered(b)'
<1>1. UNCHANGED vault
    BY DEF Accrue, accounts
<1>2. Holdings(b)' \in Nat /\ Holdings(b) <= Holdings(b)'
    BY AccrueRaisesWorth
<1>3. vault[b].total_underlying <= Holdings(b) + MaxLoss * moves[b]
    BY DEF Solvent
<1> QED BY <1>1, <1>2, <1>3, CoveredParts DEF Covered

LEMMA NextStaysSolvent ==
    ASSUME TypeOK, PricesBounded, MovesCounted, Solvent,
           [SolvencyNext]_solvencyVars
    PROVE  Solvent'
<1> SUFFICES ASSUME NEW b \in Admins PROVE Covered(b)'
    BY DEF Solvent, Covered
<1>1. ASSUME NEW a \in Admins, InitializeVault(a), UNCHANGED moves
      PROVE  Covered(b)'
    BY <1>1, InitializeStaysCovered
<1>2. ASSUME NEW a \in Admins, NEW x \in Amounts, Lend(a, x)
      PROVE  Covered(b)'
    BY <1>2, LendStaysCovered
<1>3. ASSUME NEW a \in Admins, NEW u \in Users, NEW x \in Amounts,
             Deposit(u, a, x), UNCHANGED moves
      PROVE  Covered(b)'
    BY <1>3, DepositStaysCovered
<1>4. ASSUME NEW a \in Admins, NEW u \in Users, NEW x \in Amounts,
             Withdraw(u, a, x), Moved(a, 2)
      PROVE  Covered(b)'
    BY <1>4, WithdrawStaysCovered
<1>5. ASSUME NEW m \in Markets, Accrue(m), UNCHANGED moves
      PROVE  Covered(b)'
    BY <1>5, AccrueStaysCovered
<1>6. ASSUME UNCHANGED solvencyVars
      PROVE  Covered(b)'
    <2>1. UNCHANGED <<vault, moves, idle, tokens, price>>
        BY <1>6 DEF solvencyVars, vars
    <2>2. Covered(b)
        BY DEF Solvent, Covered
    <2> QED BY <2>1, <2>2, HoldingsKept, UntouchedStaysCovered
<1> QED BY <1>1, <1>2, <1>3, <1>4, <1>5, <1>6 DEF SolvencyNext, MarketNext

(***************************************************************************)
(* The vault can cover what its books claim, up to MaxLoss for each market *)
(* call made: for every number of users and vaults, every price within the *)
(* bound and every rate withdraw may decode.                               *)
(***************************************************************************)
THEOREM VaultsStaySolvent == SolvencySpec => []Solvent
<1>1. SolvencyInit => MovesCounted
    BY DEF SolvencyInit, MovesCounted
<1>2. Init => TypeOK
    BY InitTypeOK
<1>3. SolvencyInit => Solvent
    <2> SUFFICES ASSUME SolvencyInit, NEW a \in Admins PROVE Covered(a)
        BY DEF Solvent, Covered
    <2>1. TypeOK /\ MovesCounted
        BY <1>1, <1>2 DEF SolvencyInit
    <2>2. vault[a].total_underlying = 0
        BY DEF SolvencyInit, Init, NewVault
    <2> QED BY <2>1, <2>2, CoveredParts DEF Covered
<1>4. SolvencySpec => []MovesCounted
    BY <1>1, MovesStayCounted, PTL DEF SolvencySpec
<1>5. SolvencySpec => []TypeOK /\ []PricesBounded
    BY SolvencyIsOfTheProgram, TypeCorrect, PricesStayInBounds
<1> QED BY <1>3, <1>4, <1>5, NextStaysSolvent, PTL DEF SolvencySpec

-----------------------------------------------------------------------------
(* The shares.                                                             *)

\* The same where the market calls are counted, as the runs check it.
THEOREM SharesAreBackedWhenCounted == SolvencySpec => []ShareBacking
BY SharesAreBacked, SolvencyIsOfTheProgram
=============================================================================
