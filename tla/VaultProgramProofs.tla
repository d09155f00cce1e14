------------------------- MODULE VaultProgramProofs -------------------------
(***************************************************************************)
(* Proofs about the on-chain program, for every number of admins and       *)
(* users, every width of the integers, every market price and whatever the *)
(* admin writes with sync_vault_state: that its accounts fit, and what the *)
(* users hold of the vaults.  The second is argued from OnlyDepositsMint,  *)
(* which the bot's and the client's steps satisfy too.                     *)
(***************************************************************************)
EXTENDS VaultAudit, FiniteSetTheorems, TLAPS

-----------------------------------------------------------------------------
(* The arithmetic the program's definitions are built from.                *)

\* A quotient of naturals is a natural, and multiplied back is no larger.
LEMMA DivisionRoundsDown ==
    ASSUME NEW x \in Nat, NEW y \in Nat \ {0}
    PROVE  x \div y \in Nat /\ (x \div y) * y <= x
OBVIOUS

\* A product of naturals is a natural.
LEMMA ProductOfNaturals ==
    ASSUME NEW x \in Nat, NEW y \in Nat
    PROVE  x * y \in Nat
OBVIOUS

\* Multiplying keeps the order of naturals.
LEMMA ProductKeepsOrder ==
    ASSUME NEW x \in Nat, NEW y \in Nat, NEW z \in Nat, x <= y
    PROVE  x * z <= y * z
OBVIOUS

\* u64 values are naturals.
LEMMA U64IsNat == U64 \subseteq Nat
BY U64MaxAssumption DEF U64

\* So are u16 values; nothing and half of the allocation scale are some.
LEMMA HalfFits == U16 \subseteq Nat /\ 0 \in U16 /\ 5000 \in U16
<1>1. U16Max \in Nat /\ 0 <= U16Max /\ 5000 <= U16Max
    BY DEF U16Max
<1> QED BY <1>1 DEF U16

\* So are the amounts passed to instructions.
LEMMA AmountsAreNat == Amounts \subseteq Nat
BY U64IsNat, VaultConstantsAssumption

\* The cast to u64 yields a u64, and never a larger number.
LEMMA CastFits ==
    ASSUME NEW x \in Nat
    PROVE  AsU64(x) \in U64 /\ AsU64(x) <= x
BY U64MaxAssumption DEF AsU64, U64

\* A saturating subtraction of a natural from a u64 is a u64.
LEMMA SaturatingSubFits ==
    ASSUME NEW x \in U64, NEW y \in Nat
    PROVE  SaturatingSub(x, y) \in U64
BY U64MaxAssumption DEF SaturatingSub, U64

\* Between naturals it is a natural.
LEMMA SaturatingSubNat ==
    ASSUME NEW x \in Nat, NEW y \in Nat
    PROVE  SaturatingSub(x, y) \in Nat
BY DEF SaturatingSub

-----------------------------------------------------------------------------
(* What the program's helpers return.                                      *)

\* The prices are positive u64 values.
LEMMA PricesArePositive ==
    /\ PriceScale \in U64 \ {0}
    /\ Prices \subseteq U64 \ {0}
<1>1. PriceScale \in 1 .. MaxPrice /\ Prices \subseteq 1 .. MaxPrice
    BY VaultConstantsAssumption
<1>2. 1 .. MaxPrice \subseteq U64 \ {0}
    BY VaultConstantsAssumption, U64MaxAssumption DEF U64
<1> QED BY <1>1, <1>2

\* What a market mints and what it pays are naturals.
LEMMA MarketAmounts ==
    ASSUME TypeOK, NEW m \in Markets, NEW x \in Nat
    PROVE  MintedFor(m, x) \in Nat /\ RedeemedFor(m, x) \in Nat
<1>1. price[m] \in Nat \ {0} /\ PriceScale \in Nat \ {0}
    BY PricesArePositive, U64IsNat DEF TypeOK
<1>2. x * PriceScale \in Nat /\ x * price[m] \in Nat
    BY <1>1, ProductOfNaturals
<1> QED BY <1>1, <1>2, DivisionRoundsDown DEF MintedFor, RedeemedFor

\* The part of an amount that an allocation gives is a u64.
LEMMA ShareOfFits ==
    ASSUME NEW amount \in U64, NEW allocation \in U16
    PROVE  ShareOf(amount, allocation) \in U64
<1>1. amount * allocation \in Nat
    BY U64IsNat, HalfFits, ProductOfNaturals
<1>2. (amount * allocation) \div AllocationScale \in Nat
    BY <1>1, DivisionRoundsDown DEF AllocationScale
<1> QED BY <1>2, CastFits DEF ShareOf

\* What a withdrawal wants redeemed is a u64, if the rate is not zero.
LEMMA TokensForFits ==
    ASSUME NEW usdc \in U64, NEW rate \in Nat \ {0}
    PROVE  TokensFor(usdc, rate) \in U64
<1>1. usdc * TokenUnit \in Nat
    BY U64IsNat, ProductOfNaturals, VaultConstantsAssumption
<1> QED BY <1>1, DivisionRoundsDown, CastFits DEF TokensFor

\* The Vault account a withdrawal writes has the program's widths.
LEMMA AfterWithdrawFits ==
    ASSUME NEW v \in Vault, NEW amount \in U64
    PROVE  AfterWithdraw(v, amount) \in Vault
<1> DEFINE jup    == ShareOf(amount, v.jup_allocation)
           kamino == ShareOf(amount, v.kamino_allocation)
           after  == SaturatingSub(v.total_underlying, amount)
           yield  == SaturatingSub(v.total_underlying, after)
           accInc == IF yield > 0 /\ v.total_shares > 0
                     THEN (yield * AccScaler) \div v.total_shares
                     ELSE 0
<1>1. jup \in U64 /\ kamino \in U64
    BY ShareOfFits DEF Vault
<1>2. after \in U64 /\ yield \in U64
    BY SaturatingSubFits, U64IsNat DEF Vault
<1>3. accInc \in Nat
    <2>1. yield * AccScaler \in Nat
        BY <1>2, U64IsNat, ProductOfNaturals, VaultConstantsAssumption
    <2>2. v.total_shares \in Nat
        BY U64IsNat DEF Vault
    <2> QED BY <2>1, <2>2, DivisionRoundsDown
<1>4. AsU64(v.acc_per_share + accInc) \in U64
    <2>1. v.acc_per_share \in Nat
        BY U64IsNat DEF Vault
    <2> HIDE DEF accInc
    <2>2. v.acc_per_share + accInc \in Nat
        BY <1>3, <2>1
    <2> QED BY <2>2, CastFits
<1>5. /\ SaturatingSub(v.jup_lend_balance, jup) \in U64
      /\ SaturatingSub(v.kamino_balance, kamino) \in U64
      /\ SaturatingSub(v.last_jup_value, jup) \in U64
      /\ SaturatingSub(v.last_kamino_value, kamino) \in U64
    BY <1>1, SaturatingSubFits, U64IsNat DEF Vault
<1> HIDE DEF jup, kamino, after, yield, accInc
<1>6. [v EXCEPT !.acc_per_share     = AsU64(@ + accInc),
                !.jup_lend_balance  = SaturatingSub(@, jup),
                !.kamino_balance    = SaturatingSub(@, kamino),
                !.total_underlying  = after,
                !.last_jup_value    = SaturatingSub(@, jup),
                !.last_kamino_value = SaturatingSub(@, kamino)] \in Vault
    BY <1>2, <1>4, <1>5 DEF Vault
<1> QED BY <1>6 DEF AfterWithdraw, jup, kamino, after, yield, accInc

\* A deposit mints a natural number of shares.
LEMMA SharesToMintIsNat ==
    ASSUME TypeOK, NEW a \in Admins, NEW amount \in U64
    PROVE  SharesToMint(a, amount) \in Nat
<1>1. /\ vault[a].total_shares \in Nat
      /\ vault[a].total_underlying \in Nat
      /\ amount \in Nat
    BY U64IsNat DEF TypeOK, Vault
<1>2. amount * vault[a].total_shares \in Nat
    BY <1>1, ProductOfNaturals
<1>3. ASSUME vault[a].total_underlying # 0
      PROVE  AsU64((amount * vault[a].total_shares) \div vault[a].total_underlying)
               \in Nat
    BY <1>1, <1>2, <1>3, DivisionRoundsDown, CastFits, U64IsNat
<1> QED BY <1>1, <1>3 DEF SharesToMint

\* The checkpointed position has the program's widths, except that its
\* pending rewards are only known to be a natural.
LEMMA CheckpointedFields ==
    ASSUME TypeOK, NEW u \in Users, NEW a \in Admins, NEW amount \in U64
    PROVE  LET new == Checkpointed(u, a, amount)
           IN  /\ new \in [vault : Admins \cup {NoVault}, shares : U64,
                           reward_debt : Nat, pending_rewards : Nat]
               /\ new.shares = position[u].shares
<1>1. /\ position[u] \in UserPosition
      /\ position[u].shares \in Nat
      /\ vault[a].acc_per_share \in Nat
      /\ amount \in Nat
    BY U64IsNat DEF TypeOK, Vault, UserPosition
<1>2. /\ amount * vault[a].acc_per_share \in Nat
      /\ position[u].shares * vault[a].acc_per_share \in Nat
    BY <1>1, ProductOfNaturals
<1>3. AsU64(Pending(u, a)) \in Nat
    <2>1. Pending(u, a) \in Nat
        BY <1>1, <1>2, SaturatingSubNat DEF Pending, UserPosition
    <2> QED BY <2>1, CastFits, U64IsNat
<1>4. position[u].pending_rewards + AsU64(Pending(u, a)) \in Nat
    <2>1. position[u].pending_rewards \in Nat
        BY <1>1, U64IsNat DEF UserPosition
    <2> QED BY <1>3, <2>1
<1>5. CASE position[u].shares = 0
    <2>1. 0 \in U64
        BY U64MaxAssumption DEF U64
    <2> QED BY <1>2, <1>5, <2>1 DEF Checkpointed
<1>6. CASE position[u].shares # 0
    <2>1. Checkpointed(u, a, amount) =
             [position[u] EXCEPT
                !.reward_debt = position[u].shares * vault[a].acc_per_share,
                !.pending_rewards = @ + AsU64(Pending(u, a))]
        BY <1>6 DEF Checkpointed
    <2> QED BY <1>1, <1>2, <1>4, <2>1 DEF UserPosition
<1> QED BY <1>5, <1>6

-----------------------------------------------------------------------------
(* Type correctness: one step per instruction.                             *)

LEMMA InitTypeOK == Init => TypeOK
<1> SUFFICES ASSUME Init PROVE TypeOK
    OBVIOUS
<1>1. 0 \in U64
    BY U64MaxAssumption DEF U64
<1>2. NewVault \in Vault
    BY <1>1, HalfFits DEF NewVault, Vault
<1>3. NewPosition \in UserPosition
    BY <1>1 DEF NewPosition, UserPosition
<1> QED BY <1>1, <1>2, <1>3, PricesArePositive, VaultConstantsAssumption
        DEF Init, TypeOK, Markets

\* Supplying a market keeps the two sides of the transfer in their widths.
LEMMA SupplyTypeOK ==
    ASSUME TypeOK, NEW m \in Markets, NEW a \in Admins, NEW x \in Nat,
           Supply(m, a, x), UNCHANGED <<accounts, wallet, price>>
    PROVE  TypeOK'
<1>1. idle[a] - x \in U64
    BY U64MaxAssumption DEF TypeOK, Supply, CanSupply, U64
<1>2. tokens[m][a] + MintedFor(m, x) \in U64
    BY DEF Supply, CanSupply
<1>3. idle' \in [Admins -> U64]
    BY <1>1 DEF TypeOK, Supply
<1>4. tokens' \in [Markets -> [Admins -> U64]]
    <2>1. tokens' = [tokens EXCEPT ![m] =
                       [tokens[m] EXCEPT ![a] = tokens[m][a] + MintedFor(m, x)]]
        BY DEF TypeOK, Supply
    <2>2. [tokens[m] EXCEPT ![a] = tokens[m][a] + MintedFor(m, x)]
             \in [Admins -> U64]
        BY <1>2 DEF TypeOK
    <2> QED BY <2>1, <2>2 DEF TypeOK
<1> QED BY <1>3, <1>4 DEF TypeOK, accounts

\* So does redeeming from it.
LEMMA RedeemTypeOK ==
    ASSUME TypeOK, NEW m \in Markets, NEW a \in Admins, NEW x \in Nat,
           Redeem(m, a, x), UNCHANGED <<accounts, wallet, price>>
    PROVE  TypeOK'
<1>1. tokens[m][a] - x \in U64
    BY U64MaxAssumption DEF TypeOK, Redeem, CanRedeem, U64
<1>2. idle[a] + RedeemedFor(m, x) \in U64
    BY DEF Redeem, CanRedeem
<1>3. idle' \in [Admins -> U64]
    BY <1>2 DEF TypeOK, Redeem
<1>4. tokens' \in [Markets -> [Admins -> U64]]
    <2>1. tokens' = [tokens EXCEPT ![m] =
                       [tokens[m] EXCEPT ![a] = tokens[m][a] - x]]
        BY DEF TypeOK, Redeem
    <2>2. [tokens[m] EXCEPT ![a] = tokens[m][a] - x] \in [Admins -> U64]
        BY <1>1 DEF TypeOK
    <2> QED BY <2>1, <2>2 DEF TypeOK
<1> QED BY <1>3, <1>4 DEF TypeOK, accounts

LEMMA DepositTypeOK ==
    ASSUME TypeOK, NEW u \in Users, NEW a \in Admins, NEW amount \in Amounts,
           Deposit(u, a, amount)
    PROVE  TypeOK'
<1> DEFINE minted == SharesToMint(a, amount)
           new    == [Checkpointed(u, a, amount) EXCEPT !.shares = @ + minted]
<1>1. amount \in U64
    BY VaultConstantsAssumption
<1>2. minted \in Nat
    BY <1>1, SharesToMintIsNat
<1>3. new \in UserPosition
    <2>1. Checkpointed(u, a, amount) \in
             [vault : Admins \cup {NoVault}, shares : U64,
              reward_debt : Nat, pending_rewards : Nat]
        BY <1>1, CheckpointedFields
    <2>2. new.shares \in U64 /\ new.pending_rewards \in U64
        BY DEF Deposit
    <2> HIDE DEF minted
    <2> QED BY <2>1, <2>2 DEF UserPosition
<1>4. position' \in [Users -> UserPosition]
    <2>1. position' = [position EXCEPT ![u] = new]
        BY DEF Deposit
    <2> HIDE DEF new
    <2> QED BY <1>3, <2>1 DEF TypeOK
<1>5. vault' \in [Admins -> Vault]
    <2> DEFINE v == [vault[a] EXCEPT !.total_shares = @ + minted,
                                     !.total_underlying = @ + amount]
    <2>1. /\ vault[a].total_shares + minted \in U64
          /\ vault[a].total_underlying + amount \in U64
        BY DEF Deposit
    <2>2. v \in Vault
        BY <2>1 DEF TypeOK, Vault
    <2>3. vault' = [vault EXCEPT ![a] = v]
        BY DEF Deposit, TypeOK
    <2> HIDE DEF v
    <2> QED BY <2>2, <2>3 DEF TypeOK
<1>6. wallet' \in [Users -> U64]
    <2>1. wallet[u] - amount \in U64
        BY <1>1, U64MaxAssumption DEF TypeOK, Deposit, U64
    <2> QED BY <2>1 DEF TypeOK, Deposit
<1>7. idle' \in [Admins -> U64]
    BY DEF TypeOK, Deposit
<1> QED BY <1>4, <1>5, <1>6, <1>7 DEF TypeOK, Deposit

LEMMA SyncVaultStateTypeOK ==
    ASSUME TypeOK, NEW a \in Admins, NEW args \in SyncVaultStateArgs,
           SyncVaultState(a, args)
    PROVE  TypeOK'
<1> DEFINE v == [vault[a] EXCEPT
                   !.jup_allocation    = args.new_jup_allocation,
                   !.kamino_allocation = args.new_kamino_allocation,
                   !.jup_lend_balance  = args.new_jup_lend_balance,
                   !.kamino_balance    = args.new_kamino_balance,
                   !.acc_per_share     = args.new_acc_per_share,
                   !.total_underlying  = args.new_total_underlying,
                   !.last_jup_value    = args.new_jup_value,
                   !.last_kamino_value = args.new_kamino_value]
<1>1. v \in Vault
    BY DEF TypeOK, Vault, SyncVaultStateArgs
<1>2. vault' = [vault EXCEPT ![a] = v]
    BY DEF SyncVaultState, TypeOK
<1>3. vault' \in [Admins -> Vault]
    <2> HIDE DEF v
    <2> QED BY <1>1, <1>2 DEF TypeOK
<1> QED BY <1>3 DEF SyncVaultState, TypeOK, funds

\* A withdrawal redeems some tokens the vault has of each market, and pays.
LEMMA WithdrawParts ==
    ASSUME TypeOK, NEW u \in Users, NEW a \in Admins, NEW amount \in Amounts,
           Withdraw(u, a, amount)
    PROVE  \E jup \in U64, kamino \in U64 :
              /\ jup <= tokens["jup"][a] /\ kamino <= tokens["kamino"][a]
              /\ tokens' = [tokens EXCEPT !["jup"][a] = @ - jup,
                                          !["kamino"][a] = @ - kamino]
              /\ Payout(u, a, RedeemedFor("jup", jup)
                                + RedeemedFor("kamino", kamino), amount)
              /\ vault' = [vault EXCEPT ![a] = AfterWithdraw(@, amount)]
              /\ UNCHANGED <<opened, position, price>>
<1> DEFINE jupTokens == TokensFor(ShareOf(amount, vault[a].jup_allocation),
                                  JupExchangeRate)
           kaminoTokens(r) == TokensFor(ShareOf(amount, vault[a].kamino_allocation),
                                        KaminoExchangeRate(r))
<1>1. PICK r \in ReserveReadings :
          /\ JupExchangeRate # 0
          /\ r.mint_total_supply # 0
          /\ KaminoExchangeRate(r) # 0
          /\ jupTokens <= tokens["jup"][a]
          /\ kaminoTokens(r) <= tokens["kamino"][a]
          /\ tokens' = [tokens EXCEPT !["jup"][a] = @ - jupTokens,
                                      !["kamino"][a] = @ - kaminoTokens(r)]
          /\ Payout(u, a, RedeemedFor("jup", jupTokens)
                            + RedeemedFor("kamino", kaminoTokens(r)), amount)
          /\ vault' = [vault EXCEPT ![a] = AfterWithdraw(@, amount)]
          /\ UNCHANGED <<opened, position, price>>
    BY DEF Withdraw
<1>2. amount \in U64 /\ vault[a] \in Vault
    BY VaultConstantsAssumption DEF TypeOK
<1>3. /\ ShareOf(amount, vault[a].jup_allocation) \in U64
      /\ ShareOf(amount, vault[a].kamino_allocation) \in U64
    BY <1>2, ShareOfFits DEF Vault
<1>4. JupExchangeRate \in Nat \ {0}
    <2>1. price["jup"] \in Nat
        BY U64IsNat DEF TypeOK, Markets
    <2> QED BY <1>1, <2>1, DivisionRoundsDown, VaultConstantsAssumption
            DEF JupExchangeRate
<1>5. KaminoExchangeRate(r) \in Nat \ {0}
    <2>1. r.available_amount \in Nat /\ r.mint_total_supply \in Nat \ {0}
        BY <1>1, U64IsNat, VaultConstantsAssumption DEF Reserve
    <2>2. r.available_amount * TokenUnit \in Nat
        BY <2>1, ProductOfNaturals, VaultConstantsAssumption
    <2> QED BY <1>1, <2>1, <2>2, DivisionRoundsDown DEF KaminoExchangeRate
<1>6. jupTokens \in U64 /\ kaminoTokens(r) \in U64
    BY <1>3, <1>4, <1>5, TokensForFits
<1> HIDE DEF jupTokens, kaminoTokens
<1> QED BY <1>1, <1>6

LEMMA WithdrawTypeOK ==
    ASSUME TypeOK, NEW u \in Users, NEW a \in Admins, NEW amount \in Amounts,
           Withdraw(u, a, amount)
    PROVE  TypeOK'
<1>1. PICK jup \in U64, kamino \in U64 :
          /\ jup <= tokens["jup"][a] /\ kamino <= tokens["kamino"][a]
          /\ tokens' = [tokens EXCEPT !["jup"][a] = @ - jup,
                                      !["kamino"][a] = @ - kamino]
          /\ Payout(u, a, RedeemedFor("jup", jup)
                            + RedeemedFor("kamino", kamino), amount)
          /\ vault' = [vault EXCEPT ![a] = AfterWithdraw(@, amount)]
          /\ UNCHANGED <<opened, position, price>>
    BY WithdrawParts
<1>2. amount \in U64 /\ vault[a] \in Vault
    BY VaultConstantsAssumption DEF TypeOK
<1>3. tokens' \in [Markets -> [Admins -> U64]]
    <2>1. tokens["jup"][a] - jup \in U64 /\ tokens["kamino"][a] - kamino \in U64
        BY <1>1, U64MaxAssumption DEF TypeOK, Markets, U64
    <2>2. tokens' = [m \in Markets |->
                       IF m = "jup"
                       THEN [tokens["jup"] EXCEPT ![a] = tokens["jup"][a] - jup]
                       ELSE [tokens["kamino"] EXCEPT ![a] =
                               tokens["kamino"][a] - kamino]]
        BY <1>1 DEF TypeOK, Markets
    <2>3. /\ [tokens["jup"] EXCEPT ![a] = tokens["jup"][a] - jup]
                \in [Admins -> U64]
          /\ [tokens["kamino"] EXCEPT ![a] = tokens["kamino"][a] - kamino]
                \in [Admins -> U64]
        BY <2>1 DEF TypeOK, Markets
    <2> QED BY <2>2, <2>3
<1> DEFINE redeemed == RedeemedFor("jup", jup) + RedeemedFor("kamino", kamino)
           left     == idle[a] + redeemed - amount
<1>4. idle' \in [Admins -> U64]
    <2>1. idle[a] + redeemed \in U64 /\ amount <= idle[a] + redeemed
        BY <1>1 DEF Payout
    <2>2. idle' = [idle EXCEPT ![a] = left]
        BY <1>1 DEF Payout
    <2>3. idle[a] \in Nat /\ redeemed \in Nat
        <3>1. idle[a] \in Nat
            BY U64IsNat DEF TypeOK
        <3>2. RedeemedFor("jup", jup) \in Nat /\ RedeemedFor("kamino", kamino) \in Nat
            BY U64IsNat, MarketAmounts DEF Markets
        <3> QED BY <3>1, <3>2
    <2> HIDE DEF redeemed
    <2>4. left \in U64
        BY <1>2, <2>1, <2>3, U64IsNat, U64MaxAssumption DEF U64
    <2> HIDE DEF left
    <2> QED BY <2>2, <2>4 DEF TypeOK
<1>5. wallet' \in [Users -> U64]
    BY <1>1 DEF TypeOK, Payout
<1>6. vault' \in [Admins -> Vault]
    BY <1>1, <1>2, AfterWithdrawFits DEF TypeOK
<1> QED BY <1>1, <1>3, <1>4, <1>5, <1>6 DEF TypeOK

\* A new vault holds zeroes and the even split.
LEMMA InitializeVaultTypeOK ==
    ASSUME TypeOK, NEW a \in Admins, InitializeVault(a)
    PROVE  TypeOK'
<1>1. NewVault \in Vault
    BY HalfFits, U64MaxAssumption DEF NewVault, Vault, U64
<1> QED BY <1>1 DEF InitializeVault, TypeOK, funds

LEMMA AccrueTypeOK ==
    ASSUME TypeOK, NEW m \in Markets, Accrue(m)
    PROVE  TypeOK'
BY PricesArePositive DEF TypeOK, Accrue, accounts, funds

LEMMA NextTypeOK ==
    ASSUME TypeOK, [Next]_vars
    PROVE  TypeOK'
<1>1. ASSUME NEW u \in Users, NEW a \in Admins, NEW x \in Amounts,
             Deposit(u, a, x)
      PROVE  TypeOK'
    BY <1>1, DepositTypeOK
<1>2. ASSUME NEW u \in Users, NEW a \in Admins, NEW x \in Amounts,
             Withdraw(u, a, x)
      PROVE  TypeOK'
    BY <1>2, WithdrawTypeOK
<1>3. ASSUME NEW a \in Admins, InitializeVault(a)
      PROVE  TypeOK'
    BY <1>3, InitializeVaultTypeOK
<1>4. ASSUME NEW a \in Admins, NEW x \in Amounts,
             JupDeposit(a, x) \/ KaminoDeposit(a, x)
      PROVE  TypeOK'
    BY <1>4, AmountsAreNat, SupplyTypeOK DEF JupDeposit, KaminoDeposit, Markets
<1>5. ASSUME NEW a \in Admins, NEW x \in Amounts,
             JupWithdraw(a, x) \/ KaminoWithdraw(a, x)
      PROVE  TypeOK'
    BY <1>5, AmountsAreNat, RedeemTypeOK DEF JupWithdraw, KaminoWithdraw, Markets
<1>6. ASSUME NEW a \in Admins, NEW args \in SyncArgs, SyncVaultState(a, args)
      PROVE  TypeOK'
    BY <1>6, VaultConstantsAssumption, SyncVaultStateTypeOK
<1>7. ASSUME NEW m \in Markets, Accrue(m)
      PROVE  TypeOK'
    BY <1>7, AccrueTypeOK
<1>8. CASE UNCHANGED vars
    BY <1>8 DEF TypeOK, vars
<1> QED BY <1>1, <1>2, <1>3, <1>4, <1>5, <1>6, <1>7, <1>8
        DEF Next, UserNext, AdminNext, MarketNext

(***************************************************************************)
(* Every account field stays in the width the program stores it in,        *)
(* whatever the instructions compute and whatever an admin writes: the     *)
(* guards and casts of the program are enough.                             *)
(***************************************************************************)
THEOREM TypeCorrect == Spec => []TypeOK
BY InitTypeOK, NextTypeOK, PTL DEF Spec

-----------------------------------------------------------------------------
(* What steps do to shares.  Only a deposit issues any; every other step   *)
(* keeps the positions and the shares of the vaults.  Composed systems     *)
(* show this of their steps and have the rest from here.                   *)

\* A vault that was never opened has issued nothing.
UnopenedIssuedNothing == \A a \in Admins \ opened : vault[a].total_shares = 0

SharesKept ==
    /\ UNCHANGED position
    /\ \A a \in Admins : vault'[a].total_shares = vault[a].total_shares
    /\ opened \subseteq opened'

DepositMade == \E u \in Users, a \in Admins, x \in Amounts : Deposit(u, a, x)

OnlyDepositsMint == DepositMade \/ SharesKept

\* Nothing but a deposit issues shares, and a vault opens without any.
LEMMA OthersKeepShares ==
    ASSUME TypeOK, UnopenedIssuedNothing, Next,
           ~ DepositMade
    PROVE  SharesKept
<1>1. ASSUME NEW u \in Users, NEW a \in Admins, NEW x \in Amounts, Withdraw(u, a, x)
      PROVE  SharesKept
    <2>1. /\ vault' = [vault EXCEPT ![a] = AfterWithdraw(@, x)]
          /\ UNCHANGED <<opened, position>>
        BY <1>1 DEF Withdraw
    <2>2. AfterWithdraw(vault[a], x).total_shares = vault[a].total_shares
        BY DEF AfterWithdraw, TypeOK, Vault
    <2> QED BY <2>1, <2>2 DEF TypeOK, SharesKept
<1>2. ASSUME NEW a \in Admins, InitializeVault(a)
      PROVE  SharesKept
    <2>1. vault[a].total_shares = 0
        BY <1>2 DEF InitializeVault, UnopenedIssuedNothing
    <2> QED BY <1>2, <2>1 DEF InitializeVault, NewVault, TypeOK, SharesKept
<1>3. ASSUME NEW a \in Admins, NEW args \in SyncArgs, SyncVaultState(a, args)
      PROVE  SharesKept
    <2>1. \A b \in Admins : vault'[b].total_shares = vault[b].total_shares
        BY <1>3 DEF SyncVaultState, TypeOK, Vault
    <2> QED BY <1>3, <2>1 DEF SyncVaultState, SharesKept
<1>4. ASSUME UNCHANGED accounts
      PROVE  SharesKept
    BY <1>4 DEF accounts, SharesKept
<1>5. ASSUME NEW a \in Admins, NEW x \in Amounts,
             JupDeposit(a, x) \/ KaminoDeposit(a, x)
               \/ JupWithdraw(a, x) \/ KaminoWithdraw(a, x)
      PROVE  SharesKept
    BY <1>4, <1>5 DEF JupDeposit, KaminoDeposit, JupWithdraw, KaminoWithdraw
<1>6. ASSUME NEW m \in Markets, Accrue(m)
      PROVE  SharesKept
    BY <1>4, <1>6 DEF Accrue
<1> QED BY <1>1, <1>2, <1>3, <1>5, <1>6 DEF DepositMade, Next, UserNext, AdminNext, MarketNext

LEMMA NextOnlyDepositsMint ==
    ASSUME TypeOK, UnopenedIssuedNothing, [Next]_vars
    PROVE  OnlyDepositsMint
<1>1. CASE UNCHANGED vars
    BY <1>1 DEF vars, SharesKept, OnlyDepositsMint
<1> QED BY <1>1, OthersKeepShares DEF OnlyDepositsMint

-----------------------------------------------------------------------------
(* Minting never dilutes.                                                  *)

\* What a deposit mints is worth no more, in the books, than what it brings.
LEMMA SharesToMintIsFair ==
    ASSUME TypeOK, NEW a \in Admins, NEW amount \in U64,
           vault[a].total_shares # 0
    PROVE  SharesToMint(a, amount) * vault[a].total_underlying
             <= amount * vault[a].total_shares
<1> DEFINE S == vault[a].total_shares
           T == vault[a].total_underlying
<1>1. S \in Nat /\ T \in Nat /\ amount \in Nat
    BY U64IsNat DEF TypeOK, Vault
<1>2. amount * S \in Nat
    BY <1>1, ProductOfNaturals
<1>3. CASE T = 0
    <2>1. SharesToMint(a, amount) \in Nat
        BY SharesToMintIsNat
    <2>2. SharesToMint(a, amount) * T = 0
        BY <1>3, <2>1
    <2> QED BY <1>2, <2>2
<1>4. CASE T # 0
    <2> DEFINE q == (amount * S) \div T
    <2>1. q \in Nat /\ q * T <= amount * S
        BY <1>1, <1>2, <1>4, DivisionRoundsDown
    <2>2. AsU64(q) \in Nat /\ AsU64(q) <= q
        BY <2>1, CastFits, U64IsNat
    <2>3. SharesToMint(a, amount) = AsU64(q)
        BY <1>4 DEF SharesToMint
    <2> HIDE DEF q, S, T
    <2>4. AsU64(q) * T <= q * T
        BY <1>1, <2>1, <2>2, ProductKeepsOrder
    <2>5. AsU64(q) * T \in Nat /\ q * T \in Nat
        BY <1>1, <2>1, <2>2, ProductOfNaturals
    <2>6. AsU64(q) * T <= amount * S
        BY <1>2, <2>1, <2>4, <2>5
    <2> QED BY <2>3, <2>6 DEF S, T
<1> QED BY <1>3, <1>4

\* Adding m shares for x to S shares for T is fair if m is worth at most x.
LEMMA FairAddition ==
    ASSUME NEW S \in Nat, NEW T \in Nat, NEW m \in Nat, NEW x \in Nat,
           m * T <= x * S
    PROVE  T * (S + m) <= (T + x) * S
OBVIOUS

LEMMA DepositMintsFairly ==
    ASSUME TypeOK, NEW u \in Users, NEW b \in Admins, NEW x \in Amounts,
           Deposit(u, b, x), NEW a \in Admins
    PROVE  MintsFairly(a)
<1>1. x \in U64
    BY VaultConstantsAssumption
<1> DEFINE S == vault[b].total_shares
           T == vault[b].total_underlying
           m == SharesToMint(b, x)
<1>2. S \in Nat /\ T \in Nat /\ m \in Nat /\ x \in Nat
    BY <1>1, SharesToMintIsNat, U64IsNat DEF TypeOK, Vault
<1>3. CASE a # b
    <2>1. vault'[a] = vault[a]
        BY <1>3 DEF Deposit, TypeOK
    <2>2. vault[a].total_shares \in Nat
        BY U64IsNat DEF TypeOK, Vault
    <2> QED BY <2>1, <2>2 DEF MintsFairly
<1>4. CASE a = b
    <2>1. vault'[b].total_shares = S + m /\ vault'[b].total_underlying = T + x
        <3> DEFINE v == [vault[b] EXCEPT !.total_shares = @ + m,
                                         !.total_underlying = @ + x]
        <3>1. v.total_shares = S + m /\ v.total_underlying = T + x
            BY DEF TypeOK, Vault
        <3>2. vault' = [vault EXCEPT ![b] = v]
            BY DEF Deposit, TypeOK
        <3>3. vault'[b] = v
            <4> HIDE DEF v
            <4> QED BY <3>2 DEF TypeOK
        <3> QED BY <3>1, <3>3
    <2>2. ASSUME S > 0
          PROVE  m * T <= x * S
        BY <1>1, <1>2, <2>2, SharesToMintIsFair
    <2>3. ASSUME S > 0
          PROVE  T * (S + m) <= (T + x) * S
        <3> HIDE DEF S, T, m
        <3> QED BY <1>2, <2>2, <2>3, FairAddition
    <2> QED BY <1>4, <2>1, <2>3 DEF MintsFairly
<1> QED BY <1>3, <1>4

LEMMA MintingIsFair ==
    ASSUME TypeOK, OnlyDepositsMint, NEW a \in Admins
    PROVE  MintsFairly(a)
<1>1. vault[a].total_shares \in Nat
    BY U64IsNat DEF TypeOK, Vault
<1>2. CASE SharesKept
    BY <1>1, <1>2 DEF SharesKept, MintsFairly
<1> QED BY <1>2, DepositMintsFairly DEF OnlyDepositsMint, DepositMade

-----------------------------------------------------------------------------
(* Credited rewards are never lost.  The branch of deposit that starts a   *)
(* position over zeroes its rewards; it is taken at zero shares, so what   *)
(* has to be invariant is that a position without shares has no rewards.   *)

NoSharesNoRewards ==
    \A u \in Users : position[u].shares = 0 => position[u].pending_rewards = 0

\* What a deposit does to the position it is for.
LEMMA DepositedPosition ==
    ASSUME TypeOK, NEW u \in Users, NEW a \in Admins, NEW amount \in Amounts,
           Deposit(u, a, amount)
    PROVE  /\ position'[u].shares \in Nat
           /\ position'[u].shares >= position[u].shares
           /\ position[u].shares = 0 => position'[u].pending_rewards = 0
           /\ position[u].shares # 0 =>
                 position'[u].pending_rewards >= position[u].pending_rewards
<1> DEFINE old    == Checkpointed(u, a, amount)
           minted == SharesToMint(a, amount)
           new    == [old EXCEPT !.shares = @ + minted]
<1>1. amount \in U64
    BY VaultConstantsAssumption
<1>2. minted \in Nat
    BY <1>1, SharesToMintIsNat
<1>3. position[u].shares \in Nat /\ position[u].pending_rewards \in Nat
    BY U64IsNat DEF TypeOK, UserPosition
<1>4. /\ old \in [vault : Admins \cup {NoVault}, shares : U64,
                  reward_debt : Nat, pending_rewards : Nat]
      /\ old.shares = position[u].shares
    BY <1>1, CheckpointedFields
<1>5. position'[u] = new
    <2>1. position' = [position EXCEPT ![u] = new]
        BY DEF Deposit
    <2> HIDE DEF new
    <2> QED BY <2>1 DEF TypeOK
<1>6. new.shares = old.shares + minted /\ new.pending_rewards = old.pending_rewards
    <2> HIDE DEF old, minted
    <2> QED BY <1>4
<1>7. position[u].shares = 0 => old.pending_rewards = 0
    BY DEF Checkpointed
<1>8. ASSUME position[u].shares # 0
      PROVE  old.pending_rewards >= position[u].pending_rewards
    <2>1. AsU64(Pending(u, a)) \in Nat
        <3>1. vault[a].acc_per_share \in Nat /\ position[u].reward_debt \in Nat
            BY U64IsNat DEF TypeOK, Vault, UserPosition
        <3>2. Pending(u, a) \in Nat
            BY <1>3, <3>1, ProductOfNaturals, SaturatingSubNat DEF Pending
        <3> QED BY <3>2, CastFits, U64IsNat
    <2>2. old.pending_rewards =
             position[u].pending_rewards + AsU64(Pending(u, a))
        BY <1>8 DEF Checkpointed, TypeOK, UserPosition
    <2> HIDE DEF old
    <2> QED BY <1>3, <2>1, <2>2
<1> HIDE DEF old, minted, new
<1> QED BY <1>2, <1>3, <1>4, <1>5, <1>6, <1>7, <1>8

\* One position at a time: a step keeps the invariant of it and its rewards.
LEMMA RewardsStay ==
    ASSUME TypeOK, NoSharesNoRewards, OnlyDepositsMint, NEW u \in Users
    PROVE  /\ position'[u].shares = 0 => position'[u].pending_rewards = 0
           /\ position'[u].pending_rewards >= position[u].pending_rewards
<1>1. position[u].shares \in Nat /\ position[u].pending_rewards \in Nat
    BY U64IsNat DEF TypeOK, UserPosition
<1>2. CASE \E a \in Admins, x \in Amounts : Deposit(u, a, x)
    <2>1. PICK a \in Admins, x \in Amounts : Deposit(u, a, x)
        BY <1>2
    <2>2. CASE position[u].shares = 0
        BY <1>1, <2>1, <2>2, DepositedPosition DEF NoSharesNoRewards
    <2>3. CASE position[u].shares # 0
        BY <1>1, <2>1, <2>3, DepositedPosition
    <2> QED BY <2>2, <2>3
<1>3. CASE \E w \in Users, a \in Admins, x \in Amounts : w # u /\ Deposit(w, a, x)
    <2>1. position'[u] = position[u]
        BY <1>3 DEF Deposit, TypeOK
    <2> QED BY <1>1, <2>1 DEF NoSharesNoRewards
<1>4. CASE SharesKept
    BY <1>1, <1>4 DEF NoSharesNoRewards, SharesKept
<1> QED BY <1>2, <1>3, <1>4 DEF OnlyDepositsMint, DepositMade

-----------------------------------------------------------------------------
(* Shares are backed.  They are counted one by one: adding to one account  *)
(* adds as many units to the whole, so no sum over the users is needed.    *)

\* Raising one amount by n adds n units.
LEMMA UnitsAdded ==
    ASSUME NEW S, NEW f \in [S -> Nat], NEW g \in [S -> Nat], NEW x \in S, NEW n \in Nat,
           IsFiniteSet(Units(f)),
           g[x] = f[x] + n, \A y \in S \ {x} : g[y] = f[y]
    PROVE  /\ IsFiniteSet(Units(g))
           /\ Cardinality(Units(g)) = Cardinality(Units(f)) + n
<1> DEFINE New == {x} \X ((f[x] + 1) .. (f[x] + n))
<1>1. f[x] \in Nat /\ DOMAIN f = S /\ DOMAIN g = S
    OBVIOUS
<1>2. Units(g) = Units(f) \cup New
    <2>1. ASSUME NEW p
          PROVE  p \in Units(g) <=> p \in Units(f) \cup New
        <3>1. p \in Units(g) <=> \E y \in S : p \in {y} \X (1 .. g[y])
            BY <1>1 DEF Units
        <3>2. p \in Units(f) <=> \E y \in S : p \in {y} \X (1 .. f[y])
            BY <1>1 DEF Units
        <3>3. 1 .. g[x] = (1 .. f[x]) \cup ((f[x] + 1) .. (f[x] + n))
            BY <1>1
        <3>4. p \in {x} \X (1 .. g[x]) <=> p \in {x} \X (1 .. f[x]) \/ p \in New
            BY <3>3
        <3> QED BY <3>1, <3>2, <3>4
    <2> QED BY <2>1
<1>3. Units(f) \cap New = {}
    <2>1. ASSUME NEW p \in Units(f), p \in New
          PROVE  FALSE
        <3>1. PICK y \in S : p \in {y} \X (1 .. f[y])
            BY <1>1 DEF Units
        <3>2. p[1] = y /\ p[1] = x /\ p[2] \in 1 .. f[y] /\ p[2] \in (f[x] + 1) .. (f[x] + n)
            BY <2>1, <3>1
        <3> QED BY <1>1, <3>2
    <2> QED BY <2>1
<1>4. IsFiniteSet(New) /\ Cardinality(New) = n
    <2> DEFINE lo == f[x] + 1
               hi == f[x] + n
               I  == lo .. hi
    <2>1. lo \in Int /\ hi \in Int /\ hi - lo + 1 = n /\ (lo > hi => n = 0)
        BY <1>1
    <2> HIDE DEF lo, hi
    <2>2. IsFiniteSet(I) /\ Cardinality(I) = IF lo > hi THEN 0 ELSE hi - lo + 1
        BY <2>1, FS_Interval
    <2>3. IsFiniteSet(I) /\ Cardinality(I) = n
        BY <2>1, <2>2
    <2> HIDE DEF I
    <2>4. IsFiniteSet({x}) /\ Cardinality({x}) = 1
        BY FS_Singleton
    <2>5. /\ IsFiniteSet({x} \X I)
          /\ Cardinality({x} \X I) = Cardinality({x}) * Cardinality(I)
        BY <2>3, <2>4, FS_Product
    <2>6. 1 * n = n
        OBVIOUS
    <2>7. IsFiniteSet({x} \X I) /\ Cardinality({x} \X I) = n
        BY <2>3, <2>4, <2>5, <2>6
    <2> QED BY <2>7 DEF I, lo, hi
<1> HIDE DEF New
<1>5. /\ IsFiniteSet(Units(f) \cup New)
      /\ Cardinality(Units(f) \cup New) = Cardinality(Units(f)) + Cardinality(New)
                                             - Cardinality(Units(f) \cap New)
    BY <1>4, FS_Union
<1>6. Cardinality(Units(f) \cap New) = 0 /\ Cardinality(Units(f)) \in Nat
    BY <1>3, FS_EmptySet, FS_CardinalityType
<1> QED BY <1>2, <1>4, <1>5, <1>6

Backed ==
    /\ IsFiniteSet(Units(SharesHeld)) /\ IsFiniteSet(Units(SharesIssued))
    /\ ShareBacking
    /\ UnopenedIssuedNothing

\* One user's position and one open vault gain the same number of shares.
SharesMinted ==
    \E u \in Users, a \in opened, n \in Nat :
        /\ position'[u].shares = position[u].shares + n
        /\ \A o \in Users \ {u} : position'[o].shares = position[o].shares
        /\ vault'[a].total_shares = vault[a].total_shares + n
        /\ \A b \in Admins \ {a} : vault'[b].total_shares = vault[b].total_shares
        /\ UNCHANGED opened

LEMMA KeptIsBacked ==
    ASSUME TypeOK, Backed, SharesKept
    PROVE  Backed'
<1>1. SharesHeld' = SharesHeld
    BY DEF SharesHeld, SharesKept
<1>2. SharesIssued' = SharesIssued
    BY DEF SharesIssued, SharesKept
<1>3. UnopenedIssuedNothing'
    BY DEF Backed, UnopenedIssuedNothing, SharesKept
<1> QED BY <1>1, <1>2, <1>3 DEF Backed, ShareBacking

LEMMA MintedIsBacked ==
    ASSUME TypeOK, TypeOK', Backed, SharesMinted
    PROVE  Backed'
<1>1. PICK u \in Users, a \in opened, n \in Nat :
        /\ position'[u].shares = position[u].shares + n
        /\ \A o \in Users \ {u} : position'[o].shares = position[o].shares
        /\ vault'[a].total_shares = vault[a].total_shares + n
        /\ \A b \in Admins \ {a} : vault'[b].total_shares = vault[b].total_shares
        /\ UNCHANGED opened
    BY DEF SharesMinted
<1>2. a \in Admins
    BY DEF TypeOK
<1>3. SharesHeld \in [Users -> Nat] /\ SharesIssued \in [Admins -> Nat]
    BY U64IsNat DEF SharesHeld, SharesIssued, TypeOK, Vault, UserPosition
<1>4. SharesHeld' \in [Users -> Nat] /\ SharesIssued' \in [Admins -> Nat]
    BY U64IsNat DEF SharesHeld, SharesIssued, TypeOK, Vault, UserPosition
<1> DEFINE held   == SharesHeld'
           issued == SharesIssued'
<1>5. held[u] = SharesHeld[u] + n /\ \A o \in Users \ {u} : held[o] = SharesHeld[o]
    BY <1>1 DEF SharesHeld
<1>6. /\ issued[a] = SharesIssued[a] + n
      /\ \A b \in Admins \ {a} : issued[b] = SharesIssued[b]
    BY <1>1, <1>2 DEF SharesIssued
<1>7. held \in [Users -> Nat] /\ issued \in [Admins -> Nat]
    BY <1>4
<1>8. IsFiniteSet(Units(SharesHeld)) /\ IsFiniteSet(Units(SharesIssued))
    BY DEF Backed
<1>9. /\ IsFiniteSet(Units(held))
      /\ Cardinality(Units(held)) = Cardinality(Units(SharesHeld)) + n
    <2> HIDE DEF held
    <2> QED BY <1>3, <1>5, <1>7, <1>8, UnitsAdded
<1>10. /\ IsFiniteSet(Units(issued))
       /\ Cardinality(Units(issued)) = Cardinality(Units(SharesIssued)) + n
    <2> HIDE DEF issued
    <2> QED BY <1>2, <1>3, <1>6, <1>7, <1>8, UnitsAdded
<1>11. UnopenedIssuedNothing'
    BY <1>1 DEF Backed, UnopenedIssuedNothing
<1> QED BY <1>9, <1>10, <1>11 DEF Backed, ShareBacking

\* A deposit credits its position and its vault with the same shares.
LEMMA DepositMints ==
    ASSUME TypeOK, NEW u \in Users, NEW a \in Admins, NEW amount \in Amounts,
           Deposit(u, a, amount)
    PROVE  SharesMinted
<1> DEFINE old    == Checkpointed(u, a, amount)
           minted == SharesToMint(a, amount)
           new    == [old EXCEPT !.shares = @ + minted]
           v      == [vault[a] EXCEPT !.total_shares = @ + minted,
                                      !.total_underlying = @ + amount]
<1>1. amount \in U64
    BY VaultConstantsAssumption
<1>2. minted \in Nat
    BY <1>1, SharesToMintIsNat
<1>3. old \in [vault : Admins \cup {NoVault}, shares : U64,
               reward_debt : Nat, pending_rewards : Nat]
      /\ old.shares = position[u].shares
    BY <1>1, CheckpointedFields
<1>4. new.shares = position[u].shares + minted
    <2> HIDE DEF old, minted
    <2> QED BY <1>3
<1>5. position' = [position EXCEPT ![u] = new] /\ a \in opened /\ UNCHANGED opened
    BY DEF Deposit
<1>6. position'[u].shares = position[u].shares + minted
    <2> HIDE DEF new
    <2> QED BY <1>4, <1>5 DEF TypeOK
<1>7. \A o \in Users \ {u} : position'[o].shares = position[o].shares
    <2> HIDE DEF new
    <2> QED BY <1>5 DEF TypeOK
<1>8. v.total_shares = vault[a].total_shares + minted
    BY DEF TypeOK, Vault
<1>9. vault' = [vault EXCEPT ![a] = v]
    BY DEF Deposit, TypeOK
<1>10. /\ vault'[a].total_shares = vault[a].total_shares + minted
       /\ \A b \in Admins \ {a} : vault'[b].total_shares = vault[b].total_shares
    <2> HIDE DEF v
    <2> QED BY <1>8, <1>9 DEF TypeOK
<1> HIDE DEF minted
<1> QED BY <1>2, <1>5, <1>6, <1>7, <1>10 DEF SharesMinted

LEMMA SharesStartBacked == Init => Backed
<1> SUFFICES ASSUME Init
             PROVE  Backed
    OBVIOUS
<1>1. ASSUME NEW S, NEW f \in [S -> {0}]
      PROVE  Units(f) = {}
    BY <1>1 DEF Units
<1>2. SharesHeld \in [Users -> {0}] /\ SharesIssued \in [Admins -> {0}]
    BY DEF Init, SharesHeld, SharesIssued, NewPosition, NewVault
<1>3. Units(SharesHeld) = {} /\ Units(SharesIssued) = {}
    BY <1>1, <1>2
<1>4. UnopenedIssuedNothing
    BY DEF Init, UnopenedIssuedNothing, NewVault
<1> QED BY <1>3, <1>4, FS_EmptySet DEF Backed, ShareBacking

LEMMA BackingStays ==
    ASSUME TypeOK, TypeOK', Backed, OnlyDepositsMint
    PROVE  Backed'
<1>1. CASE DepositMade
    BY <1>1, DepositMints, MintedIsBacked DEF DepositMade
<1>2. CASE SharesKept
    BY <1>2, KeptIsBacked
<1> QED BY <1>1, <1>2 DEF OnlyDepositsMint

-----------------------------------------------------------------------------
(* The theorems, from one invariant of the shares.                         *)

SharesInv == NoSharesNoRewards /\ Backed

\* What a step may not do to anybody.
UsersSpared ==
    /\ \A a \in Admins : MintsFairly(a)
    /\ \A u \in Users : position'[u].pending_rewards >= position[u].pending_rewards

LEMMA InitSharesInv == Init => SharesInv
<1>1. Init => NoSharesNoRewards
    BY DEF Init, NewPosition, NoSharesNoRewards
<1> QED BY <1>1, SharesStartBacked DEF SharesInv

\* What every system whose steps only mint by deposits does for its users.
LEMMA SharesStayInv ==
    ASSUME TypeOK, TypeOK', SharesInv, OnlyDepositsMint
    PROVE  SharesInv' /\ UsersSpared
<1>1. NoSharesNoRewards'
    BY RewardsStay DEF SharesInv, NoSharesNoRewards
<1> QED BY <1>1, BackingStays, MintingIsFair, RewardsStay DEF SharesInv, UsersSpared

LEMMA NextKeepsSharesInv ==
    ASSUME TypeOK, SharesInv, [Next]_vars
    PROVE  SharesInv' /\ UsersSpared
BY NextTypeOK, NextOnlyDepositsMint, SharesStayInv DEF SharesInv, Backed

(***************************************************************************)
(* The invariant behind the theorems below: positions without shares hold  *)
(* no rewards, and the shares of all positions are those all vaults have   *)
(* issued, none of them by a vault that has not been opened.               *)
(***************************************************************************)
THEOREM SharesAreKeptRight == Spec => []SharesInv
BY InitSharesInv, NextKeepsSharesInv, TypeCorrect, PTL DEF Spec

(***************************************************************************)
(* Whatever step issues shares leaves the underlying per existing share    *)
(* no lower in the vault's books, in spite of the special cases, rounding  *)
(* and cast of the minting formula (deposit.rs:81-96).                     *)
(***************************************************************************)
THEOREM DepositorsAreNotDiluted == Spec => NoDilution
<1>1. TypeOK /\ SharesInv /\ [Next]_vars => [\A a \in Admins : MintsFairly(a)]_vars
    BY NextKeepsSharesInv DEF UsersSpared
<1> QED BY <1>1, TypeCorrect, SharesAreKeptRight, PTL DEF Spec, NoDilution

\* A position without shares has no rewards.
THEOREM EmptyPositionsHoldNoRewards == Spec => []NoSharesNoRewards
BY SharesAreKeptRight, PTL DEF SharesInv

(***************************************************************************)
(* No step of anybody lowers the rewards credited to a position: no        *)
(* history leads a position with rewards into the branch of deposit that   *)
(* sets them to zero (deposit.rs:53-63), nor does their sum wrap.          *)
(***************************************************************************)
THEOREM RewardsAreKept == Spec => RewardsNeverLost
<1> DEFINE Kept == \A u \in Users :
                     position'[u].pending_rewards >= position[u].pending_rewards
<1>1. TypeOK /\ SharesInv /\ [Next]_vars => [Kept]_vars
    BY NextKeepsSharesInv DEF UsersSpared
<1> QED BY <1>1, TypeCorrect, SharesAreKeptRight, PTL DEF Spec, RewardsNeverLost

(***************************************************************************)
(* The shares of all positions are the shares all vaults have issued, for  *)
(* any number of users and vaults: deposit (deposit.rs:53-96) credits both *)
(* sides alike through the branch that starts a position over, and neither *)
(* the opening of a vault nor sync_vault_state nor a withdrawal loses or   *)
(* issues any.  Finiteness of Units needs no finite set of users: only     *)
(* finitely many deposits have been made.                                  *)
(***************************************************************************)
THEOREM SharesAreBacked == Spec => []ShareBacking
BY SharesAreKeptRight, PTL DEF SharesInv, Backed
=============================================================================
