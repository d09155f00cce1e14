---------------------------- MODULE VaultProgram ----------------------------
(***************************************************************************)
(* The on-chain program yield_aggregator: one Vault account per admin, one *)
(* UserPosition account per user, and the token accounts its instructions  *)
(* move funds between.                                                     *)
(*                                                                         *)
(* A transaction is atomic: an instruction that panics (unwrap of a failed *)
(* checked_add, division by zero) or whose token transfer or lending call  *)
(* fails changes nothing.  So each instruction is one action whose guard   *)
(* says when the transaction goes through; a failed transaction is no step.*)
(* The two lending markets are external: a token of market m is worth      *)
(* price[m] / PriceScale USDC, and the market rounds in its own favour.    *)
(* Whether a market takes a call for nothing is not to be read from src/,  *)
(* so MinMarketAmount says it: 0 is the more permissive market.            *)
(***************************************************************************)
EXTENDS FixedWidth

CONSTANTS
    Admins,           \* an admin's key determines its vault: seeds ["vault", admin]
    Users,            \* a user's key determines its position: seeds ["user_position", user]
    NoVault,          \* the vault field of a position that was never created
    Amounts,          \* amounts passed to instructions (USDC or market tokens)
    SyncArgs,         \* arguments an admin passes to sync_vault_state
    ReserveReadings,  \* what decoding the Kamino reserve may yield, see Withdraw
    AccScaler,        \* SCALER in withdraw.rs, 10^12
    TokenUnit,        \* 10^6, one whole token
    MinMarketAmount,  \* least amount a market's call accepts: 0 or 1
    Prices,           \* prices a market token may rise to
    MaxPrice,         \* bound on those prices
    InitialWallet     \* USDC each user starts with

Markets == {"jup", "kamino"}

AllocationScale == 10000

PriceScale == TokenUnit * TokenUnit

\* What withdraw uses of the Reserve struct it decodes.
Reserve == [available_amount : U64, mint_total_supply : U64]

\* What sync_vault_state is called with.
SyncVaultStateArgs ==
    [new_jup_allocation : U16, new_kamino_allocation : U16,
     new_jup_lend_balance : U64, new_kamino_balance : U64,
     new_acc_per_share : U64, new_total_underlying : U64,
     new_jup_value : U64, new_kamino_value : U64]

ASSUME VaultConstantsAssumption ==
    /\ NoVault \notin Admins
    /\ Amounts \subseteq U64
    /\ AccScaler \in Nat \ {0}
    /\ TokenUnit \in Nat \ {0}
    /\ PriceScale \in U64
    /\ MinMarketAmount \in {0, 1}
    /\ MaxPrice \in U64
    /\ Prices \cup {PriceScale} \subseteq 1 .. MaxPrice
    /\ InitialWallet \in U64
    /\ ReserveReadings \subseteq Reserve
    /\ SyncArgs \subseteq SyncVaultStateArgs

VARIABLES
    opened,     \* the admins whose vault has been initialised
    vault,      \* the Vault account of each admin
    position,   \* the UserPosition account of each user
    wallet,     \* the USDC token account of each user
    idle,       \* vault_usdc_ata: the vault's USDC that is in neither market
    tokens,     \* the vault's balance of each market's token
    price       \* the exchange price of each market's token

accounts == <<opened, vault, position>>
funds == <<wallet, idle, tokens>>
vars == <<opened, vault, position, wallet, idle, tokens, price>>

Vault == [total_shares : U64, acc_per_share : U64, total_underlying : U64,
          jup_lend_balance : U64, kamino_balance : U64,
          last_jup_value : U64, last_kamino_value : U64,
          jup_allocation : U16, kamino_allocation : U16]

UserPosition == [vault : Admins \cup {NoVault}, shares : U64,
                 reward_debt : Nat, pending_rewards : U64]

NewVault == [total_shares |-> 0, acc_per_share |-> 0, total_underlying |-> 0,
             jup_lend_balance |-> 0, kamino_balance |-> 0,
             last_jup_value |-> 0, last_kamino_value |-> 0,
             jup_allocation |-> 5000, kamino_allocation |-> 5000]

NewPosition == [vault |-> NoVault, shares |-> 0, reward_debt |-> 0,
                pending_rewards |-> 0]

Init ==
    /\ opened = {}
    /\ vault = [a \in Admins |-> NewVault]
    /\ position = [u \in Users |-> NewPosition]
    /\ wallet = [u \in Users |-> InitialWallet]
    /\ idle = [a \in Admins |-> 0]
    /\ tokens = [m \in Markets |-> [a \in Admins |-> 0]]
    /\ price = [m \in Markets |-> PriceScale]

-----------------------------------------------------------------------------
(* The lending markets, as the program's instructions call them.           *)

MintedFor(m, usdc) == (usdc * PriceScale) \div price[m]

RedeemedFor(m, amount) == (amount * price[m]) \div PriceScale

CanSupply(m, a, usdc) ==
    /\ MinMarketAmount <= usdc
    /\ usdc <= idle[a]
    /\ tokens[m][a] + MintedFor(m, usdc) \in U64

CanRedeem(m, a, amount) ==
    /\ MinMarketAmount <= amount
    /\ amount <= tokens[m][a]
    /\ idle[a] + RedeemedFor(m, amount) \in U64

\* Deposit CPI of market m, paid from the vault's USDC account.
Supply(m, a, usdc) ==
    /\ CanSupply(m, a, usdc)
    /\ idle' = [idle EXCEPT ![a] = @ - usdc]
    /\ tokens' = [tokens EXCEPT ![m][a] = @ + MintedFor(m, usdc)]

\* Redeem CPI of market m, paid into the vault's USDC account.
Redeem(m, a, amount) ==
    /\ CanRedeem(m, a, amount)
    /\ idle' = [idle EXCEPT ![a] = @ + RedeemedFor(m, amount)]
    /\ tokens' = [tokens EXCEPT ![m][a] = @ - amount]

\* Interest: the price of a market's token rises.
Accrue(m) ==
    \E p \in Prices :
        /\ price[m] < p
        /\ price' = [price EXCEPT ![m] = p]
        /\ UNCHANGED <<accounts, funds>>

-----------------------------------------------------------------------------
(* initialize_vault: `init' fails on an account that exists.               *)

InitializeVault(a) ==
    /\ a \notin opened
    /\ opened' = opened \cup {a}
    /\ vault' = [vault EXCEPT ![a] = NewVault]
    /\ UNCHANGED <<position, funds, price>>

-----------------------------------------------------------------------------
(* deposit.  The vault is any vault of the right mint; the position is the *)
(* one of the user, whichever vault it was created for.                    *)

\* Faulty variant: rounds in favour of the depositor.
SharesRoundedUp(a, amount) ==
    LET v == vault[a]
    IN  IF v.total_shares = 0 \/ v.total_underlying = 0
        THEN amount
        ELSE AsU64((amount * v.total_shares + v.total_underlying - 1)
                     \div v.total_underlying)

SharesToMint(a, amount) ==
    IF vault[a].total_shares = 0 \/ vault[a].total_underlying = 0
    THEN amount
    ELSE AsU64((amount * vault[a].total_shares) \div vault[a].total_underlying)

\* Rewards between the position's checkpoint and the vault's counter.
Pending(u, a) ==
    SaturatingSub(position[u].shares * vault[a].acc_per_share,
                  position[u].reward_debt)

\* Faulty variant: a new position starts with `amount' shares already.
CheckpointedWithShares(u, a, amount) ==
    IF position[u].shares = 0
    THEN [vault |-> a, shares |-> amount,
          reward_debt |-> amount * vault[a].acc_per_share,
          pending_rewards |-> 0]
    ELSE [position[u] EXCEPT
            !.reward_debt = position[u].shares * vault[a].acc_per_share,
            !.pending_rewards = @ + AsU64(Pending(u, a))]

\* Faulty variant: pending rewards are replaced, not added to.
CheckpointedReplacing(u, a, amount) ==
    IF position[u].shares = 0
    THEN [vault |-> a, shares |-> 0,
          reward_debt |-> amount * vault[a].acc_per_share,
          pending_rewards |-> 0]
    ELSE [position[u] EXCEPT
            !.reward_debt = position[u].shares * vault[a].acc_per_share,
            !.pending_rewards = AsU64(Pending(u, a))]

\* The position before the new shares are added.
Checkpointed(u, a, amount) ==
    IF position[u].shares = 0
    THEN [vault |-> a, shares |-> 0,
          reward_debt |-> amount * vault[a].acc_per_share,
          pending_rewards |-> 0]
    ELSE [position[u] EXCEPT
            !.reward_debt = position[u].shares * vault[a].acc_per_share,
            !.pending_rewards = @ + AsU64(Pending(u, a))]

Deposit(u, a, amount) ==
    LET minted == SharesToMint(a, amount)
        new    == [Checkpointed(u, a, amount) EXCEPT !.shares = @ + minted]
    IN  /\ a \in opened
        /\ amount <= wallet[u]
        /\ new.pending_rewards \in U64
        /\ new.shares \in U64
        /\ vault[a].total_shares + minted \in U64
        /\ vault[a].total_underlying + amount \in U64
        /\ idle[a] + amount \in U64
        /\ position' = [position EXCEPT ![u] = new]
        /\ vault' = [vault EXCEPT ![a].total_shares = @ + minted,
                                  ![a].total_underlying = @ + amount]
        /\ wallet' = [wallet EXCEPT ![u] = @ - amount]
        /\ idle' = [idle EXCEPT ![a] = @ + amount]
        /\ UNCHANGED <<opened, tokens, price>>

-----------------------------------------------------------------------------
(* The admin's instructions.  The four lending instructions only move the  *)
(* vault's tokens; none of them writes a field of the Vault account.       *)

JupDeposit(a, amount) ==
    /\ a \in opened
    /\ Supply("jup", a, amount)
    /\ UNCHANGED <<accounts, wallet, price>>

KaminoDeposit(a, amount) ==
    /\ a \in opened
    /\ Supply("kamino", a, amount)
    /\ UNCHANGED <<accounts, wallet, price>>

JupWithdraw(a, amount) ==
    /\ a \in opened
    /\ Redeem("jup", a, amount)
    /\ UNCHANGED <<accounts, wallet, price>>

KaminoWithdraw(a, amount) ==
    /\ a \in opened
    /\ Redeem("kamino", a, amount)
    /\ UNCHANGED <<accounts, wallet, price>>

\* Everything but total_shares is overwritten with the caller's values.
SyncVaultState(a, args) ==
    /\ a \in opened
    /\ vault' = [vault EXCEPT
                   ![a].jup_allocation    = args.new_jup_allocation,
                   ![a].kamino_allocation = args.new_kamino_allocation,
                   ![a].jup_lend_balance  = args.new_jup_lend_balance,
                   ![a].kamino_balance    = args.new_kamino_balance,
                   ![a].acc_per_share     = args.new_acc_per_share,
                   ![a].total_underlying  = args.new_total_underlying,
                   ![a].last_jup_value    = args.new_jup_value,
                   ![a].last_kamino_value = args.new_kamino_value]
    /\ UNCHANGED <<opened, position, funds, price>>

-----------------------------------------------------------------------------
(* withdraw: redeem from both markets by target allocation, pay the user.  *)
(* The handler takes no UserPosition account.  Its Reserve struct does not *)
(* have the layout of Kamino's account, so what decoding yields is some    *)
(* reading unrelated to the market's price.                                *)

ShareOf(amount, allocation) == AsU64((amount * allocation) \div AllocationScale)

JupExchangeRate == price["jup"] \div TokenUnit

KaminoExchangeRate(r) == (r.available_amount * TokenUnit) \div r.mint_total_supply

TokensFor(usdc, rate) == AsU64((usdc * TokenUnit) \div rate)

\* Faulty variant: total_underlying is not written back.
AfterWithdrawUnbooked(v, amount) ==
    [v EXCEPT !.jup_lend_balance = SaturatingSub(@, ShareOf(amount, v.jup_allocation)),
              !.kamino_balance = SaturatingSub(@, ShareOf(amount, v.kamino_allocation))]

\* The Vault account after a withdrawal of amount.
AfterWithdraw(v, amount) ==
    LET jup    == ShareOf(amount, v.jup_allocation)
        kamino == ShareOf(amount, v.kamino_allocation)
        after  == SaturatingSub(v.total_underlying, amount)
        yield  == SaturatingSub(v.total_underlying, after)
        accInc == IF yield > 0 /\ v.total_shares > 0
                  THEN (yield * AccScaler) \div v.total_shares
                  ELSE 0
    IN  [v EXCEPT !.acc_per_share     = AsU64(@ + accInc),
                  !.jup_lend_balance  = SaturatingSub(@, jup),
                  !.kamino_balance    = SaturatingSub(@, kamino),
                  !.total_underlying  = after,
                  !.last_jup_value    = SaturatingSub(@, jup),
                  !.last_kamino_value = SaturatingSub(@, kamino)]

\* Faulty variant: pays from the balance read before the redemptions.
PayoutUnreloaded(u, a, redeemed, amount) ==
    /\ amount <= idle[a]
    /\ wallet[u] + amount \in U64
    /\ wallet' = [wallet EXCEPT ![u] = @ + amount]
    /\ idle' = [idle EXCEPT ![a] = @ - amount]

\* The redeemed USDC comes into the vault's account, the amount goes out.
Payout(u, a, redeemed, amount) ==
    /\ idle[a] + redeemed \in U64
    /\ amount <= idle[a] + redeemed
    /\ wallet[u] + amount \in U64
    /\ wallet' = [wallet EXCEPT ![u] = @ + amount]
    /\ idle' = [idle EXCEPT ![a] = @ + redeemed - amount]

Withdraw(u, a, amount) ==
    \E r \in ReserveReadings :
        LET usdc(allocation) == ShareOf(amount, allocation)
            jupTokens    == TokensFor(usdc(vault[a].jup_allocation), JupExchangeRate)
            kaminoTokens == TokensFor(usdc(vault[a].kamino_allocation),
                                      KaminoExchangeRate(r))
        IN  /\ a \in opened
            /\ JupExchangeRate # 0
            /\ r.mint_total_supply # 0
            /\ KaminoExchangeRate(r) # 0
            /\ MinMarketAmount <= jupTokens /\ jupTokens <= tokens["jup"][a]
            /\ MinMarketAmount <= kaminoTokens /\ kaminoTokens <= tokens["kamino"][a]
            /\ tokens' = [tokens EXCEPT !["jup"][a] = @ - jupTokens,
                                        !["kamino"][a] = @ - kaminoTokens]
            /\ Payout(u, a, RedeemedFor("jup", jupTokens)
                              + RedeemedFor("kamino", kaminoTokens), amount)
            /\ vault' = [vault EXCEPT ![a] = AfterWithdraw(@, amount)]
            /\ UNCHANGED <<opened, position, price>>

-----------------------------------------------------------------------------
UserNext ==
    \E u \in Users, a \in Admins, amount \in Amounts :
        Deposit(u, a, amount) \/ Withdraw(u, a, amount)

AdminNext ==
    \E a \in Admins :
        \/ InitializeVault(a)
        \/ \E amount \in Amounts :
              \/ JupDeposit(a, amount)
              \/ KaminoDeposit(a, amount)
              \/ JupWithdraw(a, amount)
              \/ KaminoWithdraw(a, amount)
        \/ \E args \in SyncArgs : SyncVaultState(a, args)

MarketNext == \E m \in Markets : Accrue(m)

Next == UserNext \/ AdminNext \/ MarketNext

Spec == Init /\ [][Next]_vars

\* What the vault would have in its USDC account after redeeming everything.
Holdings(a) ==
    idle[a] + RedeemedFor("jup", tokens["jup"][a])
            + RedeemedFor("kamino", tokens["kamino"][a])

\* Minting a market's token rounds away less than its price and one unit.
MaxLoss == MaxPrice \div PriceScale + 1

\* Who holds what, and nothing of how: the program implements Custody.
Promise == INSTANCE Custody WITH
    Owners <- Users, Vaults <- Admins, Loss <- MaxLoss,
    purse <- wallet, worth <- [a \in Admins |-> Holdings(a)]

-----------------------------------------------------------------------------
\* Every account field stays in the width the program stores it in.
TypeOK ==
    /\ opened \subseteq Admins
    /\ vault \in [Admins -> Vault]
    /\ position \in [Users -> UserPosition]
    /\ wallet \in [Users -> U64]
    /\ idle \in [Admins -> U64]
    /\ tokens \in [Markets -> [Admins -> U64]]
    /\ price \in [Markets -> U64 \ {0}]

(***************************************************************************)
(* Minting never dilutes: whatever step issues shares (deposit.rs:81-96),  *)
(* the underlying per existing share in the vault's books does not fall,   *)
(* in spite of the special cases, rounding and cast of SharesToMint.       *)
(***************************************************************************)
MintsFairly(a) ==
    /\ vault[a].total_shares > 0
    /\ vault'[a].total_shares > vault[a].total_shares
    =>
        vault[a].total_underlying * vault'[a].total_shares
          <= vault'[a].total_underlying * vault[a].total_shares

NoDilution == [][\A a \in Admins : MintsFairly(a)]_vars

(***************************************************************************)
(* Funds are in custody: an instruction moves USDC only between its user   *)
(* and its vault, the user gains what the vault loses, and the lending     *)
(* calls, whatever they are asked for and whatever rate withdraw decodes,  *)
(* lose no more than the markets round away (deposit.rs:99-116,            *)
(* withdraw.rs:281-316, jup_deposit.rs, kamino_withdraw.rs).               *)
(***************************************************************************)
FundsInCustody == Promise!CustodySpec

(***************************************************************************)
(* Rewards credited to a position are never lost: the branch of deposit    *)
(* that starts a position over (deposit.rs:53-63) sets pending_rewards to  *)
(* zero, and no history leads a position with rewards back into it.        *)
(***************************************************************************)
RewardsNeverLost ==
    [][\A u \in Users :
          position'[u].pending_rewards >= position[u].pending_rewards]_vars
=============================================================================
