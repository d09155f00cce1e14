---------------------------- MODULE ClientProofs ----------------------------
(***************************************************************************)
(* The client's withdrawal next to workers, users and interest, for every  *)
(* number of each.                                                         *)
(*                                                                         *)
(* The books it writes are computed from a reading made two transactions   *)
(* before.  The invariant relates that reading to the vault: as long as    *)
(* the history notes nothing but prices, it is still what the vault holds. *)
(*                                                                         *)
(* What it redeems is followed from await to await: the tokens computed at *)
(* each rate, what they bring, and what is idle against what was.  What    *)
(* the books claim is covered as long as everything anybody remembers is.  *)
(***************************************************************************)
EXTENDS ClientWithdraw, RebalancerFundsProofs

Calls == [user : Users \cup {NoVault}, amount : U64, seen : Vault,
          idleBefore : U64, jupTokens : Nat, kaminoTokens : Nat]

\* The steps at which the reading is still to be used.
BeforeSync == {"jup_rate", "kamino_rate", "jup_withdraw", "kamino_withdraw", "sync"}

ReadingHolds ==
    /\ step # "none" => Operator \in opened
    /\ step \in BeforeSync /\ meddled \subseteq {"price"} => call.seen = vault[Operator]

ClientInv ==
    /\ RebInv
    /\ call \in Calls /\ MakesAWhole(call.seen)
    /\ ReadingHolds

-----------------------------------------------------------------------------
(* What the client computes.                                               *)

LEMMA CallParts ==
    ASSUME call \in Calls
    PROVE  /\ call.amount \in Nat /\ call.seen \in Vault
           /\ JupUsdc \in Nat /\ KaminoUsdc \in Nat
<1>1. /\ call.amount \in Nat /\ call.seen \in Vault
      /\ call.seen.jup_allocation \in Nat /\ call.seen.kamino_allocation \in Nat
    BY U64IsNat, U16IsNat DEF Calls, Vault
<1>2. /\ call.amount * call.seen.jup_allocation \in Nat
      /\ call.amount * call.seen.kamino_allocation \in Nat
    BY <1>1, ProductOfNaturals
<1>3. AllocationScale \in Nat \ {0}
    BY DEF AllocationScale
<1> QED BY <1>1, <1>2, <1>3, DivisionRoundsDown DEF JupUsdc, KaminoUsdc

LEMMA RatesAreNat ==
    ASSUME TypeOK, NEW usdc \in Nat
    PROVE  UsdcToJupTokens(usdc) \in Nat
<1>1. PriceScale \in Nat /\ TokenUnit \in Nat \ {0} /\ price["jup"] \in Nat \ {0}
    BY PricesArePositive, U64IsNat, VaultConstantsAssumption DEF TypeOK, Markets
<1>2. TokenUnit * PriceScale \in Nat
    BY <1>1, ProductOfNaturals
<1>3. ConvertToShares \in Nat
    BY <1>1, <1>2, DivisionRoundsDown DEF ConvertToShares
<1>4. usdc * ConvertToShares \in Nat
    BY <1>3, ProductOfNaturals
<1> QED BY <1>1, <1>4, DivisionRoundsDown DEF UsdcToJupTokens

\* Books that are sent fit, and keep the split that was read.
LEMMA ClientBooksFit ==
    ASSUME call \in Calls, FitU64(ClientBooks)
    PROVE  /\ ClientBooks \in SyncVaultStateArgs
           /\ ClientBooks.new_jup_allocation = call.seen.jup_allocation
           /\ ClientBooks.new_kamino_allocation = call.seen.kamino_allocation
<1>1. call.seen.jup_allocation \in U16 /\ call.seen.kamino_allocation \in U16
    BY CallParts DEF Vault
<1> QED BY <1>1 DEF ClientBooks, FitU64, SyncVaultStateArgs

-----------------------------------------------------------------------------
(* The workers' invariant, under the client's transactions.                *)

LEMMA LendingCallKeepsRebInv ==
    ASSUME RebInv, LendingCall, UNCHANGED bot
    PROVE  RebInv' /\ UNCHANGED <<opened, vault>>
<1>1. PICK x \in Nat :
          \/ JupDeposit(Operator, x) \/ KaminoDeposit(Operator, x)
          \/ JupWithdraw(Operator, x) \/ KaminoWithdraw(Operator, x)
    BY DEF LendingCall
<1>2. PICK m \in Markets : Supply(m, Operator, x) \/ Redeem(m, Operator, x)
    BY <1>1 DEF JupDeposit, KaminoDeposit, JupWithdraw, KaminoWithdraw, Markets
<1>3. UNCHANGED <<accounts, wallet, price>>
    BY <1>1 DEF JupDeposit, KaminoDeposit, JupWithdraw, KaminoWithdraw
<1>4. TypeOK'
    BY <1>2, <1>3, SupplyTypeOK, RedeemTypeOK, RebalancerAssumption DEF RebInv
<1>5. UNCHANGED <<pc, local, opened, vault>>
    BY <1>3 DEF accounts, bot
<1> QED BY <1>4, <1>5 DEF RebInv, BotTypeOK, SplitsMakeAWhole

LEMMA ClientSyncKeepsRebInv ==
    ASSUME RebInv, NEW args \in SyncVaultStateArgs, SyncVaultState(Operator, args),
           UNCHANGED bot,
           args.new_jup_allocation + args.new_kamino_allocation = AllocationScale
    PROVE  RebInv'
<1>1. Operator \in Admins /\ vault \in [Admins -> Vault] /\ vault[Operator] \in Vault
    BY RebalancerAssumption DEF RebInv, TypeOK
<1>2. TypeOK' /\ UNCHANGED <<pc, local>>
    BY <1>1, SyncVaultStateTypeOK DEF RebInv, bot
<1>3. /\ vault'[Operator].jup_allocation = args.new_jup_allocation
      /\ vault'[Operator].kamino_allocation = args.new_kamino_allocation
      /\ \A a \in Admins \ {Operator} : vault'[a] = vault[a]
    BY <1>1 DEF SyncVaultState, Vault
<1>4. \A a \in Admins : MakesAWhole(vault'[a])
    BY <1>3 DEF MakesAWhole, RebInv, SplitsMakeAWhole
<1> QED BY <1>2, <1>4 DEF RebInv, BotTypeOK, SplitsMakeAWhole

-----------------------------------------------------------------------------
(* The client's own steps.                                                 *)

LEMMA FetchKeepsInv ==
    ASSUME ClientInv, NEW u \in Users, NEW amount \in Amounts, Fetch(u, amount)
    PROVE  ClientInv'
<1>1. UNCHANGED rebVars /\ UNCHANGED vars
    BY DEF Fetch, rebVars
<1>2. RebInv'
    BY <1>1, RebNextKeepsInv DEF ClientInv
<1>3. /\ Operator \in Admins /\ vault[Operator] \in Vault
      /\ MakesAWhole(vault[Operator]) /\ idle[Operator] \in U64
    BY RebalancerAssumption DEF ClientInv, RebInv, TypeOK, SplitsMakeAWhole
<1>4. call' \in Calls /\ call'.seen = vault[Operator]
    BY <1>3, VaultConstantsAssumption DEF Fetch, Calls
<1>5. ReadingHolds'
    BY <1>1, <1>4 DEF Fetch, ReadingHolds, vars
<1> QED BY <1>2, <1>3, <1>4, <1>5 DEF ClientInv

\* A step of the client after the fetch: the reading stays.
LEMMA GoingOnKeepsInv ==
    ASSUME ClientInv, RebInv', call' \in Calls, call'.seen = call.seen,
           NEW here, NEW next, Goes(here, next), here # "none",
           UNCHANGED opened,
           next \in BeforeSync => here \in BeforeSync /\ UNCHANGED vault
    PROVE  ClientInv'
<1>1. ReadingHolds'
    BY DEF ClientInv, ReadingHolds, Goes
<1> QED BY <1>1 DEF ClientInv, MakesAWhole

LEMMA ClientReadsKeepInv ==
    ASSUME ClientInv, ReadJupRate \/ LoadKaminoMarket \/ Return
    PROVE  ClientInv'
<1>1. UNCHANGED <<vars, pc, local>>
    BY DEF ReadJupRate, LoadKaminoMarket, Return, Goes, bot
<1>2. RebInv' /\ UNCHANGED <<opened, vault>>
    <2>1. TypeOK'
        BY <1>1, NextTypeOK DEF ClientInv, RebInv
    <2> QED BY <1>1, <2>1 DEF vars, ClientInv, RebInv, BotTypeOK, SplitsMakeAWhole
<1>3. /\ UsdcToJupTokens(JupUsdc) \in Nat
      /\ MintedFor("kamino", KaminoUsdc) \in Nat
    BY CallParts, RatesAreNat, MarketAmounts DEF ClientInv, RebInv, Markets
<1>4. call' \in Calls /\ call'.seen = call.seen
    BY <1>3 DEF ReadJupRate, LoadKaminoMarket, Return, ClientInv, Calls
<1>5. \/ Goes("jup_rate", "kamino_rate") \/ Goes("kamino_rate", "jup_withdraw")
      \/ Goes("fetch_position", "none")
    BY DEF ReadJupRate, LoadKaminoMarket, Return
<1> QED BY <1>2, <1>4, <1>5, GoingOnKeepsInv DEF BeforeSync

LEMMA ClientCallsKeepInv ==
    ASSUME ClientInv, CallJupWithdraw \/ CallKaminoWithdraw
    PROVE  ClientInv' /\ LendingCall
<1>1. LendingCall
    BY DEF CallJupWithdraw, CallKaminoWithdraw, LendingCall, ClientInv, Calls
<1>2. UNCHANGED <<bot, call>>
    BY DEF CallJupWithdraw, CallKaminoWithdraw, Goes
<1>3. RebInv' /\ UNCHANGED <<opened, vault>>
    BY <1>1, <1>2, LendingCallKeepsRebInv DEF ClientInv
<1>4. Goes("jup_withdraw", "kamino_withdraw") \/ Goes("kamino_withdraw", "sync")
    BY DEF CallJupWithdraw, CallKaminoWithdraw
<1>5. call' \in Calls /\ call'.seen = call.seen
    BY <1>2 DEF ClientInv
<1> QED BY <1>1, <1>3, <1>4, <1>5, GoingOnKeepsInv DEF BeforeSync

LEMMA ClientSyncKeepsInv ==
    ASSUME ClientInv, CallSync
    PROVE  ClientInv'
<1>1. /\ ClientBooks \in SyncVaultStateArgs
      /\ ClientBooks.new_jup_allocation + ClientBooks.new_kamino_allocation
           = AllocationScale
    BY ClientBooksFit DEF CallSync, ClientInv, MakesAWhole
<1>2. /\ SyncVaultState(Operator, ClientBooks) /\ UNCHANGED <<bot, call>>
      /\ Goes("sync", "fetch_position")
    BY DEF CallSync, Goes
<1>3. RebInv' /\ UNCHANGED opened
    BY <1>1, <1>2, ClientSyncKeepsRebInv DEF ClientInv, SyncVaultState
<1>4. call' \in Calls /\ call'.seen = call.seen
    BY <1>2 DEF ClientInv
<1> QED BY <1>2, <1>3, <1>4, GoingOnKeepsInv DEF BeforeSync

LEMMA FailKeepsInv ==
    ASSUME ClientInv, Fail
    PROVE  ClientInv'
<1>1. UNCHANGED <<rebVars, call>> /\ step' = "none"
    BY DEF Fail
<1>2. RebInv'
    BY <1>1, RebNextKeepsInv DEF ClientInv
<1> QED BY <1>1, <1>2 DEF ClientInv, ReadingHolds, BeforeSync

-----------------------------------------------------------------------------
(* The steps of the others.                                                *)

\* None closes a vault, and one that writes books is noted.
LEMMA OthersAreNoted ==
    ASSUME ClientInv, OthersStep
    PROVE  /\ RebNext /\ UNCHANGED client
           /\ Operator \in opened => Operator \in opened'
           /\ Operator \in opened /\ meddled' \subseteq {"price"}
                => meddled \subseteq {"price"} /\ vault'[Operator] = vault[Operator]
<1>1. CASE OpenVault /\ UNCHANGED <<client, meddled, audit>>
    BY <1>1 DEF OpenVault, InitializeVault, RebNext
<1>2. ASSUME NEW what, UserStep, Meddle(what), what \in {"deposit", "withdrawal"}
      PROVE  /\ RebNext /\ UNCHANGED client
             /\ Operator \in opened' <=> Operator \in opened
             /\ ~ (meddled' \subseteq {"price"})
    BY <1>2 DEF UserStep, Meddle, RebNext, Deposit, Withdraw
<1>3. CASE MarketStep /\ Meddle("price")
    BY <1>3 DEF MarketStep, MarketNext, Accrue, accounts, Meddle, RebNext
<1>4. ASSUME WorkerStep,
             IF UNCHANGED vars THEN UNCHANGED <<client, meddled>> ELSE Meddle("worker")
      PROVE  /\ RebNext /\ UNCHANGED client
             /\ Operator \in opened => Operator \in opened'
             /\ meddled' \subseteq {"price"}
                  => meddled \subseteq {"price"} /\ UNCHANGED vault
    <2>1. LendingCall \/ BooksWritten \/ UNCHANGED vars
        BY <1>4, WhatAwaitsDo DEF WorkerStep, ClientInv
    <2>2. UNCHANGED opened
        BY <2>1 DEF LendingCall, JupDeposit, KaminoDeposit, JupWithdraw,
           KaminoWithdraw, BooksWritten, SyncVaultState, accounts, vars
    <2>3. CASE UNCHANGED vars
        BY <1>4, <2>2, <2>3 DEF RebNext, vars
    <2>4. CASE Meddle("worker")
        BY <1>4, <2>2, <2>4 DEF RebNext, Meddle
    <2> QED BY <1>4, <2>3, <2>4
<1> QED BY <1>1, <1>2, <1>3, <1>4 DEF OthersStep

LEMMA OthersKeepInv ==
    ASSUME ClientInv, OthersStep
    PROVE  ClientInv'
<1>1. RebInv'
    BY OthersAreNoted, RebNextKeepsInv DEF ClientInv
<1>2. UNCHANGED <<step, call>>
    BY OthersAreNoted DEF client
<1>3. ReadingHolds'
    BY <1>2, OthersAreNoted DEF ClientInv, ReadingHolds, BeforeSync
<1> QED BY <1>1, <1>2, <1>3 DEF ClientInv

LEMMA ClientNextKeepsInv ==
    ASSUME ClientInv, [ClientNext]_clientVars
    PROVE  ClientInv'
<1>1. CASE ClientStep
    BY <1>1, FetchKeepsInv, ClientReadsKeepInv, ClientCallsKeepInv,
       ClientSyncKeepsInv, FailKeepsInv DEF ClientStep
<1>2. CASE UNCHANGED clientVars
    <2>1. RebInv'
        BY <1>2, RebNextKeepsInv DEF ClientInv, clientVars
    <2> QED BY <1>2, <2>1 DEF ClientInv, ReadingHolds, clientVars, client, rebVars, vars
<1> QED BY <1>1, <1>2, OthersKeepInv DEF ClientNext

LEMMA ClientInitInv == ClientInit => ClientInv
<1> SUFFICES ASSUME ClientInit PROVE ClientInv
    OBVIOUS
<1>1. RebInv
    BY RebInitInv DEF ClientInit
<1>2. NoCall \in Calls /\ NoCall.seen = NewVault
    BY NewVaultIsWhole, U64MaxAssumption DEF NoCall, Calls, U64
<1> QED BY <1>1, <1>2, NewVaultIsWhole DEF ClientInit, ClientInv, ReadingHolds, BeforeSync

(***************************************************************************)
(* The inductive invariant.  Next to the client, too, accounts and         *)
(* variables keep their ranges and every split in the books or in memory   *)
(* makes a whole; and while only prices have changed since the client read *)
(* the vault, what it read is what the vault's account holds.              *)
(***************************************************************************)
THEOREM ClientKeepsInvariant == ClientSpec => []ClientInv
BY ClientInitInv, ClientNextKeepsInv, PTL DEF ClientSpec

\* The split of the books stays whole through the client's syncs as well.
THEOREM ClientKeepsTheSplit == ClientSpec => []AllocationsMakeAWhole
<1>1. ClientInv => AllocationsMakeAWhole
    BY DEF ClientInv, RebInv, SplitsMakeAWhole, MakesAWhole, AllocationsMakeAWhole
<1> QED BY <1>1, ClientKeepsInvariant, PTL

-----------------------------------------------------------------------------
(* Custody.                                                                *)

LEMMA ClientStepsKeepCustody ==
    ASSUME ClientInv, PricesBounded, [ClientNext]_clientVars
    PROVE  KeepsCustody
<1>1. TypeOK /\ RebInv /\ Operator \in Admins
    BY RebalancerAssumption DEF ClientInv, RebInv
<1>2. CASE CallJupWithdraw \/ CallKaminoWithdraw
    BY <1>1, <1>2, ClientCallsKeepInv, LendingCallKeepsCustody DEF LendingCall
<1>3. CASE CallSync
    <2>1. UNCHANGED <<funds, price>>
        BY <1>3 DEF CallSync, SyncVaultState
    <2> QED BY <2>1, FundsUntouched
<1>4. CASE ReadJupRate \/ LoadKaminoMarket \/ Return
    <2>1. UNCHANGED <<funds, price>>
        BY <1>4 DEF ReadJupRate, LoadKaminoMarket, Return, vars, funds
    <2> QED BY <2>1, FundsUntouched
<1>5. CASE Fail \/ \E u \in Users, amount \in Amounts : Fetch(u, amount)
    <2>1. UNCHANGED <<funds, price>>
        BY <1>5 DEF Fail, Fetch, rebVars, vars, funds
    <2> QED BY <2>1, FundsUntouched
<1>6. CASE OthersStep
    BY <1>1, <1>6, OthersAreNoted, RebNextKeepsCustody
<1>7. CASE UNCHANGED clientVars
    BY <1>1, <1>7, RebNextKeepsCustody DEF clientVars
<1> QED BY <1>2, <1>3, <1>4, <1>5, <1>6, <1>7 DEF ClientNext, ClientStep

(***************************************************************************)
(* The composition of everything that moves funds, workers, client         *)
(* withdrawals, users and interest, implements Custody.                    *)
(***************************************************************************)
THEOREM ClientKeepsCustody == ClientSpec => FundsInCustody
<1>1. ClientInit => PricesBounded /\ Promise!CustodyInit
    <2>1. ClientInit => Init
        BY DEF ClientInit, RebInit
    <2>2. Init => PricesBounded
        BY VaultConstantsAssumption DEF Init, PricesBounded
    <2> QED BY <2>1, <2>2, CustodyStarts
<1>2. ClientInv /\ PricesBounded /\ [ClientNext]_clientVars
        => /\ [Promise!CustodyNext]_<<wallet, [a \in Admins |-> Holdings(a)]>>
           /\ PricesBounded'
    BY ClientStepsKeepCustody DEF KeepsCustody
<1> QED BY <1>1, <1>2, ClientKeepsInvariant, PTL
        DEF ClientSpec, FundsInCustody, Promise!CustodySpec

-----------------------------------------------------------------------------
(* What the users hold of the vault.                                       *)

LEMMA ClientStepsOnlyLend ==
    ASSUME ClientInv, ClientStep
    PROVE  LendingCall \/ BooksWritten \/ UNCHANGED vars
<1>1. CASE CallJupWithdraw \/ CallKaminoWithdraw
    BY <1>1, ClientCallsKeepInv DEF LendingCall
<1>2. CASE CallSync
    BY <1>2 DEF CallSync, BooksWritten
<1>3. CASE ReadJupRate \/ LoadKaminoMarket \/ Return
    BY <1>3 DEF ReadJupRate, LoadKaminoMarket, Return
<1>4. CASE Fail \/ \E u \in Users, amount \in Amounts : Fetch(u, amount)
    BY <1>4 DEF Fail, Fetch, rebVars
<1> QED BY <1>1, <1>2, <1>3, <1>4 DEF ClientStep

LEMMA ClientNextKeepsSharesInv ==
    ASSUME ClientInv, SharesInv, [ClientNext]_clientVars
    PROVE  SharesInv' /\ UsersSpared
<1>1. TypeOK /\ TypeOK'
    BY ClientNextKeepsInv DEF ClientInv, RebInv
<1>2. CASE ClientStep
    <2>1. OnlyDepositsMint
        BY <1>1, <1>2, ClientStepsOnlyLend, AwaitsKeepShares DEF OnlyDepositsMint
    <2> QED BY <1>1, <2>1, SharesStayInv
<1>3. CASE OthersStep
    BY <1>3, OthersAreNoted, RebNextKeepsSharesInv DEF ClientInv
<1>4. CASE UNCHANGED clientVars
    BY <1>4, RebNextKeepsSharesInv DEF ClientInv, clientVars
<1> QED BY <1>2, <1>3, <1>4 DEF ClientNext

(***************************************************************************)
(* Nor does the client's withdrawal harm the users: like withdraw it burns *)
(* no shares, the books it writes dilute nobody, and no credited reward is *)
(* lost, whatever workers and users do between its transactions.           *)
(***************************************************************************)
THEOREM ClientSparesTheUsers ==
    ClientSpec => []ShareBacking /\ NoDilution /\ RewardsNeverLost
<1>1. ClientInit => SharesInv
    BY InitSharesInv DEF ClientInit, RebInit
<1>2. ClientInv /\ SharesInv /\ [ClientNext]_clientVars
        => /\ SharesInv'
           /\ [\A a \in Admins : MintsFairly(a)]_vars
           /\ [\A u \in Users : position'[u].pending_rewards
                                  >= position[u].pending_rewards]_vars
    BY ClientNextKeepsSharesInv DEF UsersSpared
<1>3. SharesInv => ShareBacking
    BY DEF SharesInv, Backed
<1> QED BY <1>1, <1>2, <1>3, ClientKeepsInvariant, PTL
        DEF ClientSpec, NoDilution, RewardsNeverLost

-----------------------------------------------------------------------------
(* The client's books and the program's.                                   *)

\* Where the difference is not negative the client's magnitude, the program's
\* saturation and the exact difference are the same.
LEMMA DifferencesAgree ==
    ASSUME NEW x \in Nat, NEW y \in Nat, y <= x
    PROVE  SaturatingSub(x, y) = x - y /\ Abs(x - y) = x - y
BY DEF SaturatingSub, Abs

\* A cast leaves a u64 as it is.
LEMMA CastKeeps ==
    ASSUME NEW x \in U64
    PROVE  AsU64(x) = x
BY U64MaxAssumption DEF AsU64, U64

\* Each number the client sends is the one withdraw computes.
LEMMA ClientBooksAreWithdraws ==
    ASSUME call \in Calls, FitU64(ClientBooks), WithinBooks(call.seen)
    PROVE  LET after == AfterWithdraw(call.seen, call.amount)
           IN  /\ ClientBooks.new_jup_lend_balance = after.jup_lend_balance
               /\ ClientBooks.new_kamino_balance = after.kamino_balance
               /\ ClientBooks.new_acc_per_share = after.acc_per_share
               /\ ClientBooks.new_total_underlying = after.total_underlying
               /\ ClientBooks.new_jup_value = after.last_jup_value
               /\ ClientBooks.new_kamino_value = after.last_kamino_value
<1> DEFINE v == call.seen
           n == call.amount
           after == SaturatingSub(v.total_underlying, n)
           yield == SaturatingSub(v.total_underlying, after)
           accInc == IF yield > 0 /\ v.total_shares > 0
                     THEN (yield * AccScaler) \div v.total_shares ELSE 0
<1>1. v \in Vault /\ n \in Nat /\ JupUsdc \in Nat /\ KaminoUsdc \in Nat
    BY CallParts
<1>2. /\ v.jup_lend_balance \in U64 /\ v.kamino_balance \in U64
      /\ v.last_jup_value \in U64 /\ v.last_kamino_value \in U64
      /\ v.total_underlying \in U64 /\ v.acc_per_share \in U64
    BY <1>1 DEF Vault
<1>3. /\ n <= v.total_underlying
      /\ JupUsdc <= v.jup_lend_balance /\ JupUsdc <= v.last_jup_value
      /\ KaminoUsdc <= v.kamino_balance /\ KaminoUsdc <= v.last_kamino_value
    BY DEF WithinBooks
<1>4. JupUsdc \in U64 /\ KaminoUsdc \in U64
    BY <1>1, <1>2, <1>3, U64MaxAssumption DEF U64
<1>5. /\ ShareOf(n, v.jup_allocation) = JupUsdc
      /\ ShareOf(n, v.kamino_allocation) = KaminoUsdc
    BY <1>4, CastKeeps DEF ShareOf, JupUsdc, KaminoUsdc
<1>6. /\ SaturatingSub(v.jup_lend_balance, JupUsdc) = Abs(v.jup_lend_balance - JupUsdc)
      /\ SaturatingSub(v.kamino_balance, KaminoUsdc) = Abs(v.kamino_balance - KaminoUsdc)
      /\ SaturatingSub(v.last_jup_value, JupUsdc) = Abs(v.last_jup_value - JupUsdc)
      /\ SaturatingSub(v.last_kamino_value, KaminoUsdc)
           = Abs(v.last_kamino_value - KaminoUsdc)
    BY <1>1, <1>2, <1>3, U64IsNat, DifferencesAgree
<1>7. after = Abs(v.total_underlying - n) /\ yield = n
    <2>1. v.total_underlying \in Nat
        BY <1>2, U64IsNat
    <2>2. after = v.total_underlying - n /\ after = Abs(v.total_underlying - n)
        BY <1>1, <1>3, <2>1, DifferencesAgree
    <2> QED BY <1>1, <1>3, <2>1, <2>2 DEF SaturatingSub
<1> HIDE DEF after, yield
<1>8. AsU64(v.acc_per_share + accInc) = NewAcc
    <2>1. NewAcc \in U64
        BY DEF FitU64, ClientBooks
    <2>2. v.acc_per_share \in Nat
        BY <1>2, U64IsNat
    <2>3. v.acc_per_share + accInc = NewAcc
        BY <1>7, <2>2 DEF NewAcc
    <2> QED BY <2>1, <2>3, CastKeeps
<1> HIDE DEF accInc
<1>9. LET w == AfterWithdraw(v, n)
      IN  /\ w.jup_lend_balance = SaturatingSub(v.jup_lend_balance, JupUsdc)
          /\ w.kamino_balance = SaturatingSub(v.kamino_balance, KaminoUsdc)
          /\ w.acc_per_share = AsU64(v.acc_per_share + accInc)
          /\ w.total_underlying = after
          /\ w.last_jup_value = SaturatingSub(v.last_jup_value, JupUsdc)
          /\ w.last_kamino_value = SaturatingSub(v.last_kamino_value, KaminoUsdc)
    BY <1>1, <1>5 DEF AfterWithdraw, Vault, after, yield, accInc
<1> QED BY <1>6, <1>7, <1>8, <1>9 DEF ClientBooks

\* withdraw leaves shares and split alone.
LEMMA WithdrawKeepsTheRest ==
    ASSUME NEW v \in Vault, NEW amount \in U64
    PROVE  /\ AfterWithdraw(v, amount) \in Vault
           /\ AfterWithdraw(v, amount).total_shares = v.total_shares
           /\ AfterWithdraw(v, amount).jup_allocation = v.jup_allocation
           /\ AfterWithdraw(v, amount).kamino_allocation = v.kamino_allocation
<1>1. AfterWithdraw(v, amount) \in Vault
    BY AfterWithdrawFits
<1> QED BY <1>1 DEF AfterWithdraw, Vault

(***************************************************************************)
(* The client keeps the books withdraw.rs would keep: for every split,     *)
(* width and amount within the books, if nobody but the markets did        *)
(* anything between the client's reading of the vault and its sync.        *)
(***************************************************************************)
THEOREM ClientBooksAgree == ClientSpec => ClientBooksLikeProgram
<1>1. ASSUME ClientInv, ClientNext, step = "sync", step' = "fetch_position",
             meddled \subseteq {"price"}, WithinBooks(vault[Operator])
      PROVE  vault'[Operator] = AfterWithdraw(vault[Operator], call.amount)
    <2>1. CallSync
        BY <1>1, OthersAreNoted DEF ClientNext, ClientStep, Fetch, ReadJupRate,
           LoadKaminoMarket, CallJupWithdraw, CallKaminoWithdraw, Return, Fail,
           Goes, client
    <2>2. /\ call \in Calls /\ call.seen = vault[Operator]
          /\ vault \in [Admins -> Vault] /\ Operator \in Admins
        BY <1>1, RebalancerAssumption
           DEF ClientInv, RebInv, TypeOK, ReadingHolds, BeforeSync
    <2>3. FitU64(ClientBooks) /\ SyncVaultState(Operator, ClientBooks)
        BY <2>1 DEF CallSync
    <2> DEFINE v == vault[Operator]
               w == AfterWithdraw(v, call.amount)
    <2>4. v \in Vault /\ call.amount \in U64
        BY <2>2 DEF Calls
    <2>5. /\ w \in Vault /\ w.total_shares = v.total_shares
          /\ w.jup_allocation = v.jup_allocation
          /\ w.kamino_allocation = v.kamino_allocation
        BY <2>4, WithdrawKeepsTheRest
    <2>6. /\ ClientBooks.new_jup_lend_balance = w.jup_lend_balance
          /\ ClientBooks.new_kamino_balance = w.kamino_balance
          /\ ClientBooks.new_acc_per_share = w.acc_per_share
          /\ ClientBooks.new_total_underlying = w.total_underlying
          /\ ClientBooks.new_jup_value = w.last_jup_value
          /\ ClientBooks.new_kamino_value = w.last_kamino_value
        BY <1>1, <2>2, <2>3, ClientBooksAreWithdraws
    <2>7. /\ ClientBooks.new_jup_allocation = w.jup_allocation
          /\ ClientBooks.new_kamino_allocation = w.kamino_allocation
        BY <2>2, <2>3, <2>5, ClientBooksFit
    <2> HIDE DEF w
    <2>8. vault'[Operator] \in Vault /\ vault'[Operator].total_shares = w.total_shares
        <3>1. TypeOK'
            BY <1>1, ClientNextKeepsInv DEF ClientInv, RebInv
        <3> QED BY <2>2, <2>3, <2>4, <2>5, <3>1 DEF SyncVaultState, TypeOK, Vault
    <2>9. LET x == vault'[Operator]
          IN  /\ x.jup_lend_balance = w.jup_lend_balance
              /\ x.kamino_balance = w.kamino_balance
              /\ x.acc_per_share = w.acc_per_share
              /\ x.total_underlying = w.total_underlying
              /\ x.last_jup_value = w.last_jup_value
              /\ x.last_kamino_value = w.last_kamino_value
              /\ x.jup_allocation = w.jup_allocation
              /\ x.kamino_allocation = w.kamino_allocation
        BY <2>2, <2>3, <2>4, <2>6, <2>7 DEF SyncVaultState, Vault
    <2>10. vault'[Operator] = w
        BY <2>5, <2>8, <2>9 DEF Vault
    <2> QED BY <2>10 DEF w
<1>2. ClientInv /\ [ClientNext]_clientVars =>
        [/\ step = "sync" /\ step' = "fetch_position"
         /\ meddled \subseteq {"price"}
         /\ WithinBooks(vault[Operator])
         => vault'[Operator] = AfterWithdraw(vault[Operator], call.amount)]_clientVars
    BY <1>1
<1> QED BY <1>2, ClientKeepsInvariant, PTL DEF ClientSpec, ClientBooksLikeProgram

-----------------------------------------------------------------------------
(* What the client redeems for the amount.                                 *)

\* Products may be multiplied in any order, and factors cancelled.
LEMMA Reorders ==
    ASSUME NEW x \in Nat, NEW y \in Nat, NEW z \in Nat
    PROVE  (x * y) * z = x * (y * z) /\ (x * y) * z = (x * z) * y
OBVIOUS

LEMMA FactorsCancel ==
    ASSUME NEW x \in Nat, NEW y \in Nat, NEW d \in Nat \ {0}, x * d <= y * d
    PROVE  x <= y
OBVIOUS

\* With u for the unit of a token, s for the scale of prices and p for the
\* price: tokens bought for y at a rate cut to u bring no more than y back, and
\* less than y by no more than l for each unit, and a bit.
LEMMA RateIsCutDown ==
    ASSUME NEW y \in Nat, NEW u \in Nat \ {0}, NEW s \in Nat \ {0},
           NEW p \in Nat \ {0}, NEW l \in Nat, p <= l * s
    PROVE  LET rate     == (u * s) \div p
               t        == (y * rate) \div u
               redeemed == (t * p) \div s
           IN  /\ redeemed <= y
               /\ y <= redeemed + ((y \div u + 2) * l + 1)
<1> DEFINE rate == (u * s) \div p
           t == (y * rate) \div u
           redeemed == (t * p) \div s
           g == y \div u + 1
<1>1. u * s \in Nat /\ y * (u * s) \in Nat
    BY ProductOfNaturals
<1>2. rate \in Nat /\ rate * p <= u * s /\ u * s < (rate + 1) * p
    BY <1>1, DivisionRoundsDown, DivisionMissesLess
<1> HIDE DEF rate
<1>3. y * rate \in Nat
    BY <1>2, ProductOfNaturals
<1>4. t \in Nat /\ t * u <= y * rate /\ y * rate < (t + 1) * u
    BY <1>3, DivisionRoundsDown, DivisionMissesLess
<1> HIDE DEF t
<1>5. t * p \in Nat /\ t * u \in Nat
    BY <1>4, ProductOfNaturals
<1>6. redeemed \in Nat /\ redeemed * s <= t * p /\ t * p < (redeemed + 1) * s
    BY <1>5, DivisionRoundsDown, DivisionMissesLess
<1>7. redeemed <= y
    <2>1. (t * u) * p <= (y * rate) * p
        BY <1>3, <1>5, <1>4, ProductKeepsOrder
    <2>2. (y * rate) * p = (rate * p) * y
        <3>1. (y * rate) * p = y * (rate * p) /\ rate * p \in Nat
            BY <1>2, Reorders, ProductOfNaturals
        <3> QED BY <3>1
    <2>3. (rate * p) * y <= (u * s) * y
        <3>1. rate * p \in Nat
            BY <1>2, ProductOfNaturals
        <3> QED BY <1>1, <1>2, <3>1, ProductKeepsOrder
    <2>4. (u * s) * y = (y * s) * u /\ (t * u) * p = (t * p) * u /\ y * s \in Nat
        BY <1>4, Reorders, ProductOfNaturals
    <2>5. /\ (t * u) * p \in Nat /\ (y * rate) * p \in Nat /\ (u * s) * y \in Nat
        BY <1>1, <1>3, <1>5, ProductOfNaturals
    <2>6. (t * p) * u <= (y * s) * u
        BY <2>1, <2>2, <2>3, <2>4, <2>5
    <2>7. t * p <= y * s
        BY <1>5, <2>4, <2>6, FactorsCancel
    <2>8. (y + 1) * s = y * s + s
        OBVIOUS
    <2> QED BY <1>5, <2>4, <2>7, <2>8, QuotientIsBelow
<1> HIDE DEF redeemed
<1>8. g \in Nat /\ y <= g * u /\ g * u \in Nat
    <2>1. y \div u \in Nat /\ y < (y \div u + 1) * u
        BY DivisionRoundsDown, DivisionMissesLess
    <2> QED BY <2>1, ProductOfNaturals
<1> HIDE DEF g
<1>9. y <= redeemed + 1 + l + g * l
    <2> DEFINE d == u * s
    <2>1. d \in Nat \ {0}
        BY ProductOfNaturals
    <2>2. y * d <= (y * rate) * p + y * p
        <3>1. d * y <= ((rate + 1) * p) * y
            <4>1. (rate + 1) * p \in Nat
                BY <1>2, ProductOfNaturals
            <4> QED BY <1>2, <2>1, <4>1, ProductKeepsOrder
        <3>2. ((rate + 1) * p) * y = (y * rate) * p + y * p
            BY <1>2
        <3>3. d * y = y * d
            BY <2>1
        <3> QED BY <3>1, <3>2, <3>3
    <2>3. (y * rate) * p <= (t * p) * u + p * u
        <3>1. (t + 1) * u \in Nat
            BY <1>4, ProductOfNaturals
        <3>2. (y * rate) * p <= ((t + 1) * u) * p
            BY <1>3, <1>4, <3>1, ProductKeepsOrder
        <3>3. ((t + 1) * u) * p = (t * p) * u + p * u
            BY <1>4
        <3> QED BY <3>2, <3>3
    <2>4. (t * p) * u <= ((redeemed + 1) * s) * u
        <3>1. (redeemed + 1) * s \in Nat
            BY <1>6, ProductOfNaturals
        <3> QED BY <1>5, <1>6, <3>1, ProductKeepsOrder
    <2>5. l * s \in Nat /\ p * u <= (l * s) * u /\ p * y <= (l * s) * y
        <3>1. l * s \in Nat
            BY ProductOfNaturals
        <3> QED BY <3>1, ProductKeepsOrder
    <2>6. (l * s) * y <= (g * l) * d
        <3>1. y * (l * s) <= (g * u) * (l * s)
            BY <1>8, <2>5, ProductKeepsOrder
        <3>2. (g * u) * (l * s) = (g * l) * (u * s) /\ y * (l * s) = (l * s) * y
            BY <1>8, <2>5
        <3> QED BY <3>1, <3>2
    <2>7. /\ ((redeemed + 1) * s) * u = (redeemed + 1) * d
          /\ (l * s) * u = l * d /\ y * p = p * y
        BY <1>6
    <2>8. /\ y * d \in Nat /\ (y * rate) * p \in Nat /\ y * p \in Nat /\ p * u \in Nat
          /\ (t * p) * u \in Nat /\ (redeemed + 1) * d \in Nat
          /\ l * d \in Nat /\ (g * l) * d \in Nat /\ g * l \in Nat /\ (l * s) * y \in Nat
        BY <1>3, <1>5, <1>6, <1>8, <2>1, <2>5, ProductOfNaturals
    <2> HIDE DEF d
    <2>9. y * d <= (redeemed + 1) * d + l * d + (g * l) * d
        BY ONLY <2>2, <2>3, <2>4, <2>5, <2>6, <2>7, <2>8
    <2>10. (redeemed + 1) * d + l * d + (g * l) * d = (redeemed + 1 + l + g * l) * d
        <3>1. (redeemed + 1 + l) * d = (redeemed + 1) * d + l * d
            BY <1>6, <2>1, Distributes
        <3>2. (redeemed + 1 + l + g * l) * d = (redeemed + 1 + l) * d + (g * l) * d
            BY <1>6, <2>1, <2>8, Distributes
        <3> QED BY <3>1, <3>2
    <2>11. redeemed + 1 + l + g * l \in Nat
        BY <1>6, <2>8
    <2> QED BY <2>1, <2>9, <2>10, <2>11, FactorsCancel
<1>10. (g + 1) * l = g * l + l /\ g * l \in Nat /\ g + 1 = y \div u + 2
    <2>1. (g + 1) * l = g * l + l /\ g * l \in Nat
        BY <1>8, ProductOfNaturals
    <2> QED BY <2>1 DEF g
<1>11. y <= redeemed + ((y \div u + 2) * l + 1)
    BY <1>6, <1>9, <1>10
<1> QED BY <1>7, <1>11 DEF redeemed, t, rate

\* The most that redeeming the jup share may fall short of it.
JupShortfall == (JupUsdc \div TokenUnit + 2) * MaxLoss + 1

LEMMA JupRateBrings ==
    ASSUME TypeOK, PricesBounded, NEW y \in Nat
    PROVE  LET redeemed == RedeemedFor("jup", UsdcToJupTokens(y))
           IN  redeemed <= y /\ y <= redeemed + ((y \div TokenUnit + 2) * MaxLoss + 1)
<1>1. /\ price["jup"] \in Nat \ {0} /\ PriceScale \in Nat \ {0}
      /\ TokenUnit \in Nat \ {0} /\ MaxLoss \in Nat
    BY PricesArePositive, U64IsNat, VaultConstantsAssumption, TwoUnitsAreLost
       DEF TypeOK, Markets
<1>2. price["jup"] <= MaxLoss * PriceScale
    <2>1. price["jup"] <= MaxPrice /\ MaxPrice \in Nat
        BY U64IsNat, VaultConstantsAssumption DEF PricesBounded, Markets
    <2>2. MaxPrice < MaxLoss * PriceScale
        BY <1>1, <2>1, DivisionMissesLess DEF MaxLoss
    <2>3. MaxLoss * PriceScale \in Nat
        BY <1>1, ProductOfNaturals
    <2> QED BY <1>1, <2>1, <2>2, <2>3
<1> QED BY <1>1, <1>2, RateIsCutDown DEF RedeemedFor, UsdcToJupTokens, ConvertToShares

LEMMA KaminoRateBrings ==
    ASSUME TypeOK, PricesBounded, NEW y \in Nat
    PROVE  LET redeemed == RedeemedFor("kamino", MintedFor("kamino", y))
           IN  redeemed <= y /\ y <= redeemed + MaxLoss
<1>1. RedeemedFor("kamino", 0) = 0
    <2>1. price["kamino"] \in Nat /\ PriceScale \in Nat \ {0}
        BY PricesArePositive, U64IsNat DEF TypeOK, Markets
    <2> QED BY <2>1 DEF RedeemedFor
<1>2. MintedFor("kamino", y) \in Nat
    BY MarketAmounts DEF Markets
<1>3. 0 + MintedFor("kamino", y) = MintedFor("kamino", y)
    BY <1>2
<1>4. /\ RedeemedFor("kamino", MintedFor("kamino", y)) <= 0 + y
      /\ 0 + y <= RedeemedFor("kamino", MintedFor("kamino", y)) + MaxLoss
    BY <1>1, <1>3, MintedWorth DEF Markets
<1> QED BY <1>4

\* The shares make the amount, but for a unit.
LEMMA SharesOfTheAmount ==
    ASSUME call \in Calls, MakesAWhole(call.seen)
    PROVE  /\ JupUsdc \in Nat /\ KaminoUsdc \in Nat /\ call.amount \in Nat
           /\ JupUsdc + KaminoUsdc <= call.amount
           /\ call.amount <= JupUsdc + KaminoUsdc + 1
<1>1. /\ call.amount \in Nat /\ JupUsdc \in Nat /\ KaminoUsdc \in Nat
      /\ call.seen.jup_allocation \in Nat /\ call.seen.kamino_allocation \in Nat
    BY CallParts, U16IsNat DEF Vault
<1>2. call.seen.jup_allocation + call.seen.kamino_allocation = AllocationScale
    BY DEF MakesAWhole
<1>3. /\ Allocated(call.amount, call.seen.jup_allocation) = JupUsdc
      /\ Allocated(call.amount, call.seen.kamino_allocation) = KaminoUsdc
    BY DEF Allocated, JupUsdc, KaminoUsdc
<1> QED BY <1>1, <1>2, <1>3, SplitLosesOne

\* The shortfalls of both markets stay within RateLoss.
LEMMA ShortfallsAddUp ==
    ASSUME call \in Calls, MakesAWhole(call.seen), NEW g \in Int, NEW r \in Nat,
           JupUsdc <= g + JupShortfall, KaminoUsdc <= r + MaxLoss
    PROVE  call.amount <= g + r + RateLoss
<1> DEFINE a == call.amount \div TokenUnit
           b == JupUsdc \div TokenUnit
<1>1. /\ JupUsdc \in Nat /\ KaminoUsdc \in Nat /\ call.amount \in Nat
      /\ JupUsdc <= call.amount /\ call.amount <= JupUsdc + KaminoUsdc + 1
    BY SharesOfTheAmount
<1>2. MaxLoss \in Nat /\ 2 <= MaxLoss /\ TokenUnit \in Nat \ {0}
    BY TwoUnitsAreLost, VaultConstantsAssumption
<1>3. a \in Nat /\ b \in Nat /\ b <= a
    BY <1>1, <1>2, DivisionRoundsDown, QuotientKeepsOrder
<1>4. JupShortfall = (b + 2) * MaxLoss + 1 /\ RateLoss = (a + 5) * MaxLoss
    BY DEF JupShortfall, RateLoss, RateRoundings
<1> HIDE DEF a, b
<1>5. /\ (b + 2) * MaxLoss <= (a + 2) * MaxLoss
      /\ (a + 5) * MaxLoss = (a + 2) * MaxLoss + 3 * MaxLoss
      /\ (b + 2) * MaxLoss \in Nat /\ (a + 2) * MaxLoss \in Nat
    <2>1. (b + 2) * MaxLoss <= (a + 2) * MaxLoss
        BY <1>2, <1>3, ProductKeepsOrder
    <2>2. a + 5 = (a + 2) + 3 /\ a + 2 \in Nat /\ b + 2 \in Nat
        BY <1>3
    <2>3. ((a + 2) + 3) * MaxLoss = (a + 2) * MaxLoss + 3 * MaxLoss
        BY <1>2, <2>2, Distributes
    <2> QED BY <1>2, <2>1, <2>2, <2>3, ProductOfNaturals
<1> QED BY ONLY <1>1, <1>2, <1>4, <1>5, g \in Int, r \in Nat,
                JupUsdc <= g + JupShortfall, KaminoUsdc <= r + MaxLoss

-----------------------------------------------------------------------------
(* The payment, await by await.                                            *)

\* What the vault's USDC account has gained since the client looked.
Gained == idle[Operator] - call.idleBefore

\* The steps from the reading of a rate to the redemption at it.
JupRated == {"kamino_rate", "jup_withdraw"}
KaminoRated == {"jup_withdraw", "kamino_withdraw"}

AllRedeemed == step \in {"sync", "fetch_position"} \/ outcome = "returned"

JupBrings == RedeemedFor("jup", call.jupTokens)
KaminoBrings == RedeemedFor("kamino", call.kaminoTokens)

EnoughRedeemed ==
    /\ step \in {"jup_rate"} \cup JupRated => 0 <= Gained
    /\ step \in JupRated => JupUsdc <= JupBrings + JupShortfall
    /\ step \in KaminoRated => KaminoUsdc <= KaminoBrings + MaxLoss
    /\ step = "kamino_withdraw" => JupUsdc <= Gained + JupShortfall
    /\ AllRedeemed => call.amount <= Gained + RateLoss

NotTooMuch ==
    /\ step \in {"jup_rate"} \cup JupRated => Gained <= 0
    /\ step \in JupRated => JupBrings <= JupUsdc
    /\ step \in KaminoRated => KaminoBrings <= KaminoUsdc
    /\ step = "kamino_withdraw" => Gained <= JupUsdc
    /\ AllRedeemed => Gained <= call.amount

\* Deposits and interest leave enough, though perhaps too much.
OnlyGains == meddled \subseteq {"price", "deposit"}

Payment ==
    /\ step # "none" => outcome = "running"
    /\ OnlyGains => EnoughRedeemed
    /\ meddled = {} => NotTooMuch

PaymentInv == ClientInv /\ PricesBounded /\ Payment

LEMMA PaymentParts ==
    ASSUME ClientInv
    PROVE  /\ TypeOK /\ call \in Calls /\ MakesAWhole(call.seen)
           /\ idle[Operator] \in Nat /\ call.idleBefore \in Nat /\ Gained \in Int
           /\ call.jupTokens \in Nat /\ call.kaminoTokens \in Nat
           /\ JupUsdc \in Nat /\ KaminoUsdc \in Nat /\ call.amount \in Nat
           /\ JupBrings \in Nat /\ KaminoBrings \in Nat
           /\ JupShortfall \in Nat /\ RateLoss \in Nat /\ MaxLoss \in Nat
<1>1. TypeOK /\ call \in Calls /\ MakesAWhole(call.seen)
    BY DEF ClientInv, RebInv
<1>2. /\ idle[Operator] \in Nat /\ call.idleBefore \in Nat
      /\ call.jupTokens \in Nat /\ call.kaminoTokens \in Nat
    BY <1>1, RebalancerAssumption, U64IsNat DEF TypeOK, Calls
<1>3. JupUsdc \in Nat /\ KaminoUsdc \in Nat /\ call.amount \in Nat
    BY <1>1, CallParts
<1>4. JupBrings \in Nat /\ KaminoBrings \in Nat
    BY <1>1, <1>2, MarketAmounts DEF Markets, JupBrings, KaminoBrings
<1>5. JupShortfall \in Nat /\ RateLoss \in Nat /\ MaxLoss \in Nat
    <2>1. MaxLoss \in Nat /\ TokenUnit \in Nat \ {0}
        BY TwoUnitsAreLost, VaultConstantsAssumption
    <2>2. JupUsdc \div TokenUnit + 2 \in Nat /\ call.amount \div TokenUnit + 5 \in Nat
        BY <1>3, <2>1, DivisionRoundsDown
    <2> QED BY <2>1, <2>2, ProductOfNaturals DEF JupShortfall, RateLoss, RateRoundings
<1> QED BY <1>1, <1>2, <1>3, <1>4, <1>5 DEF Gained

LEMMA FetchPays ==
    ASSUME PaymentInv, NEW u \in Users, NEW amount \in Amounts, Fetch(u, amount)
    PROVE  Payment'
<1>1. /\ step' = "jup_rate" /\ outcome' = "running" /\ meddled' = {}
      /\ call'.idleBefore = idle[Operator] /\ UNCHANGED idle
    BY DEF Fetch, rebVars, vars
<1>2. Gained' = 0
    BY <1>1, PaymentParts DEF Gained, PaymentInv
<1> QED BY <1>1, <1>2 DEF Payment, EnoughRedeemed, NotTooMuch, JupRated, KaminoRated,
        AllRedeemed

LEMMA RatesPay ==
    ASSUME PaymentInv, ReadJupRate \/ LoadKaminoMarket
    PROVE  Payment'
<1>1. /\ ClientInv /\ TypeOK /\ PricesBounded /\ call \in Calls
      /\ JupUsdc \in Nat /\ KaminoUsdc \in Nat
    BY PaymentParts DEF PaymentInv
<1>2. UNCHANGED <<idle, price, outcome, meddled>> /\ step # "none"
    BY DEF ReadJupRate, LoadKaminoMarket, Goes, vars
<1>3. /\ call'.amount = call.amount /\ call'.seen = call.seen
      /\ call'.idleBefore = call.idleBefore
    BY <1>1 DEF ReadJupRate, LoadKaminoMarket, Calls
<1>4. /\ Gained' = Gained /\ JupUsdc' = JupUsdc /\ KaminoUsdc' = KaminoUsdc
      /\ JupShortfall' = JupShortfall
    BY <1>2, <1>3 DEF Gained, JupUsdc, KaminoUsdc, JupShortfall, MaxLoss
<1>5. CASE ReadJupRate
    <2>1. step = "jup_rate" /\ step' = "kamino_rate"
        BY <1>5 DEF ReadJupRate, Goes
    <2>2. JupBrings' = RedeemedFor("jup", UsdcToJupTokens(JupUsdc))
        <3>1. call'.jupTokens = UsdcToJupTokens(JupUsdc)
            BY <1>1, <1>5 DEF ReadJupRate, Calls
        <3> QED BY <1>2, <3>1 DEF JupBrings, RedeemedFor
    <2>3. JupBrings' <= JupUsdc /\ JupUsdc <= JupBrings' + JupShortfall
        BY <1>1, <2>2, JupRateBrings DEF JupShortfall
    <2> QED BY <1>2, <1>4, <2>1, <2>3 DEF PaymentInv, Payment, OnlyGains, EnoughRedeemed,
            NotTooMuch, JupRated, KaminoRated, AllRedeemed
<1>6. CASE LoadKaminoMarket
    <2>1. step = "kamino_rate" /\ step' = "jup_withdraw"
        BY <1>6 DEF LoadKaminoMarket, Goes
    <2>2. /\ KaminoBrings' = RedeemedFor("kamino", MintedFor("kamino", KaminoUsdc))
          /\ JupBrings' = JupBrings
        <3>1. /\ call'.kaminoTokens = MintedFor("kamino", KaminoUsdc)
              /\ call'.jupTokens = call.jupTokens
            BY <1>1, <1>6 DEF LoadKaminoMarket, Calls
        <3> QED BY <1>2, <3>1 DEF KaminoBrings, JupBrings, RedeemedFor
    <2>3. KaminoBrings' <= KaminoUsdc /\ KaminoUsdc <= KaminoBrings' + MaxLoss
        BY <1>1, <2>2, KaminoRateBrings
    <2>4. MaxLoss' = MaxLoss
        BY DEF MaxLoss
    <2> QED BY <1>2, <1>4, <2>1, <2>2, <2>3, <2>4 DEF PaymentInv, Payment, OnlyGains,
            EnoughRedeemed, NotTooMuch, JupRated, KaminoRated, AllRedeemed
<1> QED BY <1>5, <1>6

LEMMA RedemptionsPay ==
    ASSUME PaymentInv, CallJupWithdraw \/ CallKaminoWithdraw
    PROVE  Payment'
<1>1. /\ ClientInv /\ TypeOK /\ idle[Operator] \in Nat /\ call.idleBefore \in Nat
      /\ Gained \in Int /\ JupBrings \in Nat /\ KaminoBrings \in Nat
      /\ JupUsdc \in Nat /\ KaminoUsdc \in Nat /\ call.amount \in Nat
      /\ call \in Calls /\ MakesAWhole(call.seen)
    BY PaymentParts DEF PaymentInv
<1>2. UNCHANGED <<call, price, outcome, meddled>> /\ step # "none"
    BY DEF CallJupWithdraw, CallKaminoWithdraw, Goes, JupWithdraw, KaminoWithdraw
<1>3. /\ JupUsdc' = JupUsdc /\ KaminoUsdc' = KaminoUsdc /\ JupShortfall' = JupShortfall
      /\ JupBrings' = JupBrings /\ KaminoBrings' = KaminoBrings /\ RateLoss' = RateLoss
      /\ MaxLoss' = MaxLoss /\ call'.amount = call.amount
    BY <1>2 DEF JupUsdc, KaminoUsdc, JupShortfall, JupBrings, KaminoBrings, RateLoss,
       RateRoundings, MaxLoss, RedeemedFor
<1>4. outcome = "running" /\ outcome' = "running"
    BY <1>2 DEF PaymentInv, Payment
<1>5. CASE CallJupWithdraw
    <2>1. step = "jup_withdraw" /\ step' = "kamino_withdraw"
        BY <1>5 DEF CallJupWithdraw, Goes
    <2>2. idle'[Operator] = idle[Operator] + JupBrings
        BY <1>1, <1>5, RebalancerAssumption
           DEF CallJupWithdraw, JupWithdraw, Redeem, JupBrings, TypeOK
    <2>3. Gained' = Gained + JupBrings
        BY <1>1, <1>2, <2>2 DEF Gained
    <2>4. ASSUME OnlyGains'
          PROVE  EnoughRedeemed'
        <3>1. /\ 0 <= Gained /\ JupUsdc <= JupBrings + JupShortfall
              /\ KaminoUsdc <= KaminoBrings + MaxLoss
            BY <1>2, <2>1, <2>4 DEF PaymentInv, Payment, OnlyGains, EnoughRedeemed,
               JupRated, KaminoRated
        <3>2. JupUsdc <= Gained' + JupShortfall
            BY <1>1, <2>3, <3>1, PaymentParts
        <3> QED BY <1>3, <1>4, <2>1, <3>1, <3>2
                DEF EnoughRedeemed, JupRated, KaminoRated, AllRedeemed
    <2>5. ASSUME meddled' = {}
          PROVE  NotTooMuch'
        <3>1. Gained <= 0 /\ JupBrings <= JupUsdc /\ KaminoBrings <= KaminoUsdc
            BY <1>2, <2>1, <2>5 DEF PaymentInv, Payment, NotTooMuch, JupRated, KaminoRated
        <3>2. Gained' <= JupUsdc
            BY <1>1, <2>3, <3>1
        <3> QED BY <1>3, <1>4, <2>1, <3>1, <3>2
                DEF NotTooMuch, JupRated, KaminoRated, AllRedeemed
    <2> QED BY <1>4, <2>4, <2>5 DEF Payment
<1>6. CASE CallKaminoWithdraw
    <2>1. step = "kamino_withdraw" /\ step' = "sync"
        BY <1>6 DEF CallKaminoWithdraw, Goes
    <2>2. idle'[Operator] = idle[Operator] + KaminoBrings
        BY <1>1, <1>6, RebalancerAssumption
           DEF CallKaminoWithdraw, KaminoWithdraw, Redeem, KaminoBrings, TypeOK
    <2>3. Gained' = Gained + KaminoBrings
        BY <1>1, <1>2, <2>2 DEF Gained
    <2>4. ASSUME OnlyGains'
          PROVE  EnoughRedeemed'
        <3>1. JupUsdc <= Gained + JupShortfall /\ KaminoUsdc <= KaminoBrings + MaxLoss
            BY <1>2, <2>1, <2>4 DEF PaymentInv, Payment, OnlyGains, EnoughRedeemed,
               KaminoRated
        <3>2. call.amount <= Gained + KaminoBrings + RateLoss
            BY <1>1, <3>1, ShortfallsAddUp
        <3> QED BY <1>3, <2>1, <2>3, <3>2
                DEF EnoughRedeemed, JupRated, KaminoRated
    <2>5. ASSUME meddled' = {}
          PROVE  NotTooMuch'
        <3>1. Gained <= JupUsdc /\ KaminoBrings <= KaminoUsdc
            BY <1>2, <2>1, <2>5 DEF PaymentInv, Payment, NotTooMuch, KaminoRated
        <3>2. Gained' <= call.amount
            BY <1>1, <2>3, <3>1, SharesOfTheAmount
        <3> QED BY <1>3, <2>1, <3>2 DEF NotTooMuch, JupRated, KaminoRated
    <2> QED BY <1>4, <2>4, <2>5 DEF Payment
<1> QED BY <1>5, <1>6

\* Nothing that what has been redeemed depends on changes.
LEMMA EndingsPay ==
    ASSUME PaymentInv, CallSync \/ Return \/ Fail
    PROVE  Payment'
<1>1. UNCHANGED <<call, idle, meddled>> /\ RateLoss' = RateLoss
    BY DEF CallSync, Return, Fail, Goes, SyncVaultState, funds, rebVars, vars,
       RateLoss, RateRoundings, MaxLoss
<1>2. Gained' = Gained /\ call'.amount = call.amount
    BY <1>1 DEF Gained
<1>3. \/ step' = "fetch_position" /\ step = "sync" /\ UNCHANGED outcome
      \/ step' = "none" /\ step = "fetch_position"
      \/ step' = "none" /\ outcome' # "returned"
    BY DEF CallSync, Return, Fail, Goes
<1> QED BY <1>1, <1>2, <1>3 DEF PaymentInv, Payment, OnlyGains, EnoughRedeemed, NotTooMuch,
        JupRated, KaminoRated, AllRedeemed

LEMMA MoreIsEnough ==
    ASSUME NEW x \in Nat, NEW a \in Int, NEW b \in Int, NEW c \in Nat,
           a <= b, x <= a + c
    PROVE  x <= b + c
OBVIOUS

\* What the others may do to a payment, as far as the history excuses it.
Harmless ==
    /\ UNCHANGED client
    /\ OnlyGains' => /\ OnlyGains
                      /\ idle[Operator] <= idle'[Operator]
                      /\ JupBrings <= JupBrings' /\ KaminoBrings <= KaminoBrings'
    /\ meddled' = {} => meddled = {} /\ UNCHANGED <<idle, price>>

LEMMA HarmlessStepsPay ==
    ASSUME PaymentInv, ClientInv', Harmless
    PROVE  Payment'
<1>1. UNCHANGED <<step, call, outcome>>
    BY DEF Harmless, client
<1>2. /\ JupUsdc' = JupUsdc /\ KaminoUsdc' = KaminoUsdc /\ MaxLoss' = MaxLoss
      /\ JupShortfall' = JupShortfall /\ RateLoss' = RateLoss
      /\ call'.amount = call.amount
    BY <1>1 DEF JupUsdc, KaminoUsdc, MaxLoss, JupShortfall, RateLoss, RateRoundings
<1>3. /\ idle[Operator] \in Nat /\ call.idleBefore \in Nat /\ Gained \in Int
      /\ JupBrings \in Nat /\ KaminoBrings \in Nat /\ call.amount \in Nat
      /\ JupUsdc \in Nat /\ KaminoUsdc \in Nat /\ JupShortfall \in Nat
      /\ RateLoss \in Nat /\ MaxLoss \in Nat
    BY PaymentParts DEF PaymentInv
<1>4. /\ idle'[Operator] \in Nat /\ JupBrings' \in Nat /\ KaminoBrings' \in Nat
    <2>1. /\ TypeOK' /\ call'.jupTokens \in Nat /\ call'.kaminoTokens \in Nat
        BY DEF ClientInv, RebInv, Calls
    <2>2. idle'[Operator] \in Nat
        BY <2>1, RebalancerAssumption, U64IsNat DEF TypeOK
    <2>3. /\ price'["jup"] \in Nat /\ price'["kamino"] \in Nat
        BY <2>1, U64IsNat DEF TypeOK, Markets
    <2>4. PriceScale \in Nat \ {0}
        BY PricesArePositive, U64IsNat
    <2>5. /\ call'.jupTokens * price'["jup"] \in Nat
          /\ call'.kaminoTokens * price'["kamino"] \in Nat
        BY <2>1, <2>3, ProductOfNaturals
    <2>6. JupBrings' \in Nat
        BY <2>4, <2>5, DivisionRoundsDown DEF JupBrings, RedeemedFor
    <2>7. KaminoBrings' \in Nat
        BY <2>4, <2>5, DivisionRoundsDown DEF KaminoBrings, RedeemedFor
    <2> QED BY <2>2, <2>6, <2>7
<1>5. Gained = idle[Operator] - call.idleBefore
      /\ Gained' = idle'[Operator] - call.idleBefore /\ Gained' \in Int
    BY <1>1, <1>3, <1>4 DEF Gained
<1>6. ASSUME OnlyGains'
      PROVE  EnoughRedeemed'
    <2>1. /\ OnlyGains /\ idle[Operator] <= idle'[Operator]
          /\ JupBrings <= JupBrings' /\ KaminoBrings <= KaminoBrings'
        BY <1>6 DEF Harmless
    <2>2. EnoughRedeemed
        BY <2>1 DEF PaymentInv, Payment
    <2>3. Gained <= Gained' /\ (0 <= Gained => 0 <= Gained')
        <3> DEFINE g == Gained'
                   i == idle'[Operator]
        <3>1. /\ Gained = idle[Operator] - call.idleBefore /\ g = i - call.idleBefore
              /\ idle[Operator] <= i /\ i \in Nat /\ g \in Int
            BY <1>4, <1>5, <2>1
        <3> HIDE DEF g, i
        <3>2. Gained <= g /\ (0 <= Gained => 0 <= g)
            BY <1>3, <3>1
        <3> QED BY <3>2 DEF g
    <2>4. ASSUME JupUsdc <= JupBrings + JupShortfall
          PROVE  JupUsdc <= JupBrings' + JupShortfall
        BY <1>3, <1>4, <2>1, <2>4, MoreIsEnough
    <2>5. ASSUME KaminoUsdc <= KaminoBrings + MaxLoss
          PROVE  KaminoUsdc <= KaminoBrings' + MaxLoss
        <3>1. KaminoBrings' \in Int /\ KaminoBrings \in Int /\ KaminoBrings <= KaminoBrings'
            BY <1>3, <1>4, <2>1
        <3>2. KaminoUsdc \in Nat /\ MaxLoss \in Nat
            BY <1>3
        <3> QED BY ONLY <2>5, <3>1, <3>2, MoreIsEnough
    <2>6. ASSUME JupUsdc <= Gained + JupShortfall
          PROVE  JupUsdc <= Gained' + JupShortfall
        BY <1>3, <1>5, <2>3, <2>6, MoreIsEnough
    <2>7. ASSUME call.amount <= Gained + RateLoss
          PROVE  call.amount <= Gained' + RateLoss
        BY <1>3, <1>5, <2>3, <2>7, MoreIsEnough
    <2> QED BY <1>1, <1>2, <2>2, <2>3, <2>4, <2>5, <2>6, <2>7
            DEF EnoughRedeemed, AllRedeemed
<1>7. ASSUME meddled' = {}
      PROVE  NotTooMuch'
    <2>1. meddled = {} /\ UNCHANGED <<idle, price>>
        BY <1>7 DEF Harmless
    <2>2. NotTooMuch
        BY <2>1 DEF PaymentInv, Payment
    <2>3. Gained' = Gained /\ JupBrings' = JupBrings /\ KaminoBrings' = KaminoBrings
        BY <1>1, <2>1 DEF Gained, JupBrings, KaminoBrings, RedeemedFor
    <2> QED BY <1>1, <1>2, <2>2, <2>3 DEF NotTooMuch, AllRedeemed
<1> QED BY <1>1, <1>6, <1>7 DEF PaymentInv, Payment

\* Users and interest only add to a payment, unless it is noted that they do not.
LEMMA OthersAreHarmless ==
    ASSUME PaymentInv, OthersStep
    PROVE  Harmless
<1>1. /\ ClientInv /\ RebInv /\ TypeOK /\ Operator \in Admins
      /\ idle[Operator] \in Nat /\ call.jupTokens \in Nat /\ call.kaminoTokens \in Nat
      /\ JupBrings \in Nat /\ KaminoBrings \in Nat
    BY PaymentParts, RebalancerAssumption DEF PaymentInv, ClientInv
<1>2. UNCHANGED client /\ UNCHANGED call
    BY <1>1, OthersAreNoted DEF client
<1>3. ASSUME UNCHANGED price
      PROVE  JupBrings' = JupBrings /\ KaminoBrings' = KaminoBrings
    BY <1>2, <1>3 DEF JupBrings, KaminoBrings, RedeemedFor
<1>4. ASSUME UNCHANGED <<meddled, idle, price>>
      PROVE  Harmless
    BY <1>1, <1>2, <1>3, <1>4 DEF Harmless, OnlyGains
<1>5. CASE OpenVault /\ UNCHANGED <<client, meddled, audit>>
    BY <1>4, <1>5 DEF OpenVault, InitializeVault, funds
<1>6. ASSUME NEW what, Meddle(what), what \in {"deposit", "price"},
             idle[Operator] <= idle'[Operator],
             JupBrings <= JupBrings', KaminoBrings <= KaminoBrings'
      PROVE  Harmless
    <2>1. meddled' = meddled \cup {what}
        BY <1>6 DEF Meddle
    <2> QED BY <1>2, <1>6, <2>1 DEF Harmless, OnlyGains
<1>7. ASSUME NEW what, Meddle(what), what \in {"withdrawal", "worker"}
      PROVE  Harmless
    <2>1. meddled' = meddled \cup {what} /\ what \notin {"price", "deposit"}
        BY <1>7 DEF Meddle
    <2> QED BY <1>2, <2>1 DEF Harmless, OnlyGains
<1>8. CASE MarketStep /\ Meddle("price")
    <2>1. PICK m \in Markets : Accrue(m)
        BY <1>8 DEF MarketStep, MarketNext
    <2>2. UNCHANGED idle
        BY <2>1 DEF Accrue, funds
    <2>3. /\ (call.jupTokens * price["jup"]) \div PriceScale
               <= (call.jupTokens * price'["jup"]) \div PriceScale
          /\ (call.kaminoTokens * price["kamino"]) \div PriceScale
               <= (call.kaminoTokens * price'["kamino"]) \div PriceScale
        BY <1>1, <2>1, AccrueRaisesRedemptions DEF Markets
    <2>4. JupBrings <= JupBrings' /\ KaminoBrings <= KaminoBrings'
        BY <1>2, <2>3 DEF JupBrings, KaminoBrings, RedeemedFor
    <2> QED BY <1>1, <1>6, <1>8, <2>2, <2>4
<1>9. CASE /\ UserStep
           /\ Meddle(IF wallet' = wallet \/ \E u \in Users : wallet'[u] < wallet[u]
                     THEN "deposit" ELSE "withdrawal")
    <2>1. CASE Meddle("withdrawal")
        BY <1>7, <2>1
    <2>2. CASE /\ Meddle("deposit")
               /\ wallet' = wallet \/ \E u \in Users : wallet'[u] < wallet[u]
        <3>1. PICK u \in Users, x \in Amounts :
                  Deposit(u, Operator, x) \/ Withdraw(u, Operator, x)
            BY <1>9 DEF UserStep
        <3>2. x \in Nat /\ idle \in [Admins -> U64] /\ wallet \in [Users -> U64]
              /\ \A o \in Users : wallet[o] \in Nat
            BY <1>1, AmountsAreNat, U64IsNat DEF TypeOK
        <3>3. UNCHANGED price
            BY <1>1, <3>1, WithdrawParts DEF Deposit
        <3>4. idle[Operator] <= idle'[Operator]
            <4>1. CASE Deposit(u, Operator, x)
                <5>1. idle'[Operator] = idle[Operator] + x
                    BY <1>1, <3>2, <4>1 DEF Deposit
                <5> QED BY <1>1, <3>2, <5>1
            <4>2. CASE Withdraw(u, Operator, x)
                <5>1. /\ wallet'[u] = wallet[u] + x
                      /\ \A o \in Users \ {u} : wallet'[o] = wallet[o]
                    BY <1>1, <4>2, WithdrawnWorth
                <5>2. \A o \in Users : ~ (wallet'[o] < wallet[o])
                    BY <3>2, <5>1
                <5>3. x = 0
                    BY <2>2, <3>2, <5>1, <5>2
                <5>4. PICK jup \in U64, kamino \in U64 :
                          Payout(u, Operator, RedeemedFor("jup", jup)
                                                + RedeemedFor("kamino", kamino), x)
                    BY <1>1, <4>2, WithdrawParts
                <5> DEFINE r == RedeemedFor("jup", jup) + RedeemedFor("kamino", kamino)
                <5>5. r \in Nat
                    <6>1. /\ RedeemedFor("jup", jup) \in Nat
                          /\ RedeemedFor("kamino", kamino) \in Nat
                        BY <1>1, U64IsNat, MarketAmounts DEF Markets
                    <6> QED BY <6>1
                <5>6. idle'[Operator] = idle[Operator] + r - x
                    BY <1>1, <3>2, <5>4 DEF Payout
                <5> HIDE DEF r
                <5> QED BY <1>1, <5>3, <5>5, <5>6
            <4> QED BY <3>1, <4>1, <4>2
        <3>5. JupBrings <= JupBrings' /\ KaminoBrings <= KaminoBrings'
            BY <1>1, <1>3, <3>3
        <3> QED BY <1>6, <2>2, <3>4, <3>5
    <2> QED BY <1>9, <2>1, <2>2
<1>10. CASE /\ WorkerStep
            /\ IF UNCHANGED vars THEN UNCHANGED <<client, meddled>> ELSE Meddle("worker")
    <2>1. CASE UNCHANGED vars /\ UNCHANGED <<client, meddled>>
        BY <1>4, <2>1 DEF vars
    <2>2. CASE Meddle("worker")
        BY <1>7, <2>2
    <2> QED BY <1>10, <2>1, <2>2
<1> QED BY <1>5, <1>8, <1>9, <1>10 DEF OthersStep

LEMMA ClientNextKeepsPaymentInv ==
    ASSUME PaymentInv, [ClientNext]_clientVars
    PROVE  PaymentInv'
<1>1. ClientInv' /\ PricesBounded'
    BY ClientNextKeepsInv, ClientStepsKeepCustody DEF PaymentInv, KeepsCustody
<1>2. CASE ClientStep
    BY <1>1, <1>2, FetchPays, RatesPay, RedemptionsPay, EndingsPay
       DEF ClientStep, PaymentInv
<1>3. CASE OthersStep
    BY <1>1, <1>3, OthersAreHarmless, HarmlessStepsPay DEF PaymentInv
<1>4. CASE UNCHANGED clientVars
    <2>1. UNCHANGED <<client, meddled, idle, price>>
        BY <1>4 DEF clientVars, rebVars, vars
    <2>2. JupBrings' = JupBrings /\ KaminoBrings' = KaminoBrings
        BY <2>1 DEF client, JupBrings, KaminoBrings, RedeemedFor
    <2>3. Harmless
        BY <2>1, <2>2, PaymentParts DEF PaymentInv, Harmless, OnlyGains
    <2> QED BY <1>1, <2>3, HarmlessStepsPay DEF PaymentInv
<1> QED BY <1>2, <1>3, <1>4 DEF ClientNext

LEMMA PaymentInitInv == ClientInit => PaymentInv
<1> SUFFICES ASSUME ClientInit PROVE PaymentInv
    OBVIOUS
<1>1. PricesBounded
    BY VaultConstantsAssumption DEF ClientInit, RebInit, Init, PricesBounded
<1>2. Payment
    BY DEF ClientInit, Payment, EnoughRedeemed, NotTooMuch, JupRated, KaminoRated,
       AllRedeemed
<1> QED BY <1>1, <1>2, ClientInitInv DEF PaymentInv

(***************************************************************************)
(* A client withdrawal that returns with nobody in between has redeemed    *)
(* the amount, for every amount, split and price: no more of it, and no    *)
(* less than the rounding of the rates allows.                             *)
(***************************************************************************)
THEOREM PayoutIsFunded == ClientSpec => []PayoutFunded
<1>1. PaymentInv => PayoutFunded
    <2> SUFFICES ASSUME PaymentInv, outcome = "returned", meddled = {}
                 PROVE  Gained <= call.amount /\ call.amount <= Gained + RateLoss
        BY DEF PayoutFunded, Gained
    <2> QED BY DEF PaymentInv, Payment, OnlyGains, EnoughRedeemed, NotTooMuch, AllRedeemed
<1> QED BY <1>1, PaymentInitInv, ClientNextKeepsPaymentInv, PTL DEF ClientSpec

-----------------------------------------------------------------------------
(* The books, next to the workers.                                         *)

\* What the vault holds, and what the calls counted may have rounded away.
Covering == Holdings(Operator) + moves * MaxLoss

Remembers(w) ==
    pc[w] \in HasTotal /\ "withdrawal" \notin disturbed[w] => local[w].usdc <= Covering

BooksCovered == ~overstated => vault[Operator].total_underlying <= Covering

ReadingCovered ==
    ~overstated /\ step \in BeforeSync /\ "withdrawal" \notin meddled
        => call.seen.total_underlying <= Covering

\* What the history notes has its range.
AuditTypeOK ==
    /\ meddled \subseteq {"price", "deposit", "withdrawal", "worker"}
    /\ moves \in Nat /\ HistoryTypeOK

CoverInv ==
    /\ PaymentInv /\ AuditTypeOK
    /\ \A w \in Workers : Remembers(w)
    /\ BooksCovered /\ ReadingCovered

LEMMA CoveringIsNat ==
    ASSUME TypeOK, moves \in Nat
    PROVE  /\ Covering \in Nat /\ Holdings(Operator) \in Nat
           /\ idle[Operator] \in Nat /\ idle[Operator] <= Holdings(Operator)
           /\ Holdings(Operator) <= Covering
<1>1. /\ Holdings(Operator) \in Nat /\ idle[Operator] \in Nat
      /\ RedeemedFor("jup", tokens["jup"][Operator]) \in Nat
      /\ RedeemedFor("kamino", tokens["kamino"][Operator]) \in Nat
    BY RebalancerAssumption, HoldingsAreNat
<1>2. moves * MaxLoss \in Nat
    BY TwoUnitsAreLost, ProductOfNaturals
<1> QED BY <1>1, <1>2 DEF Covering, Holdings

\* What is covered does not come down where no more is lost than is counted.
LEMMA CoveringHolds ==
    ASSUME TypeOK, Holdings(Operator)' \in Int, moves \in Nat, moves' \in Nat,
           moves <= moves',
           \/ Holdings(Operator) <= Holdings(Operator)'
           \/ /\ moves + 1 <= moves'
              /\ Holdings(Operator) <= Holdings(Operator)' + MaxLoss
    PROVE  Covering \in Int /\ Covering' \in Int /\ Covering <= Covering'
<1> DEFINE k == Holdings(Operator)'
<1>1. Holdings(Operator) \in Nat /\ MaxLoss \in Nat
    BY CoveringIsNat, TwoUnitsAreLost
<1>2. Covering = Holdings(Operator) + moves * MaxLoss /\ Covering' = k + moves' * MaxLoss
    BY DEF Covering, MaxLoss
<1>3. /\ k \in Int
      /\ \/ Holdings(Operator) <= k
         \/ moves + 1 <= moves' /\ Holdings(Operator) <= k + MaxLoss
    OBVIOUS
<1> HIDE DEF k
<1> QED BY <1>1, <1>2, <1>3, LossesAddUp

\* Nobody counts more than before, and what is covered does not come down.
Steady ==
    /\ Covering \in Int /\ Covering' \in Int /\ Covering <= Covering'
    /\ \A v \in Workers : /\ pc'[v] = pc[v] /\ local'[v] = local[v]
                          /\ disturbed[v] \subseteq disturbed'[v]

ReadingStays ==
    /\ overstated => overstated'
    /\ step' \in BeforeSync =>
          step \in BeforeSync /\ call'.seen = call.seen /\ meddled \subseteq meddled'

LEMMA TotalsAreNat ==
    ASSUME CoverInv
    PROVE  /\ vault[Operator].total_underlying \in Nat
           /\ call.seen.total_underlying \in Nat
           /\ \A v \in Workers : local[v].usdc \in Nat
<1>1. /\ vault[Operator] \in Vault /\ call.seen \in Vault
      /\ \A v \in Workers : local[v] \in Locals
    BY CallParts, RebalancerAssumption
       DEF CoverInv, PaymentInv, ClientInv, RebInv, TypeOK, BotTypeOK
<1> QED BY <1>1, U64IsNat DEF Vault, Locals

LEMMA MemoryStaysCovered ==
    ASSUME CoverInv, Steady
    PROVE  \A v \in Workers : Remembers(v)'
BY TotalsAreNat DEF CoverInv, Steady, Remembers

LEMMA ReadingStaysCovered ==
    ASSUME CoverInv, ReadingStays,
           Covering \in Int, Covering' \in Int, Covering <= Covering'
    PROVE  ReadingCovered'
BY TotalsAreNat DEF CoverInv, ReadingStays, ReadingCovered

LEMMA BooksStayAsCovered ==
    ASSUME CoverInv, overstated => overstated', UNCHANGED vault,
           Covering \in Int, Covering' \in Int, Covering <= Covering'
    PROVE  BooksCovered'
BY TotalsAreNat DEF CoverInv, BooksCovered

\* A lending call rounds MaxLoss away at most.
LEMMA LendingCallLoses ==
    ASSUME TypeOK, PricesBounded, LendingCall
    PROVE  /\ Holdings(Operator)' \in Int
           /\ Holdings(Operator) <= Holdings(Operator)' + MaxLoss
           /\ UNCHANGED vault
<1>1. PICK x \in Nat :
          \/ JupDeposit(Operator, x) \/ KaminoDeposit(Operator, x)
          \/ JupWithdraw(Operator, x) \/ KaminoWithdraw(Operator, x)
    BY DEF LendingCall
<1>2. CASE JupDeposit(Operator, x) \/ KaminoDeposit(Operator, x)
    BY <1>2, SupplyFacts DEF accounts
<1>3. CASE JupWithdraw(Operator, x) \/ KaminoWithdraw(Operator, x)
    <2>1. PICK m \in Markets : Redeem(m, Operator, x)
        BY <1>3 DEF JupWithdraw, KaminoWithdraw, Markets
    <2>2. UNCHANGED <<price, vault>> /\ Operator \in Admins
        BY <1>3, RebalancerAssumption DEF JupWithdraw, KaminoWithdraw, accounts
    <2> QED BY <2>1, <2>2, RedeemKeepsWorth
<1> QED BY <1>1, <1>2, <1>3

\* What everybody notes keeps the history in its range.
LEMMA AllNote ==
    ASSUME HistoryTypeOK, UNCHANGED result, NEW what \in Deeds, Disturb(Workers, what)
    PROVE  /\ HistoryTypeOK'
           /\ \A v \in Workers : /\ disturbed[v] \subseteq disturbed'[v]
                                 /\ what \in disturbed'[v]
BY DEF HistoryTypeOK, Disturb

LEMMA CoverParts ==
    ASSUME CoverInv
    PROVE  /\ ClientInv /\ RebInv /\ TypeOK /\ BotTypeOK /\ PricesBounded
           /\ HistoryTypeOK /\ moves \in Nat
           /\ Covering \in Nat /\ Holdings(Operator) \in Nat
           /\ idle[Operator] \in Nat /\ idle[Operator] <= Holdings(Operator)
           /\ Holdings(Operator) <= Covering
           /\ Operator \in Admins /\ vault \in [Admins -> Vault]
<1>1. /\ ClientInv /\ RebInv /\ TypeOK /\ BotTypeOK /\ PricesBounded
      /\ HistoryTypeOK /\ moves \in Nat
    BY DEF CoverInv, PaymentInv, ClientInv, RebInv, AuditTypeOK
<1> QED BY <1>1, CoveringIsNat, RebalancerAssumption DEF TypeOK

LEMMA FetchCovers ==
    ASSUME CoverInv, NEW u \in Users, NEW amount \in Amounts, Fetch(u, amount)
    PROVE  /\ AuditTypeOK' /\ BooksCovered' /\ ReadingCovered'
           /\ \A v \in Workers : Remembers(v)'
<1>1. /\ UNCHANGED <<vault, idle, tokens, price, pc, local, result, disturbed>>
      /\ UNCHANGED <<moves, overstated>>
      /\ call'.seen = vault[Operator] /\ meddled' = {}
    BY DEF Fetch, rebVars, vars, bot, history, audit
<1>2. Holdings(Operator)' = Holdings(Operator)
    BY <1>1, CoverParts, HoldingsKept
<1>3. Covering' = Covering
    BY <1>1, <1>2 DEF Covering, MaxLoss
<1>4. Steady
    BY <1>1, <1>3, CoverParts DEF Steady
<1>5. AuditTypeOK'
    BY <1>1 DEF CoverInv, AuditTypeOK, HistoryTypeOK
<1>6. BooksCovered' /\ ReadingCovered'
    BY <1>1, <1>3 DEF CoverInv, BooksCovered, ReadingCovered
<1> QED BY <1>4, <1>5, <1>6, MemoryStaysCovered

\* Steps of the client that leave the chain and its history alone.
LEMMA QuietStepsCover ==
    ASSUME CoverInv, ReadJupRate \/ LoadKaminoMarket \/ Return \/ Fail
    PROVE  /\ AuditTypeOK' /\ BooksCovered' /\ ReadingCovered'
           /\ \A v \in Workers : Remembers(v)'
<1>1. /\ UNCHANGED <<vault, idle, tokens, price, pc, local, result, disturbed>>
      /\ UNCHANGED <<moves, overstated, meddled>>
    BY DEF ReadJupRate, LoadKaminoMarket, Return, Fail, Goes, rebVars, vars, bot,
       history, audit
<1>2. Holdings(Operator)' = Holdings(Operator)
    BY <1>1, CoverParts, HoldingsKept
<1>3. Covering' = Covering
    BY <1>1, <1>2 DEF Covering, MaxLoss
<1>4. Steady /\ Covering \in Int /\ Covering' \in Int /\ Covering <= Covering'
    BY <1>1, <1>3, CoverParts DEF Steady
<1>5. AuditTypeOK'
    BY <1>1 DEF CoverInv, AuditTypeOK, HistoryTypeOK
<1>6. ReadingStays
    <2>1. call \in Calls
        BY CoverParts DEF ClientInv
    <2>2. CASE ReadJupRate \/ LoadKaminoMarket
        <3>1. step \in BeforeSync /\ call'.seen = call.seen
            BY <2>1, <2>2 DEF ReadJupRate, LoadKaminoMarket, Goes, BeforeSync, Calls
        <3> QED BY <1>1, <3>1 DEF ReadingStays
    <2>3. CASE Return \/ Fail
        BY <1>1, <2>3 DEF Return, Fail, Goes, BeforeSync, ReadingStays
    <2> QED BY <2>2, <2>3
<1> QED BY <1>1, <1>4, <1>5, <1>6, MemoryStaysCovered, ReadingStaysCovered,
        BooksStayAsCovered

LEMMA RedemptionsCover ==
    ASSUME CoverInv, CallJupWithdraw \/ CallKaminoWithdraw
    PROVE  /\ AuditTypeOK' /\ BooksCovered' /\ ReadingCovered'
           /\ \A v \in Workers : Remembers(v)'
<1>1. /\ UNCHANGED <<pc, local, result, overstated, meddled, call>>
      /\ Disturb(Workers, "client") /\ moves' = moves + 1
      /\ step \in BeforeSync
    BY DEF CallJupWithdraw, CallKaminoWithdraw, Goes, bot, BeforeSync
<1>2. /\ Holdings(Operator)' \in Int
      /\ Holdings(Operator) <= Holdings(Operator)' + MaxLoss
      /\ UNCHANGED vault
    BY CoverParts, ClientCallsKeepInv, LendingCallLoses
<1>3. moves \in Nat /\ moves' \in Nat /\ moves <= moves' /\ moves + 1 <= moves'
    BY <1>1, CoverParts
<1>4. Covering \in Int /\ Covering' \in Int /\ Covering <= Covering'
    BY <1>2, <1>3, CoverParts, CoveringHolds
<1>5. HistoryTypeOK' /\ \A v \in Workers : disturbed[v] \subseteq disturbed'[v]
    <2>1. "client" \in Deeds
        BY DEF Deeds
    <2> QED BY <1>1, <2>1, CoverParts, AllNote
<1>6. Steady /\ ReadingStays
    BY <1>1, <1>4, <1>5 DEF Steady, ReadingStays
<1>7. AuditTypeOK'
    BY <1>1, <1>3, <1>5 DEF CoverInv, AuditTypeOK
<1> QED BY <1>1, <1>2, <1>4, <1>6, <1>7, MemoryStaysCovered, ReadingStaysCovered,
        BooksStayAsCovered

\* The total the client sends: the difference, or its magnitude.
LEMMA TotalSent ==
    ASSUME NEW t \in Nat, NEW n \in Nat
    PROVE  Abs(t - n) \in Nat /\ Abs(t - n) <= (IF n > t THEN n ELSE t)
BY DEF Abs

\* More was redeemed than the books claimed: the amount itself is covered.
LEMMA AmountIsCovered ==
    ASSUME CoverInv, step = "sync", OnlyGains
    PROVE  call.amount \in Nat /\ call.amount <= Holdings(Operator) + RateRoundings * MaxLoss
<1>1. call.amount <= Gained + RateLoss
    BY DEF CoverInv, PaymentInv, Payment, EnoughRedeemed, AllRedeemed
<1>2. /\ call.amount \in Nat /\ call.idleBefore \in Nat /\ RateLoss \in Nat
      /\ idle[Operator] \in Nat /\ Holdings(Operator) \in Nat
      /\ idle[Operator] <= Holdings(Operator)
    BY CoverParts, PaymentParts
<1> QED BY <1>1, <1>2 DEF Gained, RateLoss

LEMMA ClientSyncCovers ==
    ASSUME CoverInv, CallSync
    PROVE  /\ AuditTypeOK' /\ BooksCovered' /\ ReadingCovered'
           /\ \A v \in Workers : Remembers(v)'
<1>1. /\ UNCHANGED <<idle, tokens, price, pc, local, result, meddled, call>>
      /\ Disturb(Workers, "client") /\ step = "sync" /\ step' = "fetch_position"
      /\ moves' = moves + (IF SignLost THEN RateRoundings ELSE 0)
      /\ overstated' = ( \/ overstated \/ "withdrawal" \in meddled
                         \/ SignLost /\ "worker" \in meddled )
      /\ SyncVaultState(Operator, ClientBooks)
    BY DEF CallSync, Goes, bot, SyncVaultState, funds
<1>2. Holdings(Operator)' = Holdings(Operator)
    BY <1>1, CoverParts, HoldingsKept
<1>3. /\ call.amount \in Nat /\ call.seen.total_underlying \in Nat
      /\ RateRoundings \in Nat
    <2>1. call.amount \in Nat /\ TokenUnit \in Nat \ {0}
        BY CoverParts, PaymentParts, VaultConstantsAssumption
    <2>2. call.amount \div TokenUnit \in Nat
        BY <2>1, DivisionRoundsDown
    <2> QED BY <2>1, <2>2, TotalsAreNat DEF RateRoundings
<1>4. moves \in Nat /\ moves' \in Nat /\ moves <= moves'
    BY <1>1, <1>3, CoverParts
<1>5. Covering \in Int /\ Covering' \in Int /\ Covering <= Covering'
    BY <1>2, <1>4, CoverParts, CoveringHolds
<1>6. HistoryTypeOK' /\ \A v \in Workers : disturbed[v] \subseteq disturbed'[v]
    <2>1. "client" \in Deeds
        BY DEF Deeds
    <2> QED BY <1>1, <2>1, CoverParts, AllNote
<1>7. Steady /\ ReadingStays
    BY <1>1, <1>5, <1>6 DEF Steady, ReadingStays, BeforeSync
<1>8. AuditTypeOK'
    BY <1>1, <1>4, <1>6 DEF CoverInv, AuditTypeOK
<1>9. vault'[Operator].total_underlying = Abs(call.seen.total_underlying - call.amount)
    <2>1. ClientBooks.new_total_underlying = Abs(call.seen.total_underlying - call.amount)
        BY DEF ClientBooks
    <2>2. vault[Operator] \in Vault
        BY CoverParts
    <2>3. vault'[Operator].total_underlying = ClientBooks.new_total_underlying
        BY <1>1, <2>2, CoverParts DEF SyncVaultState, Vault
    <2> QED BY <2>1, <2>3
<1>10. ASSUME ~overstated'
       PROVE  vault'[Operator].total_underlying <= Covering'
    <2>1. ~overstated /\ "withdrawal" \notin meddled /\ ~ (SignLost /\ "worker" \in meddled)
        BY <1>1, <1>10
    <2>2. CASE ~SignLost
        <3>1. call.seen.total_underlying <= Covering
            BY <1>1, <2>1 DEF CoverInv, ReadingCovered, BeforeSync
        <3>2. ~ (call.amount > call.seen.total_underlying)
            BY <2>2 DEF SignLost
        <3>3. /\ vault'[Operator].total_underlying \in Nat
              /\ vault'[Operator].total_underlying <= call.seen.total_underlying
            BY <1>3, <1>9, <3>2, TotalSent
        <3> QED BY <1>3, <1>5, <3>1, <3>3
    <2>3. CASE SignLost
        <3>1. OnlyGains
            BY <2>1, <2>3 DEF CoverInv, AuditTypeOK, OnlyGains
        <3>2. call.amount <= Holdings(Operator) + RateRoundings * MaxLoss
            BY <1>1, <3>1, AmountIsCovered
        <3>3. call.amount > call.seen.total_underlying
            BY <2>3 DEF SignLost
        <3>4. /\ vault'[Operator].total_underlying \in Nat
              /\ vault'[Operator].total_underlying <= call.amount
            BY <1>3, <1>9, <3>3, TotalSent
        <3>5. /\ RateRoundings * MaxLoss \in Nat /\ moves * MaxLoss \in Nat
              /\ (moves + RateRoundings) * MaxLoss = moves * MaxLoss + RateRoundings * MaxLoss
            BY <1>3, <1>4, TwoUnitsAreLost, ProductOfNaturals, Distributes
        <3>6. Covering' = Holdings(Operator) + (moves + RateRoundings) * MaxLoss
            BY <1>1, <1>2, <2>3 DEF Covering, MaxLoss
        <3>7. Holdings(Operator) \in Nat
            BY CoverParts
        <3>8. call.amount <= Holdings(Operator) + (moves + RateRoundings) * MaxLoss
            BY <1>3, <3>2, <3>5, <3>7
        <3>9. Holdings(Operator) + (moves + RateRoundings) * MaxLoss \in Nat
            BY <3>5, <3>7
        <3> QED BY ONLY <1>3, <3>4, <3>6, <3>8, <3>9
    <2> QED BY <2>2, <2>3
<1> QED BY <1>5, <1>7, <1>8, <1>10, MemoryStaysCovered, ReadingStaysCovered
        DEF BooksCovered

\* The books a worker writes: its total, unless it balances lazily.
WritesItsTotal(w) ==
    /\ pc[w] \in {"first_sync", "reb_sync"} /\ pc'[w] # pc[w]
    /\ vault'[Operator].total_underlying = local[w].usdc

LEMMA BooksOfWorkers ==
    ASSUME RebInv, NEW w \in Workers, Start(w) \/ Invocation(w) \/ Interrupt(w)
    PROVE  \/ UNCHANGED vault
           \/ pc[w] = "lazy_sync" /\ pc'[w] # pc[w]
           \/ WritesItsTotal(w)
<1>1. Operator \in Admins /\ vault \in [Admins -> Vault] /\ vault[Operator] \in Vault
    BY RebalancerAssumption DEF RebInv, TypeOK
<1>2. pc \in [Workers -> Awaits]
    BY DEF RebInv, BotTypeOK
<1>3. CASE FirstSync(w) \/ RebSync(w)
    <2>1. PICK args, how :
              /\ SyncVaultState(Operator, args) /\ End(w, how)
              /\ args.new_total_underlying = local[w].usdc
              /\ pc[w] \in {"first_sync", "reb_sync"}
        BY <1>3 DEF FirstSync, RebSync, WriteBooks, FirstArgs, RebalanceArgs, Books
    <2>2. vault'[Operator].total_underlying = local[w].usdc
        BY <1>1, <2>1 DEF SyncVaultState, Vault
    <2>3. pc'[w] = "idle"
        BY <1>2, <2>1 DEF End
    <2> QED BY <2>1, <2>2, <2>3 DEF WritesItsTotal
<1>4. CASE LazySync(w)
    <2>1. pc[w] = "lazy_sync" /\ pc'[w] = "idle"
        BY <1>2, <1>4 DEF LazySync, WriteBooks, End
    <2> QED BY <2>1
<1>5. CASE Start(w) \/ Throw(w) \/ Interrupt(w) \/ LazyRead(w)
    BY <1>5 DEF Start, Throw, Interrupt, LazyRead, Read, vars
<1>6. CASE \/ ReadUsdc(w) \/ ReadJup(w) \/ ReadKamino(w)
           \/ RereadJup(w) \/ RereadKamino(w) \/ ValueJup(w) \/ Decide(w)
    BY <1>6 DEF ReadUsdc, ReadJup, ReadKamino, RereadJup, RereadKamino, ValueJup,
       Decide, Read, vars
<1>7. CASE RebReadJup(w) \/ RebReadKamino(w) \/ RebReadTotal(w) \/ LazyFetch(w)
    BY <1>7 DEF RebReadJup, RebReadKamino, RebReadTotal, LazyFetch, Read, vars
<1>8. CASE \/ FirstJup(w) \/ FirstKamino(w) \/ RebJupWithdraw(w) \/ RebKaminoWithdraw(w)
           \/ RebJupDeposit(w) \/ RebKaminoDeposit(w)
    BY <1>8 DEF FirstJup, FirstKamino, RebJupWithdraw, RebKaminoWithdraw,
       RebJupDeposit, RebKaminoDeposit, JupDeposit, KaminoDeposit, JupWithdraw,
       KaminoWithdraw, accounts
<1>9. CASE LazyJup(w) \/ LazyKamino(w)
    BY <1>9 DEF LazyJup, LazyKamino, JupDeposit, KaminoDeposit, accounts, Read, vars
<1> QED BY <1>3, <1>4, <1>5, <1>6, <1>7, <1>8, <1>9 DEF Invocation

\* What a worker remembers as the total is what it remembered before, or what
\* is idle.
LEMMA WorkersRemember ==
    ASSUME CoverInv, NEW w \in Workers, Start(w) \/ Invocation(w) \/ Interrupt(w),
           Covering \in Int, Covering' \in Int, Covering <= Covering'
    PROVE  \A v \in Workers : Remembers(v)'
<1>1. RebInv /\ HistoryTypeOK
    BY CoverParts
<1>2. \A v \in Workers : local[v].usdc \in Nat /\ Remembers(v)
    BY TotalsAreNat DEF CoverInv
<1>3. ASSUME NEW v \in Workers \ {w}
      PROVE  Remembers(v)'
    <2>1. /\ pc'[v] = pc[v] /\ local'[v] = local[v] /\ disturbed[v] \subseteq disturbed'[v]
        BY <1>1, WorkersKeepHistory DEF Noted, Bystander
    <2> QED BY <1>2, <2>1 DEF Remembers
<1>4. Remembers(w)'
    <2>1. TotalFollows(w)
        BY <1>1, TotalsFollow
    <2>2. idle[Operator] \in Nat /\ idle[Operator] <= Covering
        BY CoverParts
    <2> QED BY <1>2, <2>1, <2>2 DEF Remembers, TotalFollows
<1> QED BY <1>3, <1>4

LEMMA WorkersCover ==
    ASSUME CoverInv, NEW w \in Workers, Start(w) \/ Invocation(w) \/ Interrupt(w),
           UNCHANGED client, meddled \subseteq meddled',
           meddled' \subseteq meddled \cup {"worker"},
           moves' = moves + (IF tokens' = tokens /\ idle' = idle THEN 0 ELSE 1),
           overstated' = (overstated \/ ( /\ vault' # vault
                                          /\ \E v \in Workers :
                                                pc'[v] # pc[v] /\ Overstates(v) ))
    PROVE  /\ AuditTypeOK' /\ BooksCovered' /\ ReadingCovered'
           /\ \A v \in Workers : Remembers(v)'
<1>1. RebInv /\ TypeOK /\ HistoryTypeOK /\ PricesBounded /\ moves \in Nat
    BY CoverParts
<1>2. moves' \in Nat /\ moves <= moves'
    BY <1>1
<1>3. Covering \in Int /\ Covering' \in Int /\ Covering <= Covering'
    <2>1. CASE tokens' = tokens /\ idle' = idle
        <3>1. UNCHANGED price
            <4>1. LendingCall \/ BooksWritten \/ UNCHANGED vars
                BY <1>1, WhatAwaitsDo
            <4> QED BY <4>1 DEF LendingCall, JupDeposit, KaminoDeposit, JupWithdraw,
                    KaminoWithdraw, BooksWritten, SyncVaultState, vars
        <3>2. Holdings(Operator)' = Holdings(Operator)
            BY <2>1, <3>1, CoverParts, HoldingsKept
        <3> QED BY <1>1, <1>2, <3>2, CoverParts, CoveringHolds
    <2>2. CASE ~ (tokens' = tokens /\ idle' = idle)
        <3>1. LendingCall
            BY <1>1, <2>2, WhatAwaitsDo DEF BooksWritten, SyncVaultState, funds, vars
        <3>2. /\ Holdings(Operator)' \in Int
              /\ Holdings(Operator) <= Holdings(Operator)' + MaxLoss
            BY <1>1, <3>1, LendingCallLoses
        <3>3. moves + 1 <= moves'
            BY <1>1, <2>2
        <3> QED BY <1>1, <1>2, <3>2, <3>3, CoveringHolds
    <2> QED BY <2>1, <2>2
<1>4. AuditTypeOK'
    <2>1. HistoryTypeOK'
        BY <1>1, WorkersKeepHistory DEF Noted
    <2> QED BY <1>2, <2>1 DEF CoverInv, AuditTypeOK
<1>5. ReadingCovered'
    <2>1. UNCHANGED <<step, call>>
        BY DEF client
    <2>2. ReadingStays
        BY <2>1 DEF ReadingStays
    <2> QED BY <1>3, <2>2, ReadingStaysCovered
<1>6. BooksCovered'
    <2>1. CASE UNCHANGED vault
        BY <1>3, <2>1, BooksStayAsCovered
    <2>2. CASE pc[w] = "lazy_sync" /\ pc'[w] # pc[w] /\ vault' # vault
        <3>1. overstated'
            BY <2>2 DEF Overstates
        <3> QED BY <3>1 DEF BooksCovered
    <2>3. CASE WritesItsTotal(w) /\ vault' # vault
        <3>1. CASE "withdrawal" \in disturbed[w]
            <4>1. overstated'
                BY <2>3, <3>1 DEF Overstates, WritesItsTotal
            <4> QED BY <4>1 DEF BooksCovered
        <3>2. CASE "withdrawal" \notin disturbed[w]
            <4>1. local[w].usdc <= Covering /\ local[w].usdc \in Nat
                BY <2>3, <3>2, TotalsAreNat DEF CoverInv, Remembers, WritesItsTotal, HasTotal
            <4> QED BY <1>3, <2>3, <4>1 DEF BooksCovered, WritesItsTotal
        <3> QED BY <3>1, <3>2
    <2> QED BY <1>1, <2>1, <2>2, <2>3, BooksOfWorkers
<1> QED BY <1>3, <1>4, <1>5, <1>6, WorkersRemember

\* A withdrawal takes no more off what is covered than it takes off the books.
LEMMA WithdrawalTakes ==
    ASSUME NEW t \in Nat, NEW x \in Nat, NEW c \in Nat, NEW d \in Nat, t <= c,
           c <= d + x
    PROVE  SaturatingSub(t, x) \in Nat /\ SaturatingSub(t, x) <= d
BY DEF SaturatingSub

LEMMA WithdrawalTotal ==
    ASSUME NEW v \in Vault, NEW x \in Nat
    PROVE  AfterWithdraw(v, x).total_underlying = SaturatingSub(v.total_underlying, x)
BY DEF AfterWithdraw, Vault

\* What a user withdraws, and roundings that are counted, come off the holdings.
LEMMA WithdrawalLoses ==
    ASSUME CoverInv, NEW u \in Users, NEW x \in Amounts, Withdraw(u, Operator, x),
           moves' = moves + (IF tokens' = tokens THEN 0 ELSE 2)
    PROVE  /\ x \in Nat /\ moves' \in Nat
           /\ Covering' \in Nat /\ Covering <= Covering' + x
<1>1. /\ TypeOK /\ moves \in Nat /\ Operator \in Admins /\ x \in Nat
      /\ Holdings(Operator) \in Nat /\ idle[Operator] \in Nat
    BY CoverParts, AmountsAreNat
<1>2. /\ Holdings(Operator)' \in Nat
      /\ Holdings(Operator) <= Holdings(Operator)' + x + 2
    BY <1>1, WithdrawnWorth
<1>3. ASSUME tokens' = tokens
      PROVE  Holdings(Operator) <= Holdings(Operator)' + x
    <2>1. PICK jup \in U64, kamino \in U64 :
              /\ tokens' = [tokens EXCEPT !["jup"][Operator] = @ - jup,
                                          !["kamino"][Operator] = @ - kamino]
              /\ Payout(u, Operator, RedeemedFor("jup", jup)
                                       + RedeemedFor("kamino", kamino), x)
              /\ UNCHANGED price
        BY <1>1, WithdrawParts
    <2>2. /\ tokens["jup"][Operator] \in Nat /\ tokens["kamino"][Operator] \in Nat
          /\ tokens \in [Markets -> [Admins -> U64]] /\ jup \in Nat /\ kamino \in Nat
          /\ RedeemedFor("jup", tokens["jup"][Operator]) \in Nat
          /\ RedeemedFor("kamino", tokens["kamino"][Operator]) \in Nat
        BY <1>1, HoldingsAreNat, U64IsNat DEF TypeOK
    <2>3. jup = 0 /\ kamino = 0
        <3>1. /\ tokens'["jup"][Operator] = tokens["jup"][Operator] - jup
              /\ tokens'["kamino"][Operator] = tokens["kamino"][Operator] - kamino
            BY <1>1, <2>1, <2>2 DEF Markets
        <3> QED BY <1>3, <2>2, <3>1
    <2>4. RedeemedFor("jup", jup) = 0 /\ RedeemedFor("kamino", kamino) = 0
        <3>1. price["jup"] \in Nat /\ price["kamino"] \in Nat /\ PriceScale \in Nat \ {0}
            BY <1>1, PricesArePositive, U64IsNat DEF TypeOK, Markets
        <3> QED BY <2>3, <3>1 DEF RedeemedFor
    <2>5. idle'[Operator] = idle[Operator] - x
        <3>1. idle \in [Admins -> U64]
            BY <1>1 DEF TypeOK
        <3> QED BY <1>1, <2>1, <2>4, <3>1 DEF Payout
    <2>6. Holdings(Operator)' = (idle[Operator] - x)
                                  + RedeemedFor("jup", tokens["jup"][Operator])
                                  + RedeemedFor("kamino", tokens["kamino"][Operator])
        <3>1. /\ UNCHANGED price
              /\ tokens'["jup"][Operator] = tokens["jup"][Operator]
              /\ tokens'["kamino"][Operator] = tokens["kamino"][Operator]
            BY <1>3, <2>1
        <3> QED BY <1>1, <2>5, <3>1, HoldingsAfter
    <2> QED BY <1>1, <2>2, <2>6 DEF Holdings
<1>4. moves' \in Nat /\ 2 <= MaxLoss /\ MaxLoss \in Nat
    BY <1>1, TwoUnitsAreLost
<1>5. moves * MaxLoss \in Nat /\ moves' * MaxLoss \in Nat
    BY <1>1, <1>4, ProductOfNaturals
<1>6. Holdings(Operator) + moves * MaxLoss
        <= Holdings(Operator)' + moves' * MaxLoss + x
    <2> DEFINE k == Holdings(Operator)'
               d == moves' * MaxLoss
    <2>1. k \in Nat /\ d \in Nat
        BY <1>2, <1>5
    <2>2. CASE tokens' = tokens
        <3>1. Holdings(Operator) <= k + x /\ d = moves * MaxLoss
            BY <1>1, <1>3, <2>2
        <3> HIDE DEF k, d
        <3>2. Holdings(Operator) + moves * MaxLoss <= k + d + x
            BY <1>1, <1>5, <2>1, <3>1
        <3> QED BY <3>2 DEF k, d
    <2>3. CASE tokens' # tokens
        <3>1. Holdings(Operator) <= k + x + 2
            BY <1>2
        <3>2. d = moves * MaxLoss + 2 * MaxLoss
            BY <1>1, <1>4, <2>3, Distributes
        <3> HIDE DEF k, d
        <3>3. Holdings(Operator) + moves * MaxLoss <= k + d + x
            BY <1>1, <1>4, <1>5, <2>1, <3>1, <3>2
        <3> QED BY <3>3 DEF k, d
    <2> QED BY <2>2, <2>3
<1>7. Covering = Holdings(Operator) + moves * MaxLoss
      /\ Covering' = Holdings(Operator)' + moves' * MaxLoss
    BY DEF Covering, MaxLoss
<1> DEFINE k == Holdings(Operator)'
           c == Covering'
<1>8. /\ k \in Nat /\ c = k + moves' * MaxLoss
      /\ Covering <= k + moves' * MaxLoss + x
    BY <1>2, <1>6, <1>7
<1> HIDE DEF k, c
<1>9. c \in Nat /\ Covering <= c + x
    BY <1>1, <1>5, <1>8, CoverParts
<1> QED BY <1>1, <1>4, <1>9 DEF c

LEMMA WithdrawalCovers ==
    ASSUME CoverInv, NEW u \in Users, NEW x \in Amounts, Withdraw(u, Operator, x),
           Disturb(Workers, "withdrawal"), UNCHANGED <<bot, client, overstated>>,
           moves' = moves + (IF tokens' = tokens THEN 0 ELSE 2),
           meddled' = meddled \cup {"withdrawal"} \/ x = 0,
           meddled \subseteq meddled',
           meddled' \subseteq meddled \cup {"deposit", "withdrawal"}
    PROVE  /\ AuditTypeOK' /\ BooksCovered' /\ ReadingCovered'
           /\ \A v \in Workers : Remembers(v)'
<1>1. /\ x \in Nat /\ moves' \in Nat /\ Covering' \in Nat /\ Covering <= Covering' + x
      /\ Covering \in Nat
    BY WithdrawalLoses, CoverParts
<1>2. HistoryTypeOK' /\ \A v \in Workers : "withdrawal" \in disturbed'[v]
    <2>1. "withdrawal" \in Deeds /\ UNCHANGED result
        BY DEF Deeds, bot
    <2> QED BY <2>1, CoverParts, AllNote
<1>3. AuditTypeOK'
    BY <1>1, <1>2 DEF CoverInv, AuditTypeOK
<1>4. \A v \in Workers : Remembers(v)'
    BY <1>2 DEF Remembers
<1>5. ReadingCovered'
    <2>1. UNCHANGED <<step, call>>
        BY DEF client
    <2>2. CASE "withdrawal" \in meddled'
        BY <2>2 DEF ReadingCovered
    <2>3. CASE x = 0
        <3>1. Covering <= Covering'
            <4> DEFINE c == Covering'
            <4>1. c \in Nat /\ Covering <= c + x
                BY <1>1
            <4> HIDE DEF c
            <4>2. Covering <= c
                BY <1>1, <2>3, <4>1
            <4> QED BY <4>2 DEF c
        <3>2. ReadingStays
            BY <2>1 DEF ReadingStays
        <3> QED BY <1>1, <3>1, <3>2, ReadingStaysCovered
    <2> QED BY <2>2, <2>3
<1>6. BooksCovered'
    <2>1. vault'[Operator].total_underlying
            = SaturatingSub(vault[Operator].total_underlying, x)
        <3>1. vault' = [vault EXCEPT ![Operator] = AfterWithdraw(@, x)]
            BY CoverParts, WithdrawParts
        <3> QED BY <1>1, <3>1, CoverParts, WithdrawalTotal
    <2>2. ASSUME ~overstated
          PROVE  vault'[Operator].total_underlying <= Covering'
        <3>1. vault[Operator].total_underlying <= Covering
            BY <2>2 DEF CoverInv, BooksCovered
        <3> DEFINE c == Covering'
        <3>2. c \in Nat /\ Covering <= c + x
            BY <1>1
        <3> HIDE DEF c
        <3>3. SaturatingSub(vault[Operator].total_underlying, x) <= c
            BY <1>1, <3>1, <3>2, TotalsAreNat, WithdrawalTakes
        <3> QED BY <2>1, <3>3 DEF c
    <2> QED BY <2>2 DEF BooksCovered
<1> QED BY <1>3, <1>4, <1>5, <1>6

LEMMA DepositCovers ==
    ASSUME CoverInv, NEW u \in Users, NEW x \in Amounts, Deposit(u, Operator, x),
           Disturb(Workers, "deposit"), UNCHANGED <<bot, client, overstated>>,
           moves' = moves + (IF tokens' = tokens THEN 0 ELSE 2),
           meddled \subseteq meddled',
           meddled' \subseteq meddled \cup {"deposit", "withdrawal"}
    PROVE  /\ AuditTypeOK' /\ BooksCovered' /\ ReadingCovered'
           /\ \A v \in Workers : Remembers(v)'
<1>1. /\ TypeOK /\ x \in Nat /\ moves \in Nat /\ Operator \in Admins
      /\ Holdings(Operator) \in Nat /\ Covering \in Nat
      /\ vault \in [Admins -> Vault] /\ vault[Operator] \in Vault
    BY CoverParts, AmountsAreNat
<1>2. moves' = moves
    BY <1>1 DEF Deposit
<1>3. Holdings(Operator)' = Holdings(Operator) + x
    BY <1>1, DepositedWorth
<1>4. Covering' = Covering + x /\ Covering' \in Nat /\ Covering <= Covering'
    <2>1. Covering' = (Holdings(Operator) + x) + moves * MaxLoss
        BY <1>2, <1>3 DEF Covering, MaxLoss
    <2>2. moves * MaxLoss \in Nat
        BY <1>1, TwoUnitsAreLost, ProductOfNaturals
    <2>3. (Holdings(Operator) + x) + moves * MaxLoss = Covering + x
        BY <1>1, <2>2 DEF Covering
    <2> QED BY <1>1, <2>1, <2>3
<1>5. HistoryTypeOK' /\ \A v \in Workers : disturbed[v] \subseteq disturbed'[v]
    <2>1. "deposit" \in Deeds /\ UNCHANGED result
        BY DEF Deeds, bot
    <2> QED BY <2>1, CoverParts, AllNote
<1>6. AuditTypeOK'
    BY <1>2, <1>5 DEF CoverInv, AuditTypeOK
<1>7. Steady /\ ReadingStays
    BY <1>1, <1>4, <1>5 DEF Steady, ReadingStays, bot, client
<1>8. BooksCovered'
    <2>1. vault'[Operator].total_underlying = vault[Operator].total_underlying + x
        BY <1>1 DEF Deposit, Vault
    <2>2. ASSUME ~overstated
          PROVE  vault[Operator].total_underlying + x <= Covering + x
        BY <1>1, <2>2, TotalsAreNat DEF CoverInv, BooksCovered
    <2> QED BY <1>4, <2>1, <2>2 DEF BooksCovered
<1> QED BY <1>1, <1>4, <1>6, <1>7, <1>8, MemoryStaysCovered, ReadingStaysCovered

LEMMA InterestCovers ==
    ASSUME CoverInv, MarketStep, Meddle("price"), UNCHANGED audit
    PROVE  /\ AuditTypeOK' /\ BooksCovered' /\ ReadingCovered'
           /\ \A v \in Workers : Remembers(v)'
<1>1. /\ UNCHANGED <<vault, pc, local, result, moves, overstated, step, call>>
      /\ Disturb(Workers, "price") /\ meddled' = meddled \cup {"price"}
    BY DEF MarketStep, MarketNext, Accrue, accounts, bot, audit, Meddle, client
<1>2. PICK m \in Markets : Accrue(m)
    BY DEF MarketStep, MarketNext
<1>3. Holdings(Operator)' \in Int /\ Holdings(Operator) <= Holdings(Operator)'
    BY <1>2, CoverParts, AccrueRaisesWorth
<1>4. Covering \in Int /\ Covering' \in Int /\ Covering <= Covering'
    BY <1>1, <1>3, CoverParts, CoveringHolds
<1>5. HistoryTypeOK' /\ \A v \in Workers : disturbed[v] \subseteq disturbed'[v]
    <2>1. "price" \in Deeds
        BY DEF Deeds
    <2> QED BY <1>1, <2>1, CoverParts, AllNote
<1>6. AuditTypeOK'
    BY <1>1, <1>5 DEF CoverInv, AuditTypeOK
<1>7. Steady /\ ReadingStays
    BY <1>1, <1>4, <1>5 DEF Steady, ReadingStays
<1> QED BY <1>1, <1>4, <1>6, <1>7, MemoryStaysCovered, ReadingStaysCovered,
        BooksStayAsCovered

\* The chain may only change in that a vault is opened, whose books claim nothing.
LEMMA OpeningCovers ==
    ASSUME CoverInv, UNCHANGED <<idle, tokens, price, bot, history>>,
           UNCHANGED <<client, meddled, audit>>,
           vault' = vault \/ vault' = [vault EXCEPT ![Operator] = NewVault]
    PROVE  /\ AuditTypeOK' /\ BooksCovered' /\ ReadingCovered'
           /\ \A v \in Workers : Remembers(v)'
<1>1. /\ UNCHANGED <<pc, local, result, disturbed, moves, overstated, step, call>>
    BY DEF bot, history, client, audit
<1>2. Holdings(Operator)' = Holdings(Operator)
    BY CoverParts, HoldingsKept
<1>3. Covering' = Covering /\ Covering \in Nat
    BY <1>1, <1>2, CoverParts DEF Covering, MaxLoss
<1>4. Steady /\ ReadingStays /\ Covering \in Int /\ Covering' \in Int /\ Covering <= Covering'
    BY <1>1, <1>3 DEF Steady, ReadingStays
<1>5. AuditTypeOK'
    BY <1>1 DEF CoverInv, AuditTypeOK, HistoryTypeOK
<1>6. BooksCovered'
    <2>1. CASE vault' = vault
        BY <1>1, <1>4, <2>1, BooksStayAsCovered
    <2>2. CASE vault' = [vault EXCEPT ![Operator] = NewVault]
        <3>1. vault'[Operator].total_underlying = 0
            BY <2>2, CoverParts DEF NewVault
        <3> QED BY <1>3, <3>1 DEF BooksCovered
    <2> QED BY <2>1, <2>2
<1> QED BY <1>4, <1>5, <1>6, MemoryStaysCovered, ReadingStaysCovered

LEMMA UsersCover ==
    ASSUME CoverInv, UserStep, UNCHANGED overstated,
           Meddle(IF wallet' = wallet \/ \E u \in Users : wallet'[u] < wallet[u]
                  THEN "deposit" ELSE "withdrawal"),
           moves' = moves + (IF tokens' = tokens THEN 0 ELSE 2)
    PROVE  /\ AuditTypeOK' /\ BooksCovered' /\ ReadingCovered'
           /\ \A v \in Workers : Remembers(v)'
<1>1. UNCHANGED <<bot, client>>
    BY DEF UserStep, Meddle
<1>2. /\ meddled \subseteq meddled'
      /\ meddled' \subseteq meddled \cup {"deposit", "withdrawal"}
    BY DEF Meddle
<1>3. PICK u \in Users, x \in Amounts :
          \/ Deposit(u, Operator, x) /\ Disturb(Workers, "deposit")
          \/ Withdraw(u, Operator, x) /\ Disturb(Workers, "withdrawal")
    BY DEF UserStep
<1>4. CASE Withdraw(u, Operator, x) /\ Disturb(Workers, "withdrawal")
    <2>1. /\ wallet'[u] = wallet[u] + x
          /\ \A o \in Users \ {u} : wallet'[o] = wallet[o]
        BY <1>4, CoverParts, WithdrawnWorth
    <2>2. x \in Nat /\ \A o \in Users : wallet[o] \in Nat
        BY CoverParts, AmountsAreNat, U64IsNat DEF TypeOK
    <2>3. \A o \in Users : ~ (wallet'[o] < wallet[o])
        BY <2>1, <2>2
    <2>4. wallet' = wallet => x = 0
        BY <2>1, <2>2
    <2>5. meddled' = meddled \cup {"withdrawal"} \/ x = 0
        BY <2>3, <2>4 DEF Meddle
    <2> QED BY <1>1, <1>2, <1>4, <2>5, WithdrawalCovers
<1>5. CASE Deposit(u, Operator, x) /\ Disturb(Workers, "deposit")
    BY <1>1, <1>2, <1>5, DepositCovers
<1> QED BY <1>3, <1>4, <1>5

LEMMA OthersCover ==
    ASSUME CoverInv, OthersStep
    PROVE  /\ AuditTypeOK' /\ BooksCovered' /\ ReadingCovered'
           /\ \A v \in Workers : Remembers(v)'
<1>1. CASE OpenVault /\ UNCHANGED <<client, meddled, audit>>
    BY <1>1, OpeningCovers DEF OpenVault, InitializeVault, funds
<1>2. CASE /\ UserStep
           /\ Meddle(IF wallet' = wallet \/ \E u \in Users : wallet'[u] < wallet[u]
                     THEN "deposit" ELSE "withdrawal")
           /\ moves' = moves + (IF tokens' = tokens THEN 0 ELSE 2)
           /\ UNCHANGED overstated
    BY <1>2, UsersCover
<1>3. CASE MarketStep /\ Meddle("price") /\ UNCHANGED audit
    BY <1>3, InterestCovers
<1>4. CASE /\ WorkerStep
           /\ IF UNCHANGED vars THEN UNCHANGED <<client, meddled>> ELSE Meddle("worker")
           /\ moves' = moves + (IF tokens' = tokens /\ idle' = idle THEN 0 ELSE 1)
           /\ overstated' = (overstated \/ ( /\ vault' # vault
                                            /\ \E w \in Workers :
                                                  pc'[w] # pc[w] /\ Overstates(w) ))
    <2>1. UNCHANGED client /\ meddled \subseteq meddled'
          /\ meddled' \subseteq meddled \cup {"worker"}
        BY <1>4 DEF Meddle
    <2>2. PICK w \in Workers : Start(w) \/ Invocation(w) \/ Interrupt(w)
        BY <1>4 DEF WorkerStep
    <2> QED BY <1>4, <2>1, <2>2, WorkersCover
<1> QED BY <1>1, <1>2, <1>3, <1>4 DEF OthersStep

LEMMA ClientNextKeepsCoverInv ==
    ASSUME CoverInv, [ClientNext]_clientVars
    PROVE  CoverInv'
<1>1. PaymentInv'
    BY ClientNextKeepsPaymentInv DEF CoverInv
<1>2. ASSUME /\ AuditTypeOK' /\ BooksCovered' /\ ReadingCovered'
             /\ \A v \in Workers : Remembers(v)'
      PROVE  CoverInv'
    BY <1>1, <1>2 DEF CoverInv
<1>3. CASE ClientStep
    BY <1>2, <1>3, FetchCovers, QuietStepsCover, RedemptionsCover, ClientSyncCovers
       DEF ClientStep
<1>4. CASE OthersStep
    BY <1>2, <1>4, OthersCover
<1>5. CASE UNCHANGED clientVars
    <2>1. /\ UNCHANGED <<idle, tokens, price, bot, history>> /\ vault' = vault
          /\ UNCHANGED <<client, meddled, audit>>
        BY <1>5 DEF clientVars, rebVars, vars
    <2> QED BY <1>2, <2>1, OpeningCovers
<1> QED BY <1>3, <1>4, <1>5 DEF ClientNext

LEMMA CoverInitInv == ClientInit => CoverInv
<1> SUFFICES ASSUME ClientInit PROVE CoverInv
    OBVIOUS
<1>1. PaymentInv /\ TypeOK
    BY PaymentInitInv DEF PaymentInv, ClientInv, RebInv
<1>2. AuditTypeOK
    BY DEF ClientInit, RebInit, AuditTypeOK, HistoryTypeOK, Outcomes
<1>3. Covering \in Nat
    BY <1>1, <1>2, CoveringIsNat DEF AuditTypeOK
<1>4. \A w \in Workers : Remembers(w)
    BY DEF ClientInit, RebInit, Remembers, HasTotal
<1>5. BooksCovered /\ ReadingCovered
    <2>1. vault[Operator].total_underlying = 0
        BY RebalancerAssumption DEF ClientInit, RebInit, Init, NewVault
    <2> QED BY <1>3, <2>1 DEF ClientInit, BooksCovered, ReadingCovered, BeforeSync
<1> QED BY <1>1, <1>2, <1>4, <1>5 DEF CoverInv

(***************************************************************************)
(* However client withdrawals, workers, users and interest interleave, the *)
(* vault covers what its books claim, up to the rounding of the market     *)
(* calls counted, unless one of the three things the history notes has     *)
(* happened.                                                               *)
(***************************************************************************)
THEOREM BooksAreCovered == ClientSpec => []BooksStayCovered
<1>1. CoverInv => BooksStayCovered
    <2> SUFFICES ASSUME CoverInv, ~overstated
                 PROVE  vault[Operator].total_underlying
                          <= Holdings(Operator) + MaxLoss * moves
        BY DEF BooksStayCovered
    <2>1. vault[Operator].total_underlying <= Holdings(Operator) + moves * MaxLoss
        BY DEF CoverInv, BooksCovered, Covering
    <2>2. moves * MaxLoss = MaxLoss * moves
        BY CoverParts, TwoUnitsAreLost
    <2> QED BY <2>1, <2>2
<1> QED BY <1>1, CoverInitInv, ClientNextKeepsCoverInv, PTL DEF ClientSpec
=============================================================================
