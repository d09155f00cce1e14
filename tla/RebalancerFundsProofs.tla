------------------------ MODULE RebalancerFundsProofs ------------------------
(***************************************************************************)
(* What the rebalancer does to the funds, for every number of workers.     *)
(*                                                                         *)
(* First, it too implements Custody: what CustodyProofs shows of the       *)
(* program's instructions, for the amounts the bot computes and the books  *)
(* it writes.  An await that reads, an invocation that ends and books      *)
(* alone are stuttering steps.                                             *)
(*                                                                         *)
(* Then what its books claim, what it leaves idle and what can be          *)
(* withdrawn of what it supplied.  None of that is inductive: it is        *)
(* reached by a dozen awaits, and each relies on what the one before it    *)
(* found.  The invariants say, await by await, what a worker that nobody   *)
(* has disturbed knows of the vault.  For overlapping workers another one  *)
(* counts the market calls instead, made and outstanding.                  *)
(***************************************************************************)
EXTENDS RebalancerProofs, CustodyProofs, FiniteSetTheorems

\* A step of Custody, or a stutter, that keeps the bound on prices.
KeepsCustody ==
    /\ [Promise!CustodyNext]_<<wallet, [a \in Admins |-> Holdings(a)]>>
    /\ PricesBounded'

\* The chain is left alone, but for books and accounts.
LEMMA FundsUntouched ==
    ASSUME PricesBounded, UNCHANGED <<funds, price>>
    PROVE  KeepsCustody
BY BookkeepingStutters DEF KeepsCustody, PricesBounded

LEMMA LendingCallKeepsCustody ==
    ASSUME TypeOK, PricesBounded, NEW a \in Admins, NEW x \in Nat,
           \/ JupDeposit(a, x) \/ KaminoDeposit(a, x)
           \/ JupWithdraw(a, x) \/ KaminoWithdraw(a, x)
    PROVE  KeepsCustody
<1>1. UNCHANGED <<wallet, price>>
    BY DEF JupDeposit, KaminoDeposit, JupWithdraw, KaminoWithdraw
<1>2. PricesBounded'
    BY <1>1 DEF PricesBounded
<1>3. PICK m \in Markets : Supply(m, a, x) \/ Redeem(m, a, x)
    BY DEF JupDeposit, KaminoDeposit, JupWithdraw, KaminoWithdraw, Markets
<1>4. Promise!CustodyNext
    <2>1. CASE Supply(m, a, x)
        BY <1>1, <2>1, SupplyKeepsWorth, LendingShifts
    <2>2. CASE Redeem(m, a, x)
        BY <1>1, <2>2, RedeemKeepsWorth, LendingShifts
    <2> QED BY <1>3, <2>1, <2>2
<1> QED BY <1>2, <1>4 DEF KeepsCustody

\* One of the four lending instructions, for some amount.
LendingCall ==
    \E x \in Nat :
        \/ JupDeposit(Operator, x) \/ KaminoDeposit(Operator, x)
        \/ JupWithdraw(Operator, x) \/ KaminoWithdraw(Operator, x)

BooksWritten == \E args : SyncVaultState(Operator, args)

\* What an await of the bot does to the chain, whichever await it is.
LEMMA WhatAwaitsDo ==
    ASSUME RebInv, NEW w \in Workers, Start(w) \/ Invocation(w) \/ Interrupt(w)
    PROVE  LendingCall \/ BooksWritten \/ UNCHANGED vars
<1>1. /\ JupCallAmount(JupPart(w)) \in Nat /\ KaminoPart(w) \in Nat
      /\ local[w].jup \in Nat /\ local[w].kamino \in Nat
    BY MemoryParts, U64IsNat DEF Locals
<1>2. ASSUME \/ FirstJup(w) \/ FirstKamino(w)
             \/ RebJupWithdraw(w) \/ RebKaminoWithdraw(w)
             \/ RebJupDeposit(w) \/ RebKaminoDeposit(w)
             \/ LazyJup(w) \/ LazyKamino(w)
      PROVE  LendingCall \/ UNCHANGED vars
    BY <1>1, <1>2 DEF LendingCall, FirstJup, FirstKamino, RebJupWithdraw, RebKaminoWithdraw,
       RebJupDeposit, RebKaminoDeposit, LazyJup, LazyKamino, Read
<1>3. ASSUME FirstSync(w) \/ RebSync(w) \/ LazySync(w)
      PROVE  BooksWritten
    BY <1>3 DEF FirstSync, RebSync, LazySync, WriteBooks, BooksWritten
<1>4. ASSUME \/ Start(w) \/ Interrupt(w) \/ Throw(w)
             \/ ReadUsdc(w) \/ ReadJup(w) \/ ReadKamino(w)
             \/ RereadJup(w) \/ RereadKamino(w) \/ ValueJup(w) \/ Decide(w)
             \/ RebReadJup(w) \/ RebReadKamino(w) \/ RebReadTotal(w)
             \/ LazyFetch(w) \/ LazyRead(w)
      PROVE  UNCHANGED vars
    <2>1. CASE Start(w) \/ Interrupt(w) \/ Throw(w) \/ LazyRead(w)
        BY <2>1 DEF Start, Interrupt, Throw, LazyRead, Read
    <2>2. CASE ReadUsdc(w) \/ ReadJup(w) \/ ReadKamino(w) \/ LazyFetch(w)
        BY <2>2 DEF ReadUsdc, ReadJup, ReadKamino, LazyFetch, Read
    <2>3. CASE RereadJup(w) \/ RereadKamino(w) \/ ValueJup(w) \/ Decide(w)
        BY <2>3 DEF RereadJup, RereadKamino, ValueJup, Decide, Read
    <2>4. CASE RebReadJup(w) \/ RebReadKamino(w) \/ RebReadTotal(w)
        BY <2>4 DEF RebReadJup, RebReadKamino, RebReadTotal, Read
    <2> QED BY <1>4, <2>1, <2>2, <2>3, <2>4
<1> QED BY <1>2, <1>3, <1>4 DEF Invocation

LEMMA AwaitsKeepCustody ==
    ASSUME RebInv, PricesBounded, NEW w \in Workers,
           Start(w) \/ Invocation(w) \/ Interrupt(w)
    PROVE  KeepsCustody
<1>1. TypeOK /\ Operator \in Admins
    BY RebalancerAssumption DEF RebInv
<1>2. BooksWritten \/ UNCHANGED vars => UNCHANGED <<funds, price>>
    BY DEF BooksWritten, SyncVaultState, vars, funds
<1>3. LendingCall \/ UNCHANGED <<funds, price>>
    BY <1>2, WhatAwaitsDo
<1> QED BY <1>1, <1>3, LendingCallKeepsCustody, FundsUntouched DEF LendingCall

\* Users, interest and the opening of the vault are the program's own steps.
LEMMA EnvironmentKeepsCustody ==
    ASSUME RebInv, PricesBounded, OpenVault \/ UserStep \/ MarketStep
    PROVE  KeepsCustody
<1>1. Next
    BY RebalancerAssumption
       DEF OpenVault, UserStep, MarketStep, Next, UserNext, AdminNext
<1> QED BY <1>1, NextKeepsCustody, PricesStayBounded DEF RebInv, KeepsCustody

LEMMA RebNextKeepsCustody ==
    ASSUME RebInv, PricesBounded, [RebNext]_rebVars
    PROVE  KeepsCustody
<1>1. CASE UNCHANGED rebVars
    <2>1. UNCHANGED <<funds, price>>
        BY <1>1 DEF rebVars, vars, funds
    <2> QED BY <2>1, FundsUntouched
<1> QED BY <1>1, AwaitsKeepCustody, EnvironmentKeepsCustody DEF RebNext, WorkerStep

(***************************************************************************)
(* Whatever the bot computes, writes and leaves unfinished, and however    *)
(* many workers do so at once, users and vaults hold what Custody allows:  *)
(* lending shifts funds inside the vault, losing MaxLoss at most per call, *)
(* and no invocation touches a user's wallet or another vault.             *)
(***************************************************************************)
THEOREM BotKeepsCustody == RebSpec => FundsInCustody
<1>1. RebInit => Init
    BY DEF RebInit
<1>2. RebInit => PricesBounded /\ Promise!CustodyInit
    <2>1. Init => PricesBounded
        BY VaultConstantsAssumption DEF Init, PricesBounded
    <2> QED BY <1>1, <2>1, CustodyStarts
<1>3. RebInv /\ PricesBounded /\ [RebNext]_rebVars
        => /\ [Promise!CustodyNext]_<<wallet, [a \in Admins |-> Holdings(a)]>>
           /\ PricesBounded'
    BY RebNextKeepsCustody DEF KeepsCustody
<1> QED BY <1>2, <1>3, RebalancedAccountsFit, PTL
        DEF RebSpec, FundsInCustody, Promise!CustodySpec

-----------------------------------------------------------------------------
(* What the users hold of the vault.                                       *)

\* Lending and the writing of books issue no shares, and touch no position.
LEMMA AwaitsKeepShares ==
    ASSUME TypeOK, LendingCall \/ BooksWritten \/ UNCHANGED vars
    PROVE  SharesKept
<1>1. CASE LendingCall
    <2>1. UNCHANGED accounts
        BY <1>1 DEF LendingCall, JupDeposit, KaminoDeposit, JupWithdraw, KaminoWithdraw
    <2> QED BY <2>1 DEF accounts, SharesKept
<1>2. CASE BooksWritten
    <2>1. PICK args : SyncVaultState(Operator, args)
        BY <1>2 DEF BooksWritten
    <2>2. \A a \in Admins : vault'[a].total_shares = vault[a].total_shares
        BY <2>1 DEF SyncVaultState, TypeOK, Vault
    <2> QED BY <2>1, <2>2 DEF SyncVaultState, SharesKept
<1>3. CASE UNCHANGED vars
    BY <1>3 DEF vars, SharesKept
<1> QED BY <1>1, <1>2, <1>3

LEMMA RebNextOnlyDepositsMint ==
    ASSUME RebInv, UnopenedIssuedNothing, [RebNext]_rebVars
    PROVE  OnlyDepositsMint
<1>1. TypeOK
    BY DEF RebInv
<1>2. CASE OpenVault \/ UserStep \/ MarketStep
    <2>1. Next
        BY <1>2, RebalancerAssumption
           DEF OpenVault, UserStep, MarketStep, Next, UserNext, AdminNext
    <2> QED BY <1>1, <2>1, NextOnlyDepositsMint
<1>3. CASE WorkerStep
    BY <1>1, <1>3, WhatAwaitsDo, AwaitsKeepShares DEF WorkerStep, OnlyDepositsMint
<1>4. CASE UNCHANGED rebVars
    BY <1>1, <1>4, AwaitsKeepShares DEF rebVars, OnlyDepositsMint
<1> QED BY <1>2, <1>3, <1>4 DEF RebNext

LEMMA RebNextKeepsSharesInv ==
    ASSUME RebInv, SharesInv, [RebNext]_rebVars
    PROVE  SharesInv' /\ UsersSpared
<1>1. TypeOK /\ TypeOK'
    BY RebNextKeepsInv DEF RebInv
<1>2. OnlyDepositsMint
    BY RebNextOnlyDepositsMint DEF SharesInv, Backed
<1> QED BY <1>1, <1>2, SharesStayInv

(***************************************************************************)
(* The bot spares the users, whatever splits, growths and totals it writes *)
(* and wherever it stops: its invocations neither issue nor lose shares,   *)
(* no step dilutes them, and no credited reward is lost.                   *)
(***************************************************************************)
THEOREM BotSparesTheUsers == RebSpec => []ShareBacking /\ NoDilution /\ RewardsNeverLost
<1>1. RebInit => SharesInv
    BY InitSharesInv DEF RebInit
<1>2. RebInv /\ SharesInv /\ [RebNext]_rebVars
        => /\ SharesInv'
           /\ [\A a \in Admins : MintsFairly(a)]_vars
           /\ [\A u \in Users : position'[u].pending_rewards
                                  >= position[u].pending_rewards]_vars
    BY RebNextKeepsSharesInv DEF UsersSpared
<1>3. SharesInv => ShareBacking
    BY DEF SharesInv, Backed
<1> QED BY <1>1, <1>2, <1>3, RebalancedAccountsFit, PTL
        DEF RebSpec, NoDilution, RewardsNeverLost

-----------------------------------------------------------------------------
(* What one worker does, and what the others notice.                       *)

Outcomes ==
    { "none", "running", "first", "rebalanced", "lazy", "nothing idle",
      "threw", "interrupted" }

Deeds == {"worker", "deposit", "withdrawal", "price", "client"}

HistoryTypeOK ==
    /\ result \in [Workers -> Outcomes]
    /\ disturbed \in [Workers -> SUBSET Deeds]

\* A step of w that touches neither the chain nor what the others note.
Silent(w) ==
    /\ UNCHANGED vars
    /\ \A v \in Workers \ {w} : disturbed'[v] = disturbed[v]

\* Another worker stays where it is, and notes whatever w did to the chain.
Bystander(v, w) ==
    /\ pc'[v] = pc[v] /\ local'[v] = local[v] /\ result'[v] = result[v]
    /\ disturbed[v] \subseteq disturbed'[v]
    /\ Silent(w) \/ "worker" \in disturbed'[v]

\* All the others stay where they are, and the history stays of its type.
Noted(w) == HistoryTypeOK' /\ \A v \in Workers \ {w} : Bystander(v, w)

LEMMA ReadIsSilent ==
    ASSUME BotTypeOK, HistoryTypeOK, NEW w \in Workers, NEW here,
           NEW next, NEW l, Read(w, here, next, l)
    PROVE  /\ Noted(w) /\ UNCHANGED disturbed
           /\ pc[w] = here /\ pc'[w] = next /\ local'[w] = l /\ result'[w] = result[w]
BY DEF Read, Await, history, BotTypeOK, HistoryTypeOK, Noted, Bystander, Silent

LEMMA TransactIsNoted ==
    ASSUME BotTypeOK, HistoryTypeOK, NEW w \in Workers, NEW here,
           NEW next, Transact(w, here, next)
    PROVE  /\ Noted(w)
           /\ pc[w] = here /\ pc'[w] = next /\ local'[w] = local[w]
           /\ result'[w] = result[w] /\ disturbed'[w] = disturbed[w]
BY DEF Transact, Await, Disturb, BotTypeOK, HistoryTypeOK, Noted, Bystander, Deeds

LEMMA BooksAreNoted ==
    ASSUME BotTypeOK, HistoryTypeOK, NEW w \in Workers, NEW here, NEW args,
           NEW how \in Outcomes, WriteBooks(w, here, args, how)
    PROVE  /\ Noted(w)
           /\ pc[w] = here /\ pc'[w] = "idle"
           /\ result'[w] = how /\ disturbed'[w] = disturbed[w]
BY DEF WriteBooks, End, Disturb, BotTypeOK, HistoryTypeOK, Noted, Bystander, Deeds

LEMMA EndIsSilent ==
    ASSUME BotTypeOK, HistoryTypeOK, NEW w \in Workers, NEW how \in Outcomes,
           End(w, how), UNCHANGED <<vars, history>>
    PROVE  /\ Noted(w) /\ UNCHANGED disturbed
           /\ pc'[w] = "idle" /\ result'[w] = how
BY DEF End, history, BotTypeOK, HistoryTypeOK, Noted, Bystander, Silent

LEMMA StartIsSilent ==
    ASSUME BotTypeOK, HistoryTypeOK, NEW w \in Workers, Start(w)
    PROVE  /\ Noted(w) /\ UNCHANGED vars
           /\ pc'[w] = "read_usdc" /\ result'[w] = "running" /\ disturbed'[w] = {}
BY DEF Start, BotTypeOK, HistoryTypeOK, Noted, Bystander, Silent, Outcomes

-----------------------------------------------------------------------------
(* What a worker knows of the funds, await by await.                       *)

Finished == {"first", "rebalanced", "lazy"}

Alone(w) == disturbed[w] = {}

OnlyPrices(w) == disturbed[w] \subseteq {"price"}

Running(w) ==
    /\ pc[w] # "idle" => result[w] = "running" /\ Operator \in opened
    /\ result[w] \in Finished => Operator \in opened

\* Which positions it has read, and which it has redeemed.
KnowsPositions(w) ==
    /\ pc[w] \in {"read_kamino", "reb_read_kamino", "reb_jup_withdraw"} =>
          local[w].jup = tokens["jup"][Operator]
    /\ pc[w] \in {"reb_jup_withdraw", "reb_kamino_withdraw"} =>
          local[w].kamino = tokens["kamino"][Operator]
    /\ pc[w] \in {"reb_kamino_withdraw", "reb_read_total"} =>
          tokens["jup"][Operator] = 0
    /\ pc[w] = "reb_read_total" => tokens["kamino"][Operator] = 0

\* x is what the vault holds, but for what a number of calls rounded away.
CountsAll(x, calls) ==
    /\ Holdings(Operator) <= x
    /\ x <= Holdings(Operator) + calls * MaxLoss

KnowsTotal(w) ==
    /\ pc[w] \in {"first_jup", "reb_jup_deposit"} => CountsAll(local[w].usdc, 0)
    /\ pc[w] \in {"first_kamino", "reb_kamino_deposit"} => CountsAll(local[w].usdc, 1)
    /\ pc[w] \in {"first_sync", "reb_sync"} => CountsAll(local[w].usdc, 2)
    /\ result[w] \in {"first", "rebalanced"} =>
          CountsAll(vault[Operator].total_underlying, 2)

\* What it has supplied to Jup; lazy balancing leaves out a share of nothing.
JupSpent(w) ==
    IF pc[w] = "lazy_kamino" /\ JupPart(w) = 0 THEN 0
    ELSE JupCallAmount(JupPart(w))

KnowsIdle(w) ==
    /\ pc[w] \in {"read_jup", "read_kamino", "first_jup", "reb_jup_deposit", "lazy_jup"} =>
          local[w].usdc = idle[Operator]
    /\ pc[w] \in {"first_kamino", "reb_kamino_deposit", "lazy_kamino"} =>
          local[w].usdc = idle[Operator] + JupSpent(w)
    /\ pc[w] \in {"first_sync", "reb_sync", "lazy_sync"} \/ result[w] \in Finished =>
          idle[Operator] <= JupDust + 1

Knowledge(w) ==
    /\ Running(w)
    /\ Alone(w) => KnowsPositions(w) /\ KnowsTotal(w)
    /\ OnlyPrices(w) => KnowsIdle(w)

\* What others do either disturbs a worker or leaves what it knows alone.
LEMMA BystanderKeepsKnowledge ==
    ASSUME NEW w \in Workers, NEW v \in Workers \ {w}, Knowledge(v),
           Bystander(v, w), UNCHANGED opened
    PROVE  Knowledge(v)'
<1>1. Running(v)'
    BY DEF Knowledge, Running, Bystander
<1>2. CASE "worker" \in disturbed'[v]
    <2>1. ~Alone(v)' /\ ~OnlyPrices(v)'
        BY <1>2 DEF Alone, OnlyPrices
    <2> QED BY <1>1, <2>1 DEF Knowledge
<1>3. CASE Silent(w)
    <2>1. /\ UNCHANGED <<vault, idle, tokens, price>> /\ disturbed'[v] = disturbed[v]
          /\ pc'[v] = pc[v] /\ local'[v] = local[v] /\ result'[v] = result[v]
        BY <1>3 DEF Silent, Bystander, vars
    <2>2. Holdings(Operator)' = Holdings(Operator)
        BY <2>1, RebalancerAssumption, HoldingsKept
    <2>3. KnowsPositions(v) => KnowsPositions(v)'
        BY <2>1 DEF KnowsPositions
    <2>4. KnowsTotal(v) => KnowsTotal(v)'
        BY <2>1, <2>2 DEF KnowsTotal, CountsAll
    <2>5. KnowsIdle(v) => KnowsIdle(v)'
        BY <2>1 DEF KnowsIdle, JupSpent, JupPart
    <2> QED BY <1>1, <2>1, <2>3, <2>4, <2>5 DEF Knowledge, Alone, OnlyPrices
<1> QED BY <1>2, <1>3 DEF Bystander

\* Awaits at which there is nothing to know yet.
LEMMA NothingToKnow ==
    ASSUME NEW w \in Workers, Operator \in opened', result'[w] = "running",
           pc'[w] \in { "read_usdc", "reread_jup", "reread_kamino", "value_jup",
                        "value_kamino", "reb_read_jup", "lazy_fetch", "lazy_read" }
    PROVE  Knowledge(w)'
BY DEF Knowledge, Running, KnowsPositions, KnowsTotal, KnowsIdle, Finished

\* An invocation that ends without having finished leaves nothing to know.
LEMMA UnfinishedKnowsNothing ==
    ASSUME NEW w \in Workers, pc'[w] = "idle", result'[w] \notin Finished
    PROVE  Knowledge(w)'
BY DEF Knowledge, Running, KnowsPositions, KnowsTotal, KnowsIdle, Finished

\* Tokens there are none of are worth nothing.
LEMMA OnlyIdleHeld ==
    ASSUME TypeOK, tokens["jup"][Operator] = 0, tokens["kamino"][Operator] = 0
    PROVE  Holdings(Operator) = idle[Operator]
<1>1. PriceScale \in Nat \ {0} /\ price["jup"] \in Nat /\ price["kamino"] \in Nat
    BY PricesArePositive, U64IsNat DEF TypeOK, Markets
<1>2. RedeemedFor("jup", 0) = 0 /\ RedeemedFor("kamino", 0) = 0
    BY <1>1 DEF RedeemedFor
<1>3. idle[Operator] \in Nat
    BY HoldingsAreNat, RebalancerAssumption
<1> QED BY <1>2, <1>3 DEF Holdings

LEMMA ReadsKeepKnowledge ==
    ASSUME RebInv, HistoryTypeOK, NEW w \in Workers, Knowledge(w),
           \/ ReadUsdc(w) \/ ReadJup(w) \/ ReadKamino(w)
           \/ RebReadJup(w) \/ RebReadKamino(w) \/ RebReadTotal(w)
    PROVE  Knowledge(w)'
<1>1. /\ BotTypeOK /\ TypeOK /\ local[w] \in Locals
    BY DEF RebInv, BotTypeOK
<1>2. ASSUME NEW here, NEW next, NEW l, Read(w, here, next, l), here # "idle"
      PROVE  /\ pc[w] = here /\ pc'[w] = next /\ local'[w] = l
             /\ UNCHANGED <<disturbed, vars>> /\ result'[w] = "running"
             /\ Operator \in opened'
    <2>1. /\ pc[w] = here /\ pc'[w] = next /\ local'[w] = l
          /\ UNCHANGED disturbed /\ result'[w] = result[w]
        BY <1>1, <1>2, ReadIsSilent
    <2>2. UNCHANGED vars
        BY <1>2 DEF Read
    <2>3. result[w] = "running" /\ Operator \in opened
        BY <1>2, <2>1 DEF Knowledge, Running
    <2> QED BY <2>1, <2>2, <2>3 DEF vars
<1>3. CASE ReadUsdc(w)
    <2>1. /\ pc'[w] = "read_jup" /\ local'[w] = [local[w] EXCEPT !.usdc = idle[Operator]]
          /\ UNCHANGED <<disturbed, vars>> /\ result'[w] = "running"
          /\ Operator \in opened'
        BY <1>2, <1>3 DEF ReadUsdc
    <2>2. local'[w].usdc = idle'[Operator]
        BY <1>1, <2>1 DEF Locals, vars
    <2> QED BY <2>1, <2>2 DEF Knowledge, Running, KnowsPositions, KnowsTotal,
            KnowsIdle, Finished
<1>4. CASE ReadJup(w)
    <2>1. /\ pc[w] = "read_jup" /\ pc'[w] = "read_kamino"
          /\ local'[w] = [local[w] EXCEPT !.jup = tokens["jup"][Operator]]
          /\ UNCHANGED <<disturbed, vars>> /\ result'[w] = "running"
          /\ Operator \in opened'
        BY <1>2, <1>4 DEF ReadJup
    <2>2. local'[w].usdc = local[w].usdc /\ local'[w].jup = tokens'["jup"][Operator]
        BY <1>1, <2>1 DEF Locals, vars
    <2>3. OnlyPrices(w)' => local'[w].usdc = idle'[Operator]
        BY <2>1, <2>2 DEF Knowledge, KnowsIdle, OnlyPrices, vars
    <2> QED BY <2>1, <2>2, <2>3 DEF Knowledge, Running, KnowsPositions, KnowsTotal,
            KnowsIdle, Finished
<1>5. CASE ReadKamino(w)
    <2>1. CASE IsFirstTime(local[w].jup, tokens["kamino"][Operator], local[w].usdc)
        <3>1. /\ pc[w] = "read_kamino" /\ pc'[w] = "first_jup"
              /\ local'[w] = [local[w] EXCEPT !.jupAllocation = 5000,
                                              !.kaminoAllocation = 5000]
              /\ UNCHANGED <<disturbed, vars>> /\ result'[w] = "running"
              /\ Operator \in opened'
            BY <1>2, <1>5, <2>1 DEF ReadKamino
        <3>2. local'[w].usdc = local[w].usdc
            BY <1>1, <3>1 DEF Locals
        <3>3. OnlyPrices(w)' => local'[w].usdc = idle'[Operator]
            BY <3>1, <3>2 DEF Knowledge, KnowsIdle, OnlyPrices, vars
        <3>4. ASSUME Alone(w)'
              PROVE  Holdings(Operator) = local'[w].usdc
            <4>1. OnlyPrices(w)' /\ Alone(w)
                BY <3>1, <3>4 DEF OnlyPrices, Alone
            <4>2. local[w].jup = tokens["jup"][Operator]
                BY <3>1, <4>1 DEF Knowledge, KnowsPositions
            <4>3. tokens["jup"][Operator] = 0 /\ tokens["kamino"][Operator] = 0
                BY <2>1, <4>2 DEF IsFirstTime
            <4> QED BY <1>1, <3>1, <3>3, <4>1, <4>3, OnlyIdleHeld DEF vars
        <3>5. Holdings(Operator)' = Holdings(Operator) /\ Holdings(Operator) \in Nat
            BY <1>1, <3>1, RebalancerAssumption, HoldingsKept, HoldingsAreNat DEF vars
        <3>6. Alone(w)' => CountsAll(local[w].usdc, 0)'
            BY <3>2, <3>4, <3>5, TwoUnitsAreLost DEF CountsAll
        <3> QED BY <3>1, <3>3, <3>6 DEF Knowledge, Running, KnowsPositions, KnowsTotal,
                KnowsIdle, Finished
    <2>2. CASE ~ IsFirstTime(local[w].jup, tokens["kamino"][Operator], local[w].usdc)
        <3>1. pc'[w] = "reread_jup" /\ result'[w] = "running" /\ Operator \in opened'
            BY <1>2, <1>5, <2>2 DEF ReadKamino
        <3> QED BY <3>1, NothingToKnow
    <2> QED BY <2>1, <2>2
<1>6. CASE RebReadJup(w)
    <2>1. /\ pc'[w] = "reb_read_kamino"
          /\ local'[w] = [local[w] EXCEPT !.jup = tokens["jup"][Operator]]
          /\ UNCHANGED <<disturbed, vars>> /\ result'[w] = "running"
          /\ Operator \in opened'
        BY <1>2, <1>6 DEF RebReadJup
    <2>2. local'[w].jup = tokens'["jup"][Operator]
        BY <1>1, <2>1 DEF Locals, vars
    <2> QED BY <2>1, <2>2 DEF Knowledge, Running, KnowsPositions, KnowsTotal,
            KnowsIdle, Finished
<1>7. CASE RebReadKamino(w)
    <2>1. /\ pc[w] = "reb_read_kamino" /\ pc'[w] = "reb_jup_withdraw"
          /\ local'[w] = [local[w] EXCEPT !.kamino = tokens["kamino"][Operator]]
          /\ UNCHANGED <<disturbed, vars>> /\ result'[w] = "running"
          /\ Operator \in opened'
        BY <1>2, <1>7 DEF RebReadKamino
    <2>2. /\ local'[w].jup = local[w].jup
          /\ local'[w].kamino = tokens'["kamino"][Operator]
        BY <1>1, <2>1 DEF Locals, vars
    <2>3. Alone(w)' => local'[w].jup = tokens'["jup"][Operator]
        BY <2>1, <2>2 DEF Knowledge, KnowsPositions, Alone, vars
    <2> QED BY <2>1, <2>2, <2>3 DEF Knowledge, Running, KnowsPositions, KnowsTotal,
            KnowsIdle, Finished
<1>8. CASE RebReadTotal(w)
    <2>1. /\ pc[w] = "reb_read_total" /\ pc'[w] = "reb_jup_deposit"
          /\ local'[w] = [local[w] EXCEPT !.usdc = idle[Operator]]
          /\ UNCHANGED <<disturbed, vars>> /\ result'[w] = "running"
          /\ Operator \in opened'
        BY <1>2, <1>8 DEF RebReadTotal
    <2>2. local'[w].usdc = idle'[Operator] /\ idle'[Operator] = idle[Operator]
        BY <1>1, <2>1 DEF Locals, vars
    <2>3. Alone(w)' => Holdings(Operator) = idle[Operator]
        BY <1>1, <2>1, OnlyIdleHeld DEF Knowledge, KnowsPositions, Alone
    <2>4. Holdings(Operator)' = Holdings(Operator) /\ Holdings(Operator) \in Nat
        BY <1>1, <2>1, RebalancerAssumption, HoldingsKept, HoldingsAreNat DEF vars
    <2>5. Alone(w)' => CountsAll(local[w].usdc, 0)'
        BY <2>2, <2>3, <2>4, TwoUnitsAreLost DEF CountsAll
    <2> QED BY <2>1, <2>2, <2>5 DEF Knowledge, Running, KnowsPositions, KnowsTotal,
            KnowsIdle, Finished
<1> QED BY <1>3, <1>4, <1>5, <1>6, <1>7, <1>8

-----------------------------------------------------------------------------
(* The calls of an invocation.                                             *)

LEMMA SupplyFacts ==
    ASSUME TypeOK, PricesBounded, NEW x \in Nat,
           JupDeposit(Operator, x) \/ KaminoDeposit(Operator, x)
    PROVE  /\ x <= idle[Operator] /\ idle'[Operator] = idle[Operator] - x
           /\ Holdings(Operator)' \in Int /\ Holdings(Operator)' <= Holdings(Operator)
           /\ Holdings(Operator) <= Holdings(Operator)' + MaxLoss
           /\ UNCHANGED accounts
<1>1. PICK m \in Markets : Supply(m, Operator, x)
    BY DEF JupDeposit, KaminoDeposit, Markets
<1>2. UNCHANGED price /\ UNCHANGED accounts /\ Operator \in Admins
    BY RebalancerAssumption DEF JupDeposit, KaminoDeposit
<1>3. x <= idle[Operator] /\ idle'[Operator] = idle[Operator] - x
    BY <1>1, <1>2 DEF Supply, CanSupply, TypeOK
<1> QED BY <1>1, <1>2, <1>3, SupplyKeepsWorth

LEMMA RedeemFacts ==
    ASSUME TypeOK, NEW x \in Nat
    PROVE  /\ JupWithdraw(Operator, x) =>
                 /\ tokens'["jup"][Operator] = tokens["jup"][Operator] - x
                 /\ tokens'["kamino"][Operator] = tokens["kamino"][Operator]
           /\ KaminoWithdraw(Operator, x) =>
                 /\ tokens'["kamino"][Operator] = tokens["kamino"][Operator] - x
                 /\ tokens'["jup"][Operator] = tokens["jup"][Operator]
           /\ JupWithdraw(Operator, x) \/ KaminoWithdraw(Operator, x)
                 => UNCHANGED accounts
BY RebalancerAssumption DEF JupWithdraw, KaminoWithdraw, Redeem, TypeOK, Markets

\* Splitting an amount in two whole shares loses at most one unit.
LEMMA SplitLosesOne ==
    ASSUME NEW n \in Nat, NEW x \in Nat, NEW y \in Nat, x + y = AllocationScale
    PROVE  Allocated(n, x) + Allocated(n, y) <= n /\ n <= Allocated(n, x) + Allocated(n, y) + 1
<1>1. n * x \in Nat /\ n * y \in Nat
    BY ProductOfNaturals
<1>2. n * x + n * y = n * 10000
    <2>1. (x + y) * n = x * n + y * n
        BY Distributes
    <2>2. x * n = n * x /\ y * n = n * y /\ 10000 * n = n * 10000
        OBVIOUS
    <2> QED BY <2>1, <2>2 DEF AllocationScale
<1>3. (n * 10000) \div 10000 = n
    OBVIOUS
<1>4. /\ (n * x) \div 10000 + (n * y) \div 10000 <= (n * x + n * y) \div 10000
      /\ (n * x + n * y) \div 10000 <= (n * x) \div 10000 + (n * y) \div 10000 + 1
    BY <1>1, QuotientOfSum
<1> QED BY <1>2, <1>3, <1>4 DEF Allocated, AllocationScale

\* What is left when a share of n but for the dust d, and then the rest, has
\* been supplied.  Where the share is below the dust, its shortfall is sent.
LEMMA LittleRemains ==
    ASSUME NEW n \in Nat, NEW p \in Nat, NEW k \in Nat, NEW d \in Nat,
           n <= p + k + 1, NEW left \in Int, NEW spent,
           n = left + spent, spent = Abs(p - d) \/ (p = 0 /\ spent = 0)
    PROVE  left - k <= d + 1
BY DEF Abs

LEMMA SharesSpendAll ==
    ASSUME RebInv, NEW w \in Workers, pc[w] \in Allocating
    PROVE  /\ local[w].usdc \in Nat /\ JupPart(w) \in Nat /\ KaminoPart(w) \in Nat
           /\ local[w].usdc <= JupPart(w) + KaminoPart(w) + 1
<1>1. /\ local[w].usdc \in Nat /\ local[w].jupAllocation \in Nat
      /\ local[w].kaminoAllocation \in Nat
    <2>1. /\ local[w].usdc \in U64 /\ local[w].jupAllocation \in U16
          /\ local[w].kaminoAllocation \in U16
        BY MemoryParts DEF Locals
    <2> QED BY <2>1, U64IsNat, U16IsNat
<1>2. local[w].jupAllocation + local[w].kaminoAllocation = AllocationScale
    BY ChosenSplit
<1> QED BY <1>1, <1>2, MemoryParts, SplitLosesOne DEF JupPart, KaminoPart

\* A call that w makes: what it remembers stays, and the others note it.
LEMMA CallFacts ==
    ASSUME RebInv, HistoryTypeOK, NEW w \in Workers, Knowledge(w), NEW here, NEW next,
           Transact(w, here, next), here # "idle", UNCHANGED accounts
    PROVE  /\ pc[w] = here /\ pc'[w] = next /\ local'[w] = local[w]
           /\ disturbed'[w] = disturbed[w] /\ result'[w] = "running"
           /\ Operator \in opened' /\ JupPart(w)' = JupPart(w)
<1>1. /\ pc[w] = here /\ pc'[w] = next /\ local'[w] = local[w]
      /\ disturbed'[w] = disturbed[w] /\ result'[w] = result[w]
    BY TransactIsNoted DEF RebInv
<1>2. result[w] = "running" /\ Operator \in opened
    BY <1>1 DEF Knowledge, Running
<1> QED BY <1>1, <1>2 DEF accounts, JupPart

LEMMA JupDepositKeepsKnowledge ==
    ASSUME RebInv, PricesBounded, HistoryTypeOK, NEW w \in Workers, Knowledge(w),
           \/ FirstJup(w) \/ RebJupDeposit(w)
           \/ LazyJup(w) /\ JupPart(w) > 0
    PROVE  Knowledge(w)'
<1> DEFINE amount == JupCallAmount(JupPart(w))
<1>1. /\ JupDeposit(Operator, amount)
      /\ \/ Transact(w, "first_jup", "first_kamino")
         \/ Transact(w, "reb_jup_deposit", "reb_kamino_deposit")
         \/ Transact(w, "lazy_jup", "lazy_kamino") /\ JupPart(w) > 0
    BY DEF FirstJup, RebJupDeposit, LazyJup
<1>2. TypeOK /\ amount \in Nat /\ JupPart(w) \in Nat /\ local[w].usdc \in Nat
    BY MemoryParts, U64IsNat DEF RebInv, Locals
<1>3. /\ amount <= idle[Operator] /\ idle'[Operator] = idle[Operator] - amount
      /\ Holdings(Operator)' \in Int /\ Holdings(Operator)' <= Holdings(Operator)
      /\ Holdings(Operator) <= Holdings(Operator)' + MaxLoss
      /\ UNCHANGED accounts
    BY <1>1, <1>2, SupplyFacts
<1>4. /\ \/ pc[w] = "first_jup" /\ pc'[w] = "first_kamino"
         \/ pc[w] = "reb_jup_deposit" /\ pc'[w] = "reb_kamino_deposit"
         \/ pc[w] = "lazy_jup" /\ pc'[w] = "lazy_kamino" /\ JupPart(w) > 0
      /\ local'[w] = local[w] /\ disturbed'[w] = disturbed[w]
      /\ result'[w] = "running" /\ Operator \in opened' /\ JupPart(w)' = JupPart(w)
    BY <1>1, <1>3, CallFacts
<1>5. idle[Operator] \in Nat /\ Holdings(Operator) \in Nat /\ MaxLoss \in Nat
    BY <1>2, RebalancerAssumption, HoldingsAreNat, TwoUnitsAreLost
<1>6. OnlyPrices(w)' => KnowsIdle(w)'
    <2>1. JupSpent(w)' = amount
        BY <1>2, <1>4 DEF JupSpent, JupCallAmount
    <2>2. OnlyPrices(w)' => local'[w].usdc = idle[Operator]
        BY <1>4 DEF Knowledge, KnowsIdle, OnlyPrices
    <2> QED BY <1>2, <1>3, <1>4, <1>5, <2>1, <2>2 DEF KnowsIdle, Finished
<1>7. Alone(w)' => KnowsPositions(w)' /\ KnowsTotal(w)'
    <2>1. Alone(w)' /\ pc'[w] # "lazy_kamino" => CountsAll(local[w].usdc, 0)
        BY <1>4 DEF Knowledge, KnowsTotal, Alone
    <2>2. Alone(w)' /\ pc'[w] # "lazy_kamino" => CountsAll(local[w].usdc, 1)'
        BY <1>2, <1>3, <1>4, <1>5, <2>1 DEF CountsAll
    <2> QED BY <1>4, <2>2 DEF KnowsPositions, KnowsTotal
<1> QED BY <1>4, <1>6, <1>7 DEF Knowledge, Running, Finished

LEMMA KaminoDepositKeepsKnowledge ==
    ASSUME RebInv, PricesBounded, HistoryTypeOK, NEW w \in Workers, Knowledge(w),
           \/ FirstKamino(w) \/ RebKaminoDeposit(w)
           \/ LazyKamino(w) /\ KaminoPart(w) > 0
    PROVE  Knowledge(w)'
<1> DEFINE amount == KaminoPart(w)
<1>1. /\ KaminoDeposit(Operator, amount)
      /\ \/ Transact(w, "first_kamino", "first_sync")
         \/ Transact(w, "reb_kamino_deposit", "reb_sync")
         \/ Transact(w, "lazy_kamino", "lazy_sync")
    BY DEF FirstKamino, RebKaminoDeposit, LazyKamino
<1>2. TypeOK /\ amount \in Nat /\ JupPart(w) \in Nat
    BY MemoryParts DEF RebInv
<1>3. /\ amount <= idle[Operator] /\ idle'[Operator] = idle[Operator] - amount
      /\ Holdings(Operator)' \in Int /\ Holdings(Operator)' <= Holdings(Operator)
      /\ Holdings(Operator) <= Holdings(Operator)' + MaxLoss
      /\ UNCHANGED accounts
    BY <1>1, <1>2, SupplyFacts
<1>4. /\ \/ pc[w] = "first_kamino" /\ pc'[w] = "first_sync"
         \/ pc[w] = "reb_kamino_deposit" /\ pc'[w] = "reb_sync"
         \/ pc[w] = "lazy_kamino" /\ pc'[w] = "lazy_sync"
      /\ local'[w] = local[w] /\ disturbed'[w] = disturbed[w]
      /\ result'[w] = "running" /\ Operator \in opened'
    BY <1>1, <1>3, CallFacts
<1>5. idle[Operator] \in Nat /\ Holdings(Operator) \in Nat /\ MaxLoss \in Nat
    BY <1>2, RebalancerAssumption, HoldingsAreNat, TwoUnitsAreLost
<1>6. local[w].usdc \in Nat /\ local[w].usdc <= JupPart(w) + KaminoPart(w) + 1
    BY <1>4, SharesSpendAll DEF Allocating
<1>7. OnlyPrices(w)' => KnowsIdle(w)'
    <2>1. OnlyPrices(w)' => local[w].usdc = idle[Operator] + JupSpent(w)
        BY <1>4 DEF Knowledge, KnowsIdle, OnlyPrices
    <2>2. \/ JupSpent(w) = Abs(JupPart(w) - JupDust)
          \/ JupPart(w) = 0 /\ JupSpent(w) = 0
        BY DEF JupSpent, JupCallAmount
    <2>3. JupDust \in Nat
        BY RebalancerAssumption, U64IsNat
    <2>4. ASSUME OnlyPrices(w)'
          PROVE  idle[Operator] - amount <= JupDust + 1
        <3>1. local[w].usdc = idle[Operator] + JupSpent(w) /\ idle[Operator] \in Int
            BY <1>5, <2>1, <2>4
        <3> QED BY ONLY <1>2, <1>6, <2>2, <2>3, <3>1, LittleRemains
    <2> QED BY <1>3, <1>4, <2>4 DEF KnowsIdle, Finished
<1>8. Alone(w)' => KnowsPositions(w)' /\ KnowsTotal(w)'
    <2>1. Alone(w)' /\ pc'[w] # "lazy_sync" => CountsAll(local[w].usdc, 1)
        BY <1>4 DEF Knowledge, KnowsTotal, Alone
    <2>2. Alone(w)' /\ pc'[w] # "lazy_sync" => CountsAll(local[w].usdc, 2)'
        BY <1>3, <1>4, <1>5, <1>6, <2>1 DEF CountsAll
    <2> QED BY <1>4, <2>2 DEF KnowsPositions, KnowsTotal
<1> QED BY <1>4, <1>7, <1>8 DEF Knowledge, Running, Finished

\* A share of nothing is left out, and spends nothing.
LEMMA SkippingKeepsKnowledge ==
    ASSUME RebInv, HistoryTypeOK, NEW w \in Workers, Knowledge(w),
           \/ LazyJup(w) /\ ~ (JupPart(w) > 0)
           \/ LazyKamino(w) /\ ~ (KaminoPart(w) > 0)
    PROVE  Knowledge(w)'
<1>1. \/ Read(w, "lazy_jup", "lazy_kamino", local[w]) /\ JupPart(w) = 0
      \/ Read(w, "lazy_kamino", "lazy_sync", local[w]) /\ KaminoPart(w) = 0
    BY MemoryParts DEF LazyJup, LazyKamino
<1>2. /\ \/ pc[w] = "lazy_jup" /\ pc'[w] = "lazy_kamino" /\ JupPart(w) = 0
         \/ pc[w] = "lazy_kamino" /\ pc'[w] = "lazy_sync" /\ KaminoPart(w) = 0
      /\ local'[w] = local[w] /\ result'[w] = result[w] /\ UNCHANGED <<disturbed, vars>>
    <2>1. ASSUME NEW here, NEW next, Read(w, here, next, local[w])
          PROVE  /\ pc[w] = here /\ pc'[w] = next /\ local'[w] = local[w]
                 /\ result'[w] = result[w] /\ UNCHANGED <<disturbed, vars>>
        BY <2>1, ReadIsSilent DEF RebInv, Read
    <2> QED BY <1>1, <2>1
<1>3. result'[w] = "running" /\ Operator \in opened' /\ JupPart(w)' = JupPart(w)
    BY <1>2 DEF Knowledge, Running, JupPart, vars
<1>4. /\ idle[Operator] \in Nat /\ UNCHANGED idle
      /\ local[w].usdc \in Nat /\ JupPart(w) \in Nat /\ KaminoPart(w) \in Nat
      /\ local[w].usdc <= JupPart(w) + KaminoPart(w) + 1
    BY <1>2, RebalancerAssumption, HoldingsAreNat, SharesSpendAll
       DEF RebInv, Allocating, vars
<1>5. OnlyPrices(w)' => KnowsIdle(w)'
    <2>1. CASE pc[w] = "lazy_jup"
        <3>1. OnlyPrices(w)' => local[w].usdc = idle[Operator]
            BY <1>2, <2>1 DEF Knowledge, KnowsIdle, OnlyPrices
        <3>2. JupSpent(w)' = 0
            BY <1>2, <1>3, <2>1 DEF JupSpent
        <3> QED BY <1>2, <1>3, <1>4, <2>1, <3>1, <3>2 DEF KnowsIdle, Finished
    <2>2. CASE pc[w] = "lazy_kamino"
        <3>1. OnlyPrices(w)' => local[w].usdc = idle[Operator] + JupSpent(w)
            BY <1>2, <2>2 DEF Knowledge, KnowsIdle, OnlyPrices
        <3>2. \/ JupSpent(w) = Abs(JupPart(w) - JupDust)
              \/ JupPart(w) = 0 /\ JupSpent(w) = 0
            BY DEF JupSpent, JupCallAmount
        <3>3. JupDust \in Nat
            BY RebalancerAssumption, U64IsNat
        <3>4. ASSUME OnlyPrices(w)'
              PROVE  idle[Operator] - KaminoPart(w) <= JupDust + 1
            <4>1. local[w].usdc = idle[Operator] + JupSpent(w) /\ idle[Operator] \in Int
                BY <1>4, <3>1, <3>4
            <4> QED BY ONLY <1>4, <3>2, <3>3, <4>1, LittleRemains
        <3>5. OnlyPrices(w)' => idle'[Operator] <= JupDust + 1
            BY <1>2, <1>4, <2>2, <3>4
        <3> QED BY <1>2, <1>3, <2>2, <3>5 DEF KnowsIdle, Finished
    <2> QED BY <1>2, <2>1, <2>2
<1>6. KnowsPositions(w)' /\ KnowsTotal(w)'
    BY <1>2, <1>3 DEF KnowsPositions, KnowsTotal
<1> QED BY <1>2, <1>3, <1>5, <1>6 DEF Knowledge, Running, Finished

LEMMA RedemptionsKeepKnowledge ==
    ASSUME RebInv, HistoryTypeOK, NEW w \in Workers, Knowledge(w),
           RebJupWithdraw(w) \/ RebKaminoWithdraw(w)
    PROVE  Knowledge(w)'
<1>1. /\ TypeOK /\ local[w].jup \in Nat /\ local[w].kamino \in Nat
      /\ tokens["jup"][Operator] \in Nat /\ tokens["kamino"][Operator] \in Nat
    BY MemoryParts, U64IsNat DEF RebInv, Locals
<1>2. UNCHANGED accounts
    BY <1>1, RedeemFacts DEF RebJupWithdraw, RebKaminoWithdraw
<1>3. CASE RebJupWithdraw(w)
    <2>1. /\ pc[w] = "reb_jup_withdraw" /\ pc'[w] = "reb_kamino_withdraw"
          /\ local'[w] = local[w] /\ disturbed'[w] = disturbed[w]
          /\ result'[w] = "running" /\ Operator \in opened'
        BY <1>2, <1>3, CallFacts DEF RebJupWithdraw
    <2>2. /\ tokens'["jup"][Operator] = tokens["jup"][Operator] - local[w].jup
          /\ tokens'["kamino"][Operator] = tokens["kamino"][Operator]
        BY <1>1, <1>3, RedeemFacts DEF RebJupWithdraw
    <2>3. Alone(w)' => KnowsPositions(w)'
        BY <1>1, <2>1, <2>2 DEF Knowledge, KnowsPositions, Alone
    <2> QED BY <2>1, <2>3 DEF Knowledge, Running, KnowsTotal, KnowsIdle, Finished
<1>4. CASE RebKaminoWithdraw(w)
    <2>1. /\ pc[w] = "reb_kamino_withdraw" /\ pc'[w] = "reb_read_total"
          /\ local'[w] = local[w] /\ disturbed'[w] = disturbed[w]
          /\ result'[w] = "running" /\ Operator \in opened'
        BY <1>2, <1>4, CallFacts DEF RebKaminoWithdraw
    <2>2. /\ tokens'["kamino"][Operator] = tokens["kamino"][Operator] - local[w].kamino
          /\ tokens'["jup"][Operator] = tokens["jup"][Operator]
        BY <1>1, <1>4, RedeemFacts DEF RebKaminoWithdraw
    <2>3. Alone(w)' => KnowsPositions(w)'
        BY <1>1, <2>1, <2>2 DEF Knowledge, KnowsPositions, Alone
    <2> QED BY <2>1, <2>3 DEF Knowledge, Running, KnowsTotal, KnowsIdle, Finished
<1> QED BY <1>3, <1>4

LEMMA WrittenBooksAreKnown ==
    ASSUME RebInv, HistoryTypeOK, NEW w \in Workers, Knowledge(w), NEW args,
           NEW here \in {"first_sync", "reb_sync", "lazy_sync"}, NEW how \in Finished,
           WriteBooks(w, here, args, how),
           how # "lazy" => /\ here # "lazy_sync"
                           /\ args.new_total_underlying = local[w].usdc
    PROVE  Knowledge(w)'
<1>2. /\ pc[w] = here /\ pc'[w] = "idle" /\ result'[w] = how
      /\ disturbed'[w] = disturbed[w]
    <2>1. BotTypeOK /\ how \in Outcomes
        BY DEF RebInv, Finished, Outcomes
    <2> QED BY <2>1, BooksAreNoted
<1>3. SyncVaultState(Operator, args)
    BY DEF WriteBooks
<1>4. /\ UNCHANGED <<opened, idle, tokens, price>> /\ Operator \in opened
      /\ vault'[Operator].total_underlying = args.new_total_underlying
    <2>1. Operator \in Admins /\ vault \in [Admins -> Vault] /\ vault[Operator] \in Vault
        BY RebalancerAssumption DEF RebInv, TypeOK
    <2> QED BY <1>3, <2>1 DEF SyncVaultState, funds, Vault
<1>5. Holdings(Operator)' = Holdings(Operator)
    BY <1>4, RebalancerAssumption, HoldingsKept
<1>6. OnlyPrices(w)' => KnowsIdle(w)'
    BY <1>2, <1>4 DEF Knowledge, KnowsIdle, OnlyPrices
<1>7. Alone(w)' => KnowsPositions(w)' /\ KnowsTotal(w)'
    <2>1. ASSUME Alone(w)', how # "lazy"
          PROVE  CountsAll(vault[Operator].total_underlying, 2)'
        <3>1. CountsAll(local[w].usdc, 2)
            BY <1>2, <2>1 DEF Knowledge, KnowsTotal, Alone
        <3> QED BY <1>4, <1>5, <2>1, <3>1 DEF CountsAll
    <2> QED BY <1>2, <2>1 DEF KnowsPositions, KnowsTotal
<1> QED BY <1>2, <1>4, <1>6, <1>7 DEF Knowledge, Running

LEMMA SyncsKeepKnowledge ==
    ASSUME RebInv, HistoryTypeOK, NEW w \in Workers, Knowledge(w),
           FirstSync(w) \/ RebSync(w) \/ LazySync(w)
    PROVE  Knowledge(w)'
<1>1. CASE FirstSync(w)
    <2>1. FirstArgs(w).new_total_underlying = local[w].usdc
        BY DEF FirstArgs, Books
    <2> QED BY <1>1, <2>1, WrittenBooksAreKnown DEF FirstSync, Finished
<1>2. CASE RebSync(w)
    <2>1. RebalanceArgs(w).new_total_underlying = local[w].usdc
        BY DEF RebalanceArgs, Books
    <2> QED BY <1>2, <2>1, WrittenBooksAreKnown DEF RebSync, Finished
<1>3. CASE LazySync(w)
    BY <1>3, WrittenBooksAreKnown DEF LazySync, Finished
<1> QED BY <1>1, <1>2, <1>3

\* The awaits that leave nothing to know, and the endings.
LEMMA OtherAwaitsKeepKnowledge ==
    ASSUME RebInv, HistoryTypeOK, NEW w \in Workers, Knowledge(w),
           \/ Start(w) \/ RereadJup(w) \/ RereadKamino(w) \/ ValueJup(w) \/ Decide(w)
           \/ LazyFetch(w) \/ LazyRead(w) \/ Throw(w) \/ Interrupt(w)
    PROVE  Knowledge(w)'
<1>1. ASSUME NEW here, NEW next, NEW l, Read(w, here, next, l), here # "idle"
      PROVE  /\ pc'[w] = next /\ local'[w] = l /\ result'[w] = "running"
             /\ Operator \in opened' /\ UNCHANGED <<vars, disturbed>>
    <2>1. /\ pc[w] = here /\ pc'[w] = next /\ local'[w] = l
          /\ UNCHANGED disturbed /\ result'[w] = result[w]
        BY <1>1, ReadIsSilent DEF RebInv
    <2>2. UNCHANGED vars
        BY <1>1 DEF Read
    <2> QED BY <1>1, <2>1, <2>2 DEF Knowledge, Running, vars
<1>2. CASE Start(w)
    <2>1. /\ pc'[w] = "read_usdc" /\ result'[w] = "running" /\ Operator \in opened'
        BY <1>2, StartIsSilent DEF RebInv, Start, vars
    <2> QED BY <2>1, NothingToKnow
<1>3. CASE RereadJup(w) \/ RereadKamino(w) \/ ValueJup(w) \/ Decide(w) \/ LazyFetch(w)
    <2>1. ASSUME NEW next \in { "reread_kamino", "value_jup", "value_kamino",
                                "reb_read_jup", "lazy_fetch", "lazy_read" },
                 NEW here, NEW l, Read(w, here, next, l), here # "idle"
          PROVE  Knowledge(w)'
        <3>1. pc'[w] = next /\ result'[w] = "running" /\ Operator \in opened'
            BY <1>1, <2>1
        <3> QED BY <3>1, NothingToKnow
    <2>2. CASE RereadJup(w) \/ RereadKamino(w) \/ ValueJup(w) \/ LazyFetch(w)
        BY <2>1, <2>2 DEF RereadJup, RereadKamino, ValueJup, LazyFetch
    <2>3. CASE Decide(w)
        BY <2>1, <2>3 DEF Decide
    <2> QED BY <1>3, <2>2, <2>3
<1>4. CASE LazyRead(w) /\ idle[Operator] # 0
    <2>1. Read(w, "lazy_read", "lazy_jup", [local[w] EXCEPT !.usdc = idle[Operator]])
        BY <1>4 DEF LazyRead
    <2>2. /\ pc'[w] = "lazy_jup" /\ local'[w] = [local[w] EXCEPT !.usdc = idle[Operator]]
          /\ result'[w] = "running" /\ Operator \in opened' /\ UNCHANGED vars
        BY <1>1, <2>1
    <2>3. local'[w].usdc = idle'[Operator]
        BY <2>2 DEF RebInv, BotTypeOK, Locals, vars
    <2> QED BY <2>2, <2>3 DEF Knowledge, Running, KnowsPositions, KnowsTotal,
            KnowsIdle, Finished
<1>5. CASE Throw(w) \/ Interrupt(w) \/ (LazyRead(w) /\ idle[Operator] = 0)
    <2>1. PICK how \in {"threw", "interrupted", "nothing idle"} :
              End(w, how) /\ UNCHANGED <<vars, history>>
        BY <1>5 DEF Throw, Interrupt, LazyRead
    <2>2. pc'[w] = "idle" /\ result'[w] = how
        <3>1. BotTypeOK /\ how \in Outcomes
            BY DEF RebInv, Outcomes
        <3> QED BY <2>1, <3>1, EndIsSilent
    <2> QED BY <2>1, <2>2, UnfinishedKnowsNothing DEF Finished
<1> QED BY <1>2, <1>3, <1>4, <1>5

-----------------------------------------------------------------------------
(* Everybody else, and the theorems.                                       *)

LEMMA WorkersKeepHistory ==
    ASSUME RebInv, HistoryTypeOK, NEW w \in Workers,
           Start(w) \/ Invocation(w) \/ Interrupt(w)
    PROVE  Noted(w) /\ UNCHANGED opened
<1>1. UNCHANGED opened
    BY WhatAwaitsDo DEF LendingCall, JupDeposit, KaminoDeposit, JupWithdraw,
       KaminoWithdraw, BooksWritten, SyncVaultState, accounts, vars
<1> SUFFICES Noted(w)
    BY <1>1
<1>2. BotTypeOK
    BY DEF RebInv
<1>3. ASSUME NEW here, NEW next, NEW l, Read(w, here, next, l)
      PROVE  Noted(w)
    BY <1>2, <1>3, ReadIsSilent
<1>4. ASSUME NEW here, NEW next, Transact(w, here, next)
      PROVE  Noted(w)
    BY <1>2, <1>4, TransactIsNoted
<1>5. ASSUME NEW here, NEW args, NEW how \in Outcomes, WriteBooks(w, here, args, how)
      PROVE  Noted(w)
    BY <1>2, <1>5, BooksAreNoted
<1>6. ASSUME NEW how \in Outcomes, End(w, how), UNCHANGED <<vars, history>>
      PROVE  Noted(w)
    BY <1>2, <1>6, EndIsSilent
<1>7. CASE Start(w)
    BY <1>2, <1>7, StartIsSilent
<1>8. CASE ReadUsdc(w) \/ ReadJup(w) \/ ReadKamino(w) \/ RereadJup(w) \/ RereadKamino(w)
    BY <1>3, <1>8 DEF ReadUsdc, ReadJup, ReadKamino, RereadJup, RereadKamino
<1>9. CASE ValueJup(w) \/ Decide(w) \/ LazyFetch(w)
    BY <1>3, <1>9 DEF ValueJup, Decide, LazyFetch
<1>10. CASE RebReadJup(w) \/ RebReadKamino(w) \/ RebReadTotal(w)
    BY <1>3, <1>10 DEF RebReadJup, RebReadKamino, RebReadTotal
<1>11. CASE FirstJup(w) \/ FirstKamino(w) \/ RebJupWithdraw(w) \/ RebKaminoWithdraw(w)
            \/ RebJupDeposit(w) \/ RebKaminoDeposit(w)
    BY <1>4, <1>11 DEF FirstJup, FirstKamino, RebJupWithdraw, RebKaminoWithdraw,
       RebJupDeposit, RebKaminoDeposit
<1>12. CASE LazyJup(w) \/ LazyKamino(w)
    BY <1>3, <1>4, <1>12 DEF LazyJup, LazyKamino
<1>13. CASE FirstSync(w) \/ RebSync(w) \/ LazySync(w)
    <2>1. "first" \in Outcomes /\ "rebalanced" \in Outcomes /\ "lazy" \in Outcomes
        BY DEF Outcomes
    <2> QED BY <1>5, <1>13, <2>1 DEF FirstSync, RebSync, LazySync
<1>14. CASE LazyRead(w) \/ Throw(w) \/ Interrupt(w)
    <2>1. /\ "nothing idle" \in Outcomes /\ "threw" \in Outcomes
          /\ "interrupted" \in Outcomes
        BY DEF Outcomes
    <2> QED BY <1>3, <1>6, <1>14, <2>1 DEF LazyRead, Throw, Interrupt
<1> QED BY <1>7, <1>8, <1>9, <1>10, <1>11, <1>12, <1>13, <1>14 DEF Invocation

LEMMA WorkersKeepKnowledge ==
    ASSUME RebInv, PricesBounded, HistoryTypeOK, NEW w \in Workers,
           \A v \in Workers : Knowledge(v), Start(w) \/ Invocation(w) \/ Interrupt(w)
    PROVE  HistoryTypeOK' /\ \A v \in Workers : Knowledge(v)'
<1>1. HistoryTypeOK' /\ \A v \in Workers \ {w} : Knowledge(v)'
    BY WorkersKeepHistory, BystanderKeepsKnowledge DEF Noted
<1>2. Knowledge(w)
    OBVIOUS
<1>3. ASSUME \/ ReadUsdc(w) \/ ReadJup(w) \/ ReadKamino(w)
             \/ RebReadJup(w) \/ RebReadKamino(w) \/ RebReadTotal(w)
      PROVE  Knowledge(w)'
    BY <1>2, <1>3, ReadsKeepKnowledge
<1>4. ASSUME FirstJup(w) \/ RebJupDeposit(w) \/ LazyJup(w)
      PROVE  Knowledge(w)'
    <2>1. CASE LazyJup(w) /\ ~ (JupPart(w) > 0)
        BY <1>2, <2>1, SkippingKeepsKnowledge
    <2>2. CASE ~ (LazyJup(w) /\ ~ (JupPart(w) > 0))
        BY <1>2, <1>4, <2>2, JupDepositKeepsKnowledge
    <2> QED BY <2>1, <2>2
<1>5. ASSUME FirstKamino(w) \/ RebKaminoDeposit(w) \/ LazyKamino(w)
      PROVE  Knowledge(w)'
    <2>1. CASE LazyKamino(w) /\ ~ (KaminoPart(w) > 0)
        BY <1>2, <2>1, SkippingKeepsKnowledge
    <2>2. CASE ~ (LazyKamino(w) /\ ~ (KaminoPart(w) > 0))
        BY <1>2, <1>5, <2>2, KaminoDepositKeepsKnowledge
    <2> QED BY <2>1, <2>2
<1>6. ASSUME RebJupWithdraw(w) \/ RebKaminoWithdraw(w)
      PROVE  Knowledge(w)'
    BY <1>2, <1>6, RedemptionsKeepKnowledge
<1>7. ASSUME FirstSync(w) \/ RebSync(w) \/ LazySync(w)
      PROVE  Knowledge(w)'
    BY <1>2, <1>7, SyncsKeepKnowledge
<1>8. ASSUME \/ Start(w) \/ RereadJup(w) \/ RereadKamino(w) \/ ValueJup(w) \/ Decide(w)
             \/ LazyFetch(w) \/ LazyRead(w) \/ Throw(w) \/ Interrupt(w)
      PROVE  Knowledge(w)'
    BY <1>2, <1>8, OtherAwaitsKeepKnowledge
<1>9. Knowledge(w)'
    BY <1>3, <1>4, <1>5, <1>6, <1>7, <1>8 DEF Invocation
<1> QED BY <1>1, <1>9

LEMMA EnvironmentKeepsKnowledge ==
    ASSUME RebInv, HistoryTypeOK, \A v \in Workers : Knowledge(v),
           OpenVault \/ UserStep \/ MarketStep
    PROVE  HistoryTypeOK' /\ \A v \in Workers : Knowledge(v)'
<1>1. UNCHANGED <<pc, local, result>>
    BY DEF OpenVault, UserStep, MarketStep, bot
<1>2. ASSUME NEW what \in Deeds, Disturb(Workers, what)
      PROVE  /\ HistoryTypeOK'
             /\ \A v \in Workers : disturbed'[v] = disturbed[v] \cup {what}
    BY <1>1, <1>2 DEF Disturb, HistoryTypeOK
<1>3. CASE OpenVault
    <2>1. Operator \notin opened /\ UNCHANGED disturbed
        BY <1>3 DEF OpenVault, InitializeVault, history
    <2>2. HistoryTypeOK'
        BY <1>1, <2>1 DEF HistoryTypeOK
    <2>3. \A v \in Workers : Knowledge(v)'
        BY <1>1, <2>1, UnfinishedKnowsNothing DEF Knowledge, Running
    <2> QED BY <2>2, <2>3
<1>4. CASE UserStep
    <2>1. PICK what \in {"deposit", "withdrawal"} : Disturb(Workers, what)
        BY <1>4 DEF UserStep
    <2>2. UNCHANGED opened
        BY <1>4 DEF UserStep, Deposit, Withdraw
    <2>3. /\ HistoryTypeOK'
          /\ \A v \in Workers : disturbed'[v] = disturbed[v] \cup {what}
        BY <1>2, <2>1 DEF Deeds
    <2>4. \A v \in Workers : ~Alone(v)' /\ ~OnlyPrices(v)'
        BY <2>1, <2>3 DEF Alone, OnlyPrices
    <2> QED BY <1>1, <2>2, <2>3, <2>4 DEF Knowledge, Running
<1>5. CASE MarketStep
    <2>1. Disturb(Workers, "price") /\ UNCHANGED <<opened, idle>>
        BY <1>5 DEF MarketStep, MarketNext, Accrue, accounts, funds
    <2>2. /\ HistoryTypeOK'
          /\ \A v \in Workers : disturbed'[v] = disturbed[v] \cup {"price"}
        BY <1>2, <2>1 DEF Deeds
    <2>3. \A v \in Workers : ~Alone(v)' /\ (OnlyPrices(v)' => OnlyPrices(v))
        BY <2>2 DEF Alone, OnlyPrices
    <2>4. ASSUME NEW v \in Workers, KnowsIdle(v)
          PROVE  KnowsIdle(v)'
        BY <1>1, <2>1, <2>4 DEF KnowsIdle, JupSpent, JupPart
    <2> QED BY <1>1, <2>1, <2>2, <2>3, <2>4 DEF Knowledge, Running
<1> QED BY <1>3, <1>4, <1>5

FundsInv ==
    /\ RebInv /\ PricesBounded /\ HistoryTypeOK
    /\ \A w \in Workers : Knowledge(w)

LEMMA FundsInitInv == RebInit => FundsInv
<1> SUFFICES ASSUME RebInit PROVE FundsInv
    OBVIOUS
<1>1. RebInv /\ PricesBounded
    BY RebInitInv, VaultConstantsAssumption DEF RebInit, Init, PricesBounded
<1>2. HistoryTypeOK
    BY DEF RebInit, HistoryTypeOK, Outcomes
<1>3. \A w \in Workers : Knowledge(w)
    BY DEF RebInit, Knowledge, Running, KnowsPositions, KnowsTotal, KnowsIdle, Finished
<1> QED BY <1>1, <1>2, <1>3 DEF FundsInv

LEMMA RebNextKeepsFundsInv ==
    ASSUME FundsInv, [RebNext]_rebVars
    PROVE  FundsInv'
<1>1. RebInv' /\ PricesBounded'
    BY RebNextKeepsInv, RebNextKeepsCustody DEF FundsInv, KeepsCustody
<1>2. CASE UNCHANGED rebVars
    <2>1. UNCHANGED <<opened, vault, idle, tokens, price, pc, local, result, disturbed>>
        BY <1>2 DEF rebVars, vars, bot, history
    <2>2. Holdings(Operator)' = Holdings(Operator)
        BY <2>1, RebalancerAssumption, HoldingsKept
    <2>3. HistoryTypeOK'
        BY <2>1 DEF FundsInv, HistoryTypeOK
    <2>4. ASSUME NEW w \in Workers
          PROVE  Knowledge(w)'
        BY <2>1, <2>2 DEF FundsInv, Knowledge, Running, KnowsPositions, KnowsTotal,
           CountsAll, KnowsIdle, JupSpent, JupPart, Alone, OnlyPrices
    <2> QED BY <1>1, <2>3, <2>4 DEF FundsInv
<1>3. CASE OpenVault \/ UserStep \/ MarketStep
    BY <1>1, <1>3, EnvironmentKeepsKnowledge DEF FundsInv
<1>4. CASE WorkerStep
    BY <1>1, <1>4, WorkersKeepKnowledge DEF FundsInv, WorkerStep
<1> QED BY <1>2, <1>3, <1>4 DEF RebNext

(***************************************************************************)
(* The inductive invariant: at every await an undisturbed worker knows how *)
(* the amounts it remembers relate to what the vault holds and has idle.   *)
(***************************************************************************)
THEOREM WorkersKnowTheFunds == RebSpec => []FundsInv
BY FundsInitInv, RebNextKeepsFundsInv, PTL DEF RebSpec

(***************************************************************************)
(* First-time allocation and rebalancing put the books right: after either *)
(* of them total_underlying is what the vault holds, up to the rounding of *)
(* two deposits, whatever the books said before, if nobody did anything    *)
(* since the invocation started.                                           *)
(***************************************************************************)
THEOREM BooksArePutRight == RebSpec => []BooksPutRight
<1>1. FundsInv => BooksPutRight
    BY DEF FundsInv, Knowledge, KnowsTotal, Alone, CountsAll, BooksPutRight
<1> QED BY <1>1, WorkersKnowTheFunds, PTL

(***************************************************************************)
(* An invocation that returns without a user or another worker in between  *)
(* leaves no more idle than the dust and one unit, whatever the split,     *)
(* even where a share is smaller than the dust or nothing at all.          *)
(***************************************************************************)
THEOREM LittleStaysIdle == RebSpec => []LittleLeftIdle
<1>1. FundsInv => LittleLeftIdle
    BY DEF FundsInv, Knowledge, KnowsIdle, OnlyPrices, Finished, LittleLeftIdle
<1> QED BY <1>1, WorkersKnowTheFunds, PTL

-----------------------------------------------------------------------------
(* What rebalancing leaves in the markets.                                 *)
(*                                                                         *)
(* The positions are what the two deposits of the invocation bought, at    *)
(* the price the markets still have; withdraw's share of the amount,       *)
(* turned into tokens at the rate it reads, is no more than that.          *)

\* t is a total, a an allocation and part a's part of t, of which n - 1 units
\* are missing; over and cut keep the amount so far below t that its share is
\* less than the rest by more than one in u.
LEMMA ShareIsCovered ==
    ASSUME NEW t \in Nat, NEW a \in Nat, NEW n \in Nat, NEW u \in Nat,
           NEW amount \in Nat, NEW over \in Nat, NEW cut \in Nat,
           amount + over + cut <= t, n * 10000 <= over * a, t < cut * u, 1 <= cut * a,
           NEW usdc \in Nat, usdc * 10000 <= amount * a,
           NEW part \in Nat, t * a < (part + 1) * 10000
    PROVE  part + 1 - n \in Nat /\ usdc * u + usdc <= (part + 1 - n) * u
<1> DEFINE y == part + 1 - n - usdc
<1>1. /\ amount * a \in Nat /\ t * a \in Nat /\ n * 10000 \in Nat
      /\ over * a \in Nat /\ cut * a \in Nat
    BY ProductOfNaturals
<1>2. amount * a + over * a + cut * a <= t * a
    <2>1. (amount + over + cut) * a = (amount + over) * a + cut * a
        BY Distributes
    <2>2. (amount + over) * a = amount * a + over * a
        BY Distributes
    <2> QED BY <2>1, <2>2, ProductKeepsOrder
<1>3. cut * a < y * 10000 /\ y \in Nat
    BY <1>1, <1>2
<1> HIDE DEF y
<1>4. usdc < y * u
    <2>1. y * 10000 \in Nat /\ y * u \in Nat /\ cut * u \in Nat
        BY <1>3, ProductOfNaturals
    <2>2. t * a <= (cut * u) * a
        BY <2>1, ProductKeepsOrder
    <2>3. (cut * u) * a = (cut * a) * u
        OBVIOUS
    <2>4. (cut * a) * u <= (y * 10000) * u
        BY <1>1, <1>3, <2>1, ProductKeepsOrder
    <2>5. (y * 10000) * u = (y * u) * 10000
        BY <1>3
    <2>6. usdc * 10000 < (y * u) * 10000
        <3>1. (cut * u) * a \in Nat /\ (cut * a) * u \in Nat /\ (y * u) * 10000 \in Nat
            BY <1>1, <2>1, ProductOfNaturals
        <3>2. t * a <= (y * u) * 10000
            BY <1>1, <2>2, <2>3, <2>4, <2>5, <3>1
        <3> QED BY <1>1, <1>2, <3>1, <3>2
    <2> QED BY <2>1, <2>6, FactorsCompare
<1>5. part + 1 - n = usdc + y
    BY DEF y
<1>6. (usdc + y) * u = usdc * u + y * u
    BY <1>3, Distributes
<1>7. usdc * u \in Nat /\ y * u \in Nat /\ usdc + y \in Nat
    BY <1>3, ProductOfNaturals
<1> QED BY <1>4, <1>5, <1>6, <1>7

\* With p for the price and u * u for its scale: the tokens that a share costs
\* at the rate with the decimals cut off are no more than x bought.
LEMMA AskedIsBought ==
    ASSUME NEW usdc \in Nat, NEW x \in Nat, NEW u \in Nat \ {0},
           NEW p \in Nat, u * u <= p, usdc * u + usdc <= x * u
    PROVE  /\ p \div u \in Nat \ {0} /\ usdc * u \in Nat
           /\ (usdc * u) \div (p \div u) <= (x * (u * u)) \div p
<1> DEFINE rate == p \div u
           asked == (usdc * u) \div rate
<1>1. rate \in Nat /\ u <= rate /\ p < (rate + 1) * u
    BY DivisionRoundsDown, QuotientIsLargest, DivisionMissesLess
<1> HIDE DEF rate
<1>2. usdc * u \in Nat /\ x * u \in Nat /\ u * u \in Nat /\ rate \in Nat \ {0} /\ p \in Nat \ {0}
    <2>1. usdc * u \in Nat /\ x * u \in Nat /\ u * u \in Nat
        BY ProductOfNaturals
    <2>2. u * u # 0
        OBVIOUS
    <2> QED BY <1>1, <2>1, <2>2
<1>3. asked \in Nat /\ asked * rate <= usdc * u
    BY <1>2, DivisionRoundsDown
<1> HIDE DEF asked
<1>4. asked <= usdc
    <2>1. u * asked <= rate * asked
        BY <1>1, <1>2, <1>3, ProductKeepsOrder
    <2>2. u * asked = asked * u /\ rate * asked = asked * rate
        BY <1>1, <1>3
    <2>3. asked * u \in Nat /\ asked * rate \in Nat
        BY <1>1, <1>3, ProductOfNaturals
    <2>4. CASE usdc < asked
        <3>1. (usdc + 1) * u <= asked * u
            BY <1>3, <2>4, ProductKeepsOrder
        <3>2. (usdc + 1) * u = usdc * u + 1 * u
            BY Distributes
        <3>3. 1 * u = u
            OBVIOUS
        <3> QED BY <1>2, <1>3, <2>1, <2>2, <2>3, <3>1, <3>2, <3>3
    <2> QED BY <1>3, <2>4
<1>5. asked * (rate + 1) <= x * u
    <2>1. asked * (rate + 1) = asked * rate + asked
        BY <1>1, <1>3
    <2>2. asked * rate \in Nat
        BY <1>1, <1>3, ProductOfNaturals
    <2> QED BY <1>2, <1>3, <1>4, <2>1, <2>2
<1>6. asked * p <= x * (u * u)
    <2>1. (rate + 1) * u \in Nat /\ asked * (rate + 1) \in Nat
        BY <1>1, <1>3, ProductOfNaturals
    <2>2. p * asked <= ((rate + 1) * u) * asked
        BY <1>1, <1>3, <2>1, ProductKeepsOrder
    <2>3. p * asked = asked * p /\ ((rate + 1) * u) * asked = (asked * (rate + 1)) * u
        BY <1>1, <1>3
    <2>4. (asked * (rate + 1)) * u <= (x * u) * u
        BY <1>2, <1>5, <2>1, ProductKeepsOrder
    <2>5. (x * u) * u = x * (u * u)
        OBVIOUS
    <2>6. /\ asked * p \in Nat /\ (asked * (rate + 1)) * u \in Nat /\ (x * u) * u \in Nat
        BY <1>2, <1>3, <2>1, ProductOfNaturals
    <2> QED BY <2>2, <2>3, <2>4, <2>5, <2>6
<1>7. asked <= (x * (u * u)) \div p
    <2>1. x * (u * u) \in Nat
        BY <1>2, ProductOfNaturals
    <2> QED BY <1>2, <1>3, <1>6, <2>1, QuotientIsLargest
<1> QED BY <1>2, <1>7 DEF asked, rate

\* Interest only raises a market's price.
PricesRisen == \A m \in Markets : PriceScale <= price[m]

LEMMA BoughtCoversShare ==
    ASSUME TypeOK, PricesRisen, NEW m \in Markets, NEW usdc \in Nat, NEW x \in Nat,
           usdc * TokenUnit + usdc <= x * TokenUnit
    PROVE  TokensFor(AsU64(usdc), price[m] \div TokenUnit) <= MintedFor(m, x)
<1> DEFINE cast == AsU64(usdc)
           rate == price[m] \div TokenUnit
<1>1. /\ TokenUnit \in Nat \ {0} /\ PriceScale = TokenUnit * TokenUnit
      /\ price[m] \in Nat /\ PriceScale <= price[m]
    BY VaultConstantsAssumption, U64IsNat DEF TypeOK, PricesRisen, PriceScale
<1>2. cast \in Nat /\ cast <= usdc
    BY CastFits, U64IsNat
<1> HIDE DEF cast
<1>3. cast * TokenUnit + cast <= x * TokenUnit
    <2>1. cast * TokenUnit <= usdc * TokenUnit
        BY <1>1, <1>2, ProductKeepsOrder
    <2>2. /\ cast * TokenUnit \in Nat /\ usdc * TokenUnit \in Nat
          /\ x * TokenUnit \in Nat
        BY <1>1, <1>2, ProductOfNaturals
    <2> QED BY <1>2, <2>1, <2>2
<1>4. /\ rate \in Nat \ {0} /\ cast * TokenUnit \in Nat
      /\ (cast * TokenUnit) \div rate <= (x * PriceScale) \div price[m]
    BY <1>1, <1>2, <1>3, AskedIsBought
<1>5. /\ AsU64((cast * TokenUnit) \div rate) <= (cast * TokenUnit) \div rate
      /\ (cast * TokenUnit) \div rate \in Nat
      /\ AsU64((cast * TokenUnit) \div rate) \in Nat
    <2> HIDE DEF rate
    <2>1. (cast * TokenUnit) \div rate \in Nat
        BY <1>4, DivisionRoundsDown
    <2> QED BY <2>1, CastFits, U64IsNat
<1>6. (x * PriceScale) \div price[m] \in Nat
    <2>1. x * PriceScale \in Nat /\ price[m] \in Nat \ {0}
        BY <1>1, ProductOfNaturals, PricesArePositive, U64IsNat DEF TypeOK
    <2> QED BY <2>1, DivisionRoundsDown
<1>7. AsU64((cast * TokenUnit) \div rate) <= (x * PriceScale) \div price[m]
    <2> HIDE DEF rate
    <2> QED BY <1>4, <1>5, <1>6
<1> QED BY <1>7 DEF TokensFor, MintedFor, cast, rate

\* A position that lacks some units of its part of a total pays the share of
\* whatever is so much less than the total.
LEMMA PositionPays ==
    ASSUME TypeOK, PricesRisen, NEW m \in Markets, NEW t \in Nat, NEW a \in Nat,
           NEW n \in Nat, NEW amount \in Nat,
           amount + UnitsOver(n, a) + (t \div TokenUnit + 1) <= t,
           \A x \in Nat : x = Allocated(t, a) + 1 - n =>
                tokens[m][Operator] = MintedFor(m, x)
    PROVE  a # 0 => PaysByShare(m, amount, a)
<1> SUFFICES ASSUME a # 0 PROVE PaysByShare(m, amount, a)
    OBVIOUS
<1> DEFINE usdc == (amount * a) \div AllocationScale
           x == Allocated(t, a) + 1 - n
<1>1. a \in Nat \ {0} /\ TokenUnit \in Nat \ {0}
    BY VaultConstantsAssumption
<1>2. amount * a \in Nat /\ t * a \in Nat /\ n * 10000 \in Nat
    BY ProductOfNaturals
<1>3. usdc \in Nat /\ usdc * 10000 <= amount * a
    BY <1>2, DivisionRoundsDown DEF AllocationScale
<1>4. Allocated(t, a) \in Nat /\ t * a < (Allocated(t, a) + 1) * 10000
    BY <1>2, DivisionRoundsDown, DivisionMissesLess DEF Allocated, AllocationScale
<1> DEFINE over == UnitsOver(n, a)
           cut == t \div TokenUnit + 1
<1>5. over \in Nat /\ n * 10000 <= over * a
    <2>1. over = (n * 10000) \div a + 1
        BY DEF UnitsOver, AllocationScale
    <2>2. (n * 10000) \div a \in Nat /\ n * 10000 < ((n * 10000) \div a + 1) * a
        BY <1>1, <1>2, DivisionRoundsDown, DivisionMissesLess
    <2>3. over * a \in Nat
        BY <2>1, <2>2, ProductOfNaturals
    <2> QED BY <1>2, <2>1, <2>2, <2>3
<1>6. cut \in Nat \ {0} /\ t < cut * TokenUnit
    BY <1>1, DivisionRoundsDown, DivisionMissesLess
<1> HIDE DEF usdc, over, cut
<1>7. 1 <= cut * a
    BY <1>1, <1>6
<1>8. amount + over + cut <= t
    BY DEF over, cut
<1>9. x \in Nat /\ usdc * TokenUnit + usdc <= x * TokenUnit
    <2> DEFINE part == Allocated(t, a)
    <2>1. part \in Nat /\ t * a < (part + 1) * 10000
        BY <1>4
    <2> HIDE DEF part
    <2>2. part + 1 - n \in Nat /\ usdc * TokenUnit + usdc <= (part + 1 - n) * TokenUnit
        BY ONLY <1>1, <1>3, <1>5, <1>6, <1>7, <1>8, <2>1, t \in Nat, n \in Nat,
           amount \in Nat, ShareIsCovered
    <2> QED BY <2>2 DEF part
<1>10. TokensFor(AsU64(usdc), price[m] \div TokenUnit) <= MintedFor(m, x)
    <2> HIDE DEF x
    <2> QED BY <1>3, <1>9, BoughtCoversShare
<1>11. tokens[m][Operator] = MintedFor(m, x)
    BY <1>9
<1> QED BY <1>10, <1>11 DEF PaysByShare, Asked, ShareOf, usdc

\* A market that was allocated nothing is asked for nothing.
LEMMA NothingIsPaid ==
    ASSUME TypeOK, PricesRisen, NEW m \in Markets, NEW amount \in Nat
    PROVE  PaysByShare(m, amount, 0)
<1>1. AsU64(0) = 0 /\ 0 * TokenUnit = 0 /\ amount * 0 = 0 /\ 0 \div AllocationScale = 0
    BY U64MaxAssumption, VaultConstantsAssumption DEF AsU64, AllocationScale
<1>2. ShareOf(amount, 0) = 0
    BY <1>1 DEF ShareOf
<1>3. price[m] \div TokenUnit \in Nat \ {0}
    <2>1. TokenUnit \in Nat \ {0} /\ price[m] \in Nat /\ TokenUnit * TokenUnit <= price[m]
        BY VaultConstantsAssumption, U64IsNat DEF TypeOK, PricesRisen, PriceScale
    <2>2. 0 * TokenUnit + 0 <= 0 * TokenUnit
        BY <2>1
    <2> QED BY <2>1, <2>2, AskedIsBought
<1>4. 0 \div (price[m] \div TokenUnit) = 0
    <2> DEFINE rate == price[m] \div TokenUnit
    <2> HIDE DEF rate
    <2>1. rate \in Nat \ {0} => 0 \div rate = 0
        OBVIOUS
    <2> QED BY <1>3, <2>1 DEF rate
<1>5. TokensFor(0, price[m] \div TokenUnit) = 0
    BY <1>1, <1>4 DEF TokensFor
<1>6. tokens[m][Operator] \in Nat
    BY RebalancerAssumption, U64IsNat DEF TypeOK
<1> QED BY <1>2, <1>5, <1>6 DEF PaysByShare, Asked

LEMMA UnitsOverIsNat ==
    ASSUME NEW n \in Nat, NEW a \in Nat
    PROVE  UnitsOver(n, a) \in Nat
<1>1. CASE a # 0
    <2>1. n * 10000 \in Nat
        BY ProductOfNaturals
    <2>2. (n * 10000) \div a \in Nat
        BY <1>1, <2>1, DivisionRoundsDown
    <2> QED BY <1>1, <2>2 DEF UnitsOver, AllocationScale
<1> QED BY <1>1 DEF UnitsOver

\* The positions are the two parts of usdc, each as it was sent to its market.
Spread(usdc, jupAllocation, kaminoAllocation) ==
    /\ tokens["jup"][Operator]
         = MintedFor("jup", JupCallAmount(Allocated(usdc, jupAllocation)))
    /\ tokens["kamino"][Operator] = MintedFor("kamino", Allocated(usdc, kaminoAllocation))

BooksSpread ==
    Spread(vault[Operator].total_underlying, vault[Operator].jup_allocation,
           vault[Operator].kamino_allocation)

\* The positions have the tokens that withdraw asks them for.
LEMMA SpreadPays ==
    ASSUME TypeOK, PricesRisen, BooksSpread,
           vault[Operator].total_underlying >= OutOfReach(vault[Operator])
    PROVE  LET v      == vault[Operator]
               amount == v.total_underlying - OutOfReach(v)
           IN  /\ amount \in Nat
               /\ PaysByShare("jup", amount, v.jup_allocation)
               /\ PaysByShare("kamino", amount, v.kamino_allocation)
<1> DEFINE t == vault[Operator].total_underlying
           j == vault[Operator].jup_allocation
           k == vault[Operator].kamino_allocation
           overJup == UnitsOver(JupDust + 1, j)
           overKamino == UnitsOver(1, k)
           cut == t \div TokenUnit
           amount == t - (overJup + overKamino + cut + 1)
<1>1. t \in Nat /\ j \in Nat /\ k \in Nat /\ JupDust \in Nat /\ JupDust + 1 \in Nat
    <2>1. vault[Operator] \in Vault /\ JupDust \in U64
        BY RebalancerAssumption DEF TypeOK
    <2>2. t \in U64 /\ j \in U16 /\ k \in U16
        BY <2>1 DEF Vault
    <2> HIDE DEF t, j, k
    <2> QED BY <2>1, <2>2, U64IsNat, U16IsNat
<1>2. "jup" \in Markets /\ "kamino" \in Markets
    BY DEF Markets
<1>3. /\ tokens["jup"][Operator] = MintedFor("jup", JupCallAmount(Allocated(t, j)))
      /\ tokens["kamino"][Operator] = MintedFor("kamino", Allocated(t, k))
    BY DEF BooksSpread, Spread
<1>4. overJup \in Nat /\ overKamino \in Nat /\ cut \in Nat
    BY <1>1, UnitsOverIsNat, VaultConstantsAssumption, DivisionRoundsDown
<1>5. t >= overJup + overKamino + cut + 1
    BY DEF OutOfReach
<1>6. Allocated(t, j) \in Nat /\ Allocated(t, k) \in Nat
    BY <1>1, AllocatedIsNat
<1> HIDE DEF t, j, k
<1>7. /\ amount \in Nat
      /\ amount + overJup + (cut + 1) <= t /\ amount + overKamino + (cut + 1) <= t
    <2> HIDE DEF overJup, overKamino, cut
    <2> QED BY <1>1, <1>4, <1>5
<1> HIDE DEF amount
<1>8. PaysByShare("jup", amount, j)
    <2>1. ASSUME NEW x \in Nat, x = Allocated(t, j) + 1 - (JupDust + 1)
          PROVE  tokens["jup"][Operator] = MintedFor("jup", x)
        <3>1. JupCallAmount(Allocated(t, j)) = x
            BY <1>1, <1>6, <2>1 DEF JupCallAmount, Abs
        <3> QED BY <1>3, <3>1
    <2>2. CASE j # 0
        BY <1>1, <1>2, <1>7, <2>1, <2>2, PositionPays
    <2>3. CASE j = 0
        BY <1>2, <1>7, <2>3, NothingIsPaid
    <2> QED BY <2>2, <2>3
<1>9. PaysByShare("kamino", amount, k)
    <2>1. ASSUME NEW x \in Nat, x = Allocated(t, k) + 1 - 1
          PROVE  tokens["kamino"][Operator] = MintedFor("kamino", x)
        <3>1. Allocated(t, k) = x
            BY <1>6, <2>1
        <3> QED BY <1>3, <3>1
    <2>2. CASE k # 0
        BY <1>1, <1>2, <1>7, <2>1, <2>2, PositionPays
    <2>3. CASE k = 0
        BY <1>2, <1>7, <2>3, NothingIsPaid
    <2> QED BY <2>2, <2>3
<1>10. amount = t - OutOfReach(vault[Operator])
    BY DEF OutOfReach, amount, t, j, k
<1> QED BY <1>7, <1>8, <1>9, <1>10 DEF t, j, k

\* With p for the price and u * u for its scale: the tokens asked for at the
\* rate with the decimals cut off bring what they are asked for, but for p / u * u + 1.
LEMMA AskedIsWorth ==
    ASSUME NEW usdc \in Nat, NEW u \in Nat \ {0}, NEW p \in Nat, NEW top \in Nat,
           u * u <= p, p <= top
    PROVE  LET asked == (usdc * u) \div (p \div u)
           IN  /\ asked \in Nat /\ asked <= usdc
               /\ (asked * p) \div (u * u) \in Nat
               /\ usdc <= (asked * p) \div (u * u) + (top \div (u * u) + 1)
<1> DEFINE rate == p \div u
           asked == (usdc * u) \div rate
           s == u * u
           got == (asked * p) \div s
           loss == top \div s + 1
<1>1. rate \in Nat /\ u <= rate /\ rate * u <= p
    BY DivisionRoundsDown, QuotientIsLargest
<1>2. s \in Nat \ {0} /\ s <= p /\ s = u * u
    <2>1. u * u \in Nat
        BY ProductOfNaturals
    <2>2. u * u # 0
        OBVIOUS
    <2> QED BY <2>1, <2>2
<1> HIDE DEF rate, s
<1>3. usdc * u \in Nat /\ rate \in Nat \ {0}
    BY <1>1, ProductOfNaturals
<1>4. asked \in Nat /\ asked * rate <= usdc * u /\ usdc * u < (asked + 1) * rate
    BY <1>3, DivisionRoundsDown, DivisionMissesLess
<1> HIDE DEF asked
<1>5. asked <= usdc
    <2>1. u * asked <= rate * asked
        BY <1>1, <1>3, <1>4, ProductKeepsOrder
    <2>2. u * asked = asked * u /\ rate * asked = asked * rate
        BY <1>3, <1>4
    <2>3. asked * u \in Nat /\ asked * rate \in Nat
        BY <1>3, <1>4, ProductOfNaturals
    <2>4. CASE usdc < asked
        <3>1. (usdc + 1) * u <= asked * u
            BY <1>4, <2>4, ProductKeepsOrder
        <3>2. (usdc + 1) * u = usdc * u + 1 * u
            BY Distributes
        <3>3. 1 * u = u
            OBVIOUS
        <3> QED BY <1>3, <1>4, <2>1, <2>2, <2>3, <3>1, <3>2, <3>3
    <2> QED BY <1>4, <2>4
<1>6. asked * p \in Nat /\ (asked + 1) * p = asked * p + p
    <2>1. (asked + 1) * p = asked * p + 1 * p /\ 1 * p = p
        BY <1>4, Distributes
    <2> QED BY <1>4, <2>1, ProductOfNaturals
<1>7. usdc * s < (asked + 1) * p
    <2>1. (usdc * u) * u = usdc * s
        BY <1>2
    <2>2. ((asked + 1) * rate) * u = (rate * u) * (asked + 1)
        BY <1>3, <1>4
    <2>3. (rate * u) * (asked + 1) <= p * (asked + 1)
        <3>1. rate * u \in Nat
            BY <1>3, ProductOfNaturals
        <3> QED BY <1>1, <1>4, <3>1, ProductKeepsOrder
    <2>4. p * (asked + 1) = (asked + 1) * p
        BY <1>4
    <2>5. (usdc * u) * u < ((asked + 1) * rate) * u
        <3> DEFINE x == usdc * u
                   y == (asked + 1) * rate
        <3>1. x \in Nat /\ y \in Nat /\ x + 1 <= y
            BY <1>3, <1>4, ProductOfNaturals
        <3> HIDE DEF x, y
        <3>2. (x + 1) * u <= y * u
            BY <3>1, ProductKeepsOrder
        <3>3. (x + 1) * u = x * u + u
            BY <3>1
        <3>4. x * u \in Nat /\ y * u \in Nat
            BY <3>1, ProductOfNaturals
        <3>5. x * u < y * u
            BY <3>2, <3>3, <3>4
        <3> QED BY <3>5 DEF x, y
    <2> QED
        <3> DEFINE a == (usdc * u) * u
                   b == (rate * u) * (asked + 1)
                   c == (asked + 1) * p
        <3>1. a \in Nat /\ b \in Nat /\ c \in Nat
            BY <1>3, <1>4, <1>6, ProductOfNaturals
        <3>2. a < b /\ b <= c
            BY <2>2, <2>3, <2>4, <2>5
        <3>3. a = usdc * s
            BY <2>1
        <3> HIDE DEF a, b, c
        <3>4. a < c
            BY <3>1, <3>2
        <3> QED BY <3>3, <3>4 DEF c
<1>8. got \in Nat /\ asked * p < (got + 1) * s
    BY <1>2, <1>6, DivisionRoundsDown, DivisionMissesLess
<1>9. loss \in Nat /\ p < loss * s
    <2>1. top \div s \in Nat /\ top < (top \div s + 1) * s
        BY <1>2, DivisionRoundsDown, DivisionMissesLess
    <2>2. (top \div s + 1) * s \in Nat
        BY <1>2, <2>1, ProductOfNaturals
    <2> QED BY <2>1, <2>2
<1> HIDE DEF got, loss
<1>10. usdc * s < ((got + 1) + loss) * s
    <2>1. ((got + 1) + loss) * s = (got + 1) * s + loss * s
        BY <1>2, <1>8, <1>9, Distributes
    <2>2. (got + 1) * s \in Nat /\ loss * s \in Nat /\ usdc * s \in Nat
        BY <1>2, <1>8, <1>9, ProductOfNaturals
    <2> QED BY <1>6, <1>7, <1>8, <1>9, <2>1, <2>2
<1>11. usdc < (got + 1) + loss
    BY <1>2, <1>8, <1>9, <1>10, FactorsCompare
<1>12. usdc <= got + loss
    BY <1>8, <1>9, <1>11
<1> QED BY <1>4, <1>5, <1>8, <1>12 DEF asked, got, loss, rate, s

\* What withdraw redeems for a share brings the share, but for MaxLoss.
LEMMA AskedBrings ==
    ASSUME TypeOK, PricesRisen, PricesBounded, NEW m \in Markets, NEW usdc \in U64
    PROVE  LET asked == TokensFor(usdc, price[m] \div TokenUnit)
           IN  /\ asked \in Nat /\ RedeemedFor(m, asked) \in Nat
               /\ usdc <= RedeemedFor(m, asked) + MaxLoss
<1> DEFINE asked == (usdc * TokenUnit) \div (price[m] \div TokenUnit)
<1>1. /\ TokenUnit \in Nat \ {0} /\ PriceScale = TokenUnit * TokenUnit
      /\ price[m] \in Nat /\ PriceScale <= price[m] /\ price[m] <= MaxPrice
      /\ MaxPrice \in Nat /\ usdc \in Nat
    BY VaultConstantsAssumption, U64IsNat DEF TypeOK, PricesRisen, PricesBounded, PriceScale
<1>2. /\ asked \in Nat /\ asked <= usdc
      /\ (asked * price[m]) \div PriceScale \in Nat
      /\ usdc <= (asked * price[m]) \div PriceScale + (MaxPrice \div PriceScale + 1)
    BY <1>1, AskedIsWorth
<1> HIDE DEF asked
<1>3. AsU64(asked) = asked
    BY <1>2, U64MaxAssumption DEF AsU64, U64
<1>4. TokensFor(usdc, price[m] \div TokenUnit) = asked
    BY <1>3 DEF TokensFor, asked
<1> QED BY <1>2, <1>4 DEF RedeemedFor, MaxLoss

\* What a worker that nobody has disturbed knows of the positions it makes.
KnowsSpread(w) ==
    /\ pc[w] \in {"first_jup", "reb_jup_deposit"} =>
          tokens["jup"][Operator] = 0 /\ tokens["kamino"][Operator] = 0
    /\ pc[w] \in {"first_kamino", "reb_kamino_deposit"} =>
          /\ tokens["jup"][Operator] = MintedFor("jup", JupCallAmount(JupPart(w)))
          /\ tokens["kamino"][Operator] = 0
    /\ pc[w] \in {"first_sync", "reb_sync"} =>
          Spread(local[w].usdc, local[w].jupAllocation, local[w].kaminoAllocation)
    /\ result[w] \in {"first", "rebalanced"} => BooksSpread

SpreadKnown(w) == Alone(w) => KnowsSpread(w)

LEMMA BystanderKeepsSpread ==
    ASSUME NEW w \in Workers, NEW v \in Workers \ {w}, SpreadKnown(v), Bystander(v, w)
    PROVE  SpreadKnown(v)'
<1>1. CASE "worker" \in disturbed'[v]
    BY <1>1 DEF SpreadKnown, Alone
<1>2. CASE Silent(w)
    <2>1. /\ UNCHANGED <<vault, tokens, price>> /\ disturbed'[v] = disturbed[v]
          /\ pc'[v] = pc[v] /\ local'[v] = local[v] /\ result'[v] = result[v]
        BY <1>2 DEF Silent, Bystander, vars
    <2> QED BY <2>1 DEF SpreadKnown, Alone, KnowsSpread, JupPart, MintedFor, BooksSpread, Spread
<1> QED BY <1>1, <1>2 DEF Bystander

\* Awaits and endings that say nothing of the positions.
LEMMA NoSpreadToKnow ==
    ASSUME NEW w \in Workers, result'[w] \notin {"first", "rebalanced"},
           pc'[w] \notin { "first_jup", "reb_jup_deposit", "first_kamino",
                           "reb_kamino_deposit", "first_sync", "reb_sync" }
    PROVE  SpreadKnown(w)'
BY DEF SpreadKnown, KnowsSpread

\* Both deposits follow the finding that the vault has no position.
LEMMA ReadsFindNoPosition ==
    ASSUME RebInv, HistoryTypeOK, NEW w \in Workers, Knowledge(w),
           ReadKamino(w) \/ RebReadTotal(w)
    PROVE  SpreadKnown(w)'
<1>1. ASSUME NEW here, NEW next, NEW l, Read(w, here, next, l), here # "idle"
      PROVE  /\ pc[w] = here /\ pc'[w] = next /\ result'[w] = "running"
             /\ disturbed'[w] = disturbed[w] /\ UNCHANGED vars
    <2>1. /\ pc[w] = here /\ pc'[w] = next /\ disturbed'[w] = disturbed[w]
          /\ result'[w] = result[w]
        BY <1>1, ReadIsSilent DEF RebInv
    <2> QED BY <1>1, <2>1 DEF Read, Knowledge, Running
<1>2. ASSUME NEW here \in {"read_kamino", "reb_read_total"}, NEW next, NEW l,
             Read(w, here, next, l), next \in {"first_jup", "reb_jup_deposit"},
             Alone(w) => tokens["jup"][Operator] = 0 /\ tokens["kamino"][Operator] = 0
      PROVE  SpreadKnown(w)'
    <2>1. /\ pc'[w] = next /\ result'[w] = "running"
          /\ disturbed'[w] = disturbed[w] /\ UNCHANGED tokens
        BY <1>1, <1>2 DEF vars
    <2> QED BY <1>2, <2>1 DEF SpreadKnown, KnowsSpread, Alone
<1>3. CASE ReadKamino(w) /\ IsFirstTime(local[w].jup, tokens["kamino"][Operator], local[w].usdc)
    <2>1. PICK l : Read(w, "read_kamino", "first_jup", l)
        BY <1>3 DEF ReadKamino
    <2>2. Alone(w) => local[w].jup = tokens["jup"][Operator]
        BY <1>1, <2>1 DEF Knowledge, KnowsPositions
    <2> QED BY <1>2, <1>3, <2>1, <2>2 DEF IsFirstTime
<1>4. CASE ReadKamino(w) /\ ~ IsFirstTime(local[w].jup, tokens["kamino"][Operator], local[w].usdc)
    <2>1. pc'[w] = "reread_jup" /\ result'[w] = "running"
        BY <1>1, <1>4 DEF ReadKamino
    <2> QED BY <2>1, NoSpreadToKnow
<1>5. CASE RebReadTotal(w)
    <2>1. PICK l : Read(w, "reb_read_total", "reb_jup_deposit", l)
        BY <1>5 DEF RebReadTotal
    <2>2. Alone(w) => tokens["jup"][Operator] = 0 /\ tokens["kamino"][Operator] = 0
        BY <1>1, <2>1 DEF Knowledge, KnowsPositions
    <2> QED BY <1>2, <2>1, <2>2
<1> QED BY <1>3, <1>4, <1>5

\* What a deposit adds to one position and leaves of the other.
LEMMA PositionsAfterDeposit ==
    ASSUME TypeOK, NEW x \in Nat
    PROVE  /\ JupDeposit(Operator, x) =>
                 /\ tokens'["jup"][Operator] = tokens["jup"][Operator] + MintedFor("jup", x)
                 /\ tokens'["kamino"][Operator] = tokens["kamino"][Operator]
           /\ KaminoDeposit(Operator, x) =>
                 /\ tokens'["kamino"][Operator]
                      = tokens["kamino"][Operator] + MintedFor("kamino", x)
                 /\ tokens'["jup"][Operator] = tokens["jup"][Operator]
           /\ JupDeposit(Operator, x) \/ KaminoDeposit(Operator, x)
                 => UNCHANGED <<accounts, price>>
BY RebalancerAssumption DEF JupDeposit, KaminoDeposit, Supply, TypeOK, Markets

LEMMA MintedIsNat ==
    ASSUME TypeOK, NEW m \in Markets, NEW x \in Nat
    PROVE  MintedFor(m, x) \in Nat
<1>1. price[m] \in Nat \ {0} /\ x * PriceScale \in Nat
    BY PricesArePositive, U64IsNat, ProductOfNaturals DEF TypeOK
<1> QED BY <1>1, DivisionRoundsDown DEF MintedFor

LEMMA DepositsSpread ==
    ASSUME RebInv, HistoryTypeOK, NEW w \in Workers, Knowledge(w), SpreadKnown(w),
           FirstJup(w) \/ RebJupDeposit(w) \/ FirstKamino(w) \/ RebKaminoDeposit(w)
    PROVE  SpreadKnown(w)'
<1>1. /\ TypeOK /\ JupCallAmount(JupPart(w)) \in Nat /\ KaminoPart(w) \in Nat
      /\ "jup" \in Markets /\ "kamino" \in Markets
    BY MemoryParts DEF RebInv, Markets
<1>2. /\ MintedFor("jup", JupCallAmount(JupPart(w))) \in Nat
      /\ MintedFor("kamino", KaminoPart(w)) \in Nat
    BY <1>1, MintedIsNat
<1>3. CASE FirstJup(w) \/ RebJupDeposit(w)
    <2>1. /\ JupDeposit(Operator, JupCallAmount(JupPart(w)))
          /\ \/ Transact(w, "first_jup", "first_kamino")
             \/ Transact(w, "reb_jup_deposit", "reb_kamino_deposit")
        BY <1>3 DEF FirstJup, RebJupDeposit
    <2>2. /\ tokens'["jup"][Operator]
               = tokens["jup"][Operator] + MintedFor("jup", JupCallAmount(JupPart(w)))
          /\ tokens'["kamino"][Operator] = tokens["kamino"][Operator]
          /\ UNCHANGED <<accounts, price>>
        BY <1>1, <2>1, PositionsAfterDeposit
    <2>3. /\ \/ pc[w] = "first_jup" /\ pc'[w] = "first_kamino"
             \/ pc[w] = "reb_jup_deposit" /\ pc'[w] = "reb_kamino_deposit"
          /\ local'[w] = local[w] /\ disturbed'[w] = disturbed[w] /\ result'[w] = "running"
        BY <2>1, <2>2, CallFacts
    <2>4. MintedFor("jup", JupCallAmount(JupPart(w)))' = MintedFor("jup", JupCallAmount(JupPart(w)))
        BY <2>2, <2>3 DEF MintedFor, JupCallAmount, JupPart
    <2> QED BY <1>2, <2>2, <2>3, <2>4 DEF SpreadKnown, KnowsSpread, Alone
<1>4. CASE FirstKamino(w) \/ RebKaminoDeposit(w)
    <2>1. /\ KaminoDeposit(Operator, KaminoPart(w))
          /\ \/ Transact(w, "first_kamino", "first_sync")
             \/ Transact(w, "reb_kamino_deposit", "reb_sync")
        BY <1>4 DEF FirstKamino, RebKaminoDeposit
    <2>2. /\ tokens'["kamino"][Operator]
               = tokens["kamino"][Operator] + MintedFor("kamino", KaminoPart(w))
          /\ tokens'["jup"][Operator] = tokens["jup"][Operator]
          /\ UNCHANGED <<accounts, price>>
        BY <1>1, <2>1, PositionsAfterDeposit
    <2>3. /\ \/ pc[w] = "first_kamino" /\ pc'[w] = "first_sync"
             \/ pc[w] = "reb_kamino_deposit" /\ pc'[w] = "reb_sync"
          /\ local'[w] = local[w] /\ disturbed'[w] = disturbed[w] /\ result'[w] = "running"
        BY <2>1, <2>2, CallFacts
    <2>4. ASSUME Alone(w)'
          PROVE  Spread(local[w].usdc, local[w].jupAllocation, local[w].kaminoAllocation)'
        <3>1. /\ tokens["jup"][Operator] = MintedFor("jup", JupCallAmount(JupPart(w)))
              /\ tokens["kamino"][Operator] = 0
            BY <2>3, <2>4 DEF SpreadKnown, KnowsSpread, Alone
        <3>2. /\ tokens'["jup"][Operator] = MintedFor("jup", JupCallAmount(JupPart(w)))
              /\ tokens'["kamino"][Operator] = MintedFor("kamino", KaminoPart(w))
            BY <1>2, <2>2, <3>1
        <3> QED BY <2>2, <2>3, <3>2 DEF Spread, MintedFor, JupPart, KaminoPart
    <2> QED BY <2>3, <2>4 DEF SpreadKnown, KnowsSpread
<1> QED BY <1>3, <1>4

\* The books then say of the positions what the worker remembers of them.
LEMMA BooksRecordSpread ==
    ASSUME RebInv, HistoryTypeOK, NEW w \in Workers, SpreadKnown(w), NEW args,
           NEW here \in {"first_sync", "reb_sync"}, NEW how \in {"first", "rebalanced"},
           WriteBooks(w, here, args, how),
           args.new_total_underlying = local[w].usdc,
           args.new_jup_allocation = local[w].jupAllocation,
           args.new_kamino_allocation = local[w].kaminoAllocation
    PROVE  SpreadKnown(w)'
<1>1. pc[w] = here /\ pc'[w] = "idle" /\ disturbed'[w] = disturbed[w]
    <2>1. BotTypeOK /\ how \in Outcomes
        BY DEF RebInv, Outcomes
    <2> QED BY <2>1, BooksAreNoted
<1>2. /\ UNCHANGED <<tokens, price>>
      /\ vault'[Operator].total_underlying = local[w].usdc
      /\ vault'[Operator].jup_allocation = local[w].jupAllocation
      /\ vault'[Operator].kamino_allocation = local[w].kaminoAllocation
    <2>1. Operator \in Admins /\ vault \in [Admins -> Vault] /\ vault[Operator] \in Vault
        BY RebalancerAssumption DEF RebInv, TypeOK
    <2>2. SyncVaultState(Operator, args)
        BY DEF WriteBooks
    <2> QED BY <2>1, <2>2 DEF SyncVaultState, funds, Vault
<1>3. ASSUME Alone(w)'
      PROVE  BooksSpread'
    <2>1. Spread(local[w].usdc, local[w].jupAllocation, local[w].kaminoAllocation)
        BY <1>1, <1>3 DEF SpreadKnown, KnowsSpread, Alone
    <2> QED BY <1>2, <2>1 DEF BooksSpread, Spread, MintedFor
<1> QED BY <1>1, <1>3 DEF SpreadKnown, KnowsSpread

LEMMA SyncsRecordSpread ==
    ASSUME RebInv, HistoryTypeOK, NEW w \in Workers, SpreadKnown(w),
           FirstSync(w) \/ RebSync(w)
    PROVE  SpreadKnown(w)'
<1>1. CASE FirstSync(w)
    <2>1. /\ FirstArgs(w).new_total_underlying = local[w].usdc
          /\ FirstArgs(w).new_jup_allocation = local[w].jupAllocation
          /\ FirstArgs(w).new_kamino_allocation = local[w].kaminoAllocation
        BY DEF FirstArgs, Books
    <2> QED BY <1>1, <2>1, BooksRecordSpread DEF FirstSync
<1>2. CASE RebSync(w)
    <2>1. /\ RebalanceArgs(w).new_total_underlying = local[w].usdc
          /\ RebalanceArgs(w).new_jup_allocation = local[w].jupAllocation
          /\ RebalanceArgs(w).new_kamino_allocation = local[w].kaminoAllocation
        BY DEF RebalanceArgs, Books
    <2> QED BY <1>2, <2>1, BooksRecordSpread DEF RebSync
<1> QED BY <1>1, <1>2

LEMMA OtherAwaitsLeaveSpread ==
    ASSUME RebInv, HistoryTypeOK, NEW w \in Workers, Knowledge(w),
           Start(w) \/ Invocation(w) \/ Interrupt(w),
           ~ (ReadKamino(w) \/ RebReadTotal(w) \/ FirstJup(w) \/ RebJupDeposit(w)
                \/ FirstKamino(w) \/ RebKaminoDeposit(w) \/ FirstSync(w) \/ RebSync(w))
    PROVE  SpreadKnown(w)'
<1> DEFINE Others == { "read_jup", "read_kamino", "reread_kamino", "value_jup",
                       "value_kamino", "lazy_fetch", "reb_read_jup", "reb_read_kamino",
                       "reb_jup_withdraw", "reb_kamino_withdraw", "reb_read_total",
                       "lazy_read", "lazy_jup", "lazy_kamino", "lazy_sync" }
<1>1. BotTypeOK
    BY DEF RebInv
<1>2. ASSUME NEW here, NEW next \in Others, here # "idle",
             (\E l : Read(w, here, next, l)) \/ Transact(w, here, next)
      PROVE  SpreadKnown(w)'
    <2>1. pc[w] = here /\ pc'[w] = next /\ result'[w] = result[w]
        BY <1>1, <1>2, ReadIsSilent, TransactIsNoted
    <2>2. result[w] = "running"
        BY <1>2, <2>1 DEF Knowledge, Running
    <2> QED BY <2>1, <2>2, NoSpreadToKnow
<1>3. ASSUME NEW how \in Outcomes \ {"first", "rebalanced"}, pc'[w] = "idle", result'[w] = how
      PROVE  SpreadKnown(w)'
    BY <1>3, NoSpreadToKnow
<1>4. CASE Start(w)
    BY <1>1, <1>4, StartIsSilent, NoSpreadToKnow
<1>5. CASE ReadUsdc(w) \/ ReadJup(w) \/ RereadJup(w) \/ RereadKamino(w) \/ ValueJup(w)
    BY <1>2, <1>5 DEF ReadUsdc, ReadJup, RereadJup, RereadKamino, ValueJup
<1>6. CASE Decide(w) \/ LazyFetch(w) \/ RebReadJup(w) \/ RebReadKamino(w)
    BY <1>2, <1>6 DEF Decide, LazyFetch, RebReadJup, RebReadKamino
<1>7. CASE RebJupWithdraw(w) \/ RebKaminoWithdraw(w) \/ LazyJup(w) \/ LazyKamino(w)
    BY <1>2, <1>7 DEF RebJupWithdraw, RebKaminoWithdraw, LazyJup, LazyKamino
<1>8. CASE LazyRead(w) /\ idle[Operator] # 0
    BY <1>2, <1>8 DEF LazyRead
<1>9. CASE Throw(w) \/ Interrupt(w) \/ (LazyRead(w) /\ idle[Operator] = 0)
    <2>1. PICK how \in {"threw", "interrupted", "nothing idle"} :
              End(w, how) /\ UNCHANGED <<vars, history>>
        BY <1>9 DEF Throw, Interrupt, LazyRead
    <2>2. how \in Outcomes \ {"first", "rebalanced"}
        BY DEF Outcomes
    <2> QED BY <1>1, <1>3, <2>1, <2>2, EndIsSilent
<1>10. CASE LazySync(w)
    <2>1. "lazy" \in Outcomes \ {"first", "rebalanced"}
        BY DEF Outcomes
    <2> QED BY <1>1, <1>3, <1>10, <2>1, BooksAreNoted DEF LazySync
<1> QED BY <1>4, <1>5, <1>6, <1>7, <1>8, <1>9, <1>10 DEF Invocation

LEMMA WorkersKeepSpread ==
    ASSUME FundsInv, NEW w \in Workers, \A v \in Workers : SpreadKnown(v),
           Start(w) \/ Invocation(w) \/ Interrupt(w)
    PROVE  \A v \in Workers : SpreadKnown(v)'
<1>1. RebInv /\ HistoryTypeOK /\ Knowledge(w) /\ SpreadKnown(w)
    BY DEF FundsInv
<1>2. \A v \in Workers \ {w} : SpreadKnown(v)'
    BY <1>1, WorkersKeepHistory, BystanderKeepsSpread DEF Noted
<1>3. SpreadKnown(w)'
    BY <1>1, ReadsFindNoPosition, DepositsSpread, SyncsRecordSpread, OtherAwaitsLeaveSpread
<1> QED BY <1>2, <1>3

LEMMA EnvironmentKeepsSpread ==
    ASSUME FundsInv, \A v \in Workers : SpreadKnown(v),
           OpenVault \/ UserStep \/ MarketStep
    PROVE  \A v \in Workers : SpreadKnown(v)'
<1>1. CASE OpenVault
    <2>1. Operator \notin opened /\ UNCHANGED <<pc, result>>
        BY <1>1 DEF OpenVault, InitializeVault, bot
    <2>2. \A v \in Workers : pc[v] = "idle" /\ result[v] \notin Finished
        BY <2>1 DEF FundsInv, Knowledge, Running
    <2> QED BY <2>1, <2>2, NoSpreadToKnow DEF Finished
<1>2. CASE UserStep \/ MarketStep
    <2>1. PICK what : Disturb(Workers, what)
        BY <1>2 DEF UserStep, MarketStep
    <2>2. \A v \in Workers : ~Alone(v)'
        BY <2>1 DEF Disturb, Alone
    <2> QED BY <2>2 DEF SpreadKnown
<1> QED BY <1>1, <1>2

\* Nothing but interest touches a price.
LEMMA RebNextRaisesPrices ==
    ASSUME RebInv, PricesRisen, [RebNext]_rebVars
    PROVE  PricesRisen'
<1>1. CASE UNCHANGED price
    BY <1>1 DEF PricesRisen
<1>2. CASE MarketStep
    <2>1. PICK m \in Markets, p \in Prices :
              price[m] < p /\ price' = [price EXCEPT ![m] = p]
        BY <1>2 DEF MarketStep, MarketNext, Accrue
    <2>2. /\ p \in Nat /\ PriceScale \in Nat /\ price \in [Markets -> U64 \ {0}]
          /\ U64 \subseteq Nat
        BY PricesArePositive, U64IsNat DEF RebInv, TypeOK
    <2> SUFFICES ASSUME NEW n \in Markets
                 PROVE  PriceScale <= price'[n]
        BY DEF PricesRisen
    <2>3. PriceScale <= price[n] /\ price[n] \in Nat /\ price[m] \in Nat
        BY <2>2 DEF PricesRisen
    <2>4. price'[n] = IF n = m THEN p ELSE price[n]
        BY <2>1, <2>2
    <2> QED BY <2>1, <2>2, <2>3, <2>4
<1>3. ASSUME ~ UNCHANGED price
      PROVE  MarketStep
    <2>1. ~ (LendingCall \/ BooksWritten \/ UNCHANGED vars)
        BY <1>3 DEF LendingCall, JupDeposit, KaminoDeposit, JupWithdraw, KaminoWithdraw,
           BooksWritten, SyncVaultState, vars
    <2>2. ~ WorkerStep /\ ~ UNCHANGED rebVars
        BY <2>1, WhatAwaitsDo DEF WorkerStep, rebVars
    <2>3. ~ OpenVault /\ ~ UserStep
        BY <1>3 DEF OpenVault, InitializeVault, UserStep, Deposit, Withdraw
    <2> QED BY <2>2, <2>3 DEF RebNext
<1> QED BY <1>1, <1>2, <1>3

SpreadInv == FundsInv /\ PricesRisen /\ \A w \in Workers : SpreadKnown(w)

LEMMA SpreadInitInv == RebInit => SpreadInv
<1> SUFFICES ASSUME RebInit PROVE SpreadInv
    OBVIOUS
<1>1. PricesRisen
    BY PricesArePositive, U64IsNat DEF RebInit, Init, PricesRisen
<1>2. \A w \in Workers : SpreadKnown(w)
    BY DEF RebInit, SpreadKnown, KnowsSpread
<1> QED BY <1>1, <1>2, FundsInitInv DEF SpreadInv

LEMMA RebNextKeepsSpreadInv ==
    ASSUME SpreadInv, [RebNext]_rebVars
    PROVE  SpreadInv'
<1>1. FundsInv' /\ PricesRisen'
    BY RebNextKeepsFundsInv, RebNextRaisesPrices DEF SpreadInv, FundsInv
<1>2. \A w \in Workers : SpreadKnown(w)'
    <2>1. CASE UNCHANGED rebVars
        <3>1. UNCHANGED <<vault, tokens, price, pc, local, result, disturbed>>
            BY <2>1 DEF rebVars, vars, bot, history
        <3> QED BY <3>1 DEF SpreadInv, SpreadKnown, KnowsSpread, Alone, JupPart, MintedFor,
                BooksSpread, Spread
    <2>2. CASE OpenVault \/ UserStep \/ MarketStep
        BY <2>2, EnvironmentKeepsSpread DEF SpreadInv
    <2>3. CASE WorkerStep
        BY <2>3, WorkersKeepSpread DEF SpreadInv, WorkerStep
    <2> QED BY <2>1, <2>2, <2>3 DEF RebNext
<1> QED BY <1>1, <1>2 DEF SpreadInv

\* Jup's part of a total that is out of nobody's reach is more than the dust.
LEMMA PartExceedsDust ==
    ASSUME NEW t \in Nat, NEW a \in Nat \ {0}, NEW n \in Nat, UnitsOver(n, a) <= t
    PROVE  n <= Allocated(t, a)
<1> DEFINE over == UnitsOver(n, a)
<1>1. over \in Nat /\ n * 10000 <= over * a
    <2>1. n * 10000 \in Nat
        BY ProductOfNaturals
    <2>2. over = (n * 10000) \div a + 1
        BY DEF UnitsOver, AllocationScale
    <2>3. (n * 10000) \div a \in Nat /\ n * 10000 < ((n * 10000) \div a + 1) * a
        BY <2>1, DivisionRoundsDown, DivisionMissesLess
    <2>4. over * a \in Nat
        BY <2>2, <2>3, ProductOfNaturals
    <2> QED BY <2>1, <2>2, <2>3, <2>4
<1>2. over <= t
    OBVIOUS
<1> HIDE DEF over
<1>3. over * a <= t * a /\ over * a \in Nat /\ t * a \in Nat /\ n * 10000 \in Nat
    BY <1>1, <1>2, ProductOfNaturals, ProductKeepsOrder
<1>4. n * 10000 <= t * a
    BY <1>1, <1>3
<1>5. n <= (t * a) \div 10000
    BY <1>3, <1>4, QuotientIsLargest
<1> QED BY <1>5 DEF Allocated, AllocationScale

\* A position bought for x is worth x, but for MaxLoss.
LEMMA PositionWorth ==
    ASSUME TypeOK, PricesBounded, NEW m \in Markets, NEW x \in Nat
    PROVE  /\ RedeemedFor(m, MintedFor(m, x)) <= x
           /\ x <= RedeemedFor(m, MintedFor(m, x)) + MaxLoss
<1>1. RedeemedFor(m, 0) = 0
    <2>1. price[m] \in Nat /\ PriceScale \in Nat \ {0}
        BY PricesArePositive, U64IsNat DEF TypeOK
    <2>2. 0 * price[m] = 0
        BY <2>1
    <2>3. 0 \div PriceScale = 0
        BY <2>1
    <2> QED BY <2>2, <2>3 DEF RedeemedFor
<1>2. MintedFor(m, x) \in Nat
    BY MintedIsNat
<1>3. 0 + MintedFor(m, x) = MintedFor(m, x) /\ 0 + x = x
    BY <1>2
<1> QED BY <1>1, <1>3, MintedWorth

\* The dust that the spread leaves idle covers what the markets may round
\* away in the two deposits and in the two redemptions of a withdrawal.
LEMMA DustStaysIdle ==
    ASSUME TypeOK, PricesBounded, BooksSpread, MakesAWhole(vault[Operator]),
           CountsAll(vault[Operator].total_underlying, 2), JupDust > 4 * MaxLoss,
           vault[Operator].total_underlying >= OutOfReach(vault[Operator])
    PROVE  idle[Operator] >= 2 * MaxLoss + 1
<1> DEFINE t == vault[Operator].total_underlying
           j == vault[Operator].jup_allocation
           k == vault[Operator].kamino_allocation
           jupPart == Allocated(t, j)
           kaminoPart == Allocated(t, k)
           sent == JupCallAmount(jupPart)
           jupWorth == RedeemedFor("jup", tokens["jup"][Operator])
           kaminoWorth == RedeemedFor("kamino", tokens["kamino"][Operator])
<1>1. /\ t \in Nat /\ j \in Nat /\ k \in Nat /\ j + k = AllocationScale
      /\ JupDust \in Nat /\ MaxLoss \in Nat \ {0}
    <2>1. vault[Operator] \in Vault /\ JupDust \in U64
        BY RebalancerAssumption DEF TypeOK
    <2>2. t \in U64 /\ j \in U16 /\ k \in U16 /\ j + k = AllocationScale
        BY <2>1 DEF Vault, MakesAWhole
    <2>3. MaxLoss \in Nat \ {0}
        BY TwoUnitsAreLost
    <2> HIDE DEF t, j, k
    <2> QED BY <2>1, <2>2, <2>3, U64IsNat, U16IsNat
<1>2. jupPart \in Nat /\ kaminoPart \in Nat
    BY <1>1, AllocatedIsNat
<1>3. jupPart + kaminoPart <= t /\ t <= jupPart + kaminoPart + 1
    BY <1>1, SplitLosesOne
<1>4. j # 0 => JupDust + 1 <= jupPart
    <2> SUFFICES ASSUME j # 0 PROVE JupDust + 1 <= jupPart
        OBVIOUS
    <2>1. UnitsOver(JupDust + 1, j) <= t
        <3> DEFINE overJup == UnitsOver(JupDust + 1, j)
                   overKamino == UnitsOver(1, k)
                   cut == t \div TokenUnit
        <3>1. overJup \in Nat /\ overKamino \in Nat /\ cut \in Nat
            <4> HIDE DEF t, j, k
            <4>1. JupDust + 1 \in Nat
                BY <1>1
            <4>2. overJup \in Nat /\ overKamino \in Nat
                BY <1>1, <4>1, UnitsOverIsNat
            <4> QED BY <1>1, <4>2, VaultConstantsAssumption, DivisionRoundsDown
        <3>2. t >= overJup + overKamino + cut + 1
            BY DEF OutOfReach
        <3> HIDE DEF overJup, overKamino, cut, t
        <3>3. overJup <= t
            BY <1>1, <3>1, <3>2
        <3> QED BY <3>3 DEF overJup
    <2> HIDE DEF t, j, k
    <2> QED BY <1>1, <2>1, PartExceedsDust
<1>5. j = 0 => jupPart = 0
    BY <1>1 DEF Allocated, AllocationScale
<1>6. sent = IF j = 0 THEN JupDust ELSE jupPart - JupDust
    <2> HIDE DEF j, jupPart
    <2> QED BY <1>1, <1>2, <1>4, <1>5 DEF JupCallAmount, Abs
<1>7. sent \in Nat
    <2> HIDE DEF j, jupPart, sent
    <2> QED BY <1>1, <1>2, <1>4, <1>6
<1>8. /\ jupWorth <= sent /\ sent <= jupWorth + MaxLoss
      /\ kaminoWorth <= kaminoPart /\ kaminoPart <= kaminoWorth + MaxLoss
    <2>1. /\ tokens["jup"][Operator] = MintedFor("jup", sent)
          /\ tokens["kamino"][Operator] = MintedFor("kamino", kaminoPart)
        BY DEF BooksSpread, Spread
    <2>2. "jup" \in Markets /\ "kamino" \in Markets
        BY DEF Markets
    <2> HIDE DEF sent, kaminoPart
    <2> QED BY <1>2, <1>7, <2>1, <2>2, PositionWorth
<1>9. /\ idle[Operator] \in Nat /\ jupWorth \in Nat /\ kaminoWorth \in Nat
      /\ idle[Operator] + jupWorth + kaminoWorth <= t
      /\ t <= idle[Operator] + jupWorth + kaminoWorth + 2 * MaxLoss
    <2>1. idle[Operator] \in Nat /\ jupWorth \in Nat /\ kaminoWorth \in Nat
        BY HoldingsAreNat, RebalancerAssumption
    <2>2. Holdings(Operator) = idle[Operator] + jupWorth + kaminoWorth
        BY DEF Holdings
    <2> HIDE DEF t, jupWorth, kaminoWorth
    <2> QED BY <2>1, <2>2 DEF CountsAll, t
<1> HIDE DEF t, j, k, jupPart, kaminoPart, sent, jupWorth, kaminoWorth
<1>10. CASE j # 0
    BY <1>1, <1>2, <1>3, <1>6, <1>7, <1>8, <1>9, <1>10
<1>11. CASE j = 0
    BY <1>1, <1>2, <1>3, <1>5, <1>6, <1>7, <1>8, <1>9, <1>11
<1> QED BY <1>10, <1>11

\* Tokens that are no more than a position's bring no more than the position.
LEMMA RedeemingIsCovered ==
    ASSUME TypeOK, NEW m \in Markets, NEW asked \in Nat, asked <= tokens[m][Operator],
           RedeemedFor(m, tokens[m][Operator]) \in Nat
    PROVE  RedeemedFor(m, asked) <= RedeemedFor(m, tokens[m][Operator])
<1> DEFINE rest == tokens[m][Operator] - asked
<1>1. rest \in Nat /\ asked + rest = tokens[m][Operator]
    <2>1. Operator \in Admins
        BY RebalancerAssumption
    <2>2. tokens[m][Operator] \in Nat
        BY <2>1, U64IsNat DEF TypeOK
    <2> QED BY <2>2
<1> HIDE DEF rest
<1>2. RedeemedFor(m, asked) \in Nat /\ RedeemedFor(m, rest) \in Nat
    <2>1. price[m] \in Nat /\ PriceScale \in Nat \ {0}
        BY PricesArePositive, U64IsNat DEF TypeOK
    <2>2. asked * price[m] \in Nat /\ rest * price[m] \in Nat
        BY <1>1, <2>1, ProductOfNaturals
    <2> QED BY <2>1, <2>2, DivisionRoundsDown DEF RedeemedFor
<1>3. RedeemedFor(m, asked) + RedeemedFor(m, rest) <= RedeemedFor(m, asked + rest)
    BY <1>1, RedeemedInParts
<1>4. RedeemedFor(m, asked) + RedeemedFor(m, rest)
        <= RedeemedFor(m, tokens[m][Operator])
    BY <1>1, <1>3
<1> QED BY <1>2, <1>4

\* Where the positions have the tokens asked for and the idle dust covers what
\* is rounded away, the payout is covered too.
LEMMA PayoutIsCovered ==
    ASSUME TypeOK, PricesRisen, PricesBounded, NEW v \in Vault, MakesAWhole(v),
           NEW amount \in Nat, amount <= v.total_underlying,
           Holdings(Operator) <= v.total_underlying,
           PaysByShare("jup", amount, v.jup_allocation),
           PaysByShare("kamino", amount, v.kamino_allocation),
           idle[Operator] >= 2 * MaxLoss + 1
    PROVE  CanPay(v, amount)
<1> DEFINE j == v.jup_allocation
           k == v.kamino_allocation
           t == v.total_underlying
           askedJup == Asked("jup", amount, j)
           askedKamino == Asked("kamino", amount, k)
           gotJup == RedeemedFor("jup", askedJup)
           gotKamino == RedeemedFor("kamino", askedKamino)
           jupWorth == RedeemedFor("jup", tokens["jup"][Operator])
           kaminoWorth == RedeemedFor("kamino", tokens["kamino"][Operator])
<1>1. /\ t \in U64 /\ j \in Nat /\ k \in Nat /\ j + k = AllocationScale
      /\ MaxLoss \in Nat /\ t <= U64Max /\ amount \in U64 /\ U64Max \in Nat
    <2>1. t \in U64 /\ j \in U16 /\ k \in U16 /\ j + k = AllocationScale
        BY DEF Vault, MakesAWhole
    <2> HIDE DEF j, k
    <2>2. amount <= t
        OBVIOUS
    <2> HIDE DEF t
    <2> QED BY <2>1, <2>2, U64IsNat, U16IsNat, TwoUnitsAreLost, U64MaxAssumption DEF U64
<1>2. "jup" \in Markets /\ "kamino" \in Markets
    BY DEF Markets
<1> HIDE DEF j, k
<1>3. /\ Allocated(amount, j) + Allocated(amount, k) <= amount
      /\ amount <= Allocated(amount, j) + Allocated(amount, k) + 1
      /\ Allocated(amount, j) \in Nat /\ Allocated(amount, k) \in Nat
    BY <1>1, SplitLosesOne, AllocatedIsNat
<1>4. /\ Allocated(amount, j) \in U64 /\ Allocated(amount, k) \in U64
      /\ ShareOf(amount, j) = Allocated(amount, j)
      /\ ShareOf(amount, k) = Allocated(amount, k)
    <2>1. Allocated(amount, j) \in U64 /\ Allocated(amount, k) \in U64
        BY <1>1, <1>3 DEF U64
    <2>2. ASSUME NEW x \in U64 PROVE AsU64(x) = x
        BY <2>2, U64MaxAssumption DEF AsU64, U64
    <2>3. AsU64(Allocated(amount, j)) = Allocated(amount, j)
        BY <2>1, <2>2
    <2>4. AsU64(Allocated(amount, k)) = Allocated(amount, k)
        BY <2>1, <2>2
    <2> QED BY <2>1, <2>3, <2>4 DEF ShareOf, Allocated
<1>5. /\ askedJup \in Nat /\ gotJup \in Nat
      /\ Allocated(amount, j) <= gotJup + MaxLoss
    <2> DEFINE usdc == Allocated(amount, j)
    <2>1. usdc \in U64 /\ askedJup = TokensFor(usdc, price["jup"] \div TokenUnit)
        BY <1>4 DEF Asked
    <2> HIDE DEF usdc, askedJup
    <2>2. askedJup \in Nat /\ gotJup \in Nat /\ usdc <= gotJup + MaxLoss
        BY <1>2, <2>1, AskedBrings
    <2> QED BY <2>2 DEF usdc, askedJup
<1>6. /\ askedKamino \in Nat /\ gotKamino \in Nat
      /\ Allocated(amount, k) <= gotKamino + MaxLoss
    <2> DEFINE usdc == Allocated(amount, k)
    <2>1. usdc \in U64 /\ askedKamino = TokensFor(usdc, price["kamino"] \div TokenUnit)
        BY <1>4 DEF Asked
    <2> HIDE DEF usdc, askedKamino
    <2>2. askedKamino \in Nat /\ gotKamino \in Nat /\ usdc <= gotKamino + MaxLoss
        BY <1>2, <2>1, AskedBrings
    <2> QED BY <2>2 DEF usdc, askedKamino
<1>7. /\ askedJup <= tokens["jup"][Operator]
      /\ askedKamino <= tokens["kamino"][Operator]
    BY DEF PaysByShare, j, k
<1>8. /\ idle[Operator] \in Nat /\ jupWorth \in Nat /\ kaminoWorth \in Nat
      /\ Holdings(Operator) = idle[Operator] + jupWorth + kaminoWorth
    BY HoldingsAreNat, RebalancerAssumption DEF Holdings
<1>9. gotJup <= jupWorth /\ gotKamino <= kaminoWorth
    <2> HIDE DEF askedJup, askedKamino
    <2> QED BY <1>2, <1>5, <1>6, <1>7, <1>8, RedeemingIsCovered
<1>10. ForPayout(v, amount) = idle[Operator] + gotJup + gotKamino
    BY DEF ForPayout, j, k
<1>11. Holdings(Operator) <= t /\ idle[Operator] >= 2 * MaxLoss + 1
    OBVIOUS
<1> DEFINE shareJup == Allocated(amount, j)
           shareKamino == Allocated(amount, k)
<1>12. /\ shareJup + shareKamino <= amount /\ amount <= shareJup + shareKamino + 1
       /\ shareJup \in Nat /\ shareKamino \in Nat
       /\ shareJup <= gotJup + MaxLoss /\ shareKamino <= gotKamino + MaxLoss
    BY <1>3, <1>5, <1>6
<1> HIDE DEF gotJup, gotKamino, jupWorth, kaminoWorth, askedJup, askedKamino, t,
             shareJup, shareKamino
<1>13. idle[Operator] + gotJup + gotKamino \in U64
    BY <1>1, <1>5, <1>6, <1>8, <1>9, <1>11 DEF U64
<1>14. amount <= idle[Operator] + gotJup + gotKamino
    BY <1>1, <1>5, <1>6, <1>8, <1>11, <1>12
<1> QED BY <1>10, <1>13, <1>14 DEF CanPay

(***************************************************************************)
(* First-time allocation and rebalancing leave a vault that can pay out,   *)
(* by the split in the books, everything the books count but for what the  *)
(* dust and one unit are a share of and one unit per whole token: both     *)
(* redemptions have their tokens and the transfer to the user has its      *)
(* USDC, whatever the split, even one that gives a market nothing,         *)
(* whatever the prices, and however small or large the total, where the    *)
(* dust is more than what four market calls may round away.                *)
(***************************************************************************)
THEOREM RebalancedCanBeWithdrawn ==
    ASSUME JupDust > 4 * MaxLoss
    PROVE  RebSpec => []WithdrawableAfterRebalance
<1>1. RebSpec => []SpreadInv
    BY SpreadInitInv, RebNextKeepsSpreadInv, PTL DEF RebSpec
<1>2. SpreadInv => WithdrawableAfterRebalance
    <2> SUFFICES ASSUME SpreadInv, NEW w \in Workers,
                        result[w] \in {"first", "rebalanced"}, disturbed[w] = {},
                        vault[Operator].total_underlying >= OutOfReach(vault[Operator])
                 PROVE  CanPay(vault[Operator],
                               vault[Operator].total_underlying - OutOfReach(vault[Operator]))
        BY DEF WithdrawableAfterRebalance
    <2> DEFINE v == vault[Operator]
               amount == v.total_underlying - OutOfReach(v)
    <2>1. TypeOK /\ PricesRisen /\ PricesBounded /\ BooksSpread
        BY DEF SpreadInv, FundsInv, RebInv, SpreadKnown, Alone, KnowsSpread
    <2>2. v \in Vault /\ MakesAWhole(v) /\ v.total_underlying \in Nat
        <3>1. Operator \in Admins
            BY RebalancerAssumption
        <3>2. v \in Vault /\ MakesAWhole(v)
            BY <2>1, <3>1 DEF SpreadInv, FundsInv, RebInv, TypeOK, SplitsMakeAWhole
        <3> QED BY <3>2, U64IsNat DEF Vault
    <2>3. CountsAll(v.total_underlying, 2)
        <3>1. Knowledge(w) /\ Alone(w)
            BY DEF SpreadInv, FundsInv, Alone
        <3> QED BY <3>1 DEF Knowledge, KnowsTotal
    <2>4. /\ amount \in Nat /\ PaysByShare("jup", amount, v.jup_allocation)
          /\ PaysByShare("kamino", amount, v.kamino_allocation)
        BY <2>1, SpreadPays
    <2>5. idle[Operator] >= 2 * MaxLoss + 1
        BY <2>1, <2>2, <2>3, DustStaysIdle
    <2>6. amount <= v.total_underlying
        <3>1. OutOfReach(v) \in Nat
            <4>1. /\ v.jup_allocation \in Nat /\ v.kamino_allocation \in Nat
                  /\ JupDust + 1 \in Nat
                <5>1. v.jup_allocation \in U16 /\ v.kamino_allocation \in U16
                    <6> HIDE DEF v
                    <6> QED BY <2>2 DEF Vault
                <5>2. JupDust \in Nat
                    BY U64IsNat, RebalancerAssumption
                <5>3. JupDust + 1 \in Nat
                    BY <5>2
                <5>4. v.jup_allocation \in Nat /\ v.kamino_allocation \in Nat
                    BY ONLY <5>1, U16IsNat
                <5> QED BY <5>3, <5>4
            <4>2. /\ UnitsOver(JupDust + 1, v.jup_allocation) \in Nat
                  /\ UnitsOver(1, v.kamino_allocation) \in Nat
                BY <4>1, UnitsOverIsNat
            <4>3. v.total_underlying \div TokenUnit \in Nat
                BY <2>2, VaultConstantsAssumption, DivisionRoundsDown
            <4> HIDE DEF v
            <4> QED BY <4>2, <4>3 DEF OutOfReach
        <3> HIDE DEF v
        <3> QED BY <2>2, <3>1
    <2>7. Holdings(Operator) <= v.total_underlying
        BY <2>3 DEF CountsAll
    <2> HIDE DEF amount
    <2>8. CanPay(v, amount)
        <3> HIDE DEF v
        <3> QED BY <2>1, <2>2, <2>4, <2>5, <2>6, <2>7, PayoutIsCovered
    <2> QED BY <2>8 DEF amount
<1> QED BY <1>1, <1>2, PTL
-----------------------------------------------------------------------------
(* Overlapping invocations.                                                *)
(*                                                                         *)
(* Every invocation makes four market calls at most, each of which may     *)
(* round MaxLoss away.  What has been rounded away so far is bounded by    *)
(* the calls of all invocations less those that are still outstanding, and *)
(* by no more than that a total read before is too high.                   *)

\* The awaits with at least so many calls ahead.
FourAhead ==
    { "read_usdc", "read_jup", "read_kamino", "reread_jup", "reread_kamino",
      "value_jup", "value_kamino", "reb_read_jup", "reb_read_kamino",
      "reb_jup_withdraw" }

ThreeAhead == FourAhead \cup {"reb_kamino_withdraw"}

TwoAhead ==
    ThreeAhead \cup { "first_jup", "reb_read_total", "reb_jup_deposit",
                      "lazy_fetch", "lazy_read", "lazy_jup" }

OneAhead == TwoAhead \cup {"first_kamino", "reb_kamino_deposit", "lazy_kamino"}

WorkersAt(awaits) == { w \in Workers : pc[w] \in awaits }

Outstanding ==
    Cardinality(WorkersAt(FourAhead)) + Cardinality(WorkersAt(ThreeAhead))
      + Cardinality(WorkersAt(TwoAhead)) + Cardinality(WorkersAt(OneAhead))

CallsMade == 4 * runs - Outstanding

CallsCounted ==
    /\ IsFiniteSet(WorkersAt(FourAhead)) /\ IsFiniteSet(WorkersAt(ThreeAhead))
    /\ IsFiniteSet(WorkersAt(TwoAhead)) /\ IsFiniteSet(WorkersAt(OneAhead))
    /\ runs \in Nat /\ runs <= MaxRuns
    /\ Outstanding <= 4 * runs

\* When one worker moves, a set of awaits loses it or gains it at most.
LEMMA OneMoves ==
    ASSUME BotTypeOK, NEW w \in Workers, NEW next, pc' = [pc EXCEPT ![w] = next],
           NEW S, IsFiniteSet(WorkersAt(S))
    PROVE  /\ IsFiniteSet(WorkersAt(S)')
           /\ Cardinality(WorkersAt(S)) \in Nat /\ Cardinality(WorkersAt(S)') \in Nat
           /\ Cardinality(WorkersAt(S)') <= Cardinality(WorkersAt(S)) + 1
           /\ (next \in S => pc[w] \in S) =>
                 Cardinality(WorkersAt(S)') <= Cardinality(WorkersAt(S))
           /\ pc[w] \in S /\ next \notin S =>
                 Cardinality(WorkersAt(S)') = Cardinality(WorkersAt(S)) - 1
<1> DEFINE before == WorkersAt(S)
           after  == WorkersAt(S)'
<1>1. /\ after \subseteq before \cup {w}
      /\ (next \in S => pc[w] \in S) => after \subseteq before
      /\ pc[w] \in S /\ next \notin S => w \in before /\ after = before \ {w}
    BY DEF WorkersAt, BotTypeOK
<1> HIDE DEF before, after
<1>2. Cardinality(before) \in Nat /\ IsFiniteSet(before)
    BY FS_CardinalityType DEF before
<1>3. /\ IsFiniteSet(before \cup {w})
      /\ Cardinality(before \cup {w}) <= Cardinality(before) + 1
    <2>1. /\ IsFiniteSet(before \cup {w})
          /\ Cardinality(before \cup {w})
               = IF w \in before THEN Cardinality(before) ELSE Cardinality(before) + 1
        BY <1>2, FS_AddElement
    <2> QED BY <1>2, <2>1
<1>4. /\ IsFiniteSet(after) /\ Cardinality(after) \in Nat
      /\ Cardinality(after) <= Cardinality(before \cup {w})
      /\ after \subseteq before => Cardinality(after) <= Cardinality(before)
    BY <1>1, <1>2, <1>3, FS_Subset, FS_CardinalityType
<1>5. w \in before /\ after = before \ {w} => Cardinality(after) = Cardinality(before) - 1
    BY <1>2, FS_RemoveElement
<1>6. Cardinality(before \cup {w}) \in Nat
    BY <1>3, FS_CardinalityType
<1> QED BY <1>1, <1>2, <1>3, <1>4, <1>5, <1>6 DEF before, after

\* From here to next no call comes back.
Later(here, next) ==
    /\ next \in FourAhead => here \in FourAhead
    /\ next \in ThreeAhead => here \in ThreeAhead
    /\ next \in TwoAhead => here \in TwoAhead
    /\ next \in OneAhead => here \in OneAhead

\* From here to next a call is made.
CallPassed(here, next) ==
    \/ here \in FourAhead /\ next \notin FourAhead
    \/ here \in ThreeAhead /\ next \notin ThreeAhead
    \/ here \in TwoAhead /\ next \notin TwoAhead
    \/ here \in OneAhead /\ next \notin OneAhead

\* The calls still to come are of the invocations so far.
LEMMA LeftOver ==
    ASSUME NEW r \in Nat, NEW o \in Nat, NEW q \in Nat, o <= 4 * r
    PROVE  /\ 4 * r - o \in Nat
           /\ q <= o => /\ 4 * r - q \in Nat /\ 4 * r - o <= 4 * r - q
                        /\ q + 1 <= o => 4 * r - o + 1 <= 4 * r - q
           /\ q <= o + 4 => 4 * (r + 1) - q \in Nat /\ 4 * r - o <= 4 * (r + 1) - q
OBVIOUS

LEMMA CallsCountedIsNat ==
    ASSUME CallsCounted
    PROVE  CallsMade \in Nat /\ CallsMade <= 4 * runs
<1>1. /\ Cardinality(WorkersAt(FourAhead)) \in Nat
      /\ Cardinality(WorkersAt(ThreeAhead)) \in Nat
      /\ Cardinality(WorkersAt(TwoAhead)) \in Nat
      /\ Cardinality(WorkersAt(OneAhead)) \in Nat
    BY FS_CardinalityType DEF CallsCounted
<1> QED BY <1>1 DEF CallsMade, CallsCounted, Outstanding

LEMMA OutstandingFalls ==
    ASSUME BotTypeOK, CallsCounted, NEW w \in Workers, NEW next,
           pc' = [pc EXCEPT ![w] = next], Later(pc[w], next), UNCHANGED runs
    PROVE  /\ CallsCounted' /\ CallsMade \in Nat /\ CallsMade' \in Nat
           /\ CallsMade <= CallsMade'
           /\ CallPassed(pc[w], next) => CallsMade + 1 <= CallsMade'
<1>1. ASSUME NEW S \in {FourAhead, ThreeAhead, TwoAhead, OneAhead}
      PROVE  /\ IsFiniteSet(WorkersAt(S)')
             /\ Cardinality(WorkersAt(S)) \in Nat /\ Cardinality(WorkersAt(S)') \in Nat
             /\ Cardinality(WorkersAt(S)') <= Cardinality(WorkersAt(S))
             /\ pc[w] \in S /\ next \notin S =>
                   Cardinality(WorkersAt(S)') = Cardinality(WorkersAt(S)) - 1
    <2>1. IsFiniteSet(WorkersAt(S)) /\ (next \in S => pc[w] \in S)
        BY DEF CallsCounted, Later
    <2> QED BY <2>1, OneMoves
<1>2. /\ Outstanding \in Nat /\ Outstanding' \in Nat /\ Outstanding' <= Outstanding
      /\ CallPassed(pc[w], next) => Outstanding' + 1 <= Outstanding
    BY <1>1 DEF Outstanding, CallPassed
<1>3. CallsCounted'
    BY <1>1, <1>2 DEF CallsCounted
<1>4. runs \in Nat /\ UNCHANGED runs /\ Outstanding <= 4 * runs
    BY DEF CallsCounted
<1>5. CallsMade = 4 * runs - Outstanding /\ CallsMade' = 4 * runs - Outstanding'
    BY <1>4 DEF CallsMade
<1>6. /\ CallsMade \in Nat /\ CallsMade' \in Nat /\ CallsMade <= CallsMade'
      /\ (Outstanding' + 1 <= Outstanding => CallsMade + 1 <= CallsMade')
    BY <1>2, <1>4, <1>5, LeftOver
<1> QED BY <1>2, <1>3, <1>6

LEMMA OutstandingRises ==
    ASSUME BotTypeOK, CallsCounted, NEW w \in Workers, Start(w)
    PROVE  CallsCounted' /\ CallsMade \in Nat /\ CallsMade' \in Nat /\ CallsMade <= CallsMade'
<1>1. /\ pc' = [pc EXCEPT ![w] = "read_usdc"] /\ runs' = runs + 1 /\ runs < MaxRuns
    BY DEF Start
<1>2. ASSUME NEW S \in {FourAhead, ThreeAhead, TwoAhead, OneAhead}
      PROVE  /\ IsFiniteSet(WorkersAt(S)')
             /\ Cardinality(WorkersAt(S)) \in Nat /\ Cardinality(WorkersAt(S)') \in Nat
             /\ Cardinality(WorkersAt(S)') <= Cardinality(WorkersAt(S)) + 1
    <2>1. IsFiniteSet(WorkersAt(S))
        BY DEF CallsCounted
    <2> QED BY <1>1, <2>1, OneMoves
<1>3. Outstanding \in Nat /\ Outstanding' \in Nat /\ Outstanding' <= Outstanding + 4
    BY <1>2 DEF Outstanding
<1>4. runs \in Nat /\ MaxRuns \in Nat /\ Outstanding <= 4 * runs
    BY RebalancerAssumption DEF CallsCounted
<1>5. CallsCounted'
    BY <1>1, <1>2, <1>3, <1>4 DEF CallsCounted
<1>6. CallsMade = 4 * runs - Outstanding /\ CallsMade' = 4 * (runs + 1) - Outstanding'
    BY <1>1 DEF CallsMade
<1>7. CallsMade \in Nat /\ CallsMade' \in Nat /\ CallsMade <= CallsMade'
    BY <1>3, <1>4, <1>6, LeftOver
<1> QED BY <1>5, <1>7

\* What a total read earlier exceeds at most, while nobody withdraws.
Ceiling == Holdings(Operator) + CallsMade * MaxLoss

\* The awaits at which a worker remembers a total.
HasTotal ==
    { "read_jup", "read_kamino", "first_jup", "first_kamino", "first_sync",
      "reb_jup_deposit", "reb_kamino_deposit", "reb_sync" }

ErrsLow(w) ==
    pc[w] \in HasTotal /\ "withdrawal" \notin disturbed[w] => local[w].usdc <= Ceiling

CeilingHeld == /\ CallsCounted' /\ Ceiling \in Int /\ Ceiling' \in Int
               /\ Ceiling <= Ceiling'

\* What is lost in a number of steps, each of which loses l at most.
LEMMA LossesAddUp ==
    ASSUME NEW h \in Nat, NEW k \in Int, NEW l \in Nat, NEW c \in Nat, NEW d \in Nat,
           c <= d, h <= k \/ (c + 1 <= d /\ h <= k + l)
    PROVE  /\ h + c * l \in Int /\ k + d * l \in Int
           /\ h + c * l <= k + d * l
<1>1. c * l \in Nat /\ d * l \in Nat /\ (c + 1) * l \in Nat /\ (c + 1) * l = c * l + l
    <2>1. c + 1 \in Nat /\ 1 * l = l
        OBVIOUS
    <2> QED BY <2>1, ProductOfNaturals, Distributes
<1>2. c * l <= d * l /\ (c + 1 <= d => (c + 1) * l <= d * l)
    BY ProductKeepsOrder
<1>3. h + c * l <= k + d * l
    BY ONLY <1>1, <1>2, h \in Nat, k \in Int, l \in Nat,
            h <= k \/ (c + 1 <= d /\ h <= k + l)
<1> QED BY <1>1, <1>3

\* The ceiling does not come down where no more is lost than calls allow.
LEMMA CeilingHolds ==
    ASSUME TypeOK, Holdings(Operator)' \in Int,
           CallsMade \in Nat, CallsMade' \in Nat, CallsMade <= CallsMade',
           \/ Holdings(Operator) <= Holdings(Operator)'
           \/ /\ CallsMade + 1 <= CallsMade'
              /\ Holdings(Operator) <= Holdings(Operator)' + MaxLoss
    PROVE  Ceiling \in Int /\ Ceiling' \in Int /\ Ceiling <= Ceiling'
<1> DEFINE k == Holdings(Operator)'
           d == CallsMade'
<1>1. Holdings(Operator) \in Nat /\ MaxLoss \in Nat
    BY RebalancerAssumption, HoldingsAreNat, TwoUnitsAreLost
<1>2. Ceiling = Holdings(Operator) + CallsMade * MaxLoss /\ Ceiling' = k + d * MaxLoss
    BY DEF Ceiling, MaxLoss
<1>3. /\ k \in Int /\ d \in Nat /\ CallsMade <= d
      /\ \/ Holdings(Operator) <= k
         \/ CallsMade + 1 <= d /\ Holdings(Operator) <= k + MaxLoss
    OBVIOUS
<1> HIDE DEF k, d
<1> QED BY <1>1, <1>2, <1>3, LossesAddUp

\* One step of a worker, from here to next, that makes no call.
LEMMA NoCallHoldsCeiling ==
    ASSUME BotTypeOK, TypeOK, CallsCounted, NEW w \in Workers, NEW next,
           pc' = [pc EXCEPT ![w] = next], Later(pc[w], next), UNCHANGED runs,
           UNCHANGED <<idle, tokens, price>>
    PROVE  CeilingHeld
<1>1. /\ CallsCounted' /\ CallsMade \in Nat /\ CallsMade' \in Nat
      /\ CallsMade <= CallsMade'
    BY OutstandingFalls
<1>2. Holdings(Operator)' = Holdings(Operator) /\ Holdings(Operator) \in Nat
    BY RebalancerAssumption, HoldingsKept, HoldingsAreNat
<1> QED BY <1>1, <1>2, CeilingHolds DEF CeilingHeld

\* One call of a worker.
LEMMA CallHoldsCeiling ==
    ASSUME RebInv, PricesBounded, CallsCounted, NEW w \in Workers, NEW here, NEW next,
           Transact(w, here, next), Later(here, next), CallPassed(here, next),
           NEW x \in Nat,
           \/ JupDeposit(Operator, x) \/ KaminoDeposit(Operator, x)
           \/ JupWithdraw(Operator, x) \/ KaminoWithdraw(Operator, x)
    PROVE  CeilingHeld
<1>1. /\ BotTypeOK /\ TypeOK /\ pc[w] = here /\ UNCHANGED runs
      /\ pc' = [pc EXCEPT ![w] = next]
    BY DEF RebInv, Transact, Await
<1>2. /\ CallsCounted' /\ CallsMade \in Nat /\ CallsMade' \in Nat
      /\ CallsMade <= CallsMade' /\ CallsMade + 1 <= CallsMade'
    BY <1>1, OutstandingFalls
<1>3. /\ Holdings(Operator)' \in Int
      /\ Holdings(Operator) <= Holdings(Operator)' + MaxLoss
    <2>1. CASE JupDeposit(Operator, x) \/ KaminoDeposit(Operator, x)
        BY <1>1, <2>1, SupplyFacts
    <2>2. CASE JupWithdraw(Operator, x) \/ KaminoWithdraw(Operator, x)
        <3>1. PICK m \in Markets : Redeem(m, Operator, x)
            BY <2>2 DEF JupWithdraw, KaminoWithdraw, Markets
        <3>2. UNCHANGED price /\ Operator \in Admins
            BY <2>2, RebalancerAssumption DEF JupWithdraw, KaminoWithdraw
        <3> QED BY <1>1, <3>1, <3>2, RedeemKeepsWorth
    <2> QED BY <2>1, <2>2
<1> QED BY <1>1, <1>2, <1>3, CeilingHolds DEF CeilingHeld

\* Every await of a worker but for the calls.
LEMMA QuietStepHoldsCeiling ==
    ASSUME RebInv, CallsCounted, NEW w \in Workers,
           \/ \E next, l : Read(w, pc[w], next, l) /\ Later(pc[w], next)
           \/ \E here, args, how : WriteBooks(w, here, args, how)
           \/ \E how : End(w, how) /\ UNCHANGED vars
    PROVE  CeilingHeld
<1>1. BotTypeOK /\ TypeOK
    BY DEF RebInv
<1>2. UNCHANGED <<idle, tokens, price>> /\ UNCHANGED runs
    <2>1. CASE \E next, l : Read(w, pc[w], next, l) /\ Later(pc[w], next)
        BY <2>1 DEF Read, Await, vars
    <2>2. CASE \E here, args, how : WriteBooks(w, here, args, how)
        <3>1. PICK args : SyncVaultState(Operator, args) /\ UNCHANGED runs
            BY <2>2 DEF WriteBooks, End
        <3> QED BY <3>1 DEF SyncVaultState, funds
    <2>3. CASE \E how : End(w, how) /\ UNCHANGED vars
        BY <2>3 DEF End, vars
    <2> QED BY <2>1, <2>2, <2>3
<1>3. PICK next : pc' = [pc EXCEPT ![w] = next] /\ Later(pc[w], next)
    <2>1. Later(pc[w], "idle")
        BY DEF Later, OneAhead, TwoAhead, ThreeAhead, FourAhead
    <2>2. CASE \E next, l : Read(w, pc[w], next, l) /\ Later(pc[w], next)
        BY <2>2 DEF Read, Await
    <2>3. CASE \/ \E here, args, how : WriteBooks(w, here, args, how)
               \/ \E how : End(w, how) /\ UNCHANGED vars
        BY <2>1, <2>3 DEF WriteBooks, End
    <2> QED BY <2>2, <2>3
<1> QED BY <1>1, <1>2, <1>3, NoCallHoldsCeiling

LEMMA StartHoldsCeiling ==
    ASSUME RebInv, CallsCounted, NEW w \in Workers, Start(w)
    PROVE  CeilingHeld
<1>1. BotTypeOK /\ TypeOK /\ UNCHANGED <<idle, tokens, price>>
    BY DEF RebInv, Start, vars
<1>2. /\ CallsCounted' /\ CallsMade \in Nat /\ CallsMade' \in Nat
      /\ CallsMade <= CallsMade'
    BY <1>1, OutstandingRises
<1>3. Holdings(Operator)' = Holdings(Operator) /\ Holdings(Operator) \in Nat
    BY <1>1, RebalancerAssumption, HoldingsKept, HoldingsAreNat
<1> QED BY <1>1, <1>2, <1>3, CeilingHolds DEF CeilingHeld

LEMMA WorkersHoldCeiling ==
    ASSUME RebInv, PricesBounded, CallsCounted, NEW w \in Workers,
           Start(w) \/ Invocation(w) \/ Interrupt(w)
    PROVE  CeilingHeld
<1>1. /\ JupCallAmount(JupPart(w)) \in Nat /\ KaminoPart(w) \in Nat
      /\ local[w].jup \in Nat /\ local[w].kamino \in Nat
    BY MemoryParts, U64IsNat DEF Locals
<1>2. ASSUME NEW here, NEW next, NEW l, Read(w, here, next, l), Later(here, next)
      PROVE  CeilingHeld
    <2>1. pc[w] = here
        BY <1>2 DEF Read, Await
    <2> QED BY <1>2, <2>1, QuietStepHoldsCeiling
<1>3. CASE Start(w)
    BY <1>3, StartHoldsCeiling
<1>4. CASE ReadUsdc(w) \/ ReadJup(w) \/ RereadJup(w) \/ RereadKamino(w) \/ ValueJup(w)
    <2>1. /\ Later("read_usdc", "read_jup") /\ Later("read_jup", "read_kamino")
          /\ Later("reread_jup", "reread_kamino") /\ Later("reread_kamino", "value_jup")
          /\ Later("value_jup", "value_kamino")
        BY DEF Later, OneAhead, TwoAhead, ThreeAhead, FourAhead
    <2> QED BY <1>2, <1>4, <2>1 DEF ReadUsdc, ReadJup, RereadJup, RereadKamino, ValueJup
<1>5. CASE ReadKamino(w) \/ Decide(w)
    <2>1. /\ Later("read_kamino", "first_jup") /\ Later("read_kamino", "reread_jup")
          /\ Later("value_kamino", "reb_read_jup") /\ Later("value_kamino", "lazy_fetch")
        BY DEF Later, OneAhead, TwoAhead, ThreeAhead, FourAhead
    <2> QED BY <1>2, <1>5, <2>1 DEF ReadKamino, Decide
<1>6. CASE RebReadJup(w) \/ RebReadKamino(w) \/ RebReadTotal(w) \/ LazyFetch(w)
    <2>1. /\ Later("reb_read_jup", "reb_read_kamino")
          /\ Later("reb_read_kamino", "reb_jup_withdraw")
          /\ Later("reb_read_total", "reb_jup_deposit") /\ Later("lazy_fetch", "lazy_read")
        BY DEF Later, OneAhead, TwoAhead, ThreeAhead, FourAhead
    <2> QED BY <1>2, <1>6, <2>1 DEF RebReadJup, RebReadKamino, RebReadTotal, LazyFetch
<1>7. CASE FirstJup(w) \/ FirstKamino(w) \/ RebJupDeposit(w) \/ RebKaminoDeposit(w)
    <2>1. /\ Later("first_jup", "first_kamino") /\ CallPassed("first_jup", "first_kamino")
          /\ Later("first_kamino", "first_sync") /\ CallPassed("first_kamino", "first_sync")
          /\ Later("reb_jup_deposit", "reb_kamino_deposit")
          /\ CallPassed("reb_jup_deposit", "reb_kamino_deposit")
          /\ Later("reb_kamino_deposit", "reb_sync")
          /\ CallPassed("reb_kamino_deposit", "reb_sync")
        BY DEF Later, CallPassed, OneAhead, TwoAhead, ThreeAhead, FourAhead
    <2> QED BY <1>1, <1>7, <2>1, CallHoldsCeiling
            DEF FirstJup, FirstKamino, RebJupDeposit, RebKaminoDeposit
<1>8. CASE RebJupWithdraw(w) \/ RebKaminoWithdraw(w)
    <2>1. /\ Later("reb_jup_withdraw", "reb_kamino_withdraw")
          /\ CallPassed("reb_jup_withdraw", "reb_kamino_withdraw")
          /\ Later("reb_kamino_withdraw", "reb_read_total")
          /\ CallPassed("reb_kamino_withdraw", "reb_read_total")
        BY DEF Later, CallPassed, OneAhead, TwoAhead, ThreeAhead, FourAhead
    <2> QED BY <1>1, <1>8, <2>1, CallHoldsCeiling DEF RebJupWithdraw, RebKaminoWithdraw
<1>9. CASE LazyJup(w) \/ LazyKamino(w)
    <2>1. /\ Later("lazy_jup", "lazy_kamino") /\ CallPassed("lazy_jup", "lazy_kamino")
          /\ Later("lazy_kamino", "lazy_sync") /\ CallPassed("lazy_kamino", "lazy_sync")
        BY DEF Later, CallPassed, OneAhead, TwoAhead, ThreeAhead, FourAhead
    <2> QED BY <1>1, <1>2, <1>9, <2>1, CallHoldsCeiling DEF LazyJup, LazyKamino
<1>10. CASE FirstSync(w) \/ RebSync(w) \/ LazySync(w)
    BY <1>10, QuietStepHoldsCeiling DEF FirstSync, RebSync, LazySync
<1>11. CASE LazyRead(w) \/ Throw(w) \/ Interrupt(w)
    <2>1. Later("lazy_read", "lazy_jup")
        BY DEF Later, OneAhead, TwoAhead, ThreeAhead, FourAhead
    <2>2. CASE \E how : End(w, how) /\ UNCHANGED vars
        BY <2>2, QuietStepHoldsCeiling
    <2> QED BY <1>2, <1>11, <2>1, <2>2 DEF LazyRead, Throw, Interrupt
<1> QED BY <1>3, <1>4, <1>5, <1>6, <1>7, <1>8, <1>9, <1>10, <1>11 DEF Invocation

\* What a worker remembers as a total: nothing, what it did, or what is idle.
TotalFollows(w) ==
    \/ pc'[w] \notin HasTotal
    \/ /\ pc[w] \in HasTotal /\ local'[w].usdc = local[w].usdc
       /\ disturbed'[w] = disturbed[w]
    \/ local'[w].usdc = idle[Operator]

LEMMA TotalsFollow ==
    ASSUME RebInv, HistoryTypeOK, NEW w \in Workers,
           Start(w) \/ Invocation(w) \/ Interrupt(w)
    PROVE  TotalFollows(w)
<1>1. BotTypeOK /\ local[w] \in Locals
    BY DEF RebInv, BotTypeOK
<1>2. ASSUME NEW here, NEW next, NEW l, Read(w, here, next, l),
             next \notin HasTotal \/ (here \in HasTotal /\ l.usdc = local[w].usdc)
                                  \/ l.usdc = idle[Operator]
      PROVE  TotalFollows(w)
    BY <1>1, <1>2, ReadIsSilent DEF TotalFollows
<1>3. ASSUME NEW here, NEW next, Transact(w, here, next),
             next \notin HasTotal \/ here \in HasTotal
      PROVE  TotalFollows(w)
    BY <1>1, <1>3, TransactIsNoted DEF TotalFollows
<1>4. ASSUME pc'[w] \notin HasTotal
      PROVE  TotalFollows(w)
    BY <1>4 DEF TotalFollows
<1>5. CASE Start(w)
    BY <1>1, <1>4, <1>5, StartIsSilent DEF HasTotal
<1>6. CASE ReadUsdc(w) \/ RebReadTotal(w)
    <2>1. [local[w] EXCEPT !.usdc = idle[Operator]].usdc = idle[Operator]
        BY <1>1 DEF Locals
    <2> QED BY <1>2, <1>6, <2>1 DEF ReadUsdc, RebReadTotal
<1>7. CASE ReadJup(w)
    <2>1. /\ [local[w] EXCEPT !.jup = tokens["jup"][Operator]].usdc = local[w].usdc
          /\ "read_jup" \in HasTotal
        BY <1>1 DEF Locals, HasTotal
    <2> QED BY <1>2, <1>7, <2>1 DEF ReadJup
<1>8. CASE ReadKamino(w)
    <2> DEFINE halves == [local[w] EXCEPT !.jupAllocation = 5000,
                                          !.kaminoAllocation = 5000]
    <2>1. halves.usdc = local[w].usdc
        BY <1>1 DEF Locals
    <2>2. "read_kamino" \in HasTotal /\ "reread_jup" \notin HasTotal
        BY DEF HasTotal
    <2>3. \/ Read(w, "read_kamino", "first_jup", halves)
          \/ Read(w, "read_kamino", "reread_jup", local[w])
        BY <1>8 DEF ReadKamino
    <2> HIDE DEF halves
    <2> QED BY <1>2, <2>1, <2>2, <2>3
<1>9. CASE \/ RereadJup(w) \/ RereadKamino(w) \/ ValueJup(w) \/ Decide(w)
           \/ RebReadJup(w) \/ RebReadKamino(w) \/ LazyFetch(w)
    <2>1. {"reread_kamino", "value_jup", "value_kamino", "reb_read_jup", "reb_read_kamino",
           "reb_jup_withdraw", "lazy_fetch", "lazy_read"} \cap HasTotal = {}
        BY DEF HasTotal
    <2>2. CASE RereadJup(w) \/ RereadKamino(w) \/ ValueJup(w)
        BY <1>2, <2>1, <2>2 DEF RereadJup, RereadKamino, ValueJup
    <2>3. CASE Decide(w) \/ LazyFetch(w)
        BY <1>2, <2>1, <2>3 DEF Decide, LazyFetch
    <2>4. CASE RebReadJup(w) \/ RebReadKamino(w)
        BY <1>2, <2>1, <2>4 DEF RebReadJup, RebReadKamino
    <2> QED BY <1>9, <2>2, <2>3, <2>4
<1>10. CASE \/ FirstJup(w) \/ FirstKamino(w) \/ RebJupDeposit(w) \/ RebKaminoDeposit(w)
            \/ RebJupWithdraw(w) \/ RebKaminoWithdraw(w)
    <2>1. /\ {"first_jup", "first_kamino", "reb_jup_deposit", "reb_kamino_deposit"}
               \subseteq HasTotal
          /\ "reb_kamino_withdraw" \notin HasTotal /\ "reb_read_total" \notin HasTotal
        BY DEF HasTotal
    <2> QED BY <1>3, <1>10, <2>1 DEF FirstJup, FirstKamino, RebJupDeposit,
            RebKaminoDeposit, RebJupWithdraw, RebKaminoWithdraw
<1>11. CASE LazyJup(w) \/ LazyKamino(w)
    <2>1. "lazy_kamino" \notin HasTotal /\ "lazy_sync" \notin HasTotal
        BY DEF HasTotal
    <2> QED BY <1>2, <1>3, <1>11, <2>1 DEF LazyJup, LazyKamino
<1>12. ASSUME NEW how, End(w, how)
       PROVE  TotalFollows(w)
    BY <1>1, <1>4, <1>12 DEF End, HasTotal, BotTypeOK
<1>13. CASE FirstSync(w) \/ RebSync(w) \/ LazySync(w)
    BY <1>12, <1>13 DEF FirstSync, RebSync, LazySync, WriteBooks
<1>14. CASE LazyRead(w) \/ Throw(w) \/ Interrupt(w)
    <2>1. "lazy_jup" \notin HasTotal
        BY DEF HasTotal
    <2> QED BY <1>2, <1>12, <1>14, <2>1 DEF LazyRead, Throw, Interrupt
<1> QED BY <1>5, <1>6, <1>7, <1>8, <1>9, <1>10, <1>11, <1>13, <1>14 DEF Invocation

LEMMA WorkersErrLow ==
    ASSUME FundsInv, CallsCounted, NEW w \in Workers,
           Start(w) \/ Invocation(w) \/ Interrupt(w), \A v \in Workers : ErrsLow(v)
    PROVE  CallsCounted' /\ \A v \in Workers : ErrsLow(v)'
<1>1. RebInv /\ PricesBounded /\ HistoryTypeOK /\ TypeOK
    BY DEF FundsInv, RebInv
<1>2. /\ CallsCounted' /\ Ceiling \in Int /\ Ceiling' \in Int /\ Ceiling <= Ceiling'
    BY <1>1, WorkersHoldCeiling DEF CeilingHeld
<1>3. \A v \in Workers : local[v].usdc \in Nat
    BY <1>1, U64IsNat DEF RebInv, BotTypeOK, Locals
<1>4. ASSUME NEW v \in Workers \ {w}
      PROVE  ErrsLow(v)'
    <2>1. /\ pc'[v] = pc[v] /\ local'[v] = local[v] /\ disturbed[v] \subseteq disturbed'[v]
        BY <1>1, WorkersKeepHistory DEF Noted, Bystander
    <2> QED BY <1>2, <1>3, <2>1 DEF ErrsLow
<1>5. idle[Operator] \in Nat /\ idle[Operator] <= Ceiling
    <2>1. idle[Operator] \in Nat /\ idle[Operator] <= Holdings(Operator)
        <3>1. /\ idle[Operator] \in Nat
              /\ RedeemedFor("jup", tokens["jup"][Operator]) \in Nat
              /\ RedeemedFor("kamino", tokens["kamino"][Operator]) \in Nat
            BY <1>1, RebalancerAssumption, HoldingsAreNat
        <3> QED BY <3>1 DEF Holdings
    <2>2. CallsMade * MaxLoss \in Nat
        <3>1. CallsMade \in Nat
            BY <1>1, CallsCountedIsNat
        <3> QED BY <3>1, TwoUnitsAreLost, ProductOfNaturals
    <2> QED BY <1>1, <2>1, <2>2, RebalancerAssumption, HoldingsAreNat DEF Ceiling
<1>6. ErrsLow(w)'
    <2>1. TotalFollows(w)
        BY <1>1, TotalsFollow
    <2> QED BY <1>2, <1>3, <1>5, <2>1 DEF ErrsLow, TotalFollows
<1> QED BY <1>2, <1>4, <1>6

LEMMA EnvironmentErrsLow ==
    ASSUME FundsInv, CallsCounted, OpenVault \/ UserStep \/ MarketStep,
           \A v \in Workers : ErrsLow(v)
    PROVE  CallsCounted' /\ \A v \in Workers : ErrsLow(v)'
<1>1. TypeOK /\ RebInv /\ HistoryTypeOK
    BY DEF FundsInv, RebInv
<1>2. UNCHANGED <<pc, local, runs>>
    BY DEF OpenVault, UserStep, MarketStep, bot
<1>3. CallsCounted' /\ CallsMade \in Nat /\ CallsMade' = CallsMade
    <2>1. CallsCounted' /\ CallsMade' = CallsMade
        BY <1>2 DEF CallsCounted, CallsMade, Outstanding, WorkersAt
    <2> QED BY <2>1, CallsCountedIsNat
<1>4. \A v \in Workers : local[v].usdc \in Nat
    BY <1>1, U64IsNat DEF RebInv, BotTypeOK, Locals
<1>5. ASSUME NEW what \in Deeds, Disturb(Workers, what)
      PROVE  \A v \in Workers : disturbed'[v] = disturbed[v] \cup {what}
    BY <1>1, <1>5 DEF Disturb, HistoryTypeOK
<1>6. ASSUME Holdings(Operator)' \in Int, Holdings(Operator) <= Holdings(Operator)',
             \A v \in Workers : disturbed[v] \subseteq disturbed'[v]
      PROVE  \A v \in Workers : ErrsLow(v)'
    <2>1. Ceiling \in Int /\ Ceiling' \in Int /\ Ceiling <= Ceiling'
        BY <1>1, <1>3, <1>6, CeilingHolds
    <2> QED BY <1>2, <1>4, <1>6, <2>1 DEF ErrsLow
<1>7. Operator \in Admins /\ Holdings(Operator) \in Nat
    BY <1>1, RebalancerAssumption, HoldingsAreNat
<1>8. CASE OpenVault
    <2>1. UNCHANGED <<idle, tokens, price, disturbed>>
        BY <1>8 DEF OpenVault, InitializeVault, funds, history
    <2>2. Holdings(Operator)' = Holdings(Operator)
        BY <1>7, <2>1, HoldingsKept
    <2> QED BY <1>3, <1>6, <1>7, <2>1, <2>2
<1>9. CASE MarketStep
    <2>1. Disturb(Workers, "price") /\ "price" \in Deeds
        BY <1>9 DEF MarketStep, Deeds
    <2>2. PICK m \in Markets : Accrue(m)
        BY <1>9 DEF MarketStep, MarketNext
    <2>3. Holdings(Operator)' \in Int /\ Holdings(Operator) <= Holdings(Operator)'
        BY <1>1, <1>7, <2>2, AccrueRaisesWorth
    <2> QED BY <1>3, <1>5, <1>6, <2>1, <2>3
<1>10. CASE UserStep
    <2>1. PICK u \in Users, x \in Amounts :
              \/ Deposit(u, Operator, x) /\ Disturb(Workers, "deposit")
              \/ Withdraw(u, Operator, x) /\ Disturb(Workers, "withdrawal")
        BY <1>10 DEF UserStep
    <2>2. "deposit" \in Deeds /\ "withdrawal" \in Deeds
        BY DEF Deeds
    <2>3. CASE Deposit(u, Operator, x) /\ Disturb(Workers, "deposit")
        <3>1. x \in Nat /\ Holdings(Operator)' = Holdings(Operator) + x
            BY <1>1, <1>7, <2>3, AmountsAreNat, DepositedWorth
        <3>2. Holdings(Operator)' \in Int /\ Holdings(Operator) <= Holdings(Operator)'
            BY <1>7, <3>1
        <3> QED BY <1>3, <1>5, <1>6, <2>2, <2>3, <3>2
    <2>4. CASE Disturb(Workers, "withdrawal")
        <3>1. \A v \in Workers : "withdrawal" \in disturbed'[v]
            BY <1>5, <2>2, <2>4
        <3> QED BY <1>3, <3>1 DEF ErrsLow
    <2> QED BY <2>1, <2>3, <2>4
<1> QED BY <1>8, <1>9, <1>10

OverlapInv ==
    /\ FundsInv /\ CallsCounted
    /\ \A w \in Workers : ErrsLow(w)

LEMMA OverlapInitInv == RebInit => OverlapInv
<1> SUFFICES ASSUME RebInit PROVE OverlapInv
    OBVIOUS
<1>1. FundsInv /\ \A w \in Workers : ErrsLow(w)
    BY FundsInitInv DEF RebInit, ErrsLow, HasTotal
<1>2. /\ WorkersAt(FourAhead) = {} /\ WorkersAt(ThreeAhead) = {}
      /\ WorkersAt(TwoAhead) = {} /\ WorkersAt(OneAhead) = {}
    BY DEF RebInit, WorkersAt, OneAhead, TwoAhead, ThreeAhead, FourAhead
<1>3. runs = 0 /\ MaxRuns \in Nat
    BY RebalancerAssumption DEF RebInit
<1>4. CallsCounted
    BY <1>2, <1>3, FS_EmptySet DEF CallsCounted, Outstanding
<1> QED BY <1>1, <1>4 DEF OverlapInv

LEMMA RebNextKeepsOverlapInv ==
    ASSUME OverlapInv, [RebNext]_rebVars
    PROVE  OverlapInv'
<1>1. FundsInv' /\ FundsInv
    BY RebNextKeepsFundsInv DEF OverlapInv
<1>2. CASE UNCHANGED rebVars
    <2>1. UNCHANGED <<idle, tokens, price, pc, local, runs, disturbed>>
        BY <1>2 DEF rebVars, vars, bot, history
    <2>2. Holdings(Operator)' = Holdings(Operator)
        BY <2>1, RebalancerAssumption, HoldingsKept
    <2>3. CallsCounted' /\ CallsMade' = CallsMade
        BY <2>1 DEF OverlapInv, CallsCounted, CallsMade, Outstanding, WorkersAt
    <2>4. Ceiling' = Ceiling
        BY <2>2, <2>3 DEF Ceiling, MaxLoss
    <2>5. \A w \in Workers : ErrsLow(w)'
        BY <2>1, <2>4 DEF OverlapInv, ErrsLow
    <2> QED BY <1>1, <2>3, <2>5 DEF OverlapInv
<1>3. CASE OpenVault \/ UserStep \/ MarketStep
    BY <1>1, <1>3, EnvironmentErrsLow DEF OverlapInv
<1>4. CASE WorkerStep
    BY <1>1, <1>4, WorkersErrLow DEF OverlapInv, WorkerStep
<1> QED BY <1>2, <1>3, <1>4 DEF RebNext

\* An invocation that returns as first-time allocation or rebalancing do has
\* just written the books.
LEMMA OnlySyncsFinish ==
    ASSUME RebInv, HistoryTypeOK, NEW w \in Workers, result[w] = "running",
           Start(w) \/ Invocation(w) \/ Interrupt(w),
           result'[w] \in {"first", "rebalanced"}
    PROVE  FirstSync(w) \/ RebSync(w)
<1>1. ASSUME result'[w] \in {"running", "lazy", "nothing idle", "threw", "interrupted"}
      PROVE  FALSE
    BY <1>1
<1>2. ~ UNCHANGED result
    OBVIOUS
<1>3. ASSUME NEW how, End(w, how)
      PROVE  result'[w] = how
    BY <1>3 DEF End, HistoryTypeOK
<1>4. ~ Start(w)
    BY <1>1, StartIsSilent DEF RebInv
<1>5. ~ (ReadUsdc(w) \/ ReadJup(w) \/ ReadKamino(w) \/ RereadJup(w) \/ RereadKamino(w))
    BY <1>2 DEF ReadUsdc, ReadJup, ReadKamino, RereadJup, RereadKamino, Read, Await
<1>6. ~ (ValueJup(w) \/ Decide(w) \/ LazyFetch(w))
    BY <1>2 DEF ValueJup, Decide, LazyFetch, Read, Await
<1>7. ~ (RebReadJup(w) \/ RebReadKamino(w) \/ RebReadTotal(w))
    BY <1>2 DEF RebReadJup, RebReadKamino, RebReadTotal, Read, Await
<1>8. ~ (FirstJup(w) \/ FirstKamino(w) \/ RebJupWithdraw(w) \/ RebKaminoWithdraw(w)
         \/ RebJupDeposit(w) \/ RebKaminoDeposit(w))
    BY <1>2 DEF FirstJup, FirstKamino, RebJupWithdraw, RebKaminoWithdraw,
       RebJupDeposit, RebKaminoDeposit, Transact, Await
<1>9. ~ (LazyJup(w) \/ LazyKamino(w))
    BY <1>2 DEF LazyJup, LazyKamino, Transact, Read, Await
<1>10. ~ LazySync(w)
    BY <1>1, <1>3 DEF LazySync, WriteBooks
<1>11. ~ (LazyRead(w) \/ Throw(w) \/ Interrupt(w))
    BY <1>1, <1>2, <1>3 DEF LazyRead, Throw, Interrupt, Read, Await
<1> QED BY <1>4, <1>5, <1>6, <1>7, <1>8, <1>9, <1>10, <1>11 DEF Invocation

\* The books that are written claim what was remembered as the total.
LEMMA SyncsErrLow ==
    ASSUME OverlapInv, [RebNext]_rebVars, NEW w \in Workers,
           pc[w] \in {"first_sync", "reb_sync"}, result'[w] \in {"first", "rebalanced"},
           "withdrawal" \notin disturbed[w]
    PROVE  vault'[Operator].total_underlying
             <= Holdings(Operator)' + 4 * MaxRuns * MaxLoss
<1>1. /\ RebInv /\ HistoryTypeOK /\ Running(w) /\ CallsCounted /\ ErrsLow(w)
    BY DEF OverlapInv, FundsInv, Knowledge
<1>2. result[w] = "running"
    BY <1>1 DEF Running
<1>3. FirstSync(w) \/ RebSync(w)
    <2>1. ~ UNCHANGED result
        BY <1>2
    <2>2. WorkerStep
        BY <2>1 DEF RebNext, rebVars, bot, OpenVault, UserStep, MarketStep
    <2>3. PICK v \in Workers : Start(v) \/ Invocation(v) \/ Interrupt(v)
        BY <2>2 DEF WorkerStep
    <2>4. v = w
        BY <1>1, <1>2, <2>3, WorkersKeepHistory DEF Noted, Bystander
    <2> QED BY <1>1, <1>2, <2>3, <2>4, OnlySyncsFinish
<1>4. vault'[Operator].total_underlying = local[w].usdc /\ UNCHANGED <<idle, tokens, price>>
    <2>1. PICK args : /\ SyncVaultState(Operator, args)
                      /\ args.new_total_underlying = local[w].usdc
        BY <1>3 DEF FirstSync, RebSync, WriteBooks, FirstArgs, RebalanceArgs, Books
    <2>2. Operator \in Admins /\ vault \in [Admins -> Vault] /\ vault[Operator] \in Vault
        BY <1>1, RebalancerAssumption DEF RebInv, TypeOK
    <2> QED BY <2>1, <2>2 DEF SyncVaultState, funds, Vault
<1>5. Holdings(Operator)' = Holdings(Operator) /\ Holdings(Operator) \in Nat
    BY <1>1, <1>4, RebalancerAssumption, HoldingsKept, HoldingsAreNat DEF RebInv
<1>6. local[w].usdc <= Holdings(Operator) + CallsMade * MaxLoss
    BY <1>1 DEF ErrsLow, HasTotal, Ceiling
<1>7. CallsMade * MaxLoss <= (4 * MaxRuns) * MaxLoss
    <2>1. CallsMade \in Nat /\ MaxLoss \in Nat /\ 4 * MaxRuns \in Nat
        BY <1>1, CallsCountedIsNat, TwoUnitsAreLost, RebalancerAssumption
    <2>2. CallsMade <= 4 * MaxRuns
        BY <1>1, CallsCountedIsNat, RebalancerAssumption DEF CallsCounted
    <2> QED BY <2>1, <2>2, ProductKeepsOrder
<1>8. /\ CallsMade * MaxLoss \in Nat /\ (4 * MaxRuns) * MaxLoss \in Nat
      /\ local[w].usdc \in Nat
    <2>1. CallsMade \in Nat /\ MaxLoss \in Nat /\ 4 * MaxRuns \in Nat
        BY <1>1, CallsCountedIsNat, TwoUnitsAreLost, RebalancerAssumption
    <2>2. local[w].usdc \in Nat
        BY <1>1, U64IsNat DEF RebInv, BotTypeOK, Locals
    <2> QED BY <2>1, <2>2, ProductOfNaturals
<1> QED BY <1>4, <1>5, <1>6, <1>7, <1>8

(***************************************************************************)
(* However invocations overlap, books that first-time allocation and       *)
(* rebalancing write never claim more than the vault holds, up to the      *)
(* rounding of four market calls for each invocation there can be, unless  *)
(* somebody withdrew since the invocation started.                         *)
(***************************************************************************)
THEOREM OverlapsErrLow == RebSpec => OverlapErrsLow
<1>1. RebSpec => []OverlapInv
    BY OverlapInitInv, RebNextKeepsOverlapInv, PTL DEF RebSpec
<1>2. ASSUME OverlapInv, [RebNext]_rebVars
      PROVE  [\A w \in Workers :
                 /\ pc[w] \in {"first_sync", "reb_sync"}
                 /\ result'[w] \in {"first", "rebalanced"}
                 /\ "withdrawal" \notin disturbed[w]
                 => vault'[Operator].total_underlying
                      <= Holdings(Operator)' + 4 * MaxRuns * MaxLoss]_rebVars
    BY <1>2, SyncsErrLow
<1> QED BY <1>1, <1>2, PTL DEF RebSpec, OverlapErrsLow
=============================================================================
