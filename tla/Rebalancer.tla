----------------------------- MODULE Rebalancer -----------------------------
(***************************************************************************)
(* invokeRebalance: the client-side rebalancer of one vault, interleaved   *)
(* with the users' transactions, with interest and with other invocations  *)
(* of itself: nothing in the program or the client keeps two workers from  *)
(* rebalancing the same vault.  Each `await' of the function is a step:    *)
(* between the reading of an account and the transaction computed from it, *)
(* anybody may change the account.  A transaction that fails, a division   *)
(* by zero and a number that does not fit its field throw, and the         *)
(* invocation ends where it stands, as it does when the process dies.      *)
(* What it has done on chain stays done.                                   *)
(***************************************************************************)
EXTENDS VaultProgram, Threshold

CONSTANTS
    Workers,        \* the processes that invoke the rebalancer
    Operator,       \* the admin whose vault is rebalanced
    JupDust,        \* jupDeposit.ts:22 deposits this much less than asked: 50
    BotScaler,      \* SCALER of invokeRebalance.ts, 10^9
    BotScaleDown,   \* SCALE_DOWN of invokeRebalance.ts, 10^6
    MaxRuns,        \* bound on the number of invocations
    MaxInterrupts   \* bound on invocations cut short from outside

ASSUME RebalancerAssumption ==
    /\ Operator \in Admins
    /\ JupDust \in U64
    /\ BotScaler \in Nat \ {0}
    /\ BotScaleDown \in Nat \ {0}
    /\ MaxRuns \in Nat
    /\ MaxInterrupts \in Nat

VARIABLES
    pc,           \* of each worker: the await it is at, "idle" between invocations
    local,        \* the local variables of its invocation
    result,       \* how its last invocation ended
    runs,         \* invocations so far
    interrupts,   \* invocations cut short so far
    disturbed,    \* history: what others did since its invocation started
    basePrice     \* history: price at which each market position was opened

bot == <<pc, local, result, runs, interrupts>>
history == <<disturbed, basePrice>>
rebVars == <<vars, bot, history>>

\* seen: the fetched Vault account.  usdc, jup, kamino: the last balances read.
\* oldJup, oldKamino: value of the market positions.  jupAllocation and
\* kaminoAllocation: the split the current branch works with.
NoLocals ==
    [seen |-> NewVault, usdc |-> 0, jup |-> 0, kamino |-> 0, oldJup |-> 0,
     oldKamino |-> 0, jupAllocation |-> 0, kaminoAllocation |-> 0]

RebInit ==
    /\ Init
    /\ pc = [w \in Workers |-> "idle"]
    /\ local = [w \in Workers |-> NoLocals]
    /\ result = [w \in Workers |-> "none"]
    /\ runs = 0 /\ interrupts = 0
    /\ disturbed = [w \in Workers |-> {}]
    /\ basePrice = price

-----------------------------------------------------------------------------
\* The invocation of w moves on to its next await.
Await(w, here, next) ==
    /\ pc[w] = here
    /\ pc' = [pc EXCEPT ![w] = next]
    /\ UNCHANGED <<result, runs, interrupts>>

\* The invocation returns, or throws.
End(w, how) ==
    /\ pc' = [pc EXCEPT ![w] = "idle"]
    /\ local' = [local EXCEPT ![w] = NoLocals]
    /\ result' = [result EXCEPT ![w] = how]
    /\ UNCHANGED runs

\* An await that only reads.
Read(w, here, next, readings) ==
    /\ Await(w, here, next)
    /\ local' = [local EXCEPT ![w] = readings]
    /\ UNCHANGED <<vars, history>>

\* History: the invocations of `who' are disturbed by something.
Disturb(who, what) ==
    disturbed' = [w \in Workers |-> IF w \in who THEN disturbed[w] \cup {what}
                                                 ELSE disturbed[w]]

\* An await for a transaction that other invocations may notice.
Transact(w, here, next) ==
    /\ Await(w, here, next)
    /\ Disturb(Workers \ {w}, "worker")
    /\ UNCHANGED local

\* The last transaction of an invocation, which writes the books.
WriteBooks(w, here, args, how) ==
    /\ pc[w] = here
    /\ SyncVaultState(Operator, args)
    /\ End(w, how)
    /\ Disturb(Workers \ {w}, "worker")
    /\ UNCHANGED <<interrupts, basePrice>>

\* History: a deposit into market m that opens the position sets its base.
BaseFrom(m) ==
    basePrice' = IF tokens[m][Operator] = 0
                 THEN [basePrice EXCEPT ![m] = price[m]]
                 ELSE basePrice

Allocated(usdc, allocation) == (usdc * allocation) \div AllocationScale

JupPart(w) == Allocated(local[w].usdc, local[w].jupAllocation)

\* Faulty variant: Kamino's share is taken of what Jup leaves.
KaminoPartOfRest(w) ==
    Allocated(local[w].usdc - JupPart(w), local[w].kaminoAllocation)

KaminoPart(w) == Allocated(local[w].usdc, local[w].kaminoAllocation)

\* The arguments of syncVaultState: the value recorded for a market is
\* always what is booked as its balance.
Books(jupAllocation, kaminoAllocation, jup, kamino, acc, total) ==
    [new_jup_allocation |-> jupAllocation,
     new_kamino_allocation |-> kaminoAllocation,
     new_jup_lend_balance |-> jup, new_kamino_balance |-> kamino,
     new_acc_per_share |-> acc, new_total_underlying |-> total,
     new_jup_value |-> jup, new_kamino_value |-> kamino]

\* jupDeposit subtracts the dust; a negative BN is sent as its magnitude.
JupCallAmount(amount) == Abs(amount - JupDust)

-----------------------------------------------------------------------------
(* Reading the state and choosing the branch.                              *)

Start(w) ==
    /\ pc[w] = "idle"
    /\ runs < MaxRuns
    /\ Operator \in opened
    /\ pc' = [pc EXCEPT ![w] = "read_usdc"]
    /\ local' = [local EXCEPT ![w].seen = vault[Operator]]
    /\ result' = [result EXCEPT ![w] = "running"]
    /\ runs' = runs + 1
    /\ disturbed' = [disturbed EXCEPT ![w] = {}]
    /\ UNCHANGED <<vars, interrupts, basePrice>>

ReadUsdc(w) ==
    Read(w, "read_usdc", "read_jup", [local[w] EXCEPT !.usdc = idle[Operator]])

ReadJup(w) ==
    Read(w, "read_jup", "read_kamino",
         [local[w] EXCEPT !.jup = tokens["jup"][Operator]])

IsFirstTime(jup, kamino, usdc) == jup = 0 /\ kamino = 0 /\ usdc > 0

ReadKamino(w) ==
    IF IsFirstTime(local[w].jup, tokens["kamino"][Operator], local[w].usdc)
    THEN Read(w, "read_kamino", "first_jup",
              [local[w] EXCEPT !.jupAllocation = 5000, !.kaminoAllocation = 5000])
    ELSE Read(w, "read_kamino", "reread_jup", local[w])

-----------------------------------------------------------------------------
(* First-time allocation: half to each market, then the books.             *)

FirstJup(w) ==
    /\ Transact(w, "first_jup", "first_kamino")
    /\ JupDeposit(Operator, JupCallAmount(JupPart(w)))
    /\ BaseFrom("jup")

FirstKamino(w) ==
    /\ Transact(w, "first_kamino", "first_sync")
    /\ KaminoDeposit(Operator, KaminoPart(w))
    /\ BaseFrom("kamino")

\* Faulty variant: the values are left for the next invocation to record.
FirstArgsUnrecorded(w) ==
    Books(local[w].jupAllocation, local[w].kaminoAllocation, 0, 0, 0,
          local[w].usdc)

FirstArgs(w) ==
    Books(local[w].jupAllocation, local[w].kaminoAllocation,
          JupPart(w), KaminoPart(w), 0, local[w].usdc)

FirstSync(w) == WriteBooks(w, "first_sync", FirstArgs(w), "first")

-----------------------------------------------------------------------------
(* Measuring the markets.                                                  *)

RereadJup(w) ==
    Read(w, "reread_jup", "reread_kamino",
         [local[w] EXCEPT !.jup = tokens["jup"][Operator]])

RereadKamino(w) ==
    Read(w, "reread_kamino", "value_jup",
         [local[w] EXCEPT !.kamino = tokens["kamino"][Operator]])

\* Jup's SDK gives the price with the decimals of a token.
JupValue(amount) == (amount * JupExchangeRate) \div TokenUnit

ValueJup(w) ==
    Read(w, "value_jup", "value_kamino",
         [local[w] EXCEPT !.oldJup = JupValue(local[w].jup)])

KaminoValue(w) == RedeemedFor("kamino", local[w].kamino)

\* Growth in hundredths of a percent since the recorded value.
GrowthUndefined(value, last) == value # last /\ last = 0

Growth(value, last) ==
    IF value = last THEN 0 ELSE BnDiv((value - last) * 10000, last)

CannotMeasure(w) ==
    /\ pc[w] = "value_kamino"
    /\ \/ GrowthUndefined(local[w].oldJup, local[w].seen.last_jup_value)
       \/ GrowthUndefined(KaminoValue(w), local[w].seen.last_kamino_value)

\* Faulty variant: the two growths are passed in the wrong order.
DecisionSwapped(w) ==
    getThresholdAmount(Growth(KaminoValue(w), local[w].seen.last_kamino_value),
                       Growth(local[w].oldJup, local[w].seen.last_jup_value))

Decision(w) ==
    getThresholdAmount(Growth(local[w].oldJup, local[w].seen.last_jup_value),
                       Growth(KaminoValue(w), local[w].seen.last_kamino_value))

Decide(w) ==
    /\ pc[w] = "value_kamino"
    /\ ~CannotMeasure(w)
    /\ IF Decision(w).needsRebalance
       THEN Read(w, "value_kamino", "reb_read_jup",
                 [local[w] EXCEPT !.oldKamino = KaminoValue(w),
                                  !.jupAllocation = Decision(w).JUP,
                                  !.kaminoAllocation = Decision(w).KAMINO])
       ELSE Read(w, "value_kamino", "lazy_fetch", NoLocals)

-----------------------------------------------------------------------------
(* Rebalancing: redeem everything, deposit it by the new split, the books. *)

RebReadJup(w) ==
    Read(w, "reb_read_jup", "reb_read_kamino",
         [local[w] EXCEPT !.jup = tokens["jup"][Operator]])

RebReadKamino(w) ==
    Read(w, "reb_read_kamino", "reb_jup_withdraw",
         [local[w] EXCEPT !.kamino = tokens["kamino"][Operator]])

RebJupWithdraw(w) ==
    /\ Transact(w, "reb_jup_withdraw", "reb_kamino_withdraw")
    /\ JupWithdraw(Operator, local[w].jup)
    /\ UNCHANGED basePrice

RebKaminoWithdraw(w) ==
    /\ Transact(w, "reb_kamino_withdraw", "reb_read_total")
    /\ KaminoWithdraw(Operator, local[w].kamino)
    /\ UNCHANGED basePrice

RebReadTotal(w) ==
    Read(w, "reb_read_total", "reb_jup_deposit",
         [local[w] EXCEPT !.usdc = idle[Operator]])

RebJupDeposit(w) ==
    /\ Transact(w, "reb_jup_deposit", "reb_kamino_deposit")
    /\ JupDeposit(Operator, JupCallAmount(JupPart(w)))
    /\ BaseFrom("jup")

RebKaminoDeposit(w) ==
    /\ Transact(w, "reb_kamino_deposit", "reb_sync")
    /\ KaminoDeposit(Operator, KaminoPart(w))
    /\ BaseFrom("kamino")

AccIncrement(w) ==
    LET yieldGenerated == local[w].usdc - (local[w].oldJup + local[w].oldKamino)
    IN  IF yieldGenerated > 0 /\ local[w].seen.total_shares > 0
        THEN ((yieldGenerated * BotScaler) \div local[w].seen.total_shares)
               \div BotScaleDown
        ELSE 0

\* Faulty variant: the split of one market is the one of the old books.
RebalanceArgsHalfNew(w) ==
    Books(local[w].jupAllocation, local[w].seen.kamino_allocation,
          JupPart(w), KaminoPart(w),
          local[w].seen.acc_per_share + AccIncrement(w), local[w].usdc)

\* Faulty variant: the total is added to the old books, as lazy balancing does.
RebalanceArgsAdded(w) ==
    Books(local[w].jupAllocation, local[w].kaminoAllocation,
          JupPart(w), KaminoPart(w),
          local[w].seen.acc_per_share + AccIncrement(w),
          local[w].seen.total_underlying + local[w].usdc)

\* Faulty variant: each market is booked under the other's name.
RebalanceArgsCrossed(w) ==
    Books(local[w].kaminoAllocation, local[w].jupAllocation,
          KaminoPart(w), JupPart(w),
          local[w].seen.acc_per_share + AccIncrement(w), local[w].usdc)

RebalanceArgs(w) ==
    Books(local[w].jupAllocation, local[w].kaminoAllocation,
          JupPart(w), KaminoPart(w),
          local[w].seen.acc_per_share + AccIncrement(w), local[w].usdc)

\* Whether every argument of the transaction fits its u64 field.
Encodable(args) ==
    /\ args.new_jup_lend_balance \in U64 /\ args.new_kamino_balance \in U64
    /\ args.new_acc_per_share \in U64 /\ args.new_total_underlying \in U64

RebSync(w) ==
    /\ Encodable(RebalanceArgs(w))
    /\ WriteBooks(w, "reb_sync", RebalanceArgs(w), "rebalanced")

-----------------------------------------------------------------------------
(* Lazy balancing: spread the idle USDC by the recorded split.             *)

LazyFetch(w) ==
    Read(w, "lazy_fetch", "lazy_read",
         [local[w] EXCEPT !.seen = vault[Operator],
                          !.jupAllocation = vault[Operator].jup_allocation,
                          !.kaminoAllocation = vault[Operator].kamino_allocation])

\* Faulty variant: idle funds the books already count are left alone.
LazyReadUnlessBooked(w) ==
    /\ pc[w] = "lazy_read"
    /\ IF idle[Operator] <= local[w].seen.total_underlying
       THEN /\ End(w, "nothing idle")
            /\ UNCHANGED <<vars, interrupts, history>>
       ELSE Read(w, "lazy_read", "lazy_jup",
                 [local[w] EXCEPT !.usdc = idle[Operator]])

LazyRead(w) ==
    /\ pc[w] = "lazy_read"
    /\ IF idle[Operator] = 0
       THEN /\ End(w, "nothing idle")
            /\ UNCHANGED <<vars, interrupts, history>>
       ELSE Read(w, "lazy_read", "lazy_jup",
                 [local[w] EXCEPT !.usdc = idle[Operator]])

\* A share of nothing is not sent, and nobody notices.
LazyJup(w) ==
    IF JupPart(w) > 0
    THEN /\ Transact(w, "lazy_jup", "lazy_kamino")
         /\ JupDeposit(Operator, JupCallAmount(JupPart(w)))
         /\ BaseFrom("jup")
    ELSE Read(w, "lazy_jup", "lazy_kamino", local[w])

LazyKamino(w) ==
    IF KaminoPart(w) > 0
    THEN /\ Transact(w, "lazy_kamino", "lazy_sync")
         /\ KaminoDeposit(Operator, KaminoPart(w))
         /\ BaseFrom("kamino")
    ELSE Read(w, "lazy_kamino", "lazy_sync", local[w])

LazyArgs(w) ==
    Books(local[w].jupAllocation, local[w].kaminoAllocation,
          local[w].seen.jup_lend_balance + JupPart(w),
          local[w].seen.kamino_balance + KaminoPart(w),
          local[w].seen.acc_per_share,
          local[w].seen.total_underlying + local[w].usdc)

LazySync(w) ==
    /\ Encodable(LazyArgs(w))
    /\ WriteBooks(w, "lazy_sync", LazyArgs(w), "lazy")

-----------------------------------------------------------------------------
(* Exceptions, and the process dying.                                      *)

\* The market call that the invocation awaits cannot go through.
CallFails(w) ==
    \/ /\ \/ pc[w] \in {"first_jup", "reb_jup_deposit"}
          \/ pc[w] = "lazy_jup" /\ JupPart(w) > 0
       /\ ~CanSupply("jup", Operator, JupCallAmount(JupPart(w)))
    \/ /\ \/ pc[w] \in {"first_kamino", "reb_kamino_deposit"}
          \/ pc[w] = "lazy_kamino" /\ KaminoPart(w) > 0
       /\ ~CanSupply("kamino", Operator, KaminoPart(w))
    \/ pc[w] = "reb_jup_withdraw" /\ ~CanRedeem("jup", Operator, local[w].jup)
    \/ pc[w] = "reb_kamino_withdraw" /\ ~CanRedeem("kamino", Operator, local[w].kamino)

CannotEncode(w) ==
    \/ pc[w] = "reb_sync" /\ ~Encodable(RebalanceArgs(w))
    \/ pc[w] = "lazy_sync" /\ ~Encodable(LazyArgs(w))

Throw(w) ==
    /\ CallFails(w) \/ CannotEncode(w) \/ CannotMeasure(w)
    /\ End(w, "threw")
    /\ UNCHANGED <<vars, interrupts, history>>

\* A crash, a dropped connection, a market that refuses the call.
Interrupt(w) ==
    /\ pc[w] # "idle"
    /\ interrupts < MaxInterrupts
    /\ interrupts' = interrupts + 1
    /\ End(w, "interrupted")
    /\ UNCHANGED <<vars, history>>

-----------------------------------------------------------------------------
Invocation(w) ==
    \/ ReadUsdc(w) \/ ReadJup(w) \/ ReadKamino(w)
    \/ FirstJup(w) \/ FirstKamino(w) \/ FirstSync(w)
    \/ RereadJup(w) \/ RereadKamino(w) \/ ValueJup(w) \/ Decide(w)
    \/ RebReadJup(w) \/ RebReadKamino(w)
    \/ RebJupWithdraw(w) \/ RebKaminoWithdraw(w) \/ RebReadTotal(w)
    \/ RebJupDeposit(w) \/ RebKaminoDeposit(w) \/ RebSync(w)
    \/ LazyFetch(w) \/ LazyRead(w) \/ LazyJup(w) \/ LazyKamino(w) \/ LazySync(w)
    \/ Throw(w)

WorkerStep == \E w \in Workers : Start(w) \/ Invocation(w) \/ Interrupt(w)

UserStep ==
    /\ \E u \in Users, amount \in Amounts :
          \/ Deposit(u, Operator, amount) /\ Disturb(Workers, "deposit")
          \/ Withdraw(u, Operator, amount) /\ Disturb(Workers, "withdrawal")
    /\ UNCHANGED <<bot, basePrice>>

MarketStep ==
    /\ MarketNext
    /\ Disturb(Workers, "price")
    /\ UNCHANGED <<bot, basePrice>>

OpenVault ==
    /\ InitializeVault(Operator)
    /\ UNCHANGED <<bot, history>>

RebNext == OpenVault \/ UserStep \/ MarketStep \/ WorkerStep

RebSpec == RebInit /\ [][RebNext]_rebVars

\* An invocation that has started goes on, and the workers keep starting them.
FairSpec ==
    /\ RebSpec
    /\ \A w \in Workers : WF_rebVars(Start(w)) /\ WF_rebVars(Invocation(w))

-----------------------------------------------------------------------------
(***************************************************************************)
(* The two target allocations always make a whole: whatever branches the   *)
(* invocations took, however they overlapped and wherever they were cut    *)
(* short, the books never hold half of one split and half of another       *)
(* (vault.rs:47-49).                                                       *)
(***************************************************************************)
AllocationsMakeAWhole ==
    \A a \in Admins :
        vault[a].jup_allocation + vault[a].kamino_allocation = AllocationScale

(***************************************************************************)
(* An invocation puts the funds to work: when it returns without a user or *)
(* another invocation in between, no more is idle than the dust jupDeposit *)
(* holds back and one unit of rounding.  invokeRebalance.ts:241 expects    *)
(* the account "SHOULD BE EMPTY", tests/rebalance.ts:350 allows 100.       *)
(***************************************************************************)
LittleLeftIdle ==
    \A w \in Workers :
        result[w] \in {"first", "rebalanced", "lazy"} /\ disturbed[w] \subseteq {"price"}
            => idle[Operator] <= JupDust + 1

(***************************************************************************)
(* First-time allocation and rebalancing put the books right, whatever     *)
(* they were before: total_underlying is then what the vault holds, up to  *)
(* the rounding of the two deposits (invokeRebalance.ts:204, 264).         *)
(***************************************************************************)
BooksPutRight ==
    \A w \in Workers :
        result[w] \in {"first", "rebalanced"} /\ disturbed[w] = {} =>
            /\ vault[Operator].total_underlying <= Holdings(Operator) + 2 * MaxLoss
            /\ Holdings(Operator) <= vault[Operator].total_underlying

(***************************************************************************)
(* Even when invocations overlap, users deposit and prices rise in the     *)
(* meantime, the books that first-time allocation and rebalancing write    *)
(* err on the low side: they never claim more than the vault holds, up to  *)
(* the rounding of the market calls made (invokeRebalance.ts:66, 290).     *)
(* Only a withdrawal in between can make them claim too much.              *)
(***************************************************************************)
OverlapErrsLow ==
    [][\A w \in Workers :
          /\ pc[w] \in {"first_sync", "reb_sync"}
          /\ result'[w] \in {"first", "rebalanced"}
          /\ "withdrawal" \notin disturbed[w]
          => vault'[Operator].total_underlying
               <= Holdings(Operator)' + 4 * MaxRuns * MaxLoss]_rebVars

(***************************************************************************)
(* First-time allocation and rebalancing leave a vault that withdraw can   *)
(* pay from: withdraw redeems from each market its target share of the     *)
(* amount and transfers the whole of it from what is then in the vault's   *)
(* account (withdraw.rs:264-315), so the positions must be what the books' *)
(* split promises, and what the rates and the markets round away must      *)
(* still be idle: the dust is what it is paid from.  If withdraw decodes   *)
(* the right rates, all the books count can be withdrawn but for what the  *)
(* dust is a share of, what Kamino's rounded unit is a share of, and one   *)
(* unit per whole token, for the decimals that withdraw.rs:268 cuts off.   *)
(***************************************************************************)
\* The tokens that withdraw redeems from a market.
Asked(m, amount, allocation) ==
    TokensFor(ShareOf(amount, allocation), price[m] \div TokenUnit)

PaysByShare(m, amount, allocation) ==
    Asked(m, amount, allocation) <= tokens[m][Operator]

\* More than the amount whose share in a market is that many units.
UnitsOver(units, allocation) ==
    IF allocation = 0 THEN 0 ELSE (units * AllocationScale) \div allocation + 1

OutOfReach(v) ==
    UnitsOver(JupDust + 1, v.jup_allocation) + UnitsOver(1, v.kamino_allocation)
        + v.total_underlying \div TokenUnit + 1

\* What is in the vault's account once both markets are redeemed from.
ForPayout(v, amount) ==
    idle[Operator] + RedeemedFor("jup", Asked("jup", amount, v.jup_allocation))
                   + RedeemedFor("kamino", Asked("kamino", amount, v.kamino_allocation))

CanPay(v, amount) ==
    /\ PaysByShare("jup", amount, v.jup_allocation)
    /\ PaysByShare("kamino", amount, v.kamino_allocation)
    /\ ForPayout(v, amount) \in U64
    /\ amount <= ForPayout(v, amount)

WithdrawableAfterRebalance ==
    \A w \in Workers :
        /\ result[w] \in {"first", "rebalanced"} /\ disturbed[w] = {}
        /\ vault[Operator].total_underlying >= OutOfReach(vault[Operator])
        => CanPay(vault[Operator],
                  vault[Operator].total_underlying - OutOfReach(vault[Operator]))

(***************************************************************************)
(* All funds are moved only toward a market that has really paid interest  *)
(* since the vault entered it (invokeRebalance.ts:118-162): when neither   *)
(* has, nothing moves, and when one has, it is the one favoured.  Growth   *)
(* is measured against recorded values that differ from the positions by   *)
(* the dust, by rounding and by everything spread lazily in between.  An   *)
(* invocation cut short between a deposit and its sync breaks this: the    *)
(* next one takes the deposit for growth.                                  *)
(***************************************************************************)
FavoursAGrowingMarket ==
    \A w \in Workers :
        pc[w] = "reb_read_jup" /\ interrupts = 0 =>
            LET favoured == IF local[w].jupAllocation > local[w].kaminoAllocation
                            THEN "jup" ELSE "kamino"
            IN  price[favoured] > basePrice[favoured]

(***************************************************************************)
(* Deposited funds do not stay idle: with a worker that keeps invoking the *)
(* rebalancer, idle USDC beyond a bit more than the dust is put to work by *)
(* one of the next invocations, whatever branch each of them takes.  Each  *)
(* deposit that falls into an invocation may cost one more: two further    *)
(* invocations are enough where users can afford two deposits.  One cut    *)
(* short may leave a vault that can no longer be measured.                 *)
(***************************************************************************)
FundsGetDeployed ==
    idle[Operator] > 2 * JupDust /\ runs + 2 <= MaxRuns
        ~> idle[Operator] <= 2 * JupDust \/ interrupts > 0
=============================================================================
