# Verification of the yield aggregator

TLA+ models of the on-chain program `yield_aggregator` and of the client-side
rebalancer that drives it, TLC runs on small instances, and TLAPS proofs for all
instances.  Paths below are relative to the repository; `deposit.rs` stands for
`programs/yield-aggregator/src/instructions/deposit.rs`, and so on.

## 1. The system

Users deposit USDC into a vault and receive shares.  The vault's admin spreads the
USDC over two lending markets, Jupiter Lend and Kamino Lend, with a TypeScript
function, `invokeRebalance`, that a worker bot is meant to call again and again (README.md
line 16).  The function is in the repository, the bot is not yet: README.md 24 and 94 list
it as future work, so when and how often the function runs is an assumption here.
The program keeps books of what it has; the bot reads the books and the token
accounts, computes new books on the client and writes them back.

| component | state | operations | status |
|---|---|---|---|
| Vault (`state/vault.rs`, `initialize_vault.rs`) | shares issued, reward accumulator, total underlying, per-market balances and recorded values, target split | initialise | modelled: `VaultProgram` |
| User position (`state/user_position.rs`, `deposit.rs`) | vault, shares, reward checkpoint, credited rewards | deposit | modelled: `VaultProgram`, `VaultAudit` |
| Withdrawal (`withdraw.rs`, `jup_states.rs`, `kamino_states.rs`) | reads prices out of the markets' accounts | withdraw | modelled: `VaultProgram`, `VaultSolvency`, `Custody` |
| Lending instructions (`jup_deposit.rs`, `jup_withdraw.rs`, `kamino_deposit.rs`, `kamino_withdraw.rs`) | the vault's token accounts | four transfers, signed by the admin | modelled: `VaultProgram` |
| `sync_vault_state.rs` | overwrites the books | sync | modelled: `VaultProgram` |
| Integer arithmetic | u64 fields, u128 intermediates, `as u64`, checked and saturating operations, BN on the client | | modelled: `FixedWidth` |
| Policy (`client_utility/helper-fns.ts` 135-174, `constants.ts`) | the distribution chart | `getThresholdAmount` | modelled: `Threshold` |
| Rebalancer (`client_utility/invokeRebalance.ts`, `instructionCalls/*.ts`) | local variables of each invocation | first-time allocation, measuring, rebalancing, lazy balancing | modelled: `Rebalancer` |
| Lending markets | price of a market token, tokens minted | deposit, redeem, interest | external, in `VaultProgram` |
| Client withdrawal (`client_utility/invokeClientWithdraw.ts`) | local variables | redeem from both markets, sync; the file ends without paying | modelled as far as it is written: `ClientWithdraw` |
| `deposit_old.rs` | | | not compiled (`instructions/mod.rs` does not name it) |
| account resolution, deployment, IDLs, test helpers | | | not modelled: no state of the running system |

**Interactions.**  Instructions call the markets (CPI) inside one transaction.  The
bot and the users share the Vault account and the vault's three token accounts,
with no lock and no version check.  The bot's decisions use a copy of the Vault
account fetched at the start of an invocation, balances read before each
transaction, and market prices fetched in between.

**What is hard.**

- *Interleaving.*  Between any two awaits of the bot a user may deposit or withdraw, a
  price may rise, another invocation or a client withdrawal may run; what the bot then
  writes was computed from the old state.
- *Crashes and failures between transactions.*  An invocation is up to five
  transactions.  Each is atomic; the invocation is not, and nothing records how far
  it came.
- *Numbers.*  Truncating casts, rounding in the market's favour, saturation at
  zero, the 50 units `jupDeposit` holds back (a smaller amount becomes negative, and
  its sign is lost when it is encoded), division by a recorded value of zero.
- *Books against reality.*  Deposit and withdraw keep `total_underlying`, the lending
  instructions never touch it, and sync replaces it.

**What makes each component correct.**  Vault and positions: minting does not dilute,
shares add up, rewards are not lost, the checkpoint covers the shares.  Withdrawal:
pays by shares, books yield only when there is some, leaves the vault solvent, and
takes from no other user or vault.  Client withdrawal: keeps the books that `withdraw`
would, redeems what it was asked for.
Policy: assigns the whole, favours the better market, and the more the further it leads.  Rebalancer: puts
idle funds to work, writes true books, moves everything only for real interest, and
stays able to run after failures.

## 2. The modules

```
FixedWidth <- VaultProgram (INSTANCE Custody)
VaultProgram <- VaultAudit    <- MCVault
             <- VaultSolvency (+ VaultAudit) <- MCSolvency
VaultAudit   <- VaultProgramProofs <- CustodyProofs
VaultSolvency + CustodyProofs <- SolvencyProofs
Threshold    <- MCThreshold
             <- ThresholdProofs (+ MCThreshold) <- MCThresholdProofs
VaultProgram + Threshold <- Rebalancer <- RebalancerClaims <- MCRebalancer
                            Rebalancer <- Recovery (+ MCRebalancer) <- MCRecovery
                            Rebalancer <- ClientWithdraw (+ MCRebalancer) <- MCClient
Rebalancer + VaultProgramProofs + ThresholdProofs <- RebalancerProofs
RebalancerProofs + CustodyProofs <- RebalancerFundsProofs
ClientWithdraw + RebalancerFundsProofs <- ClientProofs
```

- **FixedWidth**: `AsU64` (`as u64`), `SaturatingSub`, `BnDiv`, with `U64Max` as a
  constant.  u128 is unbounded: the program's u128 products (two u64 values, or a u64
  and 10^12) always fit.
- **VaultProgram**: all instructions.  A transaction is atomic, so an instruction is
  one action; `checked_add(..).unwrap()`, a division by zero, an insufficient balance
  and a refused market call are guards.  `Deposit` = `update_states` and the transfer
  (`deposit.rs` 51-117); `Withdraw` = `withdraw.rs` 177-339, with `Payout` for what it
  pays and `AfterWithdraw` for what it books; the lending instructions = `Supply` or
  `Redeem`; `SyncVaultState` takes any record of the constant `SyncArgs`.
  Keys, bumps, timestamps and account lists are left out.  One vault per admin, one
  position per user, as the seeds say.
- *Markets* (external): a token of market m is worth `price[m] / PriceScale` USDC;
  minting and redeeming round down; prices rise within `Prices`.  `MinMarketAmount`
  says whether a call for nothing is refused: src/ does not say, so passing runs use 0
  (more behaviours) and counterexamples are found with 1 (no behaviour that a market
  might refuse).
- *Kamino's reserve*: the local `Reserve` struct (`kamino_states.rs`) leaves fields of
  the real account out, so `withdraw` decodes other bytes than it means to.  What it
  gets is a nondeterministic choice from `ReserveReadings`, not tied to the price.
- **Custody**: the abstract specification of who holds what.  Users have purses, vaults
  have a worth; a payment in or out concerns one user and one vault, a shift inside a
  vault only loses, at most `Loss`, and interest only adds.  `VaultProgram` implements it
  (`Promise`) with purse = `wallet`, worth = `Holdings` (idle USDC and what the market
  tokens would redeem for) and `Loss` = `MaxLoss`.  Nothing of the books appears in it:
  it is what the token transfers must satisfy whatever the books say.
- **VaultAudit**: the shares, held against issued, and the claims of the field
  documentation.  `Units` counts an amount unit by unit: the cardinality of a set takes the
  place of a sum over the users.
- **VaultSolvency**: `VaultProgram` without sync, with a history variable counting
  market calls, each of which may round `MaxLoss` away.
- **Threshold**: `getThresholdAmount` for any chart; `MCThreshold` walks the inputs.
- **Rebalancer**: `invokeRebalance`, run by each of the constant `Workers`, with a program
  counter and a record of local variables per worker, and one action per await.  `Start`
  fetches the vault; `ReadKamino` chooses the first-time branch; `Decide` measures and
  chooses between rebalancing and lazy balancing; each transaction is the action of
  `VaultProgram` it calls.  `Throw` ends an invocation whose transaction fails, whose
  arguments do not fit or whose division is by zero; `Interrupt` ends it anywhere (crash,
  lost connection, a market that refuses).  Nothing in the source keeps two invocations
  apart, so nothing in the model does.  The history variables `disturbed` (what others did
  during an invocation) and `basePrice` only serve properties.
- **Recovery**: the rebalancer with a history variable, `spoiled`: whether, since an
  invocation last recorded both values, one ended between supplying a market and recording
  it, or a recorded value fell to zero.
- **ClientWithdraw**: `invokeClientWithdraw` next to `Rebalancer`'s workers and users, one
  action per await: `Fetch`, `ReadJupRate`, `LoadKaminoMarket`, `CallJupWithdraw`,
  `CallKaminoWithdraw`, `CallSync`, `Return`, and `Fail` anywhere.  A negative BN is
  encoded as its magnitude (`Abs`).  Jup's SDK (`getLendingTokenDetails`) is external.
  The history variables `meddled` (what others did since the reading), `moves` (roundings)
  and `overstated` only serve properties.
- **RebalancerClaims**: what the field documentation says of the books the bot writes.
- **VaultProgramProofs, CustodyProofs, SolvencyProofs, ThresholdProofs,
  MCThresholdProofs, RebalancerProofs, RebalancerFundsProofs, ClientProofs**: the theorems, section 4.

Operators commented "Faulty variant" are versions of their neighbour with a plausible
mistake in it; no specification uses them.  Each property is known to fail when the
variant named for it in `PROJECT.json` ("mutants") takes its neighbour's place.

## 3. The runs

| run | instance | properties | shows |
|---|---|---|---|
| vault_sync | 1 vault, 1 user, amounts 1 and 3, u64 = 0..7, two sets of books to write | TypeOK, NoDilution, RewardsNeverLost | casts, overflow guards, the zero cases of minting and all mixes of old shares and new underlying are reached |
| vault_solvency | 2 vaults, 1 user, amounts 3 and 7, two prices, 4 market calls per vault | Solvent, ShareBacking | the books are covered by what can be redeemed, up to one `MaxLoss` per call; positions hold exactly the shares issued |
| threshold | real chart, growths -9 % to +9 % against three of Kamino's | BetterMarketGetsMore, ShareFollowsGrowth | every threshold on both sides, one hundredth of a percent at a time, and every pair of decisions to move |
| rebalance | 1 fair worker, deposits of 20000, prices +3.33 % and +9.57 %, 3 invocations, 1 cut short | FavoursAGrowingMarket, LittleLeftIdle, BooksPutRight, WithdrawableAfterRebalance, FundsGetDeployed | first-time, lazy and full rebalancing in every order, with deposits, interest and a crash at any await; idle funds are put to work, and withdraw can pay from where they are put |
| recovery | 2 workers, amounts of 4000, withdrawals, price +9 %, 2 invocations, 1 cut short | MeasurableUnlessSpoiled | every interleaving of two invocations with deposits, withdrawals and interest: what may leave a vault on which every invocation divides by zero, and that nothing else does |
| overlap | 2 workers, deposits of 10000, prices +3 % and +9 %, 2 invocations, 1 cut short | AllocationsMakeAWhole, OverlapErrsLow | every interleaving of two invocations: the split stays whole and the books written err on the low side |
| client | 2 client withdrawals that may fail anywhere, 1 invocation of a worker, deposits and withdrawals of 4000, price +9 % | BooksStayCovered, ClientBooksLikeProgram, PayoutFunded | which interleavings leave books that claim too much, and which cannot; the client keeps the program's books and redeems what it was asked for |

and `vault_solvency` also checks FundsInCustody, the refinement of `Custody`.

**Bounds.**  The vault runs shrink the widths so that overflow happens: with u64 = 0..7
two deposits of 3 and a sync reach every guard.  A withdrawal from both markets needs two
supplies before it, so four calls per vault are the least that let books and markets
diverge, and amounts 3 and 7 do not divide by the rates.  The rebalancer runs keep the
code's own dust (50), allocation scale and chart; amounts are thousands of units and the
prices reach the thresholds (growths of 300 and more, and their difference, against 200),
so no rebalancing, one toward either market and one after the other are all reached; in
`rebalance` they are no multiples of `TokenUnit`, so that `withdraw.rs` 268 cuts decimals
off.  Three
invocations are needed for first-time, lazy and rebalancing in a row, or for one that
is cut short and two that meet what it left.  `overlap`, `recovery` and `client` start either with an
unopened vault or with the state after one deposit and its first-time allocation, a dozen
steps later (`AllocatedInit`), so that two invocations are both the overlapping ones.
The two workers of `overlap` and `recovery` are symmetric; they check no liveness.  In
`recovery` all the money there is fits one deposit, which comes back by a withdrawal and may
be deposited again; of its two invocations one may spoil what the other then measures.  `client` allows
two withdrawals, the second of which may be the retry of one that threw, and twice the
amount in the wallet, so that deposits and withdrawals fall between its awaits.
`U64Max` is below 2^31 because TLC's integers are 32 bits wide; the scales of the
accumulator are reduced for the same reason.

**Fairness.**  `FairSpec` asks, of each worker, that an invocation that runs goes on (each
await resolves: `Throw` and the transactions exclude each other, so one of them is always
enabled) and that invocations keep being started.  The first is what `await` does.  The
second is an assumption about a component still to be written: README.md 16 says what the
worker bot is for, 24 and 94 that it is to come.  `FundsGetDeployed` says what the function
achieves if a bot does call it.  Users and prices are not fair.  `FundsGetDeployed` asks for
deployment by one of the next two invocations the instance still allows, since a deposit
that falls into an invocation may cost one more; one cut short may leave a vault that
cannot be measured, so it asks nothing after an interrupt.

### Disagreements with the documentation

Five runs check what the source says against what the code does and find it violated.  A
property that puts several sentences about one thing together is listed with all that it
finds; TLC stops at the shortest counterexample, and the others are in the same instance
(each was seen by itself, by checking one conjunct at a time).

| run, property | sentence | what happens |
|---|---|---|
| vault_checkpoint, DepositSettlesRewards | `user_position.rs` 24-27: reward_debt equals shares * acc_per_share | computed before the new shares are added, so a second deposit after yield earns all of the past |
| | `user_position.rs` 31: when the user deposits again, pending rewards are added first | cast to u64 before the checked addition (`deposit.rs` 70), so high bits are lost without an error: in the counterexample 2 of 18 units are credited.  At 64 bits 19 USDC of shares in a vault once withdrawn in full are enough |
| vault_payout, WithdrawalTakesShareOnly | `user_position.rs` 21: shares determine what a user gets back | `withdraw` reads no position and burns no shares: a user is paid what another paid in |
| | `vault.rs` 21: accumulated yield per share | the same step adds the amount withdrawn to it, although no market paid interest (`withdraw.rs` 291); the client does likewise, as `ClientBooksLikeProgram` shows |
| worker_books, BooksAreHoldings | `vault.rs` 25-26: total underlying value, the unallocated USDC included | found: lazy balancing adds funds that deposit has already counted.  Also: a deposit that lands during a lazy balancing, or during a rebalancing, is erased by the sync |
| rebalance_yield, AccIsYield | `vault.rs` 21: accumulated yield per share | found: what was idle before a rebalancing, deposits not yet spread, is in the redeemed balance and not in the value it is compared with, so principal is booked as yield.  Also, further on: after an invocation cut short with everything redeemed the first-time branch zeroes it |
| measured, MeasuresInterest | `vault.rs` 38: the recorded value is used to measure performance | found: after a first-time allocation cut short between a deposit and the sync, later invocations divide by zero (`invokeRebalance.ts` 129, 146).  Also, with nothing cut short: a withdrawal of everything recorded, after interest, leaves tokens in the markets and recorded values of zero (`withdraw.rs` 328) |
| | `invokeRebalance.ts` 90-91: rebalance if an increase exceeds some percentage, or else chill | also: with deposits of 4000 units the 50 held back pass for a loss of 2.5 % of Jup's half and everything is moved (the check of the size that line 119 asks for is missing); and after a lazy balancing cut short before its sync the deposit passes for growth (seen by itself with deposits of 20000, where the dust does not matter) |

Further observations, each visible in the models but without a sentence precise enough to
be checked, or behind the condition of a passing property:

- `FavoursAGrowingMarket` needs its condition, and vaults well above the dust:
  `measured` shows what happens otherwise.
- `MeasurableUnlessSpoiled` names what `measured` finds divided by zero and adds that there
  is nothing else, for the amounts of its run.  Two first-time allocations that overlap are
  a case of the first kind: each supplies Jup, neither finds enough left for Kamino, and
  both throw.
- `withdraw` takes each market's target share and nothing of what is idle, so after any
  allocation the last 50 units, over Jup's share, cannot be withdrawn; nor can what the
  unit that Kamino rounds away is a share of, nor one unit per whole token, since a price
  cut down to whole rates (`withdraw.rs` 268) asks for more tokens than the position has.
  `WithdrawableAfterRebalance` names these three and the proof shows that there are no more.
- The client's withdrawal redeems, writes the books and returns without paying
  (`invokeClientWithdraw.ts` 159).  What it redeemed is idle and deducted from the books;
  the next lazy balancing supplies and books it again.  It may throw after its three
  transactions (lines 156, 158), and whoever retries redeems and deducts once more.
- `BooksStayCovered` needs its conditions: books computed before a withdrawal and written
  after it claim what is no longer there, whoever writes them.  So may the client's own
  sync when it withdraws more than the books claim: the difference is negative and sent
  as its magnitude (`invokeClientWithdraw.ts` 96, 126).  Alone that is still covered, since
  the amount was redeemed and is idle; but a worker that supplies one market with what was
  just redeemed from the other lets the same USDC be redeemed a second time, and then the
  magnitude exceeds what is there.  The proof of `BooksAreCovered` cannot be carried
  through without this third condition.
- The interest that triggers a rebalancing is not credited: the yield is measured against
  a value read moments before (`invokeRebalance.ts` 265-267).
- The accumulator has three scales: 10^12 in `withdraw.rs` 286, 10^3 in
  `invokeRebalance.ts` 260-282, none in `deposit.rs` 66-76.
- A user's deposit into a second vault is added to the position that names the first
  (`deposit.rs` 21, 58).

## 4. The proofs

**The program** (`VaultProgramProofs`), for any sets of admins and users, any `U64Max`,
any prices, any readings of the reserve and any arguments to sync that fit their fields:

- `TypeCorrect`: `Spec => []TypeOK`.  `TypeOK` is inductive by itself.  One lemma per
  instruction; under them, lemmas on the arithmetic (a quotient of naturals is a natural
  and rounds down, a cast lands in u64 and never grows) and on the helpers (`ShareOf`,
  `TokensFor`, `AfterWithdraw`, `Checkpointed`).
- `DepositorsAreNotDiluted`: `Spec => NoDilution`.  Only `Deposit` issues shares; there
  minted * underlying <= amount * shares, because the quotient rounds down and the cast
  only lowers it, and if underlying is zero both sides are.
- `EmptyPositionsHoldNoRewards` and `RewardsAreKept`: `Spec => RewardsNeverLost`.
  `RewardsNeverLost` does not follow from types: a deposit into a position without shares
  zeroes its rewards.  The strengthening is `NoSharesNoRewards`: shares never fall, and a
  position is only ever credited while it has some.
- `SharesAreBacked`: `Spec => []ShareBacking`.  The invariant `Backed` adds that both sets
  of units are finite and that a vault that was never opened has issued nothing (otherwise
  opening it would lose shares).  `UnitsAdded` replaces induction over the users: raising
  one amount by n adds a disjoint set of n units.  Every step keeps all shares
  (`SharesKept`) or adds the same number on both sides (`SharesMinted`).

What the last three need of a step is only that it is a deposit or leaves all shares and
positions alone (`OnlyDepositsMint`); `SharesStayInv` concludes the rest, `SharesInv` and
`UsersSpared`, for any system whose steps do that.

**Custody** (`CustodyProofs`), in the same generality:

- `ProgramKeepsCustody`: `Spec => FundsInCustody`, the step simulation of `Custody`.  One
  lemma per instruction says what it does to `Holdings`: a supply loses what minting
  rounds away, two redemptions together lose less than two units, a deposit adds its
  amount exactly, a price that rises lowers nothing, and books alone change nothing.  One
  rounding loses at most `MaxLoss` because prices stay in `Prices` (`PricesStayInBounds`, a
  lemma about the markets as they are modelled).

**Solvency** (`SolvencyProofs`):

- `SolvencyKeepsCustody`: the specification with counted market calls refines `Custody`
  too, because it refines the program.
- `VaultsStaySolvent`: `SolvencySpec => []Solvent`.  `Solvent` is inductive with `TypeOK`,
  `PricesBounded` and `MovesCounted`: a withdrawal takes as much off the books as off the
  holdings, and where `saturating_sub` stops at zero nothing is left to be covered.
- `SharesAreBackedWhenCounted`: `SolvencySpec => []ShareBacking`, which the run checks.

**The policy** (`ThresholdProofs`, `MCThresholdProofs`), for every chart that
`ChartAssumption` admits (finitely or infinitely many positive thresholds, each with a
split of the whole that favours the first) and every range of growths:

- `PolicyFavoursTheBetter`: `MCSpec => []BetterMarketGetsMore`.  The scan picks the greatest
  threshold reached; it exists because those reached are bounded by the gap
  (`GreatestExists`, by well-foundedness of the naturals).
- `PolicyFollowsGrowth`: `MCSpec => []ShareFollowsGrowth` for charts whose shares rise with
  their thresholds (`ChartRises`).  Without that it is false, so it is a hypothesis of
  the theorem and not of the module; `constants.ts` has such a chart.  It compares decisions
  to move all funds: both lie beyond a threshold, on the same side or on either, and the
  one with the greater lead selects no smaller a share (`DecidedShareRises`).  Where the
  policy decides not to move, `invokeRebalance.ts` 325-326 keeps the recorded split, which may
  be more uneven than the next decision's, so there is nothing to compare.

**The rebalancer** (`RebalancerProofs`), for any number of workers that overlap in any
way and are cut short anywhere, any users and any admissible chart:

- `RebalancedAccountsFit`: `RebSpec => []RebInv`.  `RebInv` is `TypeOK`, the types of the
  workers' variables, and `SplitsMakeAWhole`.
- `BooksHoldAWholeSplit`: `RebSpec => []AllocationsMakeAWhole`.  That the recorded targets
  add up is not inductive: a worker writes what it remembers from awaits ago.
  `SplitsMakeAWhole` adds that each snapshot a worker holds, and the split it works with
  at every await from which a sync can be reached, add up too.  `Encodable` keeps the
  accounts in their widths: what does not fit a field is not sent.

**The composition** (`RebalancerFundsProofs`, `ClientProofs`), for any number of workers:

- `BotKeepsCustody`: `RebSpec => FundsInCustody`.  Whatever an await does to the chain is a
  lending instruction for some natural amount, a sync, or nothing (`WhatAwaitsDo`); the
  lemmas of `CustodyProofs` do the rest.
- `WorkersKnowTheFunds`: `RebSpec => []FundsInv`, the inductive invariant of the next two.
  Neither is inductive: each is reached by a dozen awaits that rely on one another.
  `Knowledge` says, await by await, what an undisturbed worker knows: that the positions
  it read are the vault's (`KnowsPositions`), that its total is what the vault holds but
  for the calls made since (`KnowsTotal`), and how its reading of the idle USDC relates to
  what is idle after what it has spent (`KnowsIdle`).  Steps of others either note
  themselves in `disturbed` or touch nothing of this (`BystanderKeepsKnowledge`).
- `BooksArePutRight`: `RebSpec => []BooksPutRight`.  After redeeming everything the vault's
  USDC is all it holds; the two deposits that follow lose `MaxLoss` each at most.
- `LittleStaysIdle`: `RebSpec => []LittleLeftIdle`.  The two parts of a split of the whole
  leave one unit at most, and a part below the dust is sent as its magnitude, so what it
  leaves is no more than the dust either.
- `BotSparesTheUsers`: `RebSpec => []ShareBacking /\ NoDilution /\ RewardsNeverLost`.  The bot
  overwrites everything in a vault's account but the shares, total underlying and
  accumulator included, so this does not follow from `Spec`, which writes the arguments in
  `SyncArgs` only.  By `WhatAwaitsDo` every await satisfies `OnlyDepositsMint`.
- `RebalancedCanBeWithdrawn`: `RebSpec => []WithdrawableAfterRebalance`, where the dust exceeds
  what four market calls may round away (`JupDust > 4 * MaxLoss`; the code has 50 against 8
  as long as a market token is worth less than two USDC).  `SpreadInv` adds to `FundsInv`
  what each market got: from the two deposits to the sync, and after it as long as nobody
  disturbs anything, each position is exactly what the amount sent to that market buys
  (`Spread`, `SpreadKnown`), and prices never fall below par (`PricesRisen`).  The position
  must have been empty before, which is what `KnowsPositions` says after the redemptions.  The
  rest is arithmetic.  The two redemptions: tokens of that worth pay the share of any amount
  so far below the total (`ShareIsCovered`, `SpreadPays`).  The transfer: what is redeemed
  for a share is short of it by `MaxLoss` at most (`AskedBrings`), and the dust that is still
  idle makes up for both (`DustStaysIdle`, `PayoutIsCovered`).
- `OverlapsErrLow`: `RebSpec => OverlapErrsLow`, for any number of workers.  A remembered
  total exceeds what the vault holds only by what market calls of anybody have rounded
  away since.  Calls are bounded by four for each invocation started less those still
  outstanding (`CallsCounted`), counted as cardinalities of sets of workers by what lies
  ahead of their await; a call moves one worker out of one such set (`OneMoves`).
- `ClientKeepsInvariant`: `ClientSpec => []ClientInv`.  `ClientInv` is `RebInv`, the types of
  the client's variables, and `ReadingHolds`: while the history notes nothing but prices
  since the client read the vault, what it read is what the account holds.
- `ClientKeepsTheSplit`, `ClientKeepsCustody`: `AllocationsMakeAWhole` and `FundsInCustody`
  of the whole composition.
- `ClientSparesTheUsers`: `ShareBacking`, `NoDilution` and `RewardsNeverLost` of the whole
  composition: the client's transactions too only lend and write books.
- `ClientBooksAgree`: `ClientSpec => ClientBooksLikeProgram`.  By `ReadingHolds` both compute
  from the same account; within the books, magnitude, saturation and exact difference
  are one, and what the client manages to encode is what the casts of `withdraw` keep.
- `PayoutIsFunded`: `ClientSpec => []PayoutFunded`.  The invariant `PaymentInv` follows the
  amount through the awaits: the tokens computed at a rate bring no more than their share
  of it and no less than the rounding of that rate allows, prices that rise in between
  only help, and what has been redeemed so far is the difference between what is idle and
  what was.  The rate of Jup's SDK carries `TokenUnit` decimals, so cutting it down loses
  up to one `MaxLoss` per `TokenUnit` of the amount: this is what `RateRoundings` counts.
- `BooksAreCovered`: `ClientSpec => []BooksStayCovered`.  Covered books are not inductive,
  since the client and the workers write what they computed from old readings.  `CoverInv`
  adds that the client's reading (`ReadingCovered`) and every total a worker will write
  (`Remembers`) are covered too, unless there was a withdrawal since.  When the sign of
  the new total is lost, the amount redeemed covers it; this uses `PaymentInv`.

The proofs rest on the named assumptions of the modules (`U64MaxAssumption`,
`VaultConstantsAssumption`, `MaxMovesAssumption`, `ChartAssumption`, `GrowthsAssumption`,
`RebalancerAssumption`: widths and signs of the constants, `NoVault` not an admin), which
TLC evaluates in the runs.

**Only model-checked.**

- `FavoursAGrowingMarket` needs amounts far above the dust (`measured` shows why), as a general
  theorem would have to assume of every amount a user can pass.
- `MeasurableUnlessSpoiled` needs every part of an amount to be more than nothing, which a
  chart that gives a market nothing, or a deposit of a unit, does not grant.
- `FundsGetDeployed` is liveness under fairness, which this prover does not do.
- The claims that are violated have nothing to prove.

## 5. Not modelled

- `deposit_old.rs`: not compiled (`instructions/mod.rs` does not name it), and it names
  types that do not exist.
- `generate-kamino-accounts.ts`, keys, bumps, account lists and address derivation: no
  state; every instruction of the model is given the right accounts.
- The tests' helpers, deployment scripts and IDLs: nothing of the running system.
- The markets beyond price, rounding and refusal: losses, borrowing and a market that
  stays out of liquidity.  Nothing in src/ says when a market refuses.

## 6. Plan

1. `VaultProgram`, `VaultAudit`, `VaultSolvency`, `Threshold`, `Rebalancer`, `Custody`,
   `ClientWithdraw`, two overlapping workers: done, as above.
2. Theorems on the funds of the rebalancer and of the client withdrawal, and on the
   shares: done, as in section 4.
3. Open: conditions on amounts and prices, as weak as the code allows, under which
   `FavoursAGrowingMarket` and `MeasurableUnlessSpoiled` hold for every instance.
