--------------------------- MODULE ClientWithdraw ---------------------------
(***************************************************************************)
(* invokeClientWithdraw: the client-side withdrawal, as far as it is       *)
(* written.  It reads the Vault account once, redeems the amount from both *)
(* markets in two transactions, writes the books it computed from its      *)
(* reading in a third, and returns without having paid the user.  Nothing  *)
(* keeps it from running while the rebalancer does: between its awaits go  *)
(* on the users' transactions, interest and the workers of Rebalancer.     *)
(*                                                                         *)
(* A BN below zero is sent as its magnitude; one that does not fit u64, a  *)
(* failing transaction, a missing account and a division by zero throw.    *)
(***************************************************************************)
EXTENDS Rebalancer

CONSTANT MaxRequests     \* bound on the number of invocations

ASSUME MaxRequestsAssumption == MaxRequests \in Nat

VARIABLES
    step,       \* the await the invocation is at, "none" between invocations
    call,       \* its arguments and local variables
    outcome,    \* how the last invocation ended
    requests,   \* invocations so far
    meddled,    \* history: what others did since the Vault account was read
    moves,      \* history: market calls made and rates applied, which may round
    overstated  \* history: the books may claim too much, see BooksStayCovered

client == <<step, call, outcome, requests>>
audit == <<moves, overstated>>
clientVars == <<rebVars, client, meddled, audit>>

NoCall ==
    [user |-> NoVault, amount |-> 0, seen |-> NewVault, idleBefore |-> 0,
     jupTokens |-> 0, kaminoTokens |-> 0]

ClientInit ==
    /\ RebInit
    /\ step = "none" /\ outcome = "none" /\ requests = 0
    /\ call = NoCall
    /\ meddled = {}
    /\ moves = 0 /\ overstated = FALSE

-----------------------------------------------------------------------------
(* The amounts.                                                            *)

JupUsdc == (call.amount * call.seen.jup_allocation) \div AllocationScale

KaminoUsdc == (call.amount * call.seen.kamino_allocation) \div AllocationScale

\* Jup's SDK gives the tokens per USDC with the decimals of a token.
ConvertToShares == (TokenUnit * PriceScale) \div price["jup"]

\* Faulty variant: the USDC a number of tokens is worth, not the tokens.
UsdcToJupTokensInverted(usdc) == RedeemedFor("jup", usdc)

UsdcToJupTokens(usdc) == (usdc * ConvertToShares) \div TokenUnit

-----------------------------------------------------------------------------
(* The books, computed from the reading of the Vault account.              *)

NewAcc ==
    IF call.amount > 0 /\ call.seen.total_shares > 0
    THEN call.seen.acc_per_share
           + (call.amount * AccScaler) \div call.seen.total_shares
    ELSE call.seen.acc_per_share

\* Faulty variant: the recorded values are left as they were.
ClientBooksOldValues ==
    [new_jup_allocation    |-> call.seen.jup_allocation,
     new_kamino_allocation |-> call.seen.kamino_allocation,
     new_jup_lend_balance  |-> Abs(call.seen.jup_lend_balance - JupUsdc),
     new_kamino_balance    |-> Abs(call.seen.kamino_balance - KaminoUsdc),
     new_acc_per_share     |-> NewAcc,
     new_total_underlying  |-> Abs(call.seen.total_underlying - call.amount),
     new_jup_value         |-> call.seen.last_jup_value,
     new_kamino_value      |-> call.seen.last_kamino_value]

\* Faulty variant: the amount is added to the total.
ClientBooksAdded ==
    [new_jup_allocation    |-> call.seen.jup_allocation,
     new_kamino_allocation |-> call.seen.kamino_allocation,
     new_jup_lend_balance  |-> Abs(call.seen.jup_lend_balance - JupUsdc),
     new_kamino_balance    |-> Abs(call.seen.kamino_balance - KaminoUsdc),
     new_acc_per_share     |-> NewAcc,
     new_total_underlying  |-> call.seen.total_underlying + call.amount,
     new_jup_value         |-> Abs(call.seen.last_jup_value - JupUsdc),
     new_kamino_value      |-> Abs(call.seen.last_kamino_value - KaminoUsdc)]

ClientBooks ==
    [new_jup_allocation    |-> call.seen.jup_allocation,
     new_kamino_allocation |-> call.seen.kamino_allocation,
     new_jup_lend_balance  |-> Abs(call.seen.jup_lend_balance - JupUsdc),
     new_kamino_balance    |-> Abs(call.seen.kamino_balance - KaminoUsdc),
     new_acc_per_share     |-> NewAcc,
     new_total_underlying  |-> Abs(call.seen.total_underlying - call.amount),
     new_jup_value         |-> Abs(call.seen.last_jup_value - JupUsdc),
     new_kamino_value      |-> Abs(call.seen.last_kamino_value - KaminoUsdc)]

FitU64(books) ==
    /\ books.new_jup_lend_balance \in U64 /\ books.new_kamino_balance \in U64
    /\ books.new_acc_per_share \in U64 /\ books.new_total_underlying \in U64
    /\ books.new_jup_value \in U64 /\ books.new_kamino_value \in U64

-----------------------------------------------------------------------------
(* The invocation, await by await.                                         *)

Goes(here, next) ==
    /\ step = here
    /\ step' = next
    /\ UNCHANGED <<requests, meddled, bot, basePrice>>

Fetch(u, amount) ==
    /\ step = "none"
    /\ requests < MaxRequests
    /\ Operator \in opened
    /\ step' = "jup_rate"
    /\ call' = [user |-> u, amount |-> amount, seen |-> vault[Operator],
                idleBefore |-> idle[Operator], jupTokens |-> 0, kaminoTokens |-> 0]
    /\ outcome' = "running"
    /\ requests' = requests + 1
    /\ meddled' = {}
    /\ UNCHANGED <<rebVars, audit>>

ReadJupRate ==
    /\ Goes("jup_rate", "kamino_rate")
    /\ call' = [call EXCEPT !.jupTokens = UsdcToJupTokens(JupUsdc)]
    /\ UNCHANGED <<vars, outcome, disturbed, audit>>

LoadKaminoMarket ==
    /\ Goes("kamino_rate", "jup_withdraw")
    /\ call' = [call EXCEPT !.kaminoTokens = MintedFor("kamino", KaminoUsdc)]
    /\ UNCHANGED <<vars, outcome, disturbed, audit>>

CallJupWithdraw ==
    /\ Goes("jup_withdraw", "kamino_withdraw")
    /\ JupWithdraw(Operator, call.jupTokens)
    /\ Disturb(Workers, "client")
    /\ moves' = moves + 1
    /\ UNCHANGED <<call, outcome, overstated>>

CallKaminoWithdraw ==
    /\ Goes("kamino_withdraw", "sync")
    /\ KaminoWithdraw(Operator, call.kaminoTokens)
    /\ Disturb(Workers, "client")
    /\ moves' = moves + 1
    /\ UNCHANGED <<call, outcome, overstated>>

\* More is withdrawn than the books claim: the total is sent with its sign lost.
SignLost == call.amount > call.seen.total_underlying

\* Roundings between the amount and what was redeemed for it, at the rates read.
RateRoundings == call.amount \div TokenUnit + 5

CallSync ==
    /\ Goes("sync", "fetch_position")
    /\ FitU64(ClientBooks)
    /\ SyncVaultState(Operator, ClientBooks)
    /\ Disturb(Workers, "client")
    /\ overstated' = ( \/ overstated \/ "withdrawal" \in meddled
                       \/ SignLost /\ "worker" \in meddled )
    /\ moves' = moves + (IF SignLost THEN RateRoundings ELSE 0)
    /\ UNCHANGED <<call, outcome>>

\* The shares to burn are computed, and nothing is done with them.
Return ==
    /\ Goes("fetch_position", "none")
    /\ position[call.user].vault # NoVault
    /\ call.seen.total_underlying # 0
    /\ outcome' = "returned"
    /\ UNCHANGED <<vars, call, disturbed, audit>>

CannotGoOn ==
    \/ step = "jup_withdraw" /\ ~CanRedeem("jup", Operator, call.jupTokens)
    \/ step = "kamino_withdraw" /\ ~CanRedeem("kamino", Operator, call.kaminoTokens)
    \/ step = "sync" /\ ~FitU64(ClientBooks)
    \/ step = "fetch_position" /\ \/ position[call.user].vault = NoVault
                                  \/ call.seen.total_underlying = 0

\* It throws, or the process dies: what it has done on chain stays done.
Fail ==
    /\ step # "none"
    /\ step' = "none"
    /\ outcome' = IF CannotGoOn THEN "threw" ELSE "died"
    /\ UNCHANGED <<rebVars, call, requests, meddled, audit>>

ClientStep ==
    \/ \E u \in Users, amount \in Amounts : Fetch(u, amount)
    \/ ReadJupRate \/ LoadKaminoMarket
    \/ CallJupWithdraw \/ CallKaminoWithdraw \/ CallSync
    \/ Return \/ Fail

-----------------------------------------------------------------------------
(* The others, and what the history notes of their steps.                  *)

\* Lazy balancing, and books written over a withdrawal, may claim too much.
Overstates(w) ==
    \/ pc[w] = "lazy_sync"
    \/ pc[w] \in {"first_sync", "reb_sync"} /\ "withdrawal" \in disturbed[w]

Meddle(what) == meddled' = meddled \cup {what} /\ UNCHANGED client

OthersStep ==
    \/ OpenVault /\ UNCHANGED <<client, meddled, audit>>
    \/ /\ UserStep
       /\ Meddle(IF wallet' = wallet \/ \E u \in Users : wallet'[u] < wallet[u]
                 THEN "deposit" ELSE "withdrawal")
       /\ moves' = moves + (IF tokens' = tokens THEN 0 ELSE 2)
       /\ UNCHANGED overstated
    \/ MarketStep /\ Meddle("price") /\ UNCHANGED audit
    \/ /\ WorkerStep
       /\ IF UNCHANGED vars THEN UNCHANGED <<client, meddled>> ELSE Meddle("worker")
       /\ moves' = moves + (IF tokens' = tokens /\ idle' = idle THEN 0 ELSE 1)
       /\ overstated' = (overstated \/ ( /\ vault' # vault
                                        /\ \E w \in Workers :
                                              pc'[w] # pc[w] /\ Overstates(w) ))

ClientNext == ClientStep \/ OthersStep

ClientSpec == ClientInit /\ [][ClientNext]_clientVars

-----------------------------------------------------------------------------
(***************************************************************************)
(* The books err on the low side: however client withdrawals, deposits,    *)
(* interest and rebalancing interleave, end halfway or are repeated, the   *)
(* vault covers what its books claim, even where a withdrawal of more than *)
(* they claimed lost its sign (invokeClientWithdraw.ts:94-134).  Three     *)
(* things break this: lazy balancing, which counts deposits twice; books   *)
(* written over a withdrawal that came after the reading behind them; and  *)
(* such a sign lost while a worker supplies one market with what was just  *)
(* redeemed from the other, for then it may be redeemed, and count, twice. *)
(***************************************************************************)
BooksStayCovered ==
    ~overstated =>
        vault[Operator].total_underlying <= Holdings(Operator) + MaxLoss * moves

(***************************************************************************)
(* The client and the program keep the same books of a withdrawal: unless  *)
(* the books changed in between, and as long as the amount is within what  *)
(* is recorded, the sync of invokeClientWithdraw.ts:119-134 leaves the     *)
(* vault exactly as withdraw.rs:283-333 would.                             *)
(***************************************************************************)
WithinBooks(v) ==
    /\ call.amount <= v.total_underlying
    /\ JupUsdc <= v.jup_lend_balance /\ JupUsdc <= v.last_jup_value
    /\ KaminoUsdc <= v.kamino_balance /\ KaminoUsdc <= v.last_kamino_value

ClientBooksLikeProgram ==
    [][/\ step = "sync" /\ step' = "fetch_position"
       /\ meddled \subseteq {"price"}
       /\ WithinBooks(vault[Operator])
       => vault'[Operator] = AfterWithdraw(vault[Operator], call.amount)]_clientVars

(***************************************************************************)
(* When the client's withdrawal returns without anybody in between, the    *)
(* amount is there to be paid out, up to the rounding of the rates, and    *)
(* no more than it was redeemed (invokeClientWithdraw.ts:45-92).           *)
(***************************************************************************)
RateLoss == RateRoundings * MaxLoss

PayoutFunded ==
    outcome = "returned" /\ meddled = {} =>
        LET redeemed == idle[Operator] - call.idleBefore
        IN  redeemed <= call.amount /\ call.amount <= redeemed + RateLoss
=============================================================================
