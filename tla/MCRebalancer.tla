---------------------------- MODULE MCRebalancer ----------------------------
(***************************************************************************)
(* Small instances of the rebalancer.  The dust and the allocation scale   *)
(* are the code's own; amounts are thousands of units so that the dust is  *)
(* well below the first threshold, as it is for real deposits.             *)
(***************************************************************************)
EXTENDS RebalancerClaims, TLC

\* Workers differ in nothing; only safety is checked under this symmetry.
WorkerSymmetry == Permutations(Workers)

NoSync == {}

RealChart == [t \in {200, 400, 600} |->
                CASE t = 200 -> <<6000, 4000>>
                  [] t = 400 -> <<7000, 3000>>
                  [] t = 600 -> <<8000, 2000>>]

\* No reading: withdraw cannot go through.
NoReadings == {}

\* One reading at the market's initial price.
FairReading == { [available_amount |-> 100, mint_total_supply |-> 100] }

-----------------------------------------------------------------------------
(* The overlap of invocations, from the beginning and from the state that  *)
(* a user's first deposit and one undisturbed first-time allocation of it  *)
(* lead to: reachable, but a dozen steps away.                             *)

HalfOf(usdc) == Allocated(usdc, 5000)

AllocatedVault(stake) ==
    [NewVault EXCEPT !.total_shares = stake, !.total_underlying = stake,
                     !.jup_lend_balance = HalfOf(stake), !.kamino_balance = HalfOf(stake),
                     !.last_jup_value = HalfOf(stake), !.last_kamino_value = HalfOf(stake)]

AllocatedInit ==
    /\ opened = {Operator}
    /\ \E u \in Users, stake \in {s \in Amounts : HalfOf(s) > JupDust} :
          /\ vault = [a \in {Operator} |-> AllocatedVault(stake)]
          /\ position = [o \in Users |->
                           IF o = u
                           THEN [NewPosition EXCEPT !.vault = Operator, !.shares = stake]
                           ELSE NewPosition]
          /\ wallet = [o \in Users |->
                         IF o = u THEN InitialWallet - stake ELSE InitialWallet]
          /\ idle = [a \in {Operator} |-> JupDust + (stake % 2)]
          /\ tokens = ("jup" :> (Operator :> HalfOf(stake) - JupDust)
                         @@ "kamino" :> (Operator :> HalfOf(stake)))
    /\ price = [m \in Markets |-> PriceScale]
    /\ pc = [w \in Workers |-> "idle"]
    /\ local = [w \in Workers |-> NoLocals]
    /\ result = [w \in Workers |-> "none"]
    /\ runs = 0 /\ interrupts = 0
    /\ disturbed = [w \in Workers |-> {}]
    /\ basePrice = price

OverlapSpec == (RebInit \/ AllocatedInit) /\ [][RebNext]_rebVars
=============================================================================
