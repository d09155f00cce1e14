-------------------------- MODULE RebalancerProofs --------------------------
(***************************************************************************)
(* The rebalancer, for every number of workers, users and invocations.     *)
(*                                                                         *)
(* That the allocations in the books make a whole is not inductive: what a *)
(* worker writes is what it remembers.  The invariant adds that every      *)
(* snapshot of the vault a worker holds makes a whole too, and so does the *)
(* split it works with at every await from which it can reach a sync.      *)
(***************************************************************************)
EXTENDS Rebalancer, VaultProgramProofs, ThresholdProofs

Locals == [seen : Vault, usdc : U64, jup : U64, kamino : U64, oldJup : Nat,
           oldKamino : Nat, jupAllocation : U16, kaminoAllocation : U16]

\* The awaits at which a worker has chosen a split.
Allocating ==
    { "first_jup", "first_kamino", "first_sync",
      "reb_read_jup", "reb_read_kamino", "reb_jup_withdraw",
      "reb_kamino_withdraw", "reb_read_total", "reb_jup_deposit",
      "reb_kamino_deposit", "reb_sync",
      "lazy_read", "lazy_jup", "lazy_kamino", "lazy_sync" }

Awaits ==
    Allocating \cup
    { "idle", "read_usdc", "read_jup", "read_kamino", "reread_jup",
      "reread_kamino", "value_jup", "value_kamino", "lazy_fetch" }

BotTypeOK ==
    /\ pc \in [Workers -> Awaits]
    /\ local \in [Workers -> Locals]

\* A vault's two target allocations make a whole.
MakesAWhole(v) == v.jup_allocation + v.kamino_allocation = AllocationScale

\* A worker's memory l at await `at' is such that its books make a whole.
SoundMemory(l, at) ==
    /\ MakesAWhole(l.seen)
    /\ at \in Allocating => l.jupAllocation + l.kaminoAllocation = AllocationScale

SplitsMakeAWhole ==
    /\ \A a \in Admins : MakesAWhole(vault[a])
    /\ \A w \in Workers : SoundMemory(local[w], pc[w])

RebInv == TypeOK /\ BotTypeOK /\ SplitsMakeAWhole

-----------------------------------------------------------------------------
LEMMA NewVaultIsWhole == NewVault \in Vault /\ MakesAWhole(NewVault)
BY HalfFits, U64MaxAssumption DEF NewVault, Vault, U64, MakesAWhole, AllocationScale

LEMMA U16IsNat == U16 \subseteq Nat
BY HalfFits

\* Two parts of the whole fit the fields for allocations.
LEMMA WholeSplitFits ==
    ASSUME NEW x \in Nat, NEW y \in Nat, x + y = 10000
    PROVE  x \in U16 /\ y \in U16
<1>1. x <= 10000 /\ y <= 10000
    OBVIOUS
<1>2. x <= U16Max /\ y <= U16Max /\ U16Max \in Nat
    BY <1>1 DEF U16Max
<1> QED BY <1>2 DEF U16

LEMMA NoLocalsAreSound ==
    /\ NoLocals \in Locals
    /\ \A at : at \notin Allocating => SoundMemory(NoLocals, at)
<1>1. NoLocals.seen = NewVault
    BY DEF NoLocals
<1>2. NoLocals \in Locals
    BY NewVaultIsWhole, HalfFits, U64MaxAssumption DEF NoLocals, Locals, U64
<1> QED BY <1>1, <1>2, NewVaultIsWhole DEF SoundMemory

\* What an allocation takes of a u64 amount fits u64 when it is no more than
\* the whole.
LEMMA AllocatedIsNat ==
    ASSUME NEW usdc \in Nat, NEW allocation \in Nat
    PROVE  Allocated(usdc, allocation) \in Nat
<1>1. usdc * allocation \in Nat
    BY ProductOfNaturals
<1> QED BY <1>1, DivisionRoundsDown DEF Allocated, AllocationScale

LEMMA AllocatedFits ==
    ASSUME NEW usdc \in U64, NEW allocation \in Nat, allocation <= AllocationScale
    PROVE  Allocated(usdc, allocation) \in U64
<1> DEFINE part == Allocated(usdc, allocation)
<1>1. usdc \in Nat /\ usdc <= U64Max /\ U64Max \in Nat
    BY U64IsNat, U64MaxAssumption DEF U64
<1>2. usdc * allocation \in Nat /\ usdc * allocation <= usdc * AllocationScale
    <2>1. allocation * usdc <= AllocationScale * usdc /\ allocation * usdc \in Nat
        BY <1>1, ProductKeepsOrder, ProductOfNaturals DEF AllocationScale
    <2>2. allocation * usdc = usdc * allocation
        BY <1>1
    <2>3. AllocationScale * usdc = usdc * AllocationScale
        BY <1>1 DEF AllocationScale
    <2> QED BY <2>1, <2>2, <2>3
<1>3. part \in Nat /\ part * AllocationScale <= usdc * allocation
    BY <1>2, DivisionRoundsDown DEF Allocated, AllocationScale
<1> HIDE DEF part
<1>4. part * AllocationScale <= usdc * AllocationScale
    BY <1>1, <1>2, <1>3 DEF AllocationScale
<1>5. part <= usdc
    BY <1>1, <1>3, <1>4 DEF AllocationScale
<1> QED BY <1>1, <1>3, <1>5 DEF U64, part

-----------------------------------------------------------------------------
(* What an await may do to the invariant.                                  *)

\* The memory of the other workers is left alone.
LEMMA OthersKept ==
    ASSUME BotTypeOK, NEW w \in Workers, NEW at \in Awaits, NEW l \in Locals,
           pc' = [pc EXCEPT ![w] = at], local' = [local EXCEPT ![w] = l],
           \A v \in Workers : SoundMemory(local[v], pc[v]), SoundMemory(l, at)
    PROVE  BotTypeOK' /\ \A v \in Workers : SoundMemory(local'[v], pc'[v])
<1>1. BotTypeOK'
    BY DEF BotTypeOK
<1>2. ASSUME NEW v \in Workers
      PROVE  SoundMemory(local'[v], pc'[v])
    <2>1. CASE v = w
        <3>1. local'[v] = l /\ pc'[v] = at
            BY <2>1 DEF BotTypeOK
        <3> QED BY <3>1
    <2>2. CASE v # w
        <3>1. local'[v] = local[v] /\ pc'[v] = pc[v]
            BY <2>2 DEF BotTypeOK
        <3> QED BY <3>1
    <2> QED BY <2>1, <2>2
<1> QED BY <1>1, <1>2

LEMMA ReadKeepsInv ==
    ASSUME RebInv, NEW w \in Workers, NEW here, NEW next \in Awaits,
           NEW readings \in Locals, Read(w, here, next, readings),
           SoundMemory(readings, next)
    PROVE  RebInv'
<1>1. /\ pc' = [pc EXCEPT ![w] = next] /\ local' = [local EXCEPT ![w] = readings]
      /\ UNCHANGED vars
    BY DEF Read, Await
<1>2. BotTypeOK' /\ \A v \in Workers : SoundMemory(local'[v], pc'[v])
    BY <1>1, OthersKept DEF RebInv, SplitsMakeAWhole
<1>3. TypeOK' /\ UNCHANGED vault
    BY <1>1, NextTypeOK DEF RebInv, vars
<1> QED BY <1>2, <1>3 DEF RebInv, SplitsMakeAWhole

\* A lending instruction of the worker leaves the books and its memory alone.
LEMMA TransactKeepsInv ==
    ASSUME RebInv, NEW w \in Workers, NEW here \in Allocating, NEW next \in Awaits,
           Transact(w, here, next), NEW x \in Nat,
           \/ JupDeposit(Operator, x) \/ KaminoDeposit(Operator, x)
           \/ JupWithdraw(Operator, x) \/ KaminoWithdraw(Operator, x)
    PROVE  RebInv'
<1>1. /\ pc[w] = here /\ pc' = [pc EXCEPT ![w] = next] /\ local' = local
    BY DEF Transact, Await
<1>2. PICK m \in Markets : Supply(m, Operator, x) \/ Redeem(m, Operator, x)
    BY DEF JupDeposit, KaminoDeposit, JupWithdraw, KaminoWithdraw, Markets
<1>3. UNCHANGED <<accounts, wallet, price>>
    BY DEF JupDeposit, KaminoDeposit, JupWithdraw, KaminoWithdraw
<1>4. TypeOK'
    BY <1>2, <1>3, SupplyTypeOK, RedeemTypeOK, RebalancerAssumption DEF RebInv
<1>5. SoundMemory(local[w], next) /\ local[w] \in Locals
    BY <1>1 DEF RebInv, BotTypeOK, SplitsMakeAWhole, SoundMemory
<1>6. local' = [local EXCEPT ![w] = local[w]]
    BY <1>1 DEF RebInv, BotTypeOK
<1>7. BotTypeOK' /\ \A v \in Workers : SoundMemory(local'[v], pc'[v])
    BY <1>1, <1>5, <1>6, OthersKept DEF RebInv, SplitsMakeAWhole
<1>8. UNCHANGED vault
    BY <1>3 DEF accounts
<1> QED BY <1>4, <1>7, <1>8 DEF RebInv, SplitsMakeAWhole

\* An invocation that ends forgets everything.
LEMMA EndKeepsMemory ==
    ASSUME RebInv, NEW w \in Workers, NEW how, End(w, how)
    PROVE  BotTypeOK' /\ \A v \in Workers : SoundMemory(local'[v], pc'[v])
<1>1. SoundMemory(NoLocals, "idle") /\ NoLocals \in Locals /\ "idle" \in Awaits
    BY NoLocalsAreSound DEF Allocating, Awaits
<1>2. pc' = [pc EXCEPT ![w] = "idle"] /\ local' = [local EXCEPT ![w] = NoLocals]
    BY DEF End
<1>3. BotTypeOK /\ \A v \in Workers : SoundMemory(local[v], pc[v])
    BY DEF RebInv, SplitsMakeAWhole
<1> QED BY <1>1, <1>2, <1>3, OthersKept

LEMMA EndKeepsInv ==
    ASSUME RebInv, NEW w \in Workers, NEW how, End(w, how), UNCHANGED vars
    PROVE  RebInv'
<1>1. TypeOK' /\ UNCHANGED vault
    BY NextTypeOK DEF RebInv, vars
<1> QED BY <1>1, EndKeepsMemory DEF RebInv, SplitsMakeAWhole

\* Books whose split makes a whole make the vault's allocations a whole.
LEMMA WriteBooksKeepsInv ==
    ASSUME RebInv, NEW w \in Workers, NEW here, NEW how,
           NEW args \in SyncVaultStateArgs, WriteBooks(w, here, args, how),
           args.new_jup_allocation + args.new_kamino_allocation = AllocationScale
    PROVE  RebInv'
<1>1. SyncVaultState(Operator, args) /\ End(w, how)
    BY DEF WriteBooks
<1>2. TypeOK'
    BY <1>1, SyncVaultStateTypeOK, RebalancerAssumption DEF RebInv
<1>3. \A a \in Admins : MakesAWhole(vault'[a])
    <2>1. /\ vault'[Operator].jup_allocation = args.new_jup_allocation
          /\ vault'[Operator].kamino_allocation = args.new_kamino_allocation
        <3>1. Operator \in Admins /\ vault \in [Admins -> Vault]
            BY RebalancerAssumption DEF RebInv, TypeOK
        <3>2. vault[Operator] \in Vault
            BY <3>1
        <3> QED BY <1>1, <3>1, <3>2 DEF SyncVaultState, Vault
    <2>2. \A a \in Admins \ {Operator} : vault'[a] = vault[a]
        BY <1>1 DEF SyncVaultState, RebInv, TypeOK
    <2> QED BY <2>1, <2>2 DEF MakesAWhole, RebInv, SplitsMakeAWhole
<1> QED BY <1>1, <1>2, <1>3, EndKeepsMemory DEF RebInv, SplitsMakeAWhole

-----------------------------------------------------------------------------
(* The awaits of an invocation, branch by branch.                          *)

\* What the memory of a worker is made of.
LEMMA MemoryParts ==
    ASSUME RebInv, NEW w \in Workers
    PROVE  /\ local[w] \in Locals /\ MakesAWhole(local[w].seen)
           /\ JupPart(w) \in Nat /\ KaminoPart(w) \in Nat
           /\ JupCallAmount(JupPart(w)) \in Nat
           /\ Operator \in Admins /\ vault[Operator] \in Vault
           /\ MakesAWhole(vault[Operator])
           /\ idle[Operator] \in U64
           /\ tokens["jup"][Operator] \in U64 /\ tokens["kamino"][Operator] \in U64
<1>1. local[w] \in Locals /\ MakesAWhole(local[w].seen)
    BY DEF RebInv, BotTypeOK, SplitsMakeAWhole, SoundMemory
<1>2. /\ local[w].usdc \in Nat /\ local[w].jupAllocation \in Nat
      /\ local[w].kaminoAllocation \in Nat
    <2>1. /\ local[w].usdc \in U64 /\ local[w].jupAllocation \in U16
          /\ local[w].kaminoAllocation \in U16
        BY <1>1 DEF Locals
    <2> QED BY <2>1, U64IsNat, U16IsNat
<1>3. JupPart(w) \in Nat /\ KaminoPart(w) \in Nat
    BY <1>2, AllocatedIsNat DEF JupPart, KaminoPart
<1>4. JupCallAmount(JupPart(w)) \in Nat
    BY <1>3, RebalancerAssumption, U64IsNat DEF JupCallAmount, Abs
<1>5. /\ Operator \in Admins /\ vault[Operator] \in Vault
      /\ MakesAWhole(vault[Operator]) /\ idle[Operator] \in U64
      /\ tokens["jup"][Operator] \in U64 /\ tokens["kamino"][Operator] \in U64
    BY RebalancerAssumption DEF RebInv, TypeOK, SplitsMakeAWhole, Markets
<1> QED BY <1>1, <1>3, <1>4, <1>5

\* A worker at an await where it allocates has chosen a whole split.
LEMMA ChosenSplit ==
    ASSUME RebInv, NEW w \in Workers, pc[w] \in Allocating
    PROVE  /\ local[w].jupAllocation + local[w].kaminoAllocation = AllocationScale
           /\ JupPart(w) \in U64 /\ KaminoPart(w) \in U64
<1>1. local[w].jupAllocation + local[w].kaminoAllocation = AllocationScale
    BY DEF RebInv, SplitsMakeAWhole, SoundMemory
<1>2. /\ local[w].usdc \in U64 /\ local[w].jupAllocation \in Nat
      /\ local[w].kaminoAllocation \in Nat
    <2>1. /\ local[w].usdc \in U64 /\ local[w].jupAllocation \in U16
          /\ local[w].kaminoAllocation \in U16
        BY MemoryParts DEF Locals
    <2> QED BY <2>1, U16IsNat
<1>3. /\ local[w].jupAllocation <= AllocationScale
      /\ local[w].kaminoAllocation <= AllocationScale
    BY <1>1, <1>2 DEF AllocationScale
<1> QED BY <1>1, <1>2, <1>3, AllocatedFits DEF JupPart, KaminoPart

\* An await that reads an amount, without a change of branch.
LEMMA AmountReadKeepsInv ==
    ASSUME RebInv, NEW w \in Workers, NEW here, NEW next \in Awaits, NEW n \in U64,
           next \in Allocating => here \in Allocating,
           \/ Read(w, here, next, [local[w] EXCEPT !.usdc = n])
           \/ Read(w, here, next, [local[w] EXCEPT !.jup = n])
           \/ Read(w, here, next, [local[w] EXCEPT !.kamino = n])
           \/ Read(w, here, next, local[w])
    PROVE  RebInv'
<1>1. PICK l \in { [local[w] EXCEPT !.usdc = n], [local[w] EXCEPT !.jup = n],
                   [local[w] EXCEPT !.kamino = n], local[w] } :
          Read(w, here, next, l)
    OBVIOUS
<1>2. local[w] \in Locals /\ MakesAWhole(local[w].seen)
    BY MemoryParts
<1>3. pc[w] = here
    BY <1>1 DEF Read, Await
<1>4. next \in Allocating =>
          local[w].jupAllocation + local[w].kaminoAllocation = AllocationScale
    BY <1>3, ChosenSplit
<1>5. /\ l \in Locals /\ l.seen = local[w].seen
      /\ l.jupAllocation = local[w].jupAllocation
      /\ l.kaminoAllocation = local[w].kaminoAllocation
    BY <1>1, <1>2 DEF Locals
<1>6. SoundMemory(l, next)
    BY <1>2, <1>4, <1>5 DEF SoundMemory
<1> QED BY <1>1, <1>5, <1>6, ReadKeepsInv

LEMMA StartKeepsInv ==
    ASSUME RebInv, NEW w \in Workers, Start(w)
    PROVE  RebInv'
<1> DEFINE l == [local[w] EXCEPT !.seen = vault[Operator]]
<1>1. l \in Locals /\ SoundMemory(l, "read_usdc") /\ "read_usdc" \in Awaits
    BY MemoryParts DEF Locals, SoundMemory, Allocating, Awaits
<1>2. /\ pc' = [pc EXCEPT ![w] = "read_usdc"] /\ local' = [local EXCEPT ![w] = l]
      /\ UNCHANGED vars
    BY DEF Start, RebInv, BotTypeOK
<1> HIDE DEF l
<1>3. BotTypeOK' /\ \A v \in Workers : SoundMemory(local'[v], pc'[v])
    BY <1>1, <1>2, OthersKept DEF RebInv, SplitsMakeAWhole
<1>4. TypeOK' /\ UNCHANGED vault
    BY <1>2, NextTypeOK DEF RebInv, vars
<1> QED BY <1>3, <1>4 DEF RebInv, SplitsMakeAWhole

\* The awaits that only read an amount.
LEMMA ReadingKeepsInv ==
    ASSUME RebInv, NEW w \in Workers,
           \/ ReadUsdc(w) \/ ReadJup(w) \/ RereadJup(w) \/ RereadKamino(w)
           \/ RebReadJup(w) \/ RebReadKamino(w) \/ RebReadTotal(w)
    PROVE  RebInv'
<1>1. /\ idle[Operator] \in U64
      /\ tokens["jup"][Operator] \in U64 /\ tokens["kamino"][Operator] \in U64
    BY MemoryParts
<1>2. CASE ReadUsdc(w)
    <2>1. /\ "read_jup" \in Awaits
          /\ "read_jup" \in Allocating => "read_usdc" \in Allocating
        BY DEF Allocating, Awaits
    <2> QED BY <1>1, <1>2, <2>1, AmountReadKeepsInv DEF ReadUsdc
<1>3. CASE ReadJup(w)
    <2>1. /\ "read_kamino" \in Awaits
          /\ "read_kamino" \in Allocating => "read_jup" \in Allocating
        BY DEF Allocating, Awaits
    <2> QED BY <1>1, <1>3, <2>1, AmountReadKeepsInv DEF ReadJup
<1>4. CASE RereadJup(w)
    <2>1. /\ "reread_kamino" \in Awaits
          /\ "reread_kamino" \in Allocating => "reread_jup" \in Allocating
        BY DEF Allocating, Awaits
    <2> QED BY <1>1, <1>4, <2>1, AmountReadKeepsInv DEF RereadJup
<1>5. CASE RereadKamino(w)
    <2>1. /\ "value_jup" \in Awaits
          /\ "value_jup" \in Allocating => "reread_kamino" \in Allocating
        BY DEF Allocating, Awaits
    <2> QED BY <1>1, <1>5, <2>1, AmountReadKeepsInv DEF RereadKamino
<1>6. CASE RebReadJup(w)
    <2>1. /\ "reb_read_kamino" \in Awaits
          /\ "reb_read_kamino" \in Allocating => "reb_read_jup" \in Allocating
        BY DEF Allocating, Awaits
    <2> QED BY <1>1, <1>6, <2>1, AmountReadKeepsInv DEF RebReadJup
<1>7. CASE RebReadKamino(w)
    <2>1. /\ "reb_jup_withdraw" \in Awaits
          /\ "reb_jup_withdraw" \in Allocating => "reb_read_kamino" \in Allocating
        BY DEF Allocating, Awaits
    <2> QED BY <1>1, <1>7, <2>1, AmountReadKeepsInv DEF RebReadKamino
<1>8. CASE RebReadTotal(w)
    <2>1. /\ "reb_jup_deposit" \in Awaits
          /\ "reb_jup_deposit" \in Allocating => "reb_read_total" \in Allocating
        BY DEF Allocating, Awaits
    <2> QED BY <1>1, <1>8, <2>1, AmountReadKeepsInv DEF RebReadTotal
<1> QED BY <1>2, <1>3, <1>4, <1>5, <1>6, <1>7, <1>8

\* The awaits that choose what the invocation does.
LEMMA ReadKaminoKeepsInv ==
    ASSUME RebInv, NEW w \in Workers, ReadKamino(w)
    PROVE  RebInv'
<1> DEFINE half == 5000
           halves == [local[w] EXCEPT !.jupAllocation = half, !.kaminoAllocation = half]
<1>1. CASE Read(w, "read_kamino", "first_jup", halves)
    <2>1. half \in U16 /\ half + half = AllocationScale
        BY WholeSplitFits DEF AllocationScale
    <2>2. "first_jup" \in Awaits
        BY DEF Allocating, Awaits
    <2> HIDE DEF half
    <2>3. local[w] \in Locals /\ MakesAWhole(local[w].seen)
        BY MemoryParts
    <2>4. /\ halves \in Locals /\ halves.seen = local[w].seen
          /\ halves.jupAllocation = half /\ halves.kaminoAllocation = half
        BY <2>1, <2>3 DEF Locals
    <2> HIDE DEF halves
    <2>5. SoundMemory(halves, "first_jup")
        BY <2>1, <2>3, <2>4 DEF SoundMemory
    <2> QED BY <1>1, <2>2, <2>4, <2>5, ReadKeepsInv
<1>2. CASE Read(w, "read_kamino", "reread_jup", local[w])
    <2>1. "reread_jup" \in Awaits /\ "reread_jup" \notin Allocating
        BY DEF Allocating, Awaits
    <2>2. 0 \in U64
        BY U64MaxAssumption DEF U64
    <2> QED BY <1>2, <2>1, <2>2, AmountReadKeepsInv
<1> QED BY <1>1, <1>2 DEF ReadKamino

\* Quotients of bn.js are integers.
LEMMA BnDivIsInt ==
    ASSUME NEW x \in Int, NEW y \in Nat \ {0}
    PROVE  BnDiv(x, y) \in Int
<1>1. Abs(x) \in Nat /\ Abs(y) = y
    BY DEF Abs
<1>2. Abs(x) \div y \in Nat
    BY <1>1, DivisionRoundsDown
<1> QED BY <1>1, <1>2 DEF BnDiv

LEMMA GrowthIsInt ==
    ASSUME NEW x \in Nat, NEW last \in Nat, ~ GrowthUndefined(x, last)
    PROVE  Growth(x, last) \in Int
<1>1. CASE x = last
    BY <1>1 DEF Growth
<1>2. CASE x # last
    <2>1. last \in Nat \ {0} /\ (x - last) * 10000 \in Int
        BY <1>2 DEF GrowthUndefined
    <2> QED BY <1>2, <2>1, BnDivIsInt DEF Growth
<1> QED BY <1>1, <1>2

LEMMA ValuesAreNat ==
    ASSUME RebInv, NEW w \in Workers
    PROVE  /\ JupValue(local[w].jup) \in Nat /\ KaminoValue(w) \in Nat
           /\ local[w].oldJup \in Nat
           /\ local[w].seen.last_jup_value \in Nat
           /\ local[w].seen.last_kamino_value \in Nat
<1>1. /\ local[w].jup \in Nat /\ local[w].kamino \in Nat /\ local[w].oldJup \in Nat
      /\ local[w].seen.last_jup_value \in Nat /\ local[w].seen.last_kamino_value \in Nat
    BY MemoryParts, U64IsNat DEF Locals, Vault
<1>2. TokenUnit \in Nat \ {0} /\ price["jup"] \in Nat
    BY VaultConstantsAssumption, U64IsNat DEF RebInv, TypeOK, Markets
<1>3. JupExchangeRate \in Nat
    BY <1>2, DivisionRoundsDown DEF JupExchangeRate
<1>4. local[w].jup * JupExchangeRate \in Nat
    BY <1>1, <1>3, ProductOfNaturals
<1>5. JupValue(local[w].jup) \in Nat
    BY <1>2, <1>4, DivisionRoundsDown DEF JupValue
<1>6. KaminoValue(w) \in Nat
    BY <1>1, MarketAmounts DEF KaminoValue, RebInv, Markets
<1> QED BY <1>1, <1>5, <1>6

LEMMA ValueJupKeepsInv ==
    ASSUME RebInv, NEW w \in Workers, ValueJup(w)
    PROVE  RebInv'
<1> DEFINE l == [local[w] EXCEPT !.oldJup = JupValue(local[w].jup)]
<1>1. l \in Locals /\ SoundMemory(l, "value_kamino") /\ "value_kamino" \in Awaits
    BY MemoryParts, ValuesAreNat DEF Locals, SoundMemory, Allocating, Awaits
<1>2. Read(w, "value_jup", "value_kamino", l)
    BY DEF ValueJup
<1> HIDE DEF l
<1> QED BY <1>1, <1>2, ReadKeepsInv

\* What the policy chooses makes a whole and fits the fields of the books.
LEMMA DecisionMakesAWhole ==
    ASSUME RebInv, NEW w \in Workers, ~ CannotMeasure(w), pc[w] = "value_kamino",
           Decision(w).needsRebalance
    PROVE  /\ Decision(w).JUP \in U16 /\ Decision(w).KAMINO \in U16
           /\ Decision(w).JUP + Decision(w).KAMINO = AllocationScale
<1> DEFINE x == Growth(local[w].oldJup, local[w].seen.last_jup_value)
           y == Growth(KaminoValue(w), local[w].seen.last_kamino_value)
<1>1. x \in Int /\ y \in Int
    BY ValuesAreNat, GrowthIsInt DEF CannotMeasure
<1>2. Decision(w) = getThresholdAmount(x, y)
    BY DEF Decision
<1> HIDE DEF x, y
<1>3. /\ Decision(w).JUP + Decision(w).KAMINO = Whole
      /\ Decision(w).JUP \in Nat /\ Decision(w).KAMINO \in Nat
    BY <1>1, <1>2, DecisionFavoursTheBetter
<1> QED BY <1>3, WholeSplitFits DEF Whole, AllocationScale

LEMMA DecideKeepsInv ==
    ASSUME RebInv, NEW w \in Workers, Decide(w)
    PROVE  RebInv'
<1> DEFINE l == [local[w] EXCEPT !.oldKamino = KaminoValue(w),
                                 !.jupAllocation = Decision(w).JUP,
                                 !.kaminoAllocation = Decision(w).KAMINO]
<1>1. pc[w] = "value_kamino" /\ ~ CannotMeasure(w)
    BY DEF Decide
<1>2. CASE Decision(w).needsRebalance
    <2>1. Read(w, "value_kamino", "reb_read_jup", l)
        BY <1>2 DEF Decide
    <2>2. /\ Decision(w).JUP \in U16 /\ Decision(w).KAMINO \in U16
          /\ Decision(w).JUP + Decision(w).KAMINO = AllocationScale
        BY <1>1, <1>2, DecisionMakesAWhole
    <2>3. l \in Locals /\ SoundMemory(l, "reb_read_jup") /\ "reb_read_jup" \in Awaits
        BY <2>2, MemoryParts, ValuesAreNat DEF Locals, SoundMemory, Allocating, Awaits
    <2> HIDE DEF l
    <2> QED BY <2>1, <2>3, ReadKeepsInv
<1>3. CASE ~ Decision(w).needsRebalance
    <2>1. Read(w, "value_kamino", "lazy_fetch", NoLocals)
        BY <1>3 DEF Decide
    <2>2. /\ "lazy_fetch" \in Awaits /\ NoLocals \in Locals
          /\ SoundMemory(NoLocals, "lazy_fetch")
        BY NoLocalsAreSound DEF Allocating, Awaits
    <2> QED BY <2>1, <2>2, ReadKeepsInv
<1> QED BY <1>2, <1>3

\* Lazy balancing starts from the vault as it finds it.
LEMMA LazyFetchKeepsInv ==
    ASSUME RebInv, NEW w \in Workers, LazyFetch(w)
    PROVE  RebInv'
<1> DEFINE l == [local[w] EXCEPT !.seen = vault[Operator],
                                 !.jupAllocation = vault[Operator].jup_allocation,
                                 !.kaminoAllocation = vault[Operator].kamino_allocation]
<1>1. Read(w, "lazy_fetch", "lazy_read", l)
    BY DEF LazyFetch
<1>2. /\ vault[Operator].jup_allocation \in U16 /\ vault[Operator].kamino_allocation \in U16
      /\ vault[Operator].jup_allocation + vault[Operator].kamino_allocation
           = AllocationScale
    BY MemoryParts DEF Vault, MakesAWhole
<1>3. l \in Locals /\ SoundMemory(l, "lazy_read") /\ "lazy_read" \in Awaits
    BY <1>2, MemoryParts DEF Locals, SoundMemory, Allocating, Awaits
<1> HIDE DEF l
<1> QED BY <1>1, <1>3, ReadKeepsInv

-----------------------------------------------------------------------------
(* The awaits that change the chain.                                       *)

\* A lending instruction of any branch.
LEMMA LendingKeepsInv ==
    ASSUME RebInv, NEW w \in Workers, NEW here \in Allocating, NEW next \in Awaits,
           Transact(w, here, next),
           \/ JupDeposit(Operator, JupCallAmount(JupPart(w)))
           \/ KaminoDeposit(Operator, KaminoPart(w))
           \/ JupWithdraw(Operator, local[w].jup)
           \/ KaminoWithdraw(Operator, local[w].kamino)
    PROVE  RebInv'
<1>1. /\ JupCallAmount(JupPart(w)) \in Nat /\ KaminoPart(w) \in Nat
      /\ local[w].jup \in Nat /\ local[w].kamino \in Nat
    BY MemoryParts, U64IsNat DEF Locals
<1> QED BY <1>1, TransactKeepsInv

\* An await of lazy balancing that sends nothing, as its share is nothing.
LEMMA SkippingKeepsInv ==
    ASSUME RebInv, NEW w \in Workers, NEW here \in Allocating, NEW next \in Awaits,
           Read(w, here, next, local[w])
    PROVE  RebInv'
<1>1. 0 \in U64
    BY U64MaxAssumption DEF U64
<1> QED BY <1>1, AmountReadKeepsInv

LEMMA CallsKeepInv ==
    ASSUME RebInv, NEW w \in Workers,
           \/ FirstJup(w) \/ FirstKamino(w)
           \/ RebJupWithdraw(w) \/ RebKaminoWithdraw(w)
           \/ RebJupDeposit(w) \/ RebKaminoDeposit(w)
           \/ LazyJup(w) \/ LazyKamino(w)
    PROVE  RebInv'
<1>1. /\ Allocating \subseteq Awaits
      /\ {"first_jup", "first_kamino", "first_sync", "reb_jup_withdraw",
          "reb_kamino_withdraw", "reb_read_total", "reb_jup_deposit",
          "reb_kamino_deposit", "reb_sync", "lazy_jup", "lazy_kamino",
          "lazy_sync"} \subseteq Allocating
    BY DEF Allocating, Awaits
<1>2. CASE FirstJup(w)
    BY <1>1, <1>2, LendingKeepsInv DEF FirstJup
<1>3. CASE FirstKamino(w)
    BY <1>1, <1>3, LendingKeepsInv DEF FirstKamino
<1>4. CASE RebJupWithdraw(w)
    BY <1>1, <1>4, LendingKeepsInv DEF RebJupWithdraw
<1>5. CASE RebKaminoWithdraw(w)
    BY <1>1, <1>5, LendingKeepsInv DEF RebKaminoWithdraw
<1>6. CASE RebJupDeposit(w)
    BY <1>1, <1>6, LendingKeepsInv DEF RebJupDeposit
<1>7. CASE RebKaminoDeposit(w)
    BY <1>1, <1>7, LendingKeepsInv DEF RebKaminoDeposit
<1>8. CASE LazyJup(w)
    BY <1>1, <1>8, LendingKeepsInv, SkippingKeepsInv DEF LazyJup
<1>9. CASE LazyKamino(w)
    BY <1>1, <1>9, LendingKeepsInv, SkippingKeepsInv DEF LazyKamino
<1> QED BY <1>2, <1>3, <1>4, <1>5, <1>6, <1>7, <1>8, <1>9

\* The three syncs write the split the worker holds.
LEMMA SyncsKeepInv ==
    ASSUME RebInv, NEW w \in Workers, FirstSync(w) \/ RebSync(w) \/ LazySync(w)
    PROVE  RebInv'
<1>1. pc[w] \in Allocating
    BY DEF FirstSync, RebSync, LazySync, WriteBooks, Allocating
<1>2. /\ local[w].jupAllocation + local[w].kaminoAllocation = AllocationScale
      /\ JupPart(w) \in U64 /\ KaminoPart(w) \in U64
    BY <1>1, ChosenSplit
<1>3. /\ local[w].jupAllocation \in U16 /\ local[w].kaminoAllocation \in U16
      /\ local[w].usdc \in U64 /\ local[w].seen.acc_per_share \in U64
    BY MemoryParts DEF Locals, Vault
<1>4. CASE FirstSync(w)
    <2>1. 0 \in U64
        BY U64MaxAssumption DEF U64
    <2>2. /\ FirstArgs(w) \in SyncVaultStateArgs
          /\ FirstArgs(w).new_jup_allocation = local[w].jupAllocation
          /\ FirstArgs(w).new_kamino_allocation = local[w].kaminoAllocation
        BY <1>2, <1>3, <2>1 DEF FirstArgs, Books, SyncVaultStateArgs
    <2> QED BY <1>2, <1>4, <2>2, WriteBooksKeepsInv DEF FirstSync
<1>5. CASE RebSync(w)
    <2>1. Encodable(RebalanceArgs(w))
        BY <1>5 DEF RebSync
    <2>2. /\ RebalanceArgs(w) \in SyncVaultStateArgs
          /\ RebalanceArgs(w).new_jup_allocation = local[w].jupAllocation
          /\ RebalanceArgs(w).new_kamino_allocation = local[w].kaminoAllocation
        BY <1>2, <1>3, <2>1 DEF RebalanceArgs, Books, SyncVaultStateArgs, Encodable
    <2> QED BY <1>2, <1>5, <2>2, WriteBooksKeepsInv DEF RebSync
<1>6. CASE LazySync(w)
    <2>1. Encodable(LazyArgs(w))
        BY <1>6 DEF LazySync
    <2>2. /\ LazyArgs(w) \in SyncVaultStateArgs
          /\ LazyArgs(w).new_jup_allocation = local[w].jupAllocation
          /\ LazyArgs(w).new_kamino_allocation = local[w].kaminoAllocation
        BY <1>2, <1>3, <2>1 DEF LazyArgs, Books, SyncVaultStateArgs, Encodable
    <2> QED BY <1>2, <1>6, <2>2, WriteBooksKeepsInv DEF LazySync
<1> QED BY <1>4, <1>5, <1>6

\* Returning early, throwing and being cut short.
LEMMA EndingsKeepInv ==
    ASSUME RebInv, NEW w \in Workers, LazyRead(w) \/ Throw(w) \/ Interrupt(w)
    PROVE  RebInv'
<1>1. CASE \E how : End(w, how) /\ UNCHANGED vars
    BY <1>1, EndKeepsInv
<1>2. CASE Read(w, "lazy_read", "lazy_jup", [local[w] EXCEPT !.usdc = idle[Operator]])
    <2>1. /\ "lazy_read" \in Allocating /\ "lazy_jup" \in Awaits
          /\ idle[Operator] \in U64
        BY MemoryParts DEF Allocating, Awaits
    <2> QED BY <1>2, <2>1, AmountReadKeepsInv
<1> QED BY <1>1, <1>2 DEF LazyRead, Throw, Interrupt

-----------------------------------------------------------------------------
(* Users, interest and the opening of the vault.                           *)

\* Deposits and withdrawals write no allocation.
LEMMA EnvironmentKeepsInv ==
    ASSUME RebInv, OpenVault \/ UserStep \/ MarketStep
    PROVE  RebInv'
<1>1. Operator \in Admins
    BY RebalancerAssumption
<1>2. UNCHANGED <<pc, local>>
    BY DEF OpenVault, UserStep, MarketStep, bot
<1>3. TypeOK'
    <2>1. Next
        BY <1>1 DEF OpenVault, UserStep, MarketStep, Next, UserNext, AdminNext
    <2> QED BY <2>1, NextTypeOK DEF RebInv
<1>4. \A a \in Admins : MakesAWhole(vault'[a])
    <2>1. vault \in [Admins -> Vault] /\ \A a \in Admins : MakesAWhole(vault[a])
        BY DEF RebInv, TypeOK, SplitsMakeAWhole
    <2>2. CASE OpenVault
        BY <2>1, <2>2, NewVaultIsWhole DEF OpenVault, InitializeVault
    <2>3. ASSUME NEW u \in Users, NEW x \in Amounts, Deposit(u, Operator, x)
          PROVE  \A a \in Admins : MakesAWhole(vault'[a])
        BY <1>1, <2>1, <2>3 DEF Deposit, MakesAWhole, Vault
    <2>4. ASSUME NEW u \in Users, NEW x \in Amounts, Withdraw(u, Operator, x)
          PROVE  \A a \in Admins : MakesAWhole(vault'[a])
        <3>1. vault' = [vault EXCEPT ![Operator] = AfterWithdraw(@, x)]
            BY <2>4 DEF Withdraw
        <3>2. /\ AfterWithdraw(vault[Operator], x).jup_allocation
                   = vault[Operator].jup_allocation
              /\ AfterWithdraw(vault[Operator], x).kamino_allocation
                   = vault[Operator].kamino_allocation
            BY <1>1, <2>1 DEF AfterWithdraw, Vault
        <3> QED BY <1>1, <2>1, <3>1, <3>2 DEF MakesAWhole
    <2>5. CASE MarketStep
        BY <2>1, <2>5 DEF MarketStep, MarketNext, Accrue, accounts
    <2> QED BY <2>2, <2>3, <2>4, <2>5 DEF UserStep
<1> QED BY <1>2, <1>3, <1>4 DEF RebInv, BotTypeOK, SplitsMakeAWhole

LEMMA RebNextKeepsInv ==
    ASSUME RebInv, [RebNext]_rebVars
    PROVE  RebInv'
<1>1. ASSUME NEW w \in Workers, Invocation(w)
      PROVE  RebInv'
    BY <1>1, ReadingKeepsInv, ReadKaminoKeepsInv, ValueJupKeepsInv, DecideKeepsInv,
       LazyFetchKeepsInv, CallsKeepInv, SyncsKeepInv, EndingsKeepInv DEF Invocation
<1>2. ASSUME NEW w \in Workers, Start(w) \/ Interrupt(w)
      PROVE  RebInv'
    BY <1>2, StartKeepsInv, EndingsKeepInv
<1>3. CASE UNCHANGED rebVars
    <2>1. UNCHANGED <<vars, pc, local>>
        BY <1>3 DEF rebVars, bot
    <2>2. TypeOK' /\ UNCHANGED vault
        BY <2>1, NextTypeOK DEF RebInv, vars
    <2> QED BY <2>1, <2>2 DEF RebInv, BotTypeOK, SplitsMakeAWhole
<1> QED BY <1>1, <1>2, <1>3, EnvironmentKeepsInv DEF RebNext, WorkerStep

LEMMA RebInitInv == RebInit => RebInv
<1> SUFFICES ASSUME RebInit PROVE RebInv
    OBVIOUS
<1>1. TypeOK /\ \A a \in Admins : MakesAWhole(vault[a])
    BY InitTypeOK, NewVaultIsWhole DEF RebInit, Init
<1>2. "idle" \in Awaits /\ "idle" \notin Allocating
    BY DEF Awaits, Allocating
<1>3. BotTypeOK /\ \A w \in Workers : SoundMemory(local[w], pc[w])
    BY <1>2, NoLocalsAreSound DEF RebInit, BotTypeOK
<1> QED BY <1>1, <1>3 DEF RebInv, SplitsMakeAWhole

(***************************************************************************)
(* The inductive invariant of the bot.  Whatever invocations do, and       *)
(* wherever they are cut short, every account stays in the width the       *)
(* program stores it in, the workers' variables stay in their ranges, and  *)
(* each split a worker remembers across an await, like each recorded one,  *)
(* makes a whole.                                                          *)
(***************************************************************************)
THEOREM RebalancedAccountsFit == RebSpec => []RebInv
BY RebInitInv, RebNextKeepsInv, PTL DEF RebSpec

(***************************************************************************)
(* The two target allocations always make a whole, however many workers    *)
(* overlap, wherever they are cut short and whatever chart they follow.    *)
(***************************************************************************)
THEOREM BooksHoldAWholeSplit == RebSpec => []AllocationsMakeAWhole
<1>1. RebInv => AllocationsMakeAWhole
    BY DEF RebInv, SplitsMakeAWhole, AllocationsMakeAWhole, MakesAWhole
<1> QED BY <1>1, RebalancedAccountsFit, PTL
=============================================================================
