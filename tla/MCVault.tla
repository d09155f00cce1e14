------------------------------- MODULE MCVault -------------------------------
(***************************************************************************)
(* Small instances of the on-chain program.  U64Max is small enough for    *)
(* the overflow checks and the truncating casts to be reached.             *)
(***************************************************************************)
EXTENDS VaultAudit

\* Two sets of books an admin may write: some yield recorded, and skewed
\* allocations with nearly all underlying gone.
MCSyncArgs ==
    { [new_jup_allocation |-> 5000, new_kamino_allocation |-> 5000,
       new_jup_lend_balance |-> 2, new_kamino_balance |-> 2,
       new_acc_per_share |-> 3, new_total_underlying |-> 6,
       new_jup_value |-> 2, new_kamino_value |-> 2],
      [new_jup_allocation |-> 8000, new_kamino_allocation |-> 2000,
       new_jup_lend_balance |-> 0, new_kamino_balance |-> 0,
       new_acc_per_share |-> 0, new_total_underlying |-> 1,
       new_jup_value |-> 0, new_kamino_value |-> 0] }

NoSync == {}

\* The exchange rates a reading gives (TokenUnit = 2): 2, 4, and the two ways
\* for the division to fail.
MCReserveReadings ==
    { [available_amount |-> 2, mint_total_supply |-> 2],
      [available_amount |-> 4, mint_total_supply |-> 2],
      [available_amount |-> 0, mint_total_supply |-> 1],
      [available_amount |-> 1, mint_total_supply |-> 0] }
=============================================================================
