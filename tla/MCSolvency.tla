----------------------------- MODULE MCSolvency -----------------------------
(* A small instance of VaultSolvency, with the audit of the shares.        *)
EXTENDS VaultSolvency, VaultAudit

NoSync == {}

\* Exchange rates of 2 and 4 (TokenUnit = 2): one near the market's price,
\* one twice as high.
MCReserveReadings ==
    { [available_amount |-> 2, mint_total_supply |-> 2],
      [available_amount |-> 4, mint_total_supply |-> 2] }
=============================================================================
