----------------------------- MODULE MCRecovery -----------------------------
(***************************************************************************)
(* Two workers that overlap, are cut short, and meet withdrawals, from the *)
(* opening of the vault and from its first allocation.                     *)
(***************************************************************************)
EXTENDS Recovery, MCRebalancer

RecoveryFrom == (RebInit \/ AllocatedInit) /\ spoiled = FALSE

MCRecoverySpec == RecoveryFrom /\ [][RecoveryNext]_recoveryVars
=============================================================================
