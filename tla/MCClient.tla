------------------------------ MODULE MCClient ------------------------------
(***************************************************************************)
(* A small instance of the client's withdrawal next to one worker.         *)
(***************************************************************************)
EXTENDS ClientWithdraw, MCRebalancer

\* From the beginning, and from the state after a first-time allocation.
MCClientSpec ==
    /\ RebInit \/ AllocatedInit
    /\ step = "none" /\ outcome = "none" /\ requests = 0
    /\ call = NoCall
    /\ meddled = {}
    /\ moves = (IF opened = {} THEN 0 ELSE 2) /\ overstated = FALSE
    /\ [][ClientNext]_clientVars
=============================================================================
