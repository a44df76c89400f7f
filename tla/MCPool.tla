------------------------------- MODULE MCPool --------------------------------
(***************************************************************************)
(* Instances of Pool for TLC.  The initial vaults have a share price that  *)
(* is not one and a profit that is still partly locked, and the fee rates  *)
(* are coarse, so that every rounding of the code happens with amounts of  *)
(* one digit.                                                              *)
(***************************************************************************)
EXTENDS Pool

\* 24 tokens of which 2 are locked, 15 shares; the pool holds 10 of them.
MCVault == [totalAmount |-> 24, lastProfit |-> 2, lastReport |-> 0,
            degradation |-> 1, supply |-> 15, reserve |-> 20]
=============================================================================
