------------------------------ MODULE MCTsQuote ------------------------------
(***************************************************************************)
(* Instances of TsQuote for TLC, on the vaults of MCPool.                  *)
(***************************************************************************)
EXTENDS TsQuote

MCVault == [totalAmount |-> 24, lastProfit |-> 2, lastReport |-> 0,
            degradation |-> 1, supply |-> 15, reserve |-> 20]
=============================================================================
