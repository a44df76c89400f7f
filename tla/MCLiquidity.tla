----------------------------- MODULE MCLiquidity -----------------------------
(***************************************************************************)
(* Instances of LiquidityQuote for TLC, on larger vaults:                  *)
(* two-digit amounts leave the stable curve room to converge.              *)
(***************************************************************************)
EXTENDS LiquidityQuote

MCVault == [totalAmount |-> 240, lastProfit |-> 20, lastReport |-> 0,
            degradation |-> 1, supply |-> 150, reserve |-> 200]
=============================================================================
