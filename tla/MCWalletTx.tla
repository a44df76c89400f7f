----------------------------- MODULE MCWalletTx ------------------------------
(***************************************************************************)
(* An instance of WalletTx for TLC: a receiver who is also the partner, an *)
(* owner, and two calls in flight on a pool with SOL, on a stable pool of  *)
(* two plain tokens or on a depleted pool.                                 *)
(***************************************************************************)
EXTENDS WalletTx

CONSTANTS Usdc, Usdt

MCKeyOrder == <<Native, Usdc, Usdt>>
MCDraws == {<<1, 2>>, <<2, 1>>}
MCPools == {[tokenA |-> Usdc, tokenB |-> Native, stable |-> FALSE, empty |-> FALSE],
            [tokenA |-> Usdc, tokenB |-> Usdt, stable |-> TRUE, empty |-> FALSE],
            [tokenA |-> Usdc, tokenB |-> Usdt, stable |-> FALSE, empty |-> TRUE]}
=============================================================================
