----------------------------- MODULE MCBatchLoad -----------------------------
(***************************************************************************)
(* Instances of BatchLoad for TLC: three pools that share vaults, a list   *)
(* with a pool twice and one with an address that is no pool.              *)
(***************************************************************************)
EXTENDS BatchLoad, TLC

CONSTANTS Sol, Usdc, Usdt, P1, P2, P3

MCPoolData == P1 :> [tokenAMint |-> Usdc, tokenBMint |-> Sol]
              @@ P2 :> [tokenAMint |-> Sol, tokenBMint |-> Usdc]
              @@ P3 :> [tokenAMint |-> Usdt, tokenBMint |-> Usdc]
MCLists    == {<<P1, Unknown, P2>>, <<P3, P2, P3>>, <<P2>>}
=============================================================================
