--------------------------- MODULE MCPoolCreation ----------------------------
(***************************************************************************)
(* Instances of PoolCreation for TLC: two creators, a pair in both orders, *)
(* an odd amount of LP that the fee wrapper's ratio does not divide.       *)
(***************************************************************************)
EXTENDS PoolCreation

CONSTANT Usdc

MCKeyOrder == <<Native, Usdc, Memecoin>>
MCPairs    == {<<Usdc, Native>>, <<Native, Usdc>>, <<Memecoin, Native>>}
CreatorSymmetry == Permutations(Creators)
=============================================================================
