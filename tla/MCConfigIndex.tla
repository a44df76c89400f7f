---------------------------- MODULE MCConfigIndex ----------------------------
(***************************************************************************)
(* Instances of ConfigIndex for TLC.                                       *)
(***************************************************************************)
EXTENDS ConfigIndex

\* Which call is which does not matter.
CallSymmetry == Permutations(Calls)
=============================================================================
