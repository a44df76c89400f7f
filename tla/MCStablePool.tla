---------------------------- MODULE MCStablePool -----------------------------
(***************************************************************************)
(* StablePool for TLC: the fees of the largest swap are here, the cfg      *)
(* gives the other constants their values.                                 *)
(***************************************************************************)
EXTENDS StablePool

\* A trade fee of which the protocol takes a fifth, a trade fee alone, and a protocol
\* rate alone, which getMaxSwapInAmount takes of the amount all the same.
MCSwapFees ==
    { [trade |-> <<1, 100>>, protocol |-> <<1, 5>>],
      [trade |-> <<1, 50>>,  protocol |-> <<0, 5>>],
      [trade |-> <<0, 50>>,  protocol |-> <<1, 50>>] }
=============================================================================
