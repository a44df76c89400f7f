----------------------------- MODULE MCAmmClient -----------------------------
(***************************************************************************)
(* Instances of AmmClient for TLC: a cache that lives one time unit, and a *)
(* chain that lives long enough to outlast it between two updates.         *)
(***************************************************************************)
EXTENDS AmmClient

\* Both vaults are refreshed alike: one is enough where two updates overlap.
MCOneVault == {"A"}
=============================================================================
