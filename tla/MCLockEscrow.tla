---------------------------- MODULE MCLockEscrow -----------------------------
(***************************************************************************)
(* Instances of LockEscrow for TLC: two users, a fee ratio of 0, 1/2 or 1, *)
(* an odd amount, which the ratio does not divide, and three calls.        *)
(***************************************************************************)
EXTENDS LockEscrow, TLC

MCSymmetry == Permutations(Users)
=============================================================================
