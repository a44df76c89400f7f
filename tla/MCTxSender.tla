----------------------------- MODULE MCTxSender ------------------------------
(***************************************************************************)
(* Instances of TxSender for TLC.                                          *)
(***************************************************************************)
EXTENDS TxSender
=============================================================================
