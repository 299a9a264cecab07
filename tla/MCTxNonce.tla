------------------------------ MODULE MCTxNonce -------------------------------
(***************************************************************************)
(* Instances of TxNonce for TLC.                                           *)
(***************************************************************************)
EXTENDS TxNonce, TLC

Symmetry == Permutations(Request)
===============================================================================
