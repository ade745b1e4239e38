---------------------------- MODULE MCBalanceRpc ----------------------------
(***************************************************************************)
(* An instance of BalanceRpc for TLC.                                      *)
(***************************************************************************)
EXTENDS BalanceRpc

CONSTANT a1
=============================================================================
