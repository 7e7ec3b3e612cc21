----------------------------- MODULE MCStoreLedger ----------------------------
(***************************************************************************)
(* StoreLedger for TLC: three calls, alike except for the order they may   *)
(* confirm, and two transactions of one address.                           *)
(***************************************************************************)
EXTENDS StoreLedger, TLC

CONSTANTS c1, c2, c3

CallSymmetry == Permutations(Call \ WithoutTransfer)
=============================================================================
