---------------------------- MODULE MCBuySettlement ----------------------------
(***************************************************************************)
(* Small instances of BuySettlement.                                       *)
(***************************************************************************)
EXTENDS BuySettlement, TLC

CONSTANTS c1, c2, c3, c4

\* No property tells calls apart.
CallSymmetry == Permutations(Call)

=============================================================================
