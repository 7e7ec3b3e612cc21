--------------------------- MODULE MCSellSettlement ---------------------------
(***************************************************************************)
(* Small instances of SellSettlement.                                      *)
(***************************************************************************)
EXTENDS SellSettlement, TLC

CONSTANTS c1, c2, c3, c4

\* No property tells calls apart.
CallSymmetry == Permutations(Call)

=============================================================================
