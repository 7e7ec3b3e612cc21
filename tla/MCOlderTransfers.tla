--------------------------- MODULE MCOlderTransfers ---------------------------
(***************************************************************************)
(* Small instances of OlderTransfers.                                      *)
(***************************************************************************)
EXTENDS OlderTransfers, TLC

CONSTANTS c1, c2, c3, e0, qIn, qOut, k1

\* No property tells calls apart.
CallSymmetry == Permutations(Call)

=============================================================================
