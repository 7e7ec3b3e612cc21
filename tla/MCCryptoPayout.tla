----------------------------- MODULE MCCryptoPayout ---------------------------
(***************************************************************************)
(* CryptoPayout for TLC: three payouts at once.                            *)
(***************************************************************************)
EXTENDS CryptoPayout, TLC

CONSTANTS c1, c2, c3

CallSymmetry == Permutations(Call)
=============================================================================
