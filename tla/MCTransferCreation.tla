-------------------------- MODULE MCTransferCreation --------------------------
(***************************************************************************)
(* Small instances of TransferCreation.                                    *)
(***************************************************************************)
EXTENDS TransferCreation, TLC

CONSTANTS r1, r2, q1, q2, k1, k2, p1
=============================================================================
