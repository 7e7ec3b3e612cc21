------------------------------- MODULE MCRecords ------------------------------
(***************************************************************************)
(* Small instances of Records.                                             *)
(***************************************************************************)
EXTENDS Records, TLC

CONSTANTS u1, u2, s1, s2, p1, c1, c2, d1, d2, e1, e2, r1, r2, t1, t2, m1, m2,
          a1, a2

=============================================================================
